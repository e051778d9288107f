--------------------------- MODULE MCRunExecutor ---------------------------
(*****************************************************************************)
(* Small instances of RunExecutor.                                           *)
(* exec_switch: one profile, two workspace switches that may overlap over    *)
(* its runs, and two callers that stop, start and restart concurrently, from *)
(* two siblings that are live.                                               *)
(* exec_compound: two compounds that share their step profile with each      *)
(* other and with ordinary runs of it, and a drain against coordinators that *)
(* are between steps, launching or waiting.                                  *)
(* exec_liveness, exec_stop_race: a compound of one step and a drain.        *)
(*****************************************************************************)
EXTENDS RunExecutor, TLC

CONSTANTS c1, c2, d1, d2, P1, K1, K2

NoSteps == <<>>
OneStep == K1 :> <<P1>>
Shared  == K1 :> <<P1, P1>> @@ K2 :> <<P1>>

Symmetry == Permutations({c1, c2}) \cup Permutations({d1, d2})

\* A reachable start that saves the ids and the steps of two earlier launches:
\* runs 1 and 2 of profile P1 are live, and their calls have returned.
Siblings ==
  LET live == {1, 2}
      none == [r \in RunId |-> NoRun]
      no == [r \in RunId |-> FALSE]
  IN /\ nextRunSeq = 2 /\ workspaceEpoch = 0 /\ draining = FALSE /\ rootEpoch = 0
     /\ processes = live /\ reservations = {} /\ compounds = {}
     /\ activeByProfile = [p \in Profiles |-> 2]
     /\ terminalIds = [p \in Profiles |-> {}]
     /\ lastStatus = {}
     /\ profileOf = [r \in RunId |-> IF r \in live THEN P1 ELSE NoRun]
     /\ state = [r \in RunId |-> IF r \in live THEN "running" ELSE "idle"]
     /\ os = [r \in RunId |-> IF r \in live THEN "running" ELSE "none"]
     /\ emitted = [r \in RunId |-> IF r \in live THEN "running" ELSE "none"]
     /\ waiting = [r \in RunId |-> r \in live]
     /\ parentOf = none /\ epochOf = none /\ replaces = none /\ current = none
     /\ reason = no /\ invalid = no /\ stopped = no /\ stopOnce = no /\ killed = no
     /\ done = no /\ cancelled = no
     /\ stepState = [r \in RunId |-> "none"]
     /\ pc = [t \in Threads |-> "idle"]
     /\ req = [t \in Threads |-> NoReq]
     /\ result = [t \in Threads |-> "none"]
     /\ dpc = [d \in Drainers |-> "idle"]
     /\ dreq = [d \in Drainers |-> NoDrain]

SwitchInit == Init \/ Siblings
SwitchSpec == SwitchInit /\ [][Next]_vars

-----------------------------------------------------------------------------
Busy == {t \in Callers : pc[t] # "idle"}

\* A reload is of interest only while the gate is closed: what it ends is open already.
ReloadClosed == \A d \in Drainers : dpc[d] = "reloading" => draining

\* Bounds of the switches: two runs, one call at a time.
Switching == nextRunSeq <= 2 /\ Cardinality(Busy) <= 1

\* Bounds of the restarts: no drain, no spawn fails and no command exits with an error
\* (other runs do both), only the two earlier runs are stopped or restarted, and the
\* first of them ends only then.
Restarting ==
  /\ workspaceEpoch = 0
  /\ waiting[1] /\ waiting[2]
  /\ \A r \in RunId : state[r] # "failed" /\ (stopOnce[r] => r <= 2)
  /\ \A t \in Threads : pc[t] # "abandon"
  /\ os[1] = "exited" => stopOnce[1] \/ state[1] = "stopped"

BoundedSwitch == ReloadClosed /\ (Switching \/ Restarting)

-----------------------------------------------------------------------------
\* Bounds of the drains: three runs and no aggregate of two steps, no spawn fails and no
\* command exits with an error.
Draining ==
  /\ nextRunSeq <= 3
  /\ \A r \in RunId : profileOf[r] # K1 /\ state[r] # "failed"
  /\ \A t \in Threads : req[t].profile # K1 /\ pc[t] # "abandon"

BoundedCompound == ReloadClosed /\ (workspaceEpoch = 0 \/ Draining)
=============================================================================
