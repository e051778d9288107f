---------------------------- MODULE RunExecutor ----------------------------
(***************************************************************************)
(* The run executor of internal/runprofile: launching, restarting,         *)
(* stopping and draining run profiles.  Every critical section of          *)
(* Executor.mu is one action; what a goroutine does between two critical   *)
(* sections separates two actions.  A run instance id "r<n>" is the        *)
(* number n, which is also the run's LaunchSeq.                            *)
(*                                                                         *)
(* Threads are the bound calls in flight (Callers) and the compound        *)
(* coordinators, each named by its aggregate's run id.  waitProcess        *)
(* goroutines and the signalStop watchdog are named by their run.          *)
(***************************************************************************)
EXTENDS Naturals, FiniteSets, Sequences

CONSTANTS
  Callers,    \* bound calls that can be in flight at once
  Drainers,   \* callers of BeginDrain and StopAll (workspace load, shutdown)
  Profiles,   \* run profile ids
  Compounds,  \* the profiles of type compound
  Steps,      \* [Compounds -> Seq(Profiles \ Compounds)], resolved by ResolveSteps
  MaxRuns,    \* bound: run instance ids handed out
  MaxEpoch    \* bound: workspace epochs

ASSUME ExecutorAssumption ==
  /\ MaxRuns \in Nat
  /\ MaxEpoch \in Nat
  /\ Callers \cap Nat = {}
  /\ Compounds \subseteq Profiles
  /\ Steps \in [Compounds -> Seq(Profiles \ Compounds)]
  /\ \A p \in Compounds : Steps[p] # <<>>

RunId    == 1..MaxRuns
NoRun    == 0
Epoch    == 0..MaxEpoch
Threads  == Callers \cup RunId
Ordinary == Profiles \ Compounds
RunState  == {"idle", "running", "stopped", "failed", "success"}
StepState == {"none", "pending", "running", "success", "failed", "skipped", "stopped"}

VARIABLES
  \* Executor fields
  nextRunSeq, workspaceEpoch, draining,
  rootEpoch,                            \* of the load that opened profileWorkspaceRoot
  processes, reservations, compounds,   \* key sets of the three maps
  activeByProfile,                      \* profile -> run or NoRun
  terminalIds,                          \* terminalStatusIDsByProfile
  lastStatus,                           \* key set of lastStatus
  \* identity and status of every run instance
  profileOf, parentOf, epochOf, state, reason,
  \* launchReservation
  replaces, invalid,
  \* runningProcess and its operating-system process
  \* (killed: sent SIGKILL that it has not died of yet)
  os, stopped, stopOnce, killed, waiting, done,
  \* compoundRun
  current, cancelled, stepState,
  \* goroutine locals
  pc, req, result,
  dpc, dreq,
  \* what the frontend was told: none, running, terminal
  emitted

identity   == <<profileOf, parentOf, epochOf>>
procVars   == <<os, stopped, stopOnce, killed, waiting, done>>
resVars    == <<replaces, invalid>>
tables     == <<processes, reservations, compounds>>
admission  == <<workspaceEpoch, draining, rootEpoch>>
retention  == <<terminalIds, lastStatus>>
compVars   == <<current, cancelled, stepState>>
threadVars == <<pc, req, result>>
drainVars  == <<dpc, dreq>>

vars == <<nextRunSeq, admission, tables, activeByProfile, retention, identity,
          state, reason, resVars, procVars, compVars, threadVars, drainVars,
          emitted>>

(***************************************************************************)
(* A request is what a bound call carries between its steps.               *)
(***************************************************************************)
NoReq == [profile |-> NoRun, epoch |-> 0, run |-> NoRun, target |-> NoRun,
          leaf |-> NoRun, exact |-> FALSE, again |-> FALSE]

Request == [profile : Profiles \cup {NoRun}, epoch : Epoch, run : RunId \cup {NoRun},
            target : RunId \cup {NoRun}, leaf : RunId \cup {NoRun},
            exact : BOOLEAN, again : BOOLEAN]

PC == {"idle", "reserve", "check", "promote", "abandon", "emit",
       "r-lookup", "r-reserve", "rc-check", "rc-stop", "s-instance", "s-signal", "s-wait",
       "sc-lookup", "sc-cancel", "sc-signal", "sc-wait", "c-start",
       "c-loop", "c-publish", "c-wait", "c-record", "c-finish", "c-close"}

Result == {"none", "success", "failed", "stopped", "invalidated", "setup", "cancelled"}

DPC == {"idle", "begun", "collected", "waiting", "late", "stopped", "cleared",
        "reloading"}

NoDrain == [epoch |-> 0, procs |-> {}, comps |-> {}, resvs |-> {}]

Drain == [epoch : Epoch, procs : SUBSET RunId, comps : SUBSET RunId,
          resvs : SUBSET RunId]

Init ==
  /\ nextRunSeq = 0 /\ workspaceEpoch = 0 /\ draining = FALSE /\ rootEpoch = 0
  /\ processes = {} /\ reservations = {} /\ compounds = {}
  /\ activeByProfile = [p \in Profiles |-> NoRun]
  /\ terminalIds = [p \in Profiles |-> {}]
  /\ lastStatus = {}
  /\ profileOf = [r \in RunId |-> NoRun]
  /\ parentOf = [r \in RunId |-> NoRun]
  /\ epochOf = [r \in RunId |-> 0]
  /\ state = [r \in RunId |-> "idle"]
  /\ reason = [r \in RunId |-> FALSE]
  /\ replaces = [r \in RunId |-> NoRun]
  /\ invalid = [r \in RunId |-> FALSE]
  /\ os = [r \in RunId |-> "none"]
  /\ stopped = [r \in RunId |-> FALSE]
  /\ stopOnce = [r \in RunId |-> FALSE]
  /\ killed = [r \in RunId |-> FALSE]
  /\ waiting = [r \in RunId |-> FALSE]
  /\ done = [r \in RunId |-> FALSE]
  /\ current = [r \in RunId |-> NoRun]
  /\ cancelled = [r \in RunId |-> FALSE]
  /\ stepState = [r \in RunId |-> "none"]
  /\ pc = [t \in Threads |-> "idle"]
  /\ req = [t \in Threads |-> NoReq]
  /\ result = [t \in Threads |-> "none"]
  /\ dpc = [d \in Drainers |-> "idle"]
  /\ dreq = [d \in Drainers |-> NoDrain]
  /\ emitted = [r \in RunId |-> "none"]

-----------------------------------------------------------------------------
(* Helpers *)

Goto(t, l) == pc' = [pc EXCEPT ![t] = l]

Return(t) ==
  /\ Goto(t, "idle")
  /\ req' = [req EXCEPT ![t] = NoReq]
  /\ result' = [result EXCEPT ![t] = "none"]

\* The plan of an aggregate: its steps took the ids right after its own.
PlanOf(c) == {r \in RunId : parentOf[r] = c}

Newest(S) == CHOOSE r \in S : \A q \in S : q <= r

\* mutant: a live sibling is forgotten
RefreshedNone(p, procs, comps) == [activeByProfile EXCEPT ![p] = NoRun]

\* refreshActiveProfileLocked, given the process and compound tables to scan.
Refreshed(p, procs, comps) ==
  LET live == {r \in procs \cup comps : profileOf[r] = p}
  IN [activeByProfile EXCEPT ![p] = IF live = {} THEN NoRun ELSE Newest(live)]

\* mutant: the list is sorted the wrong way round
KeptReversed(p, r) ==
  LET ids == terminalIds[p] \cup {r}
  IN {x \in ids : Cardinality({y \in ids : y < x}) < 2}

\* The two newest launches among a profile's retained ids and r.
Kept(p, r) ==
  LET ids == terminalIds[p] \cup {r}
  IN {x \in ids : Cardinality({y \in ids : y > x}) < 2}

\* mutant: evicted ids stay in lastStatus
RetainNoDelete(r) ==
  LET p == profileOf[r]
  IN /\ terminalIds' = [terminalIds EXCEPT ![p] = Kept(p, r)]
     /\ lastStatus' = lastStatus \cup {r}

\* retainTerminalStatusLocked
Retain(r) ==
  LET p == profileOf[r]
  IN /\ terminalIds' = [terminalIds EXCEPT ![p] = Kept(p, r)]
     /\ lastStatus' = (lastStatus \ terminalIds[p]) \cup Kept(p, r)

\* mutant: a call resolved before a switch is admitted after it
AdmissionAnyEpoch(e) == e <= workspaceEpoch /\ ~draining

AdmissionOpen(e) == e = workspaceEpoch /\ ~draining

\* mutant: a replacement never claims a slot of its own
SlotsShared(p, replaced) ==
  {r \in processes \ {replaced} : profileOf[r] = p}
    \cup {r \in reservations : profileOf[r] = p /\ replaces[r] = NoRun}

\* The instances of profile p that take one of its two slots.  A pending
\* replacement shares the slot of the live instance it replaces.
Slots(p, replaced) ==
  LET counted == {r \in processes \ {replaced} : profileOf[r] = p}
  IN counted \cup {r \in reservations : profileOf[r] = p /\ replaces[r] \notin counted}

\* mutant: a step is checked against other compounds only
ConflictCompoundsOnly(r, p, parent, replaced) ==
  \/ r \in processes \cup reservations
  \/ \E c \in compounds :
       \/ profileOf[c] = p
       \/ \E s \in PlanOf(c) : profileOf[s] = p /\ stepState[s] = "running" /\ s # r
  \/ parent = NoRun /\ Cardinality(Slots(p, replaced)) >= 2

\* reserveProcessCapacityLocked: the reasons to answer "profile already running".
Conflict(r, p, parent, replaced) ==
  \/ r \in processes \cup reservations
  \/ \E q \in (processes \ {replaced}) \cup reservations :
       profileOf[q] = p /\ (parent # NoRun \/ parentOf[q] # NoRun)
  \/ \E c \in compounds :
       \/ profileOf[c] = p
       \/ \E s \in PlanOf(c) : profileOf[s] = p /\ stepState[s] = "running" /\ s # r
  \/ parent = NoRun /\ Cardinality(Slots(p, replaced)) >= 2

\* mutant: the drain is not noticed between reservation and promotion
NeverInvalid(r) == r \notin reservations

\* startReservedProcess re-validates its reservation before and after the spawn.
ReservationInvalid(r) ==
  \/ invalid[r]
  \/ ~AdmissionOpen(epochOf[r])
  \/ r \notin reservations

\* signalStop: marks the run stopped and sends SIGTERM, once.  A process may
\* exit at any time, so SIGTERM itself enables nothing more.  Nobody reads the
\* record of a run that is done.
SignalStop(r) ==
  /\ stopOnce' = [stopOnce EXCEPT ![r] = ~done[r]]
  /\ stopped' = [stopped EXCEPT ![r] = (@ \/ ~stopOnce[r]) /\ ~done[r]]

\* How a launch error reaches its caller: a bound call returns it, a
\* coordinator records it on the step.
LaunchFails(t, why) ==
  IF t \in Callers
  THEN Return(t)
  ELSE /\ Goto(t, "c-record")
       /\ result' = [result EXCEPT ![t] = why]
       /\ UNCHANGED req

Abandon(t, why) ==
  /\ Goto(t, "abandon")
  /\ result' = [result EXCEPT ![t] = why]
  /\ UNCHANGED req

-----------------------------------------------------------------------------
(* Starting an ordinary run *)

\* StartRunProfile: resolveRunProfile captures the epoch with the profile.
CallStart(t, p) ==
  /\ pc[t] = "idle"
  /\ Goto(t, "reserve")
  /\ req' = [req EXCEPT ![t] = [NoReq EXCEPT !.profile = p, !.epoch = workspaceEpoch]]
  /\ UNCHANGED <<nextRunSeq, admission, tables, activeByProfile, retention,
                 identity, state, reason, resVars, procVars, compVars, result,
                 drainVars, emitted>>

\* checkAdmission fails, or prepareProcess does (directory, env file, pipes).
LaunchRejected(t) ==
  /\ pc[t] = "reserve"
  /\ \/ ~AdmissionOpen(req[t].epoch) /\ LaunchFails(t, "invalidated")
     \/ AdmissionOpen(req[t].epoch) /\ LaunchFails(t, "setup")
  /\ UNCHANGED <<nextRunSeq, admission, tables, activeByProfile, retention,
                 identity, state, reason, resVars, procVars, compVars,
                 drainVars, emitted>>

AddReservation(r, p, e, replaced) ==
  /\ reservations' = reservations \cup {r}
  /\ profileOf' = [profileOf EXCEPT ![r] = p]
  /\ epochOf' = [epochOf EXCEPT ![r] = e]
  /\ replaces' = [replaces EXCEPT ![r] = replaced]

\* startProcess for an ordinary run: the id is taken before the capacity check.
ReserveFresh(t) ==
  LET r == nextRunSeq + 1 p == req[t].profile
  IN /\ pc[t] = "reserve" /\ t \in Callers
     /\ AdmissionOpen(req[t].epoch)
     /\ r <= MaxRuns
     /\ nextRunSeq' = r
     /\ IF Conflict(r, p, NoRun, NoRun)
        THEN /\ LaunchFails(t, "setup")
             /\ UNCHANGED <<reservations, profileOf, epochOf, replaces>>
        ELSE /\ AddReservation(r, p, req[t].epoch, NoRun)
             /\ Goto(t, "check")
             /\ req' = [req EXCEPT ![t].run = r]
             /\ UNCHANGED result
     /\ UNCHANGED <<admission, processes, compounds, activeByProfile, retention,
                    parentOf, state, reason, invalid, procVars, compVars,
                    drainVars, emitted>>

\* startProcess for a compound step, whose identity was preassigned.
ReserveStep(t) ==
  LET r == req[t].run
  IN /\ pc[t] = "reserve" /\ t \in RunId
     /\ AdmissionOpen(req[t].epoch)
     /\ IF Conflict(r, profileOf[r], t, NoRun)
        THEN /\ LaunchFails(t, "setup")
             /\ UNCHANGED <<reservations, profileOf, epochOf, replaces>>
        ELSE /\ AddReservation(r, profileOf[r], req[t].epoch, NoRun)
             /\ Goto(t, "check")
             /\ UNCHANGED <<req, result>>
     /\ UNCHANGED <<nextRunSeq, admission, processes, compounds, activeByProfile,
                    retention, parentOf, state, reason, invalid, procVars,
                    compVars, drainVars, emitted>>

\* startReservedProcess up to the spawn, which may fail.
Spawn(t) ==
  LET r == req[t].run
  IN /\ pc[t] = "check"
     /\ \/ /\ ReservationInvalid(r)
           /\ Abandon(t, "invalidated")
           /\ UNCHANGED os
        \/ /\ ~ReservationInvalid(r)
           /\ Abandon(t, "setup")
           /\ UNCHANGED os
        \/ /\ ~ReservationInvalid(r)
           /\ os' = [os EXCEPT ![r] = "running"]
           /\ Goto(t, "promote")
           /\ UNCHANGED <<req, result>>
     /\ UNCHANGED <<nextRunSeq, admission, tables, activeByProfile, retention,
                    identity, state, reason, resVars, stopped, stopOnce,
                    killed, waiting, done, compVars, drainVars, emitted>>

\* startReservedProcess after the spawn: promote the reservation to a process,
\* or kill a process whose admission was invalidated meanwhile.
Promote(t) ==
  LET r == req[t].run
  IN /\ pc[t] = "promote"
     /\ IF ReservationInvalid(r)
        THEN /\ invalid' = [invalid EXCEPT ![r] = TRUE]
             /\ killed' = [killed EXCEPT ![r] = os[r] = "running"]
             /\ Abandon(t, "invalidated")
             /\ UNCHANGED <<processes, reservations, activeByProfile, state>>
        ELSE /\ processes' = processes \cup {r}
             /\ reservations' = reservations \ {r}
             /\ activeByProfile' = [activeByProfile EXCEPT ![profileOf[r]] = r]
             /\ state' = [state EXCEPT ![r] = "running"]
             /\ Goto(t, IF t \in Callers THEN "emit" ELSE "c-publish")
             /\ UNCHANGED <<invalid, killed, req, result>>
     /\ UNCHANGED <<nextRunSeq, admission, compounds, retention, identity, reason,
                    replaces, os, stopped, stopOnce, waiting, done,
                    compVars, drainVars, emitted>>

\* finishReservation; the reap before it is bounded, so it never blocks.
FinishReservation(t) ==
  /\ pc[t] = "abandon"
  /\ reservations' = reservations \ {req[t].run}
  /\ LaunchFails(t, result[t])
  /\ UNCHANGED <<nextRunSeq, admission, processes, compounds, activeByProfile,
                 retention, identity, state, reason, resVars, procVars, compVars,
                 drainVars, emitted>>

\* The running status is emitted before the waitProcess goroutine starts.
EmitRunning(t) ==
  LET r == req[t].run
  IN /\ pc[t] = "emit"
     /\ emitted' = [emitted EXCEPT ![r] = "running"]
     /\ waiting' = [waiting EXCEPT ![r] = TRUE]
     /\ Return(t)
     /\ UNCHANGED <<nextRunSeq, admission, tables, activeByProfile, retention,
                    identity, state, reason, resVars, os, stopped, stopOnce,
                    killed, done, compVars, drainVars>>

-----------------------------------------------------------------------------
(* The life of a process *)

\* The operating-system process ends, by itself or by a signal.
Exit(r) ==
  /\ os[r] = "running"
  /\ os' = [os EXCEPT ![r] = "exited"]
  /\ killed' = [killed EXCEPT ![r] = FALSE]
  /\ UNCHANGED <<nextRunSeq, admission, tables, activeByProfile, retention,
                 identity, state, reason, resVars, stopped, stopOnce, waiting,
                 done, compVars, threadVars, drainVars, emitted>>

\* mutant: a state the status type does not have
TerminalStatesKilled(r) == IF stopped[r] THEN {"killed"} ELSE {"success", "failed"}

\* The exit code is read when the process is reaped: zero or not.
TerminalStates(r) == IF stopped[r] THEN {"stopped"} ELSE {"success", "failed"}

\* waitProcess: once the process is reaped, one critical section settles its
\* status, retains it for a top-level run and takes it out of the tables.
WaitProcess(r) ==
  /\ waiting[r] /\ r \in processes /\ os[r] = "exited"
  /\ \E x \in TerminalStates(r) : state' = [state EXCEPT ![r] = x]
  /\ IF parentOf[r] = NoRun THEN Retain(r) ELSE UNCHANGED retention
  /\ processes' = processes \ {r}
  /\ activeByProfile' = Refreshed(profileOf[r], processes', compounds)
  /\ UNCHANGED <<nextRunSeq, admission, reservations, compounds, identity, reason,
                 resVars, procVars, compVars, threadVars, drainVars, emitted>>

\* mutant: done is never closed
FinishWaitNotDone(r) ==
  /\ waiting[r] /\ r \notin processes /\ ~done[r]
  /\ emitted[r] # "terminal"
  /\ emitted' = [emitted EXCEPT ![r] = "terminal"]
  /\ UNCHANGED <<nextRunSeq, admission, tables, activeByProfile, retention,
                 identity, state, reason, resVars, procVars, compVars,
                 threadVars, drainVars>>

\* waitProcess after the unlock: a top-level run emits its terminal status,
\* and only then is done closed.  The record of the process is dropped.
FinishWait(r) ==
  /\ waiting[r] /\ r \notin processes /\ ~done[r]
  /\ emitted' = IF parentOf[r] = NoRun
                THEN [emitted EXCEPT ![r] = "terminal"] ELSE emitted
  /\ done' = [done EXCEPT ![r] = TRUE]
  /\ stopped' = [stopped EXCEPT ![r] = FALSE]
  /\ stopOnce' = [stopOnce EXCEPT ![r] = FALSE]
  /\ UNCHANGED <<nextRunSeq, admission, tables, activeByProfile, retention,
                 identity, state, reason, resVars, os, killed, waiting,
                 compVars, threadVars, drainVars>>

\* mutant: no watchdog
NoEscalation(r) == FALSE /\ stopOnce[r] /\ UNCHANGED vars

\* The watchdog of signalStop: SIGKILL after the grace period unless done.  It
\* does nothing to a process that has ended.
Escalate(r) ==
  /\ stopOnce[r] /\ ~done[r]
  /\ os[r] = "running" /\ ~killed[r]
  /\ killed' = [killed EXCEPT ![r] = TRUE]
  /\ UNCHANGED <<nextRunSeq, admission, tables, activeByProfile, retention,
                 identity, state, reason, resVars, os, stopped, stopOnce,
                 waiting, done, compVars, threadVars, drainVars, emitted>>

-----------------------------------------------------------------------------
(* Restarting an ordinary run *)

LiveOf(p) == {r \in processes \cup compounds : profileOf[r] = p}

\* RestartRunProfile: resolveRunProfile captures the epoch with the profile ...
CallRestart(t, p) ==
  /\ pc[t] = "idle"
  /\ Goto(t, "r-lookup")
  /\ req' = [req EXCEPT ![t] = [NoReq EXCEPT !.profile = p, !.epoch = workspaceEpoch]]
  /\ UNCHANGED <<nextRunSeq, admission, tables, activeByProfile, retention,
                 identity, state, reason, resVars, procVars, compVars, result,
                 drainVars, emitted>>

\* ... and GetStatus picks the newest live run of the profile, a compound's step
\* included, or there is nothing to replace.
RestartLookup(t) ==
  LET live == LiveOf(req[t].profile)
  IN /\ pc[t] = "r-lookup"
     /\ activeByProfile' = Refreshed(req[t].profile, processes, compounds)
     /\ req' = [req EXCEPT ![t].target = IF live = {} THEN NoRun ELSE Newest(live)]
     /\ Goto(t, IF live = {} THEN "reserve" ELSE "r-reserve")
     /\ UNCHANGED <<nextRunSeq, admission, tables, retention, identity, state,
                    reason, resVars, procVars, compVars, result, drainVars, emitted>>

\* profileIDForRunInstanceLocked knows r.  A step is only known while reserved.
Known(r) ==
  \/ r \in processes /\ parentOf[r] = NoRun
  \/ r \in (compounds \cup lastStatus \cup reservations) \ processes

\* RestartRunInstance; it answers with an error for an aggregate.
CallRestartInstance(t, r) ==
  /\ pc[t] = "idle"
  /\ Known(r) /\ profileOf[r] \in Ordinary
  /\ req' = [req EXCEPT ![t] = [NoReq EXCEPT !.profile = profileOf[r],
               !.epoch = workspaceEpoch, !.target = r, !.exact = TRUE]]
  /\ Goto(t, "r-reserve")
  /\ UNCHANGED <<nextRunSeq, admission, tables, activeByProfile, retention,
                 identity, state, reason, resVars, procVars, compVars, result,
                 drainVars, emitted>>

\* Why RestartAtEpoch gives up on a live target before it takes an id.
Irreplaceable(r) ==
  \/ parentOf[r] # NoRun
  \/ \E q \in reservations : replaces[q] = r

\* RestartAtEpoch up to reserveReplacement.  A profile restart whose target has
\* ended meanwhile starts afresh; an exact one fails.
ReserveReplacement(t) ==
  LET r == nextRunSeq + 1 p == req[t].profile target == req[t].target
  IN /\ pc[t] = "r-reserve"
     /\ \/ /\ \/ ~AdmissionOpen(req[t].epoch)
              \/ target \in processes /\ Irreplaceable(target)
              \/ target \notin processes /\ req[t].exact
           /\ Return(t)
           /\ UNCHANGED <<nextRunSeq, reservations, profileOf, epochOf, replaces>>
        \/ /\ AdmissionOpen(req[t].epoch)
           /\ target \notin processes /\ ~req[t].exact
           /\ Goto(t, "reserve")
           /\ UNCHANGED <<nextRunSeq, reservations, profileOf, epochOf, replaces,
                          req, result>>
        \/ /\ AdmissionOpen(req[t].epoch)
           /\ target \in processes /\ ~Irreplaceable(target)
           /\ r <= MaxRuns
           /\ nextRunSeq' = r
           /\ IF Conflict(r, p, NoRun, target)
              THEN /\ Return(t)
                   /\ UNCHANGED <<reservations, profileOf, epochOf, replaces>>
              ELSE /\ AddReservation(r, p, req[t].epoch, target)
                   /\ req' = [req EXCEPT ![t].run = r]
                   /\ Goto(t, "s-instance")
                   /\ UNCHANGED result
     /\ UNCHANGED <<admission, processes, compounds, activeByProfile, retention,
                    parentOf, state, reason, invalid, procVars, compVars,
                    drainVars, emitted>>

\* prepareProcess fails before anything was reserved.
RestartUnprepared(t) ==
  /\ pc[t] = "r-reserve"
  /\ AdmissionOpen(req[t].epoch)
  /\ Return(t)
  /\ UNCHANGED <<nextRunSeq, admission, tables, activeByProfile, retention,
                 identity, state, reason, resVars, procVars, compVars,
                 drainVars, emitted>>

-----------------------------------------------------------------------------
(* Stopping a run *)

\* What follows StopRunInstance: a restart goes on to its launch.
AfterStop(t) ==
  IF req[t].run # NoRun THEN Goto(t, "check") /\ UNCHANGED <<req, result>>
  ELSE Return(t)

\* What follows a compound's stop: a compound restart goes on to its start.
AfterCompoundStop(t) ==
  IF req[t].again THEN Goto(t, "c-start") /\ UNCHANGED <<req, result>>
  ELSE Return(t)

\* The run that Stop(p) controls: the newest live one, or its aggregate.
StopTarget(p) ==
  LET n == Newest(LiveOf(p)) IN IF parentOf[n] # NoRun THEN parentOf[n] ELSE n

\* Stop; an idle profile is left alone.
CallStop(t, p) ==
  /\ pc[t] = "idle"
  /\ LiveOf(p) # {}
  /\ activeByProfile' = Refreshed(p, processes, compounds)
  /\ req' = [req EXCEPT ![t] = [NoReq EXCEPT !.profile = p, !.target = StopTarget(p)]]
  /\ Goto(t, IF StopTarget(p) \in compounds THEN "sc-lookup" ELSE "s-instance")
  /\ UNCHANGED <<nextRunSeq, admission, tables, retention, identity, state, reason,
                 resVars, procVars, compVars, result, drainVars, emitted>>

\* StopRunInstance called by the user; steps, aggregates and ended runs are
\* refused or ignored, which changes nothing.
CallStopInstance(t, r) ==
  /\ pc[t] = "idle"
  /\ r \in processes /\ parentOf[r] = NoRun
  /\ req' = [req EXCEPT ![t] = [NoReq EXCEPT !.target = r]]
  /\ Goto(t, "s-signal")
  /\ UNCHANGED <<nextRunSeq, admission, tables, activeByProfile, retention,
                 identity, state, reason, resVars, procVars, compVars, result,
                 drainVars, emitted>>

\* StopRunInstance on behalf of Stop or of a restart.
StopInstance(t) ==
  /\ pc[t] = "s-instance"
  /\ IF req[t].target \in processes
     THEN Goto(t, "s-signal") /\ UNCHANGED <<req, result>>
     ELSE AfterStop(t)
  /\ UNCHANGED <<nextRunSeq, admission, tables, activeByProfile, retention,
                 identity, state, reason, resVars, procVars, compVars,
                 drainVars, emitted>>

\* mutant: StopRunInstance does not wait for the process
StopSignalNoWait(t) ==
  /\ pc[t] = "s-signal"
  /\ SignalStop(req[t].target)
  /\ AfterStop(t)
  /\ UNCHANGED <<nextRunSeq, admission, tables, activeByProfile, retention,
                 identity, state, reason, resVars, os, killed, waiting,
                 done, compVars, drainVars, emitted>>

StopSignal(t) ==
  /\ pc[t] = "s-signal"
  /\ SignalStop(req[t].target)
  /\ Goto(t, "s-wait")
  /\ UNCHANGED <<nextRunSeq, admission, tables, activeByProfile, retention,
                 identity, state, reason, resVars, os, killed, waiting,
                 done, compVars, req, result, drainVars, emitted>>

StopWait(t) ==
  /\ pc[t] = "s-wait"
  /\ done[req[t].target]
  /\ AfterStop(t)
  /\ UNCHANGED <<nextRunSeq, admission, tables, activeByProfile, retention,
                 identity, state, reason, resVars, procVars, compVars,
                 drainVars, emitted>>

\* stopCompoundRunInstance, its critical section: the leaf is looked up here...
CompoundLookup(t) ==
  LET c == req[t].target
  IN /\ pc[t] = "sc-lookup"
     /\ IF c \in compounds
        THEN /\ req' = [req EXCEPT ![t].leaf =
                          IF current[c] \in processes THEN current[c] ELSE NoRun]
             /\ Goto(t, "sc-cancel")
             /\ UNCHANGED result
        ELSE AfterCompoundStop(t)
     /\ UNCHANGED <<nextRunSeq, admission, tables, activeByProfile, retention,
                    identity, state, reason, resVars, procVars, compVars,
                    drainVars, emitted>>

\* ... and the context is cancelled after the unlock.
CompoundCancel(t) ==
  /\ pc[t] = "sc-cancel"
  /\ cancelled' = [cancelled EXCEPT ![req[t].target] = TRUE]
  /\ Goto(t, IF req[t].leaf = NoRun THEN "sc-wait" ELSE "sc-signal")
  /\ UNCHANGED <<nextRunSeq, admission, tables, activeByProfile, retention,
                 identity, state, reason, resVars, procVars, current, stepState,
                 req, result, drainVars, emitted>>

CompoundSignal(t) ==
  /\ pc[t] = "sc-signal"
  /\ SignalStop(req[t].leaf)
  /\ Goto(t, "sc-wait")
  /\ UNCHANGED <<nextRunSeq, admission, tables, activeByProfile, retention,
                 identity, state, reason, resVars, os, killed, waiting,
                 done, compVars, req, result, drainVars, emitted>>

CompoundWait(t) ==
  /\ pc[t] = "sc-wait"
  /\ done[req[t].target]
  /\ AfterCompoundStop(t)
  /\ UNCHANGED <<nextRunSeq, admission, tables, activeByProfile, retention,
                 identity, state, reason, resVars, procVars, compVars,
                 drainVars, emitted>>

-----------------------------------------------------------------------------
(* Compound runs *)

CallStartCompound(t, p) ==
  /\ pc[t] = "idle"
  /\ Goto(t, "c-start")
  /\ req' = [req EXCEPT ![t] = [NoReq EXCEPT !.profile = p, !.epoch = workspaceEpoch]]
  /\ UNCHANGED <<nextRunSeq, admission, tables, activeByProfile, retention,
                 identity, state, reason, resVars, procVars, compVars, result,
                 drainVars, emitted>>

\* RestartRunProfile for a compound, up to RestartCompoundAtEpoch.
CallRestartCompound(t, p) ==
  /\ pc[t] = "idle"
  /\ Goto(t, "rc-check")
  /\ req' = [req EXCEPT ![t] = [NoReq EXCEPT !.profile = p, !.epoch = workspaceEpoch,
                                            !.again = TRUE]]
  /\ UNCHANGED <<nextRunSeq, admission, tables, activeByProfile, retention,
                 identity, state, reason, resVars, procVars, compVars, result,
                 drainVars, emitted>>

\* RestartCompoundAtEpoch's checkAdmission
CompoundRestartCheck(t) ==
  /\ pc[t] = "rc-check"
  /\ IF AdmissionOpen(req[t].epoch)
     THEN Goto(t, "rc-stop") /\ UNCHANGED <<req, result>>
     ELSE Return(t)
  /\ UNCHANGED <<nextRunSeq, admission, tables, activeByProfile, retention,
                 identity, state, reason, resVars, procVars, compVars,
                 drainVars, emitted>>

\* Its Stop looks up the live aggregate, which ends before a new one starts.
CompoundRestartStop(t) ==
  LET live == LiveOf(req[t].profile)
  IN /\ pc[t] = "rc-stop"
     /\ activeByProfile' = Refreshed(req[t].profile, processes, compounds)
     /\ req' = [req EXCEPT ![t].target = IF live = {} THEN NoRun ELSE Newest(live)]
     /\ Goto(t, IF live = {} THEN "c-start" ELSE "sc-lookup")
     /\ UNCHANGED <<nextRunSeq, admission, tables, retention, identity, state,
                    reason, resVars, procVars, compVars, result, drainVars, emitted>>

CompoundBusy(p) == \E r \in processes \cup compounds \cup reservations : profileOf[r] = p

\* StartCompoundAtEpoch refuses: admission closed, or the compound is running
\* (or the ids of this bounded model are used up).
CompoundRejected(t) ==
  /\ pc[t] = "c-start"
  /\ \/ ~AdmissionOpen(req[t].epoch)
     \/ CompoundBusy(req[t].profile)
     \/ nextRunSeq + 1 + Len(Steps[req[t].profile]) > MaxRuns
  /\ Return(t)
  /\ UNCHANGED <<nextRunSeq, admission, tables, activeByProfile, retention,
                 identity, state, reason, resVars, procVars, compVars,
                 drainVars, emitted>>

\* StartCompoundAtEpoch: the aggregate and all its steps take their ids in one
\* critical section.  Nobody else emits for this run before its coordinator
\* starts, so the first emit and the go statement are part of the action.
StartCompound(t) ==
  LET p == req[t].profile
      c == nextRunSeq + 1
      n == Len(Steps[p])
      plan == (c + 1)..(c + n)
  IN /\ pc[t] = "c-start"
     /\ AdmissionOpen(req[t].epoch) /\ ~CompoundBusy(p)
     /\ c + n <= MaxRuns
     /\ nextRunSeq' = c + n
     /\ profileOf' = [r \in RunId |-> IF r = c THEN p
                        ELSE IF r \in plan THEN Steps[p][r - c] ELSE profileOf[r]]
     /\ parentOf' = [r \in RunId |-> IF r \in plan THEN c ELSE parentOf[r]]
     /\ epochOf' = [r \in RunId |-> IF r \in plan \cup {c} THEN req[t].epoch ELSE epochOf[r]]
     /\ stepState' = [r \in RunId |-> IF r \in plan THEN "pending" ELSE stepState[r]]
     /\ current' = [current EXCEPT ![c] = c + 1]
     /\ state' = [state EXCEPT ![c] = "running"]
     /\ compounds' = compounds \cup {c}
     /\ activeByProfile' = [activeByProfile EXCEPT ![p] = c]
     /\ emitted' = [emitted EXCEPT ![c] = "running"]
     /\ pc' = [pc EXCEPT ![t] = "idle", ![c] = "c-loop"]
     /\ req' = [req EXCEPT ![t] = NoReq,
                           ![c] = [NoReq EXCEPT !.profile = p, !.epoch = req[t].epoch]]
     /\ UNCHANGED <<admission, processes, reservations, retention, reason, resVars,
                    procVars, cancelled, result, drainVars>>

PendingSteps(c) == {s \in PlanOf(c) : stepState[s] = "pending"}

\* The head of runCompound's loop: the steps are exhausted, or cancellation is
\* seen before the next one, or the next step is marked running.
CoordStep(c) ==
  /\ pc[c] = "c-loop"
  /\ \/ /\ PendingSteps(c) = {}
        /\ Goto(c, "c-finish")
        /\ result' = [result EXCEPT ![c] = "success"]
        /\ UNCHANGED <<current, stepState, req>>
     \/ /\ PendingSteps(c) # {} /\ cancelled[c]
        /\ Goto(c, "c-finish")
        /\ result' = [result EXCEPT ![c] = "cancelled"]
        /\ UNCHANGED <<current, stepState, req>>
     \/ /\ PendingSteps(c) # {} /\ ~cancelled[c]
        /\ LET s == CHOOSE x \in PendingSteps(c) : \A y \in PendingSteps(c) : x <= y
           IN /\ current' = [current EXCEPT ![c] = s]
              /\ stepState' = [stepState EXCEPT ![s] = "running"]
              /\ req' = [req EXCEPT ![c].run = s]
        /\ Goto(c, "reserve")
        /\ UNCHANGED result
  /\ UNCHANGED <<nextRunSeq, admission, tables, activeByProfile, retention,
                 identity, state, reason, resVars, procVars, cancelled,
                 drainVars, emitted>>

\* runCompound after startProcess: a cancel missed by Stop signals the leaf,
\* then waitProcess runs on the coordinator.
CoordPublish(c) ==
  LET s == req[c].run
  IN /\ pc[c] = "c-publish"
     /\ IF cancelled[c] THEN SignalStop(s) ELSE UNCHANGED <<stopOnce, stopped>>
     /\ waiting' = [waiting EXCEPT ![s] = TRUE]
     /\ Goto(c, "c-wait")
     /\ UNCHANGED <<nextRunSeq, admission, tables, activeByProfile, retention,
                    identity, state, reason, resVars, os, killed, done,
                    compVars, req, result, drainVars, emitted>>

\* waitProcess has returned to the coordinator.
CoordWait(c) ==
  /\ pc[c] = "c-wait"
  /\ done[req[c].run]
  /\ Goto(c, "c-record")
  /\ result' = [result EXCEPT ![c] = state[req[c].run]]
  /\ UNCHANGED <<nextRunSeq, admission, tables, activeByProfile, retention,
                 identity, state, reason, resVars, procVars, compVars, req,
                 drainVars, emitted>>

\* leafStepState, and the two ways a launch error is recorded on its step.
StepOutcome(res) ==
  CASE res = "success" -> "success"
    [] res \in {"stopped", "invalidated"} -> "stopped"
    [] OTHER -> "failed"

\* mutant: the loop goes on after a failed step
CoordRecordGoesOn(c) ==
  /\ pc[c] = "c-record"
  /\ stepState' = [stepState EXCEPT ![current[c]] = StepOutcome(result[c])]
  /\ Goto(c, "c-loop")
  /\ result' = [result EXCEPT ![c] = "none"]
  /\ req' = [req EXCEPT ![c].run = NoRun]
  /\ UNCHANGED <<nextRunSeq, admission, tables, activeByProfile, retention,
                 identity, state, reason, resVars, procVars, current, cancelled,
                 drainVars, emitted>>

CoordRecord(c) ==
  /\ pc[c] = "c-record"
  /\ stepState' = [stepState EXCEPT ![current[c]] = StepOutcome(result[c])]
  /\ IF result[c] = "success"
     THEN /\ Goto(c, "c-loop")
          /\ result' = [result EXCEPT ![c] = "none"]
     ELSE Goto(c, "c-finish") /\ UNCHANGED result
  /\ req' = [req EXCEPT ![c].run = NoRun]
  /\ UNCHANGED <<nextRunSeq, admission, tables, activeByProfile, retention,
                 identity, state, reason, resVars, procVars, current, cancelled,
                 drainVars, emitted>>

\* mutant: a step that could not start is reported as a stop
AggregateStateSetupStops(res) ==
  CASE res = "success" -> "success"
    [] res = "failed" -> "failed"
    [] OTHER -> "stopped"

AggregateState(res) ==
  CASE res = "success" -> "success"
    [] res \in {"failed", "setup"} -> "failed"
    [] OTHER -> "stopped"

\* finishCompound, its critical section
CoordFinish(c) ==
  /\ pc[c] = "c-finish"
  /\ stepState' = [s \in RunId |-> IF s \in PendingSteps(c) THEN "skipped" ELSE stepState[s]]
  /\ state' = [state EXCEPT ![c] = AggregateState(result[c])]
  /\ Retain(c)
  /\ compounds' = compounds \ {c}
  /\ activeByProfile' = Refreshed(profileOf[c], processes, compounds')
  /\ Goto(c, "c-close")
  /\ UNCHANGED <<nextRunSeq, admission, processes, reservations, identity, reason,
                 resVars, procVars, current, cancelled, req, result, drainVars,
                 emitted>>

\* finishCompound after the unlock
CoordClose(c) ==
  /\ pc[c] = "c-close"
  /\ emitted' = [emitted EXCEPT ![c] = "terminal"]
  /\ done' = [done EXCEPT ![c] = TRUE]
  /\ Return(c)
  /\ UNCHANGED <<nextRunSeq, admission, tables, activeByProfile, retention,
                 identity, state, reason, resVars, os, stopped, stopOnce,
                 killed, waiting, compVars, drainVars>>

-----------------------------------------------------------------------------
(* Draining: workspace switch and shutdown *)

Mark(f, S) == [r \in RunId |-> f[r] \/ r \in S]

\* BeginDrainWithReason
BeginDrain(d) ==
  /\ dpc[d] = "idle"
  /\ workspaceEpoch < MaxEpoch
  /\ workspaceEpoch' = workspaceEpoch + 1
  /\ draining' = TRUE
  /\ reason' = Mark(reason, processes \cup compounds)
  /\ invalid' = Mark(invalid, reservations)
  /\ dpc' = [dpc EXCEPT ![d] = "begun"]
  /\ dreq' = [dreq EXCEPT ![d] = [NoDrain EXCEPT !.epoch = workspaceEpoch + 1]]
  /\ UNCHANGED <<nextRunSeq, tables, activeByProfile, retention, identity, state,
                 replaces, procVars, compVars, threadVars, rootEpoch, emitted>>

\* StopAllWithReason, its critical section
StopAllCollect(d) ==
  /\ dpc[d] = "begun"
  /\ IF processes \cup compounds \cup reservations = {}
     THEN /\ dpc' = [dpc EXCEPT ![d] = "stopped"]
          /\ UNCHANGED <<dreq, invalid, reason, stopped>>
     ELSE /\ dpc' = [dpc EXCEPT ![d] = "collected"]
          /\ dreq' = [dreq EXCEPT ![d] = [epoch |-> @.epoch, procs |-> processes,
                        comps |-> compounds, resvs |-> reservations]]
          /\ invalid' = Mark(invalid, reservations)
          /\ reason' = Mark(reason, processes \cup compounds)
          /\ stopped' = Mark(stopped, processes)
  /\ UNCHANGED <<nextRunSeq, admission, tables, activeByProfile, retention,
                 identity, state, replaces, os, stopOnce, killed, waiting,
                 done, compVars, threadVars, emitted>>

\* Coordinators are cancelled and every process gets SIGTERM.
StopAllSignal(d) ==
  /\ dpc[d] = "collected"
  /\ cancelled' = Mark(cancelled, dreq[d].comps)
  /\ dpc' = [dpc EXCEPT ![d] = "waiting"]
  /\ UNCHANGED <<nextRunSeq, admission, tables, activeByProfile, retention,
                 identity, state, reason, resVars, procVars, current, stepState,
                 threadVars, dreq, emitted>>

\* mutants: StopAll forgets the reservations, or the coordinators
AllDoneNoReservations(d) == \A r \in dreq[d].procs \cup dreq[d].comps : done[r]
AllDoneProcesses(d) ==
  /\ \A r \in dreq[d].procs : done[r]
  /\ dreq[d].resvs \cap reservations = {}

\* Every done channel that StopAll copied is closed.
AllDone(d) ==
  /\ \A r \in dreq[d].procs \cup dreq[d].comps : done[r]
  /\ dreq[d].resvs \cap reservations = {}

\* mutant: no escalation at half the timeout
StopAllHalfwayNoKill(d) ==
  /\ dpc[d] = "waiting"
  /\ dpc' = [dpc EXCEPT ![d] = "late"]
  /\ UNCHANGED <<nextRunSeq, admission, tables, activeByProfile, retention,
                 identity, state, reason, resVars, procVars, compVars, threadVars,
                 dreq, emitted>>

\* Half the timeout has passed: SIGKILL for the survivors.
StopAllHalfway(d) ==
  /\ dpc[d] = "waiting"
  /\ killed' = Mark(killed, {r \in dreq[d].procs \cap processes : os[r] = "running"})
  /\ dpc' = [dpc EXCEPT ![d] = "late"]
  /\ UNCHANGED <<nextRunSeq, admission, tables, activeByProfile, retention,
                 identity, state, reason, resVars, os, stopped, stopOnce,
                 waiting, done, compVars, threadVars, dreq, emitted>>

StopAllReturns(d) ==
  /\ dpc[d] \in {"waiting", "late"}
  /\ AllDone(d)
  /\ dpc' = [dpc EXCEPT ![d] = "stopped"]
  /\ UNCHANGED <<nextRunSeq, admission, tables, activeByProfile, retention,
                 identity, state, reason, resVars, procVars, compVars, threadVars,
                 dreq, emitted>>

\* The deadline passes first; the caller gives up and admission stays closed.
StopAllTimeout(d) ==
  /\ dpc[d] = "late"
  /\ dpc' = [dpc EXCEPT ![d] = "idle"]
  /\ dreq' = [dreq EXCEPT ![d] = NoDrain]
  /\ UNCHANGED <<nextRunSeq, admission, tables, activeByProfile, retention,
                 identity, state, reason, resVars, procVars, compVars, threadVars, emitted>>

\* mutant: the statuses of the old workspace are kept
ClearNothing(d) ==
  /\ dpc[d] = "stopped"
  /\ dpc' = [dpc EXCEPT ![d] = "cleared"]
  /\ UNCHANGED <<nextRunSeq, admission, tables, activeByProfile, retention,
                 identity, state, reason, resVars, procVars, compVars, threadVars,
                 dreq, emitted>>

ClearTerminalStatuses(d) ==
  /\ dpc[d] = "stopped"
  /\ terminalIds' = [p \in Profiles |-> {}]
  /\ lastStatus' = {}
  /\ dpc' = [dpc EXCEPT ![d] = "cleared"]
  /\ UNCHANGED <<nextRunSeq, admission, tables, activeByProfile, identity, state,
                 reason, resVars, procVars, compVars, threadVars, dreq, emitted>>

\* mutant: any epoch ends the drain
EndAnyDrain(d) ==
  /\ dpc[d] = "cleared"
  /\ draining' = FALSE
  /\ rootEpoch' = dreq[d].epoch
  /\ dpc' = [dpc EXCEPT ![d] = "idle"]
  /\ dreq' = [dreq EXCEPT ![d] = NoDrain]
  /\ UNCHANGED <<nextRunSeq, workspaceEpoch, tables, activeByProfile, retention,
                 identity, state, reason, resVars, procVars, compVars, threadVars,
                 emitted>>

\* A load of the root that is open already takes the current epoch (CurrentEpoch)
\* and stops nothing.  profileMu keeps it apart from the loads that switch.
Reload(d) ==
  /\ \A f \in Drainers : dpc[f] = "idle"
  /\ dpc' = [dpc EXCEPT ![d] = "reloading"]
  /\ dreq' = [dreq EXCEPT ![d] = [NoDrain EXCEPT !.epoch = workspaceEpoch]]
  /\ UNCHANGED <<nextRunSeq, admission, tables, activeByProfile, retention,
                 identity, state, reason, resVars, procVars, compVars, threadVars, emitted>>

\* EndDrain refuses a superseded epoch.  It ends a switch, which binds its root
\* first, or a reload, which reopens the gate that a failed switch left closed.
EndDrain(d) ==
  /\ dpc[d] \in {"cleared", "reloading"}
  /\ draining' = (draining /\ dreq[d].epoch # workspaceEpoch)
  /\ rootEpoch' = IF dpc[d] = "cleared" THEN dreq[d].epoch ELSE rootEpoch
  /\ dpc' = [dpc EXCEPT ![d] = "idle"]
  /\ dreq' = [dreq EXCEPT ![d] = NoDrain]
  /\ UNCHANGED <<nextRunSeq, workspaceEpoch, tables, activeByProfile, retention,
                 identity, state, reason, resVars, procVars, compVars, threadVars, emitted>>

\* The workspace's profiles cannot be loaded: admission stays as it is.
LoadFails(d) ==
  /\ dpc[d] \in {"cleared", "reloading"}
  /\ dpc' = [dpc EXCEPT ![d] = "idle"]
  /\ dreq' = [dreq EXCEPT ![d] = NoDrain]
  /\ UNCHANGED <<nextRunSeq, admission, tables, activeByProfile, retention,
                 identity, state, reason, resVars, procVars, compVars, threadVars, emitted>>

-----------------------------------------------------------------------------
(* Specification *)

Call(t) ==
  \/ \E p \in Ordinary : CallStart(t, p) \/ CallRestart(t, p)
  \/ \E p \in Compounds : CallStartCompound(t, p) \/ CallRestartCompound(t, p)
  \/ \E p \in Profiles : CallStop(t, p)
  \/ \E r \in RunId : CallRestartInstance(t, r) \/ CallStopInstance(t, r)

Launch(t) ==
  \/ LaunchRejected(t) \/ ReserveFresh(t) \/ ReserveStep(t)
  \/ Spawn(t) \/ Promote(t) \/ FinishReservation(t) \/ EmitRunning(t)

CallerStep(t) ==
  \/ RestartLookup(t) \/ ReserveReplacement(t) \/ RestartUnprepared(t)
  \/ StopInstance(t) \/ StopSignal(t) \/ StopWait(t)
  \/ CompoundLookup(t) \/ CompoundCancel(t) \/ CompoundSignal(t) \/ CompoundWait(t)
  \/ CompoundRestartCheck(t) \/ CompoundRestartStop(t)
  \/ CompoundRejected(t) \/ StartCompound(t)

Coordinator(c) ==
  \/ CoordStep(c) \/ CoordPublish(c) \/ CoordWait(c)
  \/ CoordRecord(c) \/ CoordFinish(c) \/ CoordClose(c)

Process(r) == WaitProcess(r) \/ FinishWait(r) \/ Escalate(r)

StopAll(d) ==
  \/ StopAllCollect(d) \/ StopAllSignal(d) \/ StopAllHalfway(d)
  \/ StopAllReturns(d) \/ StopAllTimeout(d)

Drained(d) == ClearTerminalStatuses(d) \/ Reload(d) \/ EndDrain(d) \/ LoadFails(d)

Next ==
  \/ \E t \in Callers : Call(t) \/ CallerStep(t)
  \/ \E t \in Threads : Launch(t)
  \/ \E r \in RunId : Coordinator(r) \/ Process(r) \/ Exit(r)
  \/ \E d \in Drainers : BeginDrain(d) \/ StopAll(d) \/ Drained(d)

Spec == Init /\ [][Next]_vars

\* The goroutines that run are scheduled, timers fire, and a process that got
\* SIGKILL ends.  Nobody has to call, and a process may run for ever.
Fairness ==
  /\ \A t \in Callers : WF_vars(CallerStep(t))
  /\ \A t \in Threads : WF_vars(Launch(t))
  /\ \A r \in RunId : WF_vars(Coordinator(r)) /\ WF_vars(Process(r))
                      /\ WF_vars(killed[r] /\ Exit(r))
  /\ \A d \in Drainers : WF_vars(StopAll(d))

FairSpec == Spec /\ Fairness

-----------------------------------------------------------------------------
(* Properties *)

\* Type correctness of the executor's fields, of the run records and of the
\* goroutines' locals.
TablesOK ==
  /\ nextRunSeq \in 0..MaxRuns
  /\ workspaceEpoch \in Epoch
  /\ draining \in BOOLEAN
  /\ rootEpoch \in Epoch
  /\ processes \subseteq RunId
  /\ reservations \subseteq RunId
  /\ compounds \subseteq RunId
  /\ activeByProfile \in [Profiles -> RunId \cup {NoRun}]
  /\ terminalIds \in [Profiles -> SUBSET RunId]
  /\ lastStatus \subseteq RunId

RunsOK ==
  /\ profileOf \in [RunId -> Profiles \cup {NoRun}]
  /\ parentOf \in [RunId -> RunId \cup {NoRun}]
  /\ epochOf \in [RunId -> Epoch]
  /\ state \in [RunId -> RunState]
  /\ reason \in [RunId -> BOOLEAN]
  /\ replaces \in [RunId -> RunId \cup {NoRun}]
  /\ invalid \in [RunId -> BOOLEAN]
  /\ current \in [RunId -> RunId \cup {NoRun}]
  /\ cancelled \in [RunId -> BOOLEAN]
  /\ stepState \in [RunId -> StepState]

ProcessesOK ==
  /\ os \in [RunId -> {"none", "running", "exited"}]
  /\ stopped \in [RunId -> BOOLEAN]
  /\ stopOnce \in [RunId -> BOOLEAN]
  /\ killed \in [RunId -> BOOLEAN]
  /\ waiting \in [RunId -> BOOLEAN]
  /\ done \in [RunId -> BOOLEAN]
  /\ emitted \in [RunId -> {"none", "running", "terminal"}]

ThreadsOK ==
  /\ pc \in [Threads -> PC]
  /\ req \in [Threads -> Request]
  /\ result \in [Threads -> Result]

DrainsOK ==
  /\ dpc \in [Drainers -> DPC]
  /\ dreq \in [Drainers -> Drain]

TypeOK == TablesOK /\ RunsOK /\ ProcessesOK /\ ThreadsOK /\ DrainsOK

\* Strengthening of TypeOK: live runs and planned steps have a profile...
ProfilesKnown ==
  /\ \A r \in processes \cup reservations \cup compounds : profileOf[r] \in Profiles
  /\ \A r \in RunId : parentOf[r] # NoRun => profileOf[r] \in Profiles
  /\ \A c \in RunId : pc[c] # "idle" => profileOf[c] \in Profiles

\* ... and so has every request that will create one.
RequestsKnown ==
  /\ \A t \in Callers :
       /\ pc[t] \in {"reserve", "r-reserve"} => req[t].profile \in Profiles
       /\ pc[t] = "c-start" \/ req[t].again => req[t].profile \in Compounds
  /\ \A c \in RunId : pc[c] = "reserve" => parentOf[req[c].run] # NoRun
  /\ \A t \in Threads :
       pc[t] \in {"reserve", "check", "promote", "c-publish"} /\ t \in RunId =>
         req[t].run \in RunId

TypeInv == TypeOK /\ ProfilesKnown /\ RequestsKnown

\* At most two ordinary instances of a profile are live at once, although
\* capacity is reserved before the spawn, a replacement shares the slot of the
\* run it replaces, and both siblings may be restarted concurrently
\* (reserveProcessCapacityLocked).
CapacityBound ==
  \A p \in Profiles :
    Cardinality({r \in processes : profileOf[r] = p /\ parentOf[r] = NoRun}) <= 2

\* While a compound's step is live, it is the only live process of its profile:
\* neither an ordinary run nor another compound's step runs beside it.
StepExclusive ==
  \A s, r \in processes :
    parentOf[s] # NoRun /\ profileOf[r] = profileOf[s] => r = s

\* activeByProfile names a live run of its profile exactly when there is one,
\* so Stop and GetStatus never act on an ended run or miss a live one.
ActiveIndexSound ==
  \A p \in Profiles :
    IF LiveOf(p) = {} THEN activeByProfile[p] = NoRun
    ELSE activeByProfile[p] \in LiveOf(p)

\* A replacement is never spawned while the run it replaces is still alive,
\* whoever else stops, drains or restarts the same run (RestartAtEpoch).
RestartExclusive ==
  \A r \in RunId :
    replaces[r] # NoRun /\ os[r] # "none" => os[replaces[r]] = "exited"

\* While admission is open, nothing of an earlier workspace is left in the
\* executor: no run, no aggregate, no reservation and no retained status is older
\* than the load that opened the root.  A switch that timed out changes the epoch
\* and not the root: reopened by a reload, the gate stands beside runs and statuses
\* of the epoch before it, which belong to the same root.
WorkspaceIsolation ==
  ~draining =>
    \A r \in processes \cup compounds \cup reservations \cup lastStatus :
      epochOf[r] \in rootEpoch..workspaceEpoch

\* When StopAll answers true inside its own drain, the executor is empty and
\* every spawned process has exited or was sent SIGKILL.
DrainComplete ==
  \A d \in Drainers :
    dpc[d] \in {"stopped", "cleared"} /\ draining /\ dreq[d].epoch = workspaceEpoch =>
      /\ processes \cup compounds \cup reservations = {}
      /\ \A r \in RunId : os[r] = "running" => killed[r]

\* A run that ends during a drain carries the drain's administrative reason:
\* no run slips in after BeginDrainWithReason tagged the live ones.
DrainTagged == draining => \A r \in processes \cup compounds : reason[r]

\* StopAll and the epoch separate the workspaces: inside its own drain StopAll
\* answers true only for an empty executor, the runs it ends say why, and while
\* admission is open nothing of an earlier workspace is left.
DrainClears == DrainComplete /\ WorkspaceIsolation /\ DrainTagged

\* Admission stays closed from BeginDrain to the end of the newest drain: an
\* older drain that finishes late cannot reopen it (EndDrain's epoch check).
DrainOwned ==
  \A d \in Drainers :
    dpc[d] \notin {"idle", "reloading"} /\ dreq[d].epoch = workspaceEpoch => draining

\* Strengthening of DrainOwned: a drain never has an epoch of the future, and
\* no two drains have the same one.
DrainInv ==
  /\ DrainOwned
  /\ workspaceEpoch \in Nat
  /\ \A d \in Drainers : dreq[d].epoch \in 0..workspaceEpoch
  /\ \A d, f \in Drainers :
       d # f /\ dpc[d] # "idle" /\ dpc[f] # "idle" => dreq[d].epoch # dreq[f].epoch

\* lastStatus and the per-profile lists agree, with at most two per profile.
RetentionSound ==
  /\ lastStatus = UNION {terminalIds[p] : p \in Profiles}
  /\ \A p \in Profiles : Cardinality(terminalIds[p]) <= 2

\* What is kept of a profile: two live ordinary instances, the one that Stop and
\* GetStatus find, and the statuses of the two newest that ended.
SlotsSound == CapacityBound /\ ActiveIndexSound /\ RetentionSound

\* An old run that ends late never displaces the status of a newer launch: the
\* newest retained launch of a profile only advances, until a drain clears all.
RetentionForward ==
  [][\A p \in Profiles :
       terminalIds[p] # {} /\ terminalIds'[p] # {} =>
         Newest(terminalIds[p]) <= Newest(terminalIds'[p])]_vars

\* The steps of a compound run one after the other: a step has been spawned only
\* if every earlier one succeeded, and no later one has been touched.
StepsInOrder ==
  \A c \in RunId : \A s, u \in PlanOf(c) :
    s < u /\ os[u] # "none" => stepState[s] = "success" /\ state[s] = "success"

\* An aggregate reports success exactly when all its steps succeeded, failure
\* exactly when one failed, and it never ends with a step pending or running.
AggregateSound ==
  \A c \in RunId :
    PlanOf(c) # {} /\ state[c] \notin {"idle", "running"} =>
      /\ \A s \in PlanOf(c) : stepState[s] \notin {"pending", "running"} /\ s \notin processes
      /\ (state[c] = "success") <=> (\A s \in PlanOf(c) : stepState[s] = "success")
      /\ (state[c] = "failed") <=> (\E s \in PlanOf(c) : stepState[s] = "failed")

\* An aggregate ends as its steps did, which ran one after the other.
CompoundSound == StepsInOrder /\ AggregateSound

\* A run that was asked to stop ends: SIGTERM is escalated by signalStop's
\* watchdog, or by StopAll at half its timeout.
StopEnds == \A r \in RunId : (r \in processes /\ stopped[r]) ~> r \notin processes

\* Every aggregate that a drain finds ends.
DrainEndsCompounds ==
  \A c \in RunId : (draining /\ c \in compounds) ~> c \notin compounds

\* What Stop promises for a compound: once Stop waits for the coordinator, the
\* step the coordinator is running has been told to stop.
StopReachesLeaf ==
  \A t \in Callers :
    pc[t] = "sc-wait" /\ pc[req[t].target] = "c-wait" => stopped[current[req[t].target]]

-----------------------------------------------------------------------------
(* Refinement *)

\* The runs that the executor reports as live, with their epochs.
LiveWithEpoch == {<<r, epochOf[r]>> : r \in processes \cup compounds}

Admission == INSTANCE RunAdmission WITH
  Run <- RunId, LastEpoch <- MaxEpoch, epoch <- workspaceEpoch, live <- LiveWithEpoch

\* The executor implements the gate that the application builds on: a run
\* becomes live only while admission is open and in the epoch its caller
\* resolved, although reservation, spawn and promotion are separate steps, and
\* only the drain of the current epoch reopens the gate.
ImplementsAdmission == Admission!AdmissionSpec

=============================================================================
