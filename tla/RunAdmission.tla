---------------------------- MODULE RunAdmission ----------------------------
(***************************************************************************)
(* What the run executor promises to the application: a workspace epoch, a *)
(* gate, and the live top-level and leaf runs, each with the epoch it was  *)
(* admitted in.  A run becomes live only through an open gate and in the   *)
(* current epoch.  RunExecutor implements it; AppRuns is built on it.      *)
(***************************************************************************)
EXTENDS Naturals

CONSTANTS
  Run,       \* run instances
  LastEpoch  \* bound: workspace epochs

ASSUME AdmissionAssumption == LastEpoch \in Nat

VARIABLES
  epoch,     \* Executor.workspaceEpoch
  draining,  \* Executor.draining
  live       \* the live runs: pairs <<run, epoch>>

admissionVars == <<epoch, draining, live>>

AdmissionInit == epoch = 0 /\ draining = FALSE /\ live = {}

LiveRuns == {x[1] : x \in live}

\* mutant: the gate closes, but the epoch stays
BeginSameEpoch ==
  /\ draining' = TRUE
  /\ UNCHANGED <<epoch, live>>

\* BeginDrainWithReason
Begin ==
  /\ epoch < LastEpoch
  /\ epoch' = epoch + 1
  /\ draining' = TRUE
  /\ UNCHANGED live

\* EndDrain for epoch e; for any other epoch it is refused and changes nothing.
End(e) ==
  /\ draining' = (draining /\ e # epoch)
  /\ UNCHANGED <<epoch, live>>

\* A launch resolved in epoch e makes run r live.
Admit(r, e) ==
  /\ e = epoch /\ ~draining
  /\ r \notin LiveRuns
  /\ live' = live \cup {<<r, e>>}
  /\ UNCHANGED <<epoch, draining>>

\* A run ends.
Retire(x) ==
  /\ live' = live \ {x}
  /\ UNCHANGED <<epoch, draining>>

AdmissionNext ==
  \/ Begin
  \/ \E e \in 0..LastEpoch : End(e)
  \/ \E r \in Run, e \in 0..LastEpoch : Admit(r, e)
  \/ \E x \in live : Retire(x)

AdmissionSpec == AdmissionInit /\ [][AdmissionNext]_admissionVars

=============================================================================
