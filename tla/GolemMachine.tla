---------------------------- MODULE GolemMachine ----------------------------
(***************************************************************************)
(* The Golem window machine of app_golem_window.go: golemWindowRuntime and *)
(* what each critical section of golemWinMu makes of it; GolemWindow       *)
(* interleaves these sections.  A window is named by the instance that     *)
(* created it, a draft map by the handoff it is transferred in, so a       *)
(* transfer id is a handoff.                                               *)
(***************************************************************************)
EXTENDS Naturals

CONSTANTS
  MaxInstance,  \* bound: attempts to open the window
  MaxHandoff    \* bound: transfers, one for each attempt and each re-dock

ASSUME GolemAssumption == MaxInstance \in Nat /\ MaxHandoff \in Nat

Instance == 1..MaxInstance
Handoff  == 1..MaxHandoff

Mode  == {"docked", "undocked"}
Phase == {"closed", "bootstrapping", "bootstrapped", "ready", "closing"}

golemWindowRuntime ==
  [mode : Mode, phase : Phase, instance : 0..MaxInstance, handoff : 0..MaxHandoff,
   instanceSeq : 0..MaxInstance, handoffSeq : 0..MaxHandoff,
   stateRevision : Nat, saveGen : Nat, restorePending : BOOLEAN,
   handle : 0..MaxInstance,         \* 0: nil
   view : BOOLEAN,                  \* a projection was published
   transferID : 0..MaxHandoff, transferAcked : BOOLEAN,
   deadline : 0..MaxHandoff,        \* the handoff of the armed timer, or 0
   saveTimer : 0..MaxInstance,      \* the instance of the armed timer, or 0
   closeAuthorized : BOOLEAN, observing : BOOLEAN, retirementFailed : BOOLEAN]

\* mutant: the phase is Go's zero value until the first attempt
LoadedPhaseless(m) ==
  [mode |-> "docked", phase |-> "", instance |-> 0, handoff |-> 0,
   instanceSeq |-> 0, handoffSeq |-> 0, stateRevision |-> 0, saveGen |-> 0,
   restorePending |-> (m = "undocked"), handle |-> 0, view |-> FALSE,
   transferID |-> 0, transferAcked |-> FALSE, deadline |-> 0, saveTimer |-> 0,
   closeAuthorized |-> FALSE, observing |-> FALSE, retirementFailed |-> FALSE]

\* loadGolemWindowPreference: the file says mode m.
Loaded(m) ==
  [mode |-> "docked", phase |-> "closed", instance |-> 0, handoff |-> 0,
   instanceSeq |-> 0, handoffSeq |-> 0, stateRevision |-> 0, saveGen |-> 0,
   restorePending |-> (m = "undocked"), handle |-> 0, view |-> FALSE,
   transferID |-> 0, transferAcked |-> FALSE, deadline |-> 0, saveTimer |-> 0,
   closeAuthorized |-> FALSE, observing |-> FALSE, retirementFailed |-> FALSE]

Uncommitted(w) == w.phase \in {"bootstrapping", "bootstrapped"}

\* A handoff that Go can still undo.
Open(w) == Uncommitted(w) \/ (w.phase = "closing" /\ ~w.closeAuthorized)

Transition(w) ==
  [w EXCEPT !.stateRevision = @ + 1, !.saveGen = @ + 1]

\* retireLocked
Retire(w) ==
  Transition([w EXCEPT
    !.mode = "docked", !.phase = "closed", !.instance = 0, !.handoff = 0,
    !.handle = 0, !.view = FALSE, !.transferID = 0, !.transferAcked = FALSE,
    !.deadline = 0, !.saveTimer = 0, !.closeAuthorized = FALSE,
    !.observing = FALSE, !.retirementFailed = FALSE])

\* OpenGolemWindow, closed to bootstrapping; nothing is published yet.
CanReserve(w) ==
  w.phase = "closed" /\ w.instanceSeq < MaxInstance /\ w.handoffSeq < MaxHandoff

Reserve(w) ==
  [w EXCEPT
    !.instanceSeq = @ + 1, !.handoffSeq = @ + 1,
    !.instance = w.instanceSeq + 1, !.handoff = w.handoffSeq + 1,
    !.phase = "bootstrapping", !.restorePending = FALSE, !.view = FALSE,
    !.transferID = 0, !.transferAcked = FALSE, !.retirementFailed = FALSE]

\* ... the created window is installed
CanInstall(w, i) == w.instance = i /\ w.phase = "bootstrapping" /\ w.handle = 0

\* mutant: only the re-dock has a deadline
InstallNoDeadline(w, i) == Transition([w EXCEPT !.handle = i])

Install(w, i) == Transition([w EXCEPT !.handle = i, !.deadline = w.handoff])

\* BootstrapGolemWindow
Bootstrap(w) ==
  IF w.phase = "bootstrapping"
  THEN Transition([w EXCEPT !.phase = "bootstrapped"])
  ELSE w

\* acceptGolemDrafts, from main while the window bootstraps and from the
\* satellite while it re-docks
CanRecordDrafts(w, from, i, id) ==
  /\ w.instance = i
  /\ IF from = "main" THEN Uncommitted(w)
                      ELSE w.phase = "closing" /\ w.mode = "undocked"
  /\ w.transferID \in {0, id}

RecordDrafts(w, id) == [w EXCEPT !.transferID = id, !.transferAcked = FALSE]

\* acceptGolemAck of a transfer
CanRecordAck(w, i, id) ==
  w.instance = i /\ w.phase = "closing" /\ w.transferID # 0 /\ w.transferID = id

RecordAck(w, ok) == [w EXCEPT !.transferAcked = ok]

\* acceptGolemReady, the undock commit
CanCommit(w, i, id) ==
  /\ w.instance = i /\ w.phase = "bootstrapped"
  /\ w.view
  /\ w.transferID # 0 /\ w.transferID = id

Commit(w) ==
  Transition([w EXCEPT !.phase = "ready", !.mode = "undocked",
                       !.restorePending = FALSE, !.deadline = 0])

\* requestGolemReDock, ready to closing
CanReDock(w, i) == w.instance = i /\ w.phase = "ready" /\ w.handoffSeq < MaxHandoff

\* mutant: only the bootstrap has a deadline
ReDockNoDeadline(w) ==
  Transition([w EXCEPT
    !.phase = "closing", !.handoffSeq = @ + 1, !.handoff = w.handoffSeq + 1,
    !.transferID = 0, !.transferAcked = FALSE,
    !.saveTimer = 0, !.deadline = 0])

ReDock(w) ==
  Transition([w EXCEPT
    !.phase = "closing", !.handoffSeq = @ + 1, !.handoff = w.handoffSeq + 1,
    !.transferID = 0, !.transferAcked = FALSE,
    !.saveTimer = 0, !.deadline = w.handoffSeq + 1])

\* ... a stalled retirement is observed again
CanObserveAgain(w, i) ==
  /\ w.instance = i /\ w.phase = "closing"
  /\ w.closeAuthorized /\ w.retirementFailed /\ ~w.observing

ObserveAgain(w) ==
  Transition([w EXCEPT !.retirementFailed = FALSE, !.observing = TRUE])

\* mutant: an authorized close may be undone
CanRestoreAuthorized(w, i, h) == w.instance = i /\ w.handoff = h /\ w.phase = "closing"

\* restoreGolemReady
CanRestore(w, i, h) ==
  /\ w.instance = i /\ w.handoff = h
  /\ w.phase = "closing" /\ ~w.closeAuthorized

Restore(w) ==
  Transition([w EXCEPT !.phase = "ready", !.transferID = 0,
                       !.transferAcked = FALSE, !.deadline = 0])

\* mutant: an abort does not check the phase again
CanAuthorizeUnchecked(w, i, h, abort) ==
  /\ w.instance = i /\ w.handoff = h
  /\ ~w.closeAuthorized
  /\ abort \/ (w.phase = "closing" /\ w.transferID # 0 /\ w.transferAcked)

\* authorizeGolemClose, for an aborted attempt or an acknowledged transfer
CanAuthorize(w, i, h, abort) ==
  /\ w.instance = i /\ w.handoff = h
  /\ ~w.closeAuthorized
  /\ IF abort THEN Uncommitted(w)
              ELSE w.phase = "closing" /\ w.transferID # 0 /\ w.transferAcked

Authorize(w) ==
  IF w.handle = 0
  THEN Retire(w)
  ELSE Transition([w EXCEPT
         !.phase = "closing", !.closeAuthorized = TRUE, !.retirementFailed = FALSE,
         !.observing = TRUE, !.deadline = 0, !.saveTimer = 0])

=============================================================================
