-------------------------- MODULE GolemWindowProofs --------------------------
(***************************************************************************)
(* The window of a satellite that owns the drafts is closed only after main *)
(* acknowledged them (CloseEarned), for any number of windows, handoffs and *)
(* calls.  CloseEarned is not inductive: what licenses the close travels    *)
(* from the transfer to the acknowledgement, to the pending confirmation,   *)
(* to the authorization, and each of these steps reads what an earlier one  *)
(* has left behind.                                                         *)
(*                                                                         *)
(* Then what the window leaves behind: the preference in app.json agrees   *)
(* with the committed window once no write is pending (PreferenceSettled), *)
(* and what can still be undone has somebody who will undo it              *)
(* (RetirementSound).                                                      *)
(***************************************************************************)
EXTENDS GolemWindow, FiniteSetTheorems, TLAPS

\* A window that is not committed owns no drafts, only a closing one is authorized
\* to close, and every attempt has a handoff.
Sound(w) ==
  /\ Uncommitted(w) \/ w.phase = "closed" => w.mode = "docked"
  /\ w.closeAuthorized => w.phase = "closing"
  /\ w.phase # "closed" => w.handoff \in Handoff

\* The window of a satellite that owns the drafts may close.
Licensed(w) == w.closeAuthorized /\ w.mode = "undocked"

\* From w to w2 no such licence is granted.
GrantsNothing(w, w2) == Licensed(w2) => Licensed(w) /\ w2.handoff = w.handoff

\* An acknowledgement answers a transfer, in flight and when it was delivered.
AckInv ==
  /\ \A h \in Handoff : <<"ack", h>> \in delivered => <<"final", h>> \in delivered
  /\ \A c \in calls : c.op \in {"ack", "nack"} => <<"final", c.n>> \in delivered

\* Messages in flight name a handoff, and a pending confirmation an acknowledged one.
CallsInv ==
  \A c \in calls :
    /\ c.op \in {"drafts", "final", "ack", "nack", "confirm"} => c.n \in Handoff
    /\ c.op = "confirm" => <<"ack", c.n>> \in delivered

IInv == TypeOK /\ Sound(win) /\ AckInv /\ CallsInv /\ CloseEarned

\* Calls that carry no part of a transfer.
Silent == {c \in [op : Op, instance : 0..MaxInstance, n : 0..MaxHandoff \cup Instance] :
             c.op \notin {"drafts", "final", "ack", "nack", "confirm"}}

-----------------------------------------------------------------------------
(* Every critical section makes a window runtime of a window runtime. *)

LEMMA LoadedType == ASSUME NEW m \in Mode PROVE Loaded(m) \in golemWindowRuntime
BY GolemAssumption DEF Loaded, golemWindowRuntime, Mode, Phase

LEMMA TransitionType ==
  ASSUME NEW w \in golemWindowRuntime PROVE Transition(w) \in golemWindowRuntime
<1> DEFINE r == w.stateRevision + 1
           g == w.saveGen + 1
<1>1. r \in Nat /\ g \in Nat
  BY DEF golemWindowRuntime
<1>2. Transition(w) = [w EXCEPT !.stateRevision = r, !.saveGen = g]
  BY DEF Transition, golemWindowRuntime
<1> HIDE DEF r, g
<1> QED BY <1>1, <1>2 DEF golemWindowRuntime

LEMMA RetireType ==
  ASSUME NEW w \in golemWindowRuntime PROVE Retire(w) \in golemWindowRuntime
<1> DEFINE retired ==
      [w EXCEPT
        !.mode = "docked", !.phase = "closed", !.instance = 0, !.handoff = 0,
        !.handle = 0, !.view = FALSE, !.transferID = 0, !.transferAcked = FALSE,
        !.deadline = 0, !.saveTimer = 0, !.closeAuthorized = FALSE,
        !.observing = FALSE, !.retirementFailed = FALSE]
<1>1. 0 \in 0..MaxInstance /\ 0 \in 0..MaxHandoff
  BY GolemAssumption
<1>2. retired \in golemWindowRuntime
  BY <1>1 DEF golemWindowRuntime, Mode, Phase
<1>3. Retire(w) = Transition(retired)
  BY DEF Retire
<1> HIDE DEF retired
<1> QED BY <1>2, <1>3, TransitionType

LEMMA ReserveType ==
  ASSUME NEW w \in golemWindowRuntime, CanReserve(w)
  PROVE  Reserve(w) \in golemWindowRuntime /\ w.instanceSeq + 1 \in Instance
<1> DEFINE i == w.instanceSeq + 1
           h == w.handoffSeq + 1
<1>1. i \in Instance /\ i \in 0..MaxInstance /\ h \in 0..MaxHandoff /\ 0 \in 0..MaxHandoff
  BY GolemAssumption DEF CanReserve, golemWindowRuntime, Instance
<1>2. Reserve(w) =
        [w EXCEPT
          !.instanceSeq = i, !.handoffSeq = h, !.instance = i, !.handoff = h,
          !.phase = "bootstrapping", !.restorePending = FALSE, !.view = FALSE,
          !.transferID = 0, !.transferAcked = FALSE, !.retirementFailed = FALSE]
  BY DEF Reserve, golemWindowRuntime
<1> HIDE DEF i, h
<1>3. [w EXCEPT
        !.instanceSeq = i, !.handoffSeq = h, !.instance = i, !.handoff = h,
        !.phase = "bootstrapping", !.restorePending = FALSE, !.view = FALSE,
        !.transferID = 0, !.transferAcked = FALSE, !.retirementFailed = FALSE]
          \in golemWindowRuntime
  BY <1>1 DEF golemWindowRuntime, Phase
<1>4. Reserve(w) \in golemWindowRuntime
  BY <1>2, <1>3
<1> QED BY <1>1, <1>4 DEF i

LEMMA InstallType ==
  ASSUME NEW w \in golemWindowRuntime, NEW i \in Instance
  PROVE  Install(w, i) \in golemWindowRuntime
<1>1. i \in 0..MaxInstance
  BY DEF Instance
<1>2. [w EXCEPT !.handle = i, !.deadline = w.handoff] \in golemWindowRuntime
  BY <1>1 DEF golemWindowRuntime
<1> QED BY <1>2, TransitionType DEF Install

LEMMA BootstrapType ==
  ASSUME NEW w \in golemWindowRuntime PROVE Bootstrap(w) \in golemWindowRuntime
<1>1. [w EXCEPT !.phase = "bootstrapped"] \in golemWindowRuntime
  BY DEF golemWindowRuntime, Phase
<1> QED BY <1>1, TransitionType DEF Bootstrap

LEMMA RecordDraftsType ==
  ASSUME NEW w \in golemWindowRuntime, NEW id \in 0..MaxHandoff
  PROVE  RecordDrafts(w, id) \in golemWindowRuntime
BY DEF RecordDrafts, golemWindowRuntime

LEMMA RecordAckType ==
  ASSUME NEW w \in golemWindowRuntime, NEW ok \in BOOLEAN
  PROVE  RecordAck(w, ok) \in golemWindowRuntime
BY DEF RecordAck, golemWindowRuntime

LEMMA CommitType ==
  ASSUME NEW w \in golemWindowRuntime PROVE Commit(w) \in golemWindowRuntime
<1>1. 0 \in 0..MaxHandoff
  BY GolemAssumption
<1>2. [w EXCEPT !.phase = "ready", !.mode = "undocked",
                !.restorePending = FALSE, !.deadline = 0] \in golemWindowRuntime
  BY <1>1 DEF golemWindowRuntime, Mode, Phase
<1> QED BY <1>2, TransitionType DEF Commit

LEMMA ReDockType ==
  ASSUME NEW w \in golemWindowRuntime, w.handoffSeq < MaxHandoff
  PROVE  ReDock(w) \in golemWindowRuntime
<1> DEFINE h == w.handoffSeq + 1
<1>1. h \in 0..MaxHandoff /\ 0 \in 0..MaxHandoff /\ 0 \in 0..MaxInstance
  BY GolemAssumption DEF golemWindowRuntime
<1>2. ReDock(w) =
        Transition([w EXCEPT
          !.phase = "closing", !.handoffSeq = h, !.handoff = h,
          !.transferID = 0, !.transferAcked = FALSE, !.saveTimer = 0, !.deadline = h])
  BY DEF ReDock, golemWindowRuntime
<1> HIDE DEF h
<1>3. [w EXCEPT
        !.phase = "closing", !.handoffSeq = h, !.handoff = h,
        !.transferID = 0, !.transferAcked = FALSE, !.saveTimer = 0, !.deadline = h]
          \in golemWindowRuntime
  BY <1>1 DEF golemWindowRuntime, Phase
<1> QED BY <1>2, <1>3, TransitionType

LEMMA ObserveAgainType ==
  ASSUME NEW w \in golemWindowRuntime PROVE ObserveAgain(w) \in golemWindowRuntime
<1>1. [w EXCEPT !.retirementFailed = FALSE, !.observing = TRUE] \in golemWindowRuntime
  BY DEF golemWindowRuntime
<1> QED BY <1>1, TransitionType DEF ObserveAgain

LEMMA RestoreType ==
  ASSUME NEW w \in golemWindowRuntime PROVE Restore(w) \in golemWindowRuntime
<1>1. 0 \in 0..MaxHandoff
  BY GolemAssumption
<1>2. [w EXCEPT !.phase = "ready", !.transferID = 0, !.transferAcked = FALSE,
                !.deadline = 0] \in golemWindowRuntime
  BY <1>1 DEF golemWindowRuntime, Phase
<1> QED BY <1>2, TransitionType DEF Restore

LEMMA AuthorizeType ==
  ASSUME NEW w \in golemWindowRuntime PROVE Authorize(w) \in golemWindowRuntime
<1>1. 0 \in 0..MaxHandoff /\ 0 \in 0..MaxInstance
  BY GolemAssumption
<1>2. [w EXCEPT
        !.phase = "closing", !.closeAuthorized = TRUE, !.retirementFailed = FALSE,
        !.observing = TRUE, !.deadline = 0, !.saveTimer = 0] \in golemWindowRuntime
  BY <1>1 DEF golemWindowRuntime, Phase
<1> QED BY <1>2, RetireType, TransitionType DEF Authorize

-----------------------------------------------------------------------------
(* Every critical section but the authorization keeps the window sound and  *)
(* grants no licence.                                                       *)

LEMMA RetireSound ==
  ASSUME NEW w \in golemWindowRuntime
  PROVE  Sound(Retire(w)) /\ GrantsNothing(w, Retire(w))
BY DEF Sound, GrantsNothing, Licensed, Uncommitted, Retire, Transition, golemWindowRuntime

LEMMA ReserveSound ==
  ASSUME NEW w \in golemWindowRuntime, Sound(w), CanReserve(w)
  PROVE  Sound(Reserve(w)) /\ GrantsNothing(w, Reserve(w))
<1>1. w.handoffSeq + 1 \in Handoff
  BY GolemAssumption DEF CanReserve, golemWindowRuntime, Handoff
<1>2. /\ Reserve(w).phase = "bootstrapping" /\ Reserve(w).mode = w.mode
      /\ Reserve(w).closeAuthorized = w.closeAuthorized
      /\ Reserve(w).handoff = w.handoffSeq + 1
  BY DEF Reserve, golemWindowRuntime
<1> QED BY <1>1, <1>2 DEF Sound, GrantsNothing, Licensed, Uncommitted, CanReserve

LEMMA StepSound ==
  ASSUME NEW w \in golemWindowRuntime, Sound(w), NEW w2,
         \/ \E i \in Instance : CanInstall(w, i) /\ w2 = Install(w, i)
         \/ w2 = Bootstrap(w)
         \/ \E id : w2 = RecordDrafts(w, id)
         \/ \E ok : w2 = RecordAck(w, ok)
         \/ w.phase = "bootstrapped" /\ w2 = Commit(w)
         \/ w.phase = "closing" /\ w2 = ObserveAgain(w)
         \/ w.phase = "closing" /\ ~w.closeAuthorized /\ w2 = Restore(w)
  PROVE  Sound(w2) /\ GrantsNothing(w, w2)
<1> USE DEF Sound, GrantsNothing, Licensed, Uncommitted
<1>1. ASSUME NEW i \in Instance, CanInstall(w, i), w2 = Install(w, i)
      PROVE  Sound(w2) /\ GrantsNothing(w, w2)
  BY <1>1 DEF CanInstall, Install, Transition, golemWindowRuntime
<1>2. CASE w2 = Bootstrap(w)
  BY <1>2 DEF Bootstrap, Transition, golemWindowRuntime
<1>3. ASSUME NEW id, w2 = RecordDrafts(w, id)
      PROVE  Sound(w2) /\ GrantsNothing(w, w2)
  BY <1>3 DEF RecordDrafts, golemWindowRuntime
<1>4. ASSUME NEW ok, w2 = RecordAck(w, ok)
      PROVE  Sound(w2) /\ GrantsNothing(w, w2)
  BY <1>4 DEF RecordAck, golemWindowRuntime
<1>5. CASE w.phase = "bootstrapped" /\ w2 = Commit(w)
  BY <1>5 DEF Commit, Transition, golemWindowRuntime
<1>6. CASE w.phase = "closing" /\ w2 = ObserveAgain(w)
  BY <1>6 DEF ObserveAgain, Transition, golemWindowRuntime
<1>7. CASE w.phase = "closing" /\ ~w.closeAuthorized /\ w2 = Restore(w)
  BY <1>7 DEF Restore, Transition, golemWindowRuntime
<1> QED BY <1>1, <1>2, <1>3, <1>4, <1>5, <1>6, <1>7

LEMMA ReDockSound ==
  ASSUME NEW w \in golemWindowRuntime, Sound(w), NEW i, CanReDock(w, i)
  PROVE  Sound(ReDock(w)) /\ GrantsNothing(w, ReDock(w))
<1>1. w.handoffSeq + 1 \in Handoff
  BY GolemAssumption DEF CanReDock, golemWindowRuntime, Handoff
<1>2. /\ ReDock(w).phase = "closing" /\ ReDock(w).mode = w.mode
      /\ ReDock(w).closeAuthorized = w.closeAuthorized
      /\ ReDock(w).handoff = w.handoffSeq + 1
  BY DEF ReDock, Transition, golemWindowRuntime
<1> QED BY <1>1, <1>2 DEF Sound, GrantsNothing, Licensed, Uncommitted, CanReDock

\* Fields that no licence depends on.
LEMMA MarkSound ==
  ASSUME NEW w \in golemWindowRuntime, Sound(w), NEW w2,
         w2.phase = w.phase, w2.mode = w.mode, w2.handoff = w.handoff,
         w2.closeAuthorized = w.closeAuthorized
  PROVE  Sound(w2) /\ GrantsNothing(w, w2)
BY DEF Sound, GrantsNothing, Licensed, Uncommitted

LEMMA AuthorizeSound ==
  ASSUME NEW w \in golemWindowRuntime, Sound(w),
         NEW i, NEW h, NEW abort \in BOOLEAN, CanAuthorize(w, i, h, abort)
  PROVE  /\ Sound(Authorize(w))
         /\ Licensed(Authorize(w)) => ~abort /\ h = w.handoff /\ Authorize(w).handoff = h
<1>1. CASE w.handle = 0
  BY <1>1, RetireSound DEF Authorize, GrantsNothing, Licensed, CanAuthorize
<1>2. CASE w.handle # 0
  <2>1. /\ Authorize(w).phase = "closing" /\ Authorize(w).mode = w.mode
        /\ Authorize(w).handoff = w.handoff
    BY <1>2 DEF Authorize, Transition, golemWindowRuntime
  <2>2. w.phase # "closed" /\ w.handoff = h /\ (abort => Uncommitted(w))
    BY DEF CanAuthorize, Uncommitted
  <2> QED BY <2>1, <2>2 DEF Sound, Licensed, Uncommitted
<1> QED BY <1>1, <1>2

-----------------------------------------------------------------------------
(* The invariant is kept by any step that grants no licence without an       *)
(* acknowledgement, and adds no call or message that is not warranted.        *)

\* A call that may be in flight.
Warranted(c) ==
  \/ c \in Silent
  \/ c.op \in {"drafts", "final"} /\ c.n \in Handoff
  \/ c.op \in {"ack", "nack"} /\ c.n \in Handoff /\ <<"final", c.n>> \in delivered
  \/ c.op = "confirm" /\ c.n \in Handoff /\ <<"ack", c.n>> \in delivered

LEMMA Step ==
  ASSUME IInv, TypeOK', Sound(win'),
         delivered \subseteq delivered',
         \A h : <<"ack", h>> \in delivered' =>
                  <<"ack", h>> \in delivered \/ <<"final", h>> \in delivered,
         \A c \in calls' : c \in calls \/ Warranted(c),
         Licensed(win') =>
           \/ Licensed(win) /\ win'.handoff = win.handoff
           \/ <<"ack", win'.handoff>> \in delivered
  PROVE  IInv'
<1> USE DEF IInv
<1>1. Sound(win)'
  OBVIOUS
<1>2. AckInv'
  BY DEF AckInv, CallsInv, Warranted, Silent
<1>3. CallsInv'
  BY DEF CallsInv, Warranted, Silent
<1>4. CloseEarned'
  <2>1. Licensed(win') => win'.handoff \in Handoff
    BY DEF Licensed, Sound
  <2>2. Licensed(win) => <<"ack", win.handoff>> \in delivered /\ <<"final", win.handoff>> \in delivered
    BY DEF Licensed, CloseEarned
  <2> QED BY <2>1, <2>2 DEF CloseEarned, Licensed, AckInv
<1> QED BY <1>1, <1>2, <1>3, <1>4

\* The calls that a step adds are all silent ones.
LEMMA SilentStep ==
  ASSUME IInv, TypeOK', Sound(win'), GrantsNothing(win, win'),
         delivered' = delivered, calls' \subseteq calls \cup Silent
  PROVE  IInv'
<1>1. \A c \in calls' : c \in calls \/ Warranted(c)
  BY DEF Warranted
<1> QED BY <1>1, Step DEF GrantsNothing

LEMMA SilentCall ==
  ASSUME NEW op \in {"open", "view", "ready", "abort", "redock", "capture", "timeout",
                     "restore", "abandon", "close", "observe", "removed", "stalled",
                     "quitting", "shutdown", "quitsave"},
         NEW i \in 0..MaxInstance, NEW n \in 0..MaxHandoff \cup Instance
  PROVE  Call(op, i, n) \in Silent
BY DEF Call, Silent, Op, Requests

LEMMA TypedCalls ==
  TypeOK => calls \subseteq [op : Op, instance : 0..MaxInstance, n : 0..MaxHandoff \cup Instance]
BY DEF TypeOK

\* Nothing but the native windows, the save queue and silent calls changes.
LEMMA OuterStep ==
  ASSUME IInv, win' = win, delivered' = delivered,
         calls' \subseteq calls \cup Silent,
         windows' \in [Instance -> {"none", "made", "added", "running", "closing", "gone"}],
         hooked' \subseteq Instance,
         opener' \in [Instance -> {"none", "create", "install", "add", "run", "check", "done"}],
         quit' \in BOOLEAN,
         saves' \subseteq [gen : Nat, mode : Mode], savedGen' \in Nat,
         saveError' \in BOOLEAN, disk' \in Mode
  PROVE  IInv'
<1>1. TypeOK'
  BY DEF IInv, TypeOK, Silent
<1>2. Sound(win') /\ GrantsNothing(win, win')
  BY DEF IInv, GrantsNothing
<1> QED BY <1>1, <1>2, SilentStep

\* The same for a critical section that makes w of the window.
LEMMA WinStep ==
  ASSUME IInv, NEW w \in golemWindowRuntime, win' = w,
         Sound(w), GrantsNothing(win, w), delivered' = delivered,
         calls' \subseteq calls \cup Silent,
         windows' \in [Instance -> {"none", "made", "added", "running", "closing", "gone"}],
         hooked' \subseteq Instance,
         opener' \in [Instance -> {"none", "create", "install", "add", "run", "check", "done"}],
         quit' \in BOOLEAN,
         saves' \subseteq [gen : Nat, mode : Mode], savedGen' \in Nat,
         saveError' \in BOOLEAN, disk' \in Mode
  PROVE  IInv'
<1>1. TypeOK'
  BY DEF IInv, TypeOK, Silent
<1> QED BY <1>1, SilentStep

LEMMA InitInv == Init => IInv
<1> SUFFICES ASSUME Init PROVE IInv
  OBVIOUS
<1>1. win \in golemWindowRuntime
  BY LoadedType DEF Init
<1>2. TypeOK
  BY <1>1 DEF TypeOK, Init, Instance
<1>3. Sound(win) /\ CloseEarned
  BY DEF Init, Loaded, Sound, CloseEarned, Uncommitted
<1>4. AckInv /\ CallsInv
  BY DEF Init, AckInv, CallsInv
<1> QED BY <1>2, <1>3, <1>4 DEF IInv

-----------------------------------------------------------------------------
(* The actions *)

\* Steps of an OpenGolemWindow.
LEMMA OpenerStep ==
  ASSUME IInv, NEW i \in Instance, Opener(i)
  PROVE  IInv'
<1> USE DEF IInv, nativeVars, diskVars
<1>1. CASE CreateGolemWindow(i)
  BY <1>1, OuterStep DEF CreateGolemWindow, TypeOK
<1>2. CASE AbandonGolemOpen(i)
  <2>1. Retire(win) \in golemWindowRuntime /\ Sound(Retire(win)) /\ GrantsNothing(win, Retire(win))
    BY RetireType, RetireSound DEF TypeOK
  <2>2. CASE CanInstall(win, i)
    BY <1>2, <2>1, <2>2, WinStep DEF AbandonGolemOpen, TypeOK
  <2>3. CASE ~CanInstall(win, i)
    BY <1>2, <2>3, OuterStep DEF AbandonGolemOpen, TypeOK
  <2> QED BY <2>2, <2>3
<1>3. CASE InstallGolemWindow(i)
  <2>1. CASE CanInstall(win, i)
    <3>1. Install(win, i) \in golemWindowRuntime
      BY InstallType DEF TypeOK
    <3>2. Sound(Install(win, i)) /\ GrantsNothing(win, Install(win, i))
      BY <2>1, StepSound DEF TypeOK
    <3> QED BY <1>3, <2>1, <3>1, <3>2, WinStep DEF InstallGolemWindow, TypeOK
  <2>2. CASE ~CanInstall(win, i)
    BY <1>3, <2>2, OuterStep DEF InstallGolemWindow, TypeOK
  <2> QED BY <2>1, <2>2
<1>4. CASE AddWindow(i)
  BY <1>4, OuterStep DEF AddWindow, TypeOK
<1>5. CASE RunWindow(i)
  BY <1>5, OuterStep DEF RunWindow, TypeOK
<1>6. CASE CheckGolemWindow(i)
  BY <1>6, OuterStep DEF CheckGolemWindow, TypeOK
<1> QED BY <1>1, <1>2, <1>3, <1>4, <1>5, <1>6 DEF Opener

\* What a window or the platform may do.
LEMMA WindowStep ==
  ASSUME IInv, NEW i \in Instance,
         UserCloses(i) \/ ScheduleGolemBoundsSave(i) \/ CloseDispatched(i)
  PROVE  IInv'
<1> USE DEF IInv, nativeVars, diskVars
<1>1. i \in 0..MaxInstance /\ 0 \in 0..MaxHandoff
  BY GolemAssumption DEF Instance
<1>2. CASE UserCloses(i)
  BY <1>2, OuterStep DEF UserCloses, TypeOK
<1>3. CASE ScheduleGolemBoundsSave(i)
  <2> DEFINE w == [win EXCEPT !.saveTimer = i]
  <2>1. w \in golemWindowRuntime
    BY <1>1 DEF TypeOK, golemWindowRuntime
  <2>2. Sound(w) /\ GrantsNothing(win, w)
    BY MarkSound DEF TypeOK, golemWindowRuntime
  <2>3. win' = w
    BY <1>3 DEF ScheduleGolemBoundsSave
  <2> HIDE DEF w
  <2> QED BY <1>3, <2>1, <2>2, <2>3, WinStep DEF ScheduleGolemBoundsSave, TypeOK
<1>4. CASE CloseDispatched(i)
  <2>1. Call("redock", i, 0) \in Silent /\ Call("quitsave", i, i) \in Silent
    BY <1>1, SilentCall
  <2>2. calls' \subseteq calls \cup Silent
    BY <1>4, <2>1 DEF CloseDispatched
  <2>3. windows' \in [Instance -> {"none", "made", "added", "running", "closing", "gone"}]
    BY <1>4 DEF CloseDispatched, TypeOK
  <2> QED BY <1>4, <2>2, <2>3, OuterStep DEF CloseDispatched, TypeOK
<1> QED BY <1>2, <1>3, <1>4

LEMMA TimerStep ==
  ASSUME IInv, Timers PROVE IInv'
<1> USE DEF IInv, nativeVars, diskVars
<1>1. 0 \in 0..MaxInstance /\ 0 \in 0..MaxHandoff
  BY GolemAssumption
<1>2. CASE SaveTimerFires
  <2> DEFINE w == [win EXCEPT !.saveTimer = 0]
  <2>1. w \in golemWindowRuntime
    BY <1>1 DEF TypeOK, golemWindowRuntime
  <2>2. Sound(w) /\ GrantsNothing(win, w)
    BY MarkSound DEF TypeOK, golemWindowRuntime
  <2>3. Call("capture", win.saveTimer, 0) \in Silent
    BY <1>1, SilentCall DEF TypeOK, golemWindowRuntime
  <2>4. win' = w /\ calls' \subseteq calls \cup Silent
    BY <1>2, <2>3 DEF SaveTimerFires
  <2> HIDE DEF w
  <2> QED BY <1>2, <2>1, <2>2, <2>4, WinStep DEF SaveTimerFires, TypeOK
<1>3. CASE DeadlineFires
  <2> DEFINE w == [win EXCEPT !.deadline = 0]
  <2>1. w \in golemWindowRuntime
    BY <1>1 DEF TypeOK, golemWindowRuntime
  <2>2. Sound(w) /\ GrantsNothing(win, w)
    BY MarkSound DEF TypeOK, golemWindowRuntime
  <2>3. Call("timeout", win.instance, win.deadline) \in Silent
    BY SilentCall DEF TypeOK, golemWindowRuntime
  <2>4. win' = w /\ calls' \subseteq calls \cup Silent
    BY <1>3, <2>3 DEF DeadlineFires
  <2> HIDE DEF w
  <2> QED BY <1>3, <2>1, <2>2, <2>4, WinStep DEF DeadlineFires, TypeOK
<1> QED BY <1>2, <1>3 DEF Timers

\* A window makes a call.
LEMMA RequestStep ==
  ASSUME IInv, NEW op \in Requests, NEW i \in 0..MaxInstance, NEW h \in 0..MaxHandoff,
         calls' = calls \cup {Call(op, i, h)}, Warranted(Call(op, i, h)),
         UNCHANGED <<win, nativeVars, delivered, quit, saves, diskVars>>
  PROVE  IInv'
<1> USE DEF IInv, nativeVars, diskVars
<1>1. Call(op, i, h) \in [op : Op, instance : 0..MaxInstance, n : 0..MaxHandoff \cup Instance]
  BY DEF Call, Op
<1>2. TypeOK'
  BY <1>1 DEF TypeOK
<1> QED BY <1>2, Step

LEMMA PostStep ==
  ASSUME IInv, NEW op \in Requests, Post(op),
         \/ op \in {"view", "ready", "abort", "drafts", "final"}
         \/ op \in {"ack", "nack"} /\ <<"final", win.handoff>> \in delivered
  PROVE  IInv'
<1>1. win.instance \in 0..MaxInstance /\ win.handoff \in 0..MaxHandoff
  BY DEF IInv, TypeOK, golemWindowRuntime
<1>2. win.handoff \in Handoff
  BY DEF Post, IInv, Sound
<1>3. Warranted(Call(op, win.instance, win.handoff))
  <2>1. CASE op \in {"view", "ready", "abort"}
    BY <1>1, <2>1, SilentCall DEF Warranted
  <2>2. CASE op \notin {"view", "ready", "abort"}
    BY <1>2, <2>2 DEF Warranted, Call
  <2> QED BY <2>1, <2>2
<1> QED BY <1>1, <1>3, RequestStep DEF Post

LEMMA PageStep ==
  ASSUME IInv,
         \/ OpenGolemWindow \/ BootstrapGolemWindow \/ CloseGolemWindow
         \/ \E h \in Handoff : ConfirmGolemWindowClose(h)
         \/ PostView \/ PostMainDrafts \/ PostReady \/ PostFinalDrafts \/ PostAck \/ PostAbort
  PROVE  IInv'
<1>1. CASE OpenGolemWindow
  <2>1. 0 \in 0..MaxInstance /\ 0 \in 0..MaxHandoff
    BY GolemAssumption
  <2>2. Warranted(Call("open", 0, 0))
    BY <2>1, SilentCall DEF Warranted
  <2> QED BY <1>1, <2>1, <2>2, RequestStep DEF OpenGolemWindow, Requests
<1>2. CASE BootstrapGolemWindow
  <2>1. Bootstrap(win) \in golemWindowRuntime
    BY BootstrapType DEF IInv, TypeOK
  <2>2. Sound(Bootstrap(win)) /\ GrantsNothing(win, Bootstrap(win))
    BY StepSound DEF IInv, TypeOK
  <2> QED BY <1>2, <2>1, <2>2, WinStep
          DEF BootstrapGolemWindow, IInv, TypeOK, nativeVars, diskVars
<1>3. CASE CloseGolemWindow
  <2>1. win.instance \in 0..MaxInstance /\ 0 \in 0..MaxHandoff
    BY GolemAssumption DEF IInv, TypeOK, golemWindowRuntime
  <2>2. Warranted(Call("redock", win.instance, 0))
    BY <2>1, SilentCall DEF Warranted
  <2> QED BY <1>3, <2>1, <2>2, RequestStep DEF CloseGolemWindow, Requests
<1>4. ASSUME NEW h \in Handoff, ConfirmGolemWindowClose(h) PROVE IInv'
  <2>1. win.instance \in 0..MaxInstance /\ h \in 0..MaxHandoff
    BY DEF IInv, TypeOK, golemWindowRuntime, Handoff
  <2>2. Warranted(Call("confirm", win.instance, h))
    BY <1>4 DEF ConfirmGolemWindowClose, Warranted, Call
  <2> QED BY <1>4, <2>1, <2>2, RequestStep DEF ConfirmGolemWindowClose, Requests
<1>5. CASE PostView
  BY <1>5, PostStep DEF PostView, Requests
<1>6. CASE PostMainDrafts
  BY <1>6, PostStep DEF PostMainDrafts, Requests
<1>7. CASE PostReady
  BY <1>7, PostStep DEF PostReady, Requests
<1>8. CASE PostFinalDrafts
  BY <1>8, PostStep DEF PostFinalDrafts, Requests
<1>9. CASE PostAck
  BY <1>9, PostStep DEF PostAck, Requests
<1>10. CASE PostAbort
  BY <1>10, PostStep DEF PostAbort, Requests
<1> QED BY <1>1, <1>2, <1>3, <1>4, <1>5, <1>6, <1>7, <1>8, <1>9, <1>10

\* A draft map or an answer is accepted and reaches the other window.
LEMMA AcceptStep ==
  ASSUME IInv, NEW c \in calls, NEW ok \in BOOLEAN, NEW w \in golemWindowRuntime,
         Sound(w), GrantsNothing(win, w), NEW message, Accept(c, ok, w, message),
         message \subseteq {"drafts", "final", "ack"} \X Handoff,
         \A h : <<"ack", h>> \in message => <<"final", h>> \in delivered
  PROVE  IInv'
<1> USE DEF IInv, nativeVars, diskVars
<1>1. win' \in golemWindowRuntime /\ Sound(win') /\ GrantsNothing(win, win')
  BY DEF Accept, TypeOK, GrantsNothing
<1>2. /\ calls' \subseteq calls
      /\ delivered' \subseteq delivered \cup message /\ delivered \subseteq delivered'
  BY DEF Accept, Finish
<1>3. TypeOK'
  BY <1>1, <1>2 DEF TypeOK, Accept
<1> QED BY <1>1, <1>2, <1>3, Step DEF GrantsNothing

LEMMA MessageStep ==
  ASSUME IInv, NEW c \in calls,
         AcceptGolemView(c) \/ AcceptGolemDrafts(c) \/ AcceptGolemAck(c)
  PROVE  IInv'
<1>1. win \in golemWindowRuntime /\ Sound(win)
  BY DEF IInv, TypeOK
<1>2. CASE AcceptGolemView(c)
  <2> DEFINE w == [win EXCEPT !.view = TRUE]
  <2>1. w \in golemWindowRuntime
    BY <1>1 DEF golemWindowRuntime
  <2>2. Sound(w) /\ GrantsNothing(win, w)
    BY <1>1, MarkSound DEF golemWindowRuntime
  <2>3. Accept(c, win.instance = c.instance, w, {})
    BY <1>2 DEF AcceptGolemView
  <2> HIDE DEF w
  <2> QED BY <2>1, <2>2, <2>3, AcceptStep
<1>3. CASE AcceptGolemDrafts(c)
  <2> DEFINE w == RecordDrafts(win, c.n)
             ok == CanRecordDrafts(win, IF c.op = "drafts" THEN "main" ELSE "satellite",
                                   c.instance, c.n)
  <2>1. c.n \in Handoff
    BY <1>3 DEF AcceptGolemDrafts, IInv, CallsInv
  <2>2. w \in golemWindowRuntime
    <3>1. c.n \in 0..MaxHandoff
      BY <2>1 DEF Handoff
    <3> QED BY <1>1, <3>1, RecordDraftsType
  <2>3. Sound(w) /\ GrantsNothing(win, w)
    BY <1>1, StepSound
  <2>4. Accept(c, ok, w, {<<c.op, c.n>>}) /\ c.op \in {"drafts", "final"}
    BY <1>3 DEF AcceptGolemDrafts
  <2>5. ok \in BOOLEAN
    BY DEF CanRecordDrafts
  <2> HIDE DEF w, ok
  <2> QED BY <2>1, <2>2, <2>3, <2>4, <2>5, AcceptStep
<1>4. CASE AcceptGolemAck(c)
  <2> DEFINE w == RecordAck(win, c.op = "ack")
             ok == CanRecordAck(win, c.instance, c.n)
             message == IF c.op = "ack" THEN {<<"ack", c.n>>} ELSE {}
  <2>1. c.n \in Handoff /\ <<"final", c.n>> \in delivered
    BY <1>4 DEF AcceptGolemAck, IInv, CallsInv, AckInv
  <2>2. w \in golemWindowRuntime
    BY <1>1, RecordAckType
  <2>3. Sound(w) /\ GrantsNothing(win, w)
    BY <1>1, StepSound
  <2>4. Accept(c, ok, w, message)
    BY <1>4 DEF AcceptGolemAck
  <2>5. ok \in BOOLEAN
    BY DEF CanRecordAck
  <2>6. /\ message \subseteq {"drafts", "final", "ack"} \X Handoff
        /\ \A h : <<"ack", h>> \in message => <<"final", h>> \in delivered
    BY <2>1
  <2> HIDE DEF w, ok, message
  <2> QED BY <2>2, <2>3, <2>4, <2>5, <2>6, AcceptStep
<1> QED BY <1>2, <1>3, <1>4

\* A preference on its way to the file.
LEMMA SaveType ==
  ASSUME TypeOK, NEW w \in golemWindowRuntime, NEW m \in Mode, Save(w, m)
  PROVE  saves' \subseteq [gen : Nat, mode : Mode]
<1>1. w.saveGen \in Nat
  BY DEF golemWindowRuntime
<1> QED BY <1>1 DEF Save, TypeOK

\* The timers' goroutines and the requests to end a handoff.
LEMMA UndoCalls ==
  ASSUME IInv, NEW c \in calls PROVE Undo(c) \subseteq Silent
<1>1. c.instance \in 0..MaxInstance /\ c.n \in 0..MaxHandoff \cup Instance
  BY DEF IInv, TypeOK
<1>2. Call("abandon", c.instance, c.n) \in Silent /\ Call("restore", c.instance, c.n) \in Silent
  BY <1>1, SilentCall
<1> QED BY <1>2 DEF Undo

LEMMA TransitionStep ==
  ASSUME IInv, NEW c \in calls,
         \/ ReserveGolemWindow(c) \/ CaptureGolemFrame(c) \/ GolemTransitionTimeout(c)
         \/ RestoreGolemReady(c) \/ AcceptGolemAbort(c) \/ AcceptGolemReady(c)
         \/ RequestGolemReDock(c)
  PROVE  IInv'
<1> USE DEF IInv, nativeVars, diskVars, Finish
<1>1. win \in golemWindowRuntime /\ Sound(win)
  BY DEF TypeOK
<1>2. c.instance \in 0..MaxInstance /\ win.handoff \in 0..MaxHandoff
  BY DEF TypeOK, golemWindowRuntime
<1>3. CASE ReserveGolemWindow(c)
  <2>1. CASE CanReserve(win)
    <3>1. Reserve(win) \in golemWindowRuntime
      BY <1>1, <2>1, ReserveType
    <3>2. Sound(Reserve(win)) /\ GrantsNothing(win, Reserve(win))
      BY <1>1, <2>1, ReserveSound
    <3> QED BY <1>3, <2>1, <3>1, <3>2, WinStep DEF ReserveGolemWindow, TypeOK
  <2>2. CASE ~CanReserve(win)
    BY <1>3, <2>2, OuterStep DEF ReserveGolemWindow, TypeOK
  <2> QED BY <2>1, <2>2
<1>4. CASE CaptureGolemFrame(c)
  <2>1. CASE win.instance = c.instance /\ ~Uncommitted(win)
    <3> DEFINE g == win.saveGen + 1
               w == [win EXCEPT !.saveGen = g]
    <3>1. g \in Nat
      BY <1>1 DEF golemWindowRuntime
    <3>2. win' = w
      BY <1>4, <2>1 DEF CaptureGolemFrame
    <3> HIDE DEF g
    <3>3. w \in golemWindowRuntime
      BY <1>1, <3>1 DEF golemWindowRuntime
    <3>4. Sound(w) /\ GrantsNothing(win, w)
      BY <1>1, MarkSound DEF golemWindowRuntime
    <3> HIDE DEF w
    <3>5. Save(w, win.mode) /\ win.mode \in Mode
      BY <1>1, <1>4, <2>1, <3>2 DEF CaptureGolemFrame, golemWindowRuntime
    <3>6. saves' \subseteq [gen : Nat, mode : Mode]
      BY <3>3, <3>5, SaveType
    <3> QED BY <1>4, <3>2, <3>3, <3>4, <3>6, WinStep DEF CaptureGolemFrame, TypeOK
  <2>2. CASE ~(win.instance = c.instance /\ ~Uncommitted(win))
    BY <1>4, <2>2, OuterStep DEF CaptureGolemFrame, TypeOK
  <2> QED BY <2>1, <2>2
<1>5. CASE GolemTransitionTimeout(c)
  BY <1>5, UndoCalls, OuterStep DEF GolemTransitionTimeout, TypeOK
<1>6. CASE RestoreGolemReady(c)
  <2>1. CASE CanRestore(win, c.instance, c.n)
    <3>1. Restore(win) \in golemWindowRuntime
      BY <1>1, RestoreType
    <3>2. Sound(Restore(win)) /\ GrantsNothing(win, Restore(win))
      BY <1>1, <2>1, StepSound DEF CanRestore
    <3> QED BY <1>6, <2>1, <3>1, <3>2, WinStep DEF RestoreGolemReady, TypeOK
  <2>2. CASE ~CanRestore(win, c.instance, c.n)
    BY <1>6, <2>2, OuterStep DEF RestoreGolemReady, TypeOK
  <2> QED BY <2>1, <2>2
<1>7. CASE AcceptGolemAbort(c)
  BY <1>7, UndoCalls, OuterStep DEF AcceptGolemAbort, TypeOK
<1>8. CASE AcceptGolemReady(c)
  <2>1. CASE CanCommit(win, c.instance, c.n)
    <3>1. Commit(win) \in golemWindowRuntime
      BY <1>1, CommitType
    <3>2. Sound(Commit(win)) /\ GrantsNothing(win, Commit(win))
      BY <1>1, <2>1, StepSound DEF CanCommit
    <3>3. saves' \subseteq [gen : Nat, mode : Mode]
      BY <1>8, <2>1, <3>1, SaveType DEF AcceptGolemReady, Mode
    <3> QED BY <1>8, <2>1, <3>1, <3>2, <3>3, WinStep DEF AcceptGolemReady, TypeOK
  <2>2. CASE ~CanCommit(win, c.instance, c.n)
    BY <1>8, <2>2, OuterStep DEF AcceptGolemReady, TypeOK
  <2> QED BY <2>1, <2>2
<1>9. CASE RequestGolemReDock(c)
  <2>1. CASE CanReDock(win, c.instance) /\ win' = ReDock(win) /\ Finish(c, {})
    <3>1. ReDock(win) \in golemWindowRuntime
      BY <1>1, <2>1, ReDockType DEF CanReDock
    <3>2. Sound(ReDock(win)) /\ GrantsNothing(win, ReDock(win))
      BY <1>1, <2>1, ReDockSound
    <3> QED BY <1>9, <2>1, <3>1, <3>2, WinStep DEF RequestGolemReDock, TypeOK
  <2>2. CASE /\ CanObserveAgain(win, c.instance) /\ win' = ObserveAgain(win)
             /\ Finish(c, {Call("observe", c.instance, win.handoff)})
    <3>1. ObserveAgain(win) \in golemWindowRuntime
      BY <1>1, ObserveAgainType
    <3>2. Sound(ObserveAgain(win)) /\ GrantsNothing(win, ObserveAgain(win))
      BY <1>1, <2>2, StepSound DEF CanObserveAgain
    <3>3. calls' \subseteq calls \cup Silent
      BY <1>2, <2>2, SilentCall
    <3> QED BY <1>9, <2>2, <3>1, <3>2, <3>3, WinStep DEF RequestGolemReDock, TypeOK
  <2>3. CASE UNCHANGED win /\ Finish(c, {Call("abandon", c.instance, win.handoff)})
    <3>1. calls' \subseteq calls \cup Silent
      BY <1>2, <2>3, SilentCall
    <3> QED BY <1>9, <2>3, <3>1, OuterStep DEF RequestGolemReDock, TypeOK
  <2>4. CASE UNCHANGED win /\ Finish(c, {})
    BY <1>9, <2>4, OuterStep DEF RequestGolemReDock, TypeOK
  <2> QED BY <1>9, <2>1, <2>2, <2>3, <2>4 DEF RequestGolemReDock
<1> QED BY <1>3, <1>4, <1>5, <1>6, <1>7, <1>8, <1>9

\* The only step that grants a licence: the confirmation that it acts on is one
\* of an acknowledged handoff, and authorizeGolemClose finds this handoff current.
LEMMA AuthorizeStep ==
  ASSUME IInv, NEW c \in calls, AuthorizeGolemClose(c)
  PROVE  IInv'
<1> USE DEF IInv, nativeVars, diskVars, Finish
<1> DEFINE abort == c.op = "abandon"
<1>1. win \in golemWindowRuntime /\ Sound(win)
  BY DEF TypeOK
<1>2. Call("close", c.instance, c.n) \in Silent
  BY SilentCall DEF TypeOK
<1>3. CASE CanAuthorize(win, c.instance, c.n, abort)
  <2>1. win' = Authorize(win) /\ delivered' = delivered
    BY <1>3 DEF AuthorizeGolemClose
  <2>2. Authorize(win) \in golemWindowRuntime
    BY <1>1, AuthorizeType
  <2>3. /\ Sound(Authorize(win))
        /\ Licensed(Authorize(win)) => ~abort /\ Authorize(win).handoff = c.n
    <3>1. abort \in BOOLEAN
      OBVIOUS
    <3> HIDE DEF abort
    <3> QED BY <1>1, <1>3, <3>1, AuthorizeSound
  <2>4. ~abort => <<"ack", c.n>> \in delivered
    BY DEF AuthorizeGolemClose, CallsInv
  <2>5. calls' \subseteq calls \cup Silent
    BY <1>2, <1>3 DEF AuthorizeGolemClose
  <2>6. TypeOK'
    BY <2>1, <2>2, <2>5 DEF AuthorizeGolemClose, TypeOK, Silent
  <2>7. \A d \in calls' : d \in calls \/ Warranted(d)
    BY <2>5 DEF Warranted
  <2>8. Licensed(win') => <<"ack", win'.handoff>> \in delivered
    BY <2>1, <2>3, <2>4
  <2> HIDE DEF abort, Finish, nativeVars, diskVars
  <2> QED BY <2>1, <2>3, <2>6, <2>7, <2>8, Step
<1>4. CASE ~CanAuthorize(win, c.instance, c.n, abort)
  BY <1>4, OuterStep DEF AuthorizeGolemClose, TypeOK
<1> QED BY <1>3, <1>4

\* The native close and its observer.
LEMMA RetirementStep ==
  ASSUME IInv, NEW c \in calls,
         CloseHandle(c) \/ WaitGolemWindowRemoved(c) \/ ObserveGolemRetirement(c)
  PROVE  IInv'
<1> USE DEF IInv, nativeVars, diskVars, Finish
<1>1. win \in golemWindowRuntime /\ Sound(win)
  BY DEF TypeOK
<1>2. c.instance \in 0..MaxInstance /\ c.n \in 0..MaxHandoff \cup Instance
  BY DEF TypeOK
<1>3. CASE CloseHandle(c)
  <2>1. calls' \subseteq calls \cup Silent
    BY <1>2, <1>3, SilentCall DEF CloseHandle
  <2>2. windows' \in [Instance -> {"none", "made", "added", "running", "closing", "gone"}]
    BY <1>3 DEF CloseHandle, TypeOK
  <2> QED BY <1>3, <2>1, <2>2, OuterStep DEF CloseHandle, TypeOK
<1>4. CASE WaitGolemWindowRemoved(c)
  <2>1. \A result \in {"removed", "stalled", "quitting"} :
          Call(result, c.instance, c.n) \in Silent
    BY <1>2, SilentCall
  <2>2. calls' \subseteq calls \cup Silent
    BY <1>4, <2>1 DEF WaitGolemWindowRemoved
  <2> QED BY <1>4, <2>2, OuterStep DEF WaitGolemWindowRemoved, TypeOK
<1>5. CASE ObserveGolemRetirement(c)
  <2> DEFINE retiring == /\ win.instance = c.instance /\ win.handoff = c.n
                         /\ win.closeAuthorized
             observed == [win EXCEPT !.observing = FALSE]
             stalled == [observed EXCEPT !.retirementFailed = TRUE]
  <2>1. CASE retiring /\ c.op = "removed"
    <3>1. win' = Retire(win) /\ Save(Retire(win), "docked")
      BY <1>5, <2>1 DEF ObserveGolemRetirement
    <3>2. Retire(win) \in golemWindowRuntime
      BY <1>1, RetireType
    <3>3. Sound(Retire(win)) /\ GrantsNothing(win, Retire(win))
      BY <1>1, RetireSound
    <3>4. saves' \subseteq [gen : Nat, mode : Mode]
      BY <3>1, <3>2, SaveType DEF Mode
    <3>5. hooked' \subseteq Instance
      BY <1>5, <2>1 DEF ObserveGolemRetirement, TypeOK
    <3> HIDE DEF retiring
    <3> QED BY <1>5, <3>1, <3>2, <3>3, <3>4, <3>5, WinStep DEF ObserveGolemRetirement, TypeOK
  <2>2. CASE ~(retiring /\ c.op = "removed")
    <3>1. UNCHANGED <<hooked, saves>> /\ win' \in {Transition(stalled), observed}
      BY <1>5, <2>2 DEF ObserveGolemRetirement
    <3>2. observed \in golemWindowRuntime /\ stalled \in golemWindowRuntime
      BY <1>1 DEF golemWindowRuntime
    <3>3. Sound(observed) /\ GrantsNothing(win, observed)
      BY <1>1, MarkSound DEF golemWindowRuntime
    <3>4. Transition(stalled) \in golemWindowRuntime
      BY <3>2, TransitionType
    <3>5. /\ Transition(stalled).phase = win.phase
          /\ Transition(stalled).mode = win.mode
          /\ Transition(stalled).handoff = win.handoff
          /\ Transition(stalled).closeAuthorized = win.closeAuthorized
      BY <1>1 DEF Transition, golemWindowRuntime
    <3>6. Sound(Transition(stalled)) /\ GrantsNothing(win, Transition(stalled))
      BY <1>1, <3>4, <3>5, MarkSound
    <3> HIDE DEF observed, stalled, retiring
    <3> QED BY <1>5, <3>1, <3>2, <3>3, <3>4, <3>6, WinStep DEF ObserveGolemRetirement, TypeOK
  <2> QED BY <2>1, <2>2
<1> QED BY <1>3, <1>4, <1>5

LEMMA SavingStep ==
  ASSUME IInv,
         \/ PermitQuit
         \/ \E s \in saves : SaveGolemPreference(s)
         \/ \E c \in calls : SaveGolemFrameForShutdown(c) \/ SaveGolemFrameForQuit(c)
  PROVE  IInv'
<1> USE DEF IInv, nativeVars, diskVars, Finish
<1>1. 0 \in 0..MaxInstance /\ 0 \in 0..MaxHandoff
  BY GolemAssumption
<1>2. win \in golemWindowRuntime /\ Sound(win)
  BY DEF TypeOK
<1>3. CASE PermitQuit
  <2>1. calls' \subseteq calls \cup Silent
    BY <1>1, <1>3, SilentCall DEF PermitQuit
  <2> QED BY <1>3, <2>1, OuterStep DEF PermitQuit, TypeOK
<1>4. ASSUME NEW s \in saves, SaveGolemPreference(s) PROVE IInv'
  <2>1. s.gen \in Nat /\ s.mode \in Mode
    BY DEF TypeOK
  <2> QED BY <1>4, <2>1, OuterStep DEF SaveGolemPreference, TypeOK
<1>5. ASSUME NEW c \in calls, SaveGolemFrameForShutdown(c) PROVE IInv'
  <2>1. win.instance \in 0..MaxInstance /\ win.handle \in 0..MaxHandoff \cup Instance
    BY <1>1, <1>2 DEF golemWindowRuntime, Instance
  <2>2. calls' \subseteq calls \cup Silent
    BY <1>5, <2>1, SilentCall DEF SaveGolemFrameForShutdown
  <2> QED BY <1>5, <2>2, OuterStep DEF SaveGolemFrameForShutdown, TypeOK
<1>6. ASSUME NEW c \in calls, SaveGolemFrameForQuit(c) PROVE IInv'
  <2>1. CASE win.instance = c.instance /\ win.handle = c.n
    <3> DEFINE g == win.saveGen + 1
               w == [win EXCEPT !.deadline = 0, !.saveTimer = 0, !.saveGen = g]
    <3>1. g \in Nat
      BY <1>2 DEF golemWindowRuntime
    <3>2. win' = w
      BY <1>6, <2>1 DEF SaveGolemFrameForQuit
    <3> HIDE DEF g
    <3>3. w \in golemWindowRuntime
      BY <1>1, <1>2, <3>1 DEF golemWindowRuntime
    <3>4. Sound(w) /\ GrantsNothing(win, w)
      BY <1>2, MarkSound DEF golemWindowRuntime
    <3> HIDE DEF w
    <3>5. saves' \subseteq [gen : Nat, mode : Mode]
      <4>1. CASE Uncommitted(win)
        BY <1>6, <2>1, <4>1 DEF SaveGolemFrameForQuit, TypeOK
      <4>2. CASE ~Uncommitted(win)
        <5>1. \E m \in Mode : Save(w, m)
          BY <1>2, <1>6, <2>1, <3>2, <4>2
             DEF SaveGolemFrameForQuit, golemWindowRuntime, Mode
        <5> QED BY <3>3, <5>1, SaveType
      <4> QED BY <4>1, <4>2
    <3> QED BY <1>6, <3>2, <3>3, <3>4, <3>5, WinStep DEF SaveGolemFrameForQuit, TypeOK
  <2>2. CASE ~(win.instance = c.instance /\ win.handle = c.n)
    BY <1>6, <2>2, OuterStep DEF SaveGolemFrameForQuit, TypeOK
  <2> QED BY <2>1, <2>2
<1> QED BY <1>3, <1>4, <1>5, <1>6

LEMMA StutterStep == IInv /\ UNCHANGED vars => IInv'
<1> SUFFICES ASSUME IInv, UNCHANGED vars PROVE IInv'
  OBVIOUS
<1> QED BY OuterStep DEF IInv, TypeOK, vars, nativeVars, diskVars

LEMMA NextInv == IInv /\ [Next]_vars => IInv'
<1> SUFFICES ASSUME IInv, [Next]_vars PROVE IInv'
  OBVIOUS
<1>1. CASE Windows
  BY <1>1, PageStep, WindowStep DEF Windows
<1>2. CASE Timers
  BY <1>2, TimerStep
<1>3. ASSUME NEW i \in Instance, Opener(i) \/ CloseDispatched(i) PROVE IInv'
  BY <1>3, OpenerStep, WindowStep
<1>4. ASSUME NEW c \in calls, Goroutine(c) PROVE IInv'
  BY <1>4, TransitionStep, AuthorizeStep, RetirementStep, MessageStep, SavingStep DEF Goroutine
<1>5. CASE PermitQuit \/ \E s \in saves : SaveGolemPreference(s)
  BY <1>5, SavingStep
<1>6. CASE UNCHANGED vars
  BY <1>6, StutterStep
<1> QED BY <1>1, <1>2, <1>3, <1>4, <1>5, <1>6 DEF Next

-----------------------------------------------------------------------------

LEMMA Invariance == Spec => []IInv
BY InitInv, NextInv, PTL DEF Spec

\* Type correctness of the window machine and of everything in flight.
THEOREM TypeCorrect == Spec => []TypeOK
<1>1. IInv => TypeOK
  BY DEF IInv
<1> QED BY <1>1, Invariance, PTL

\* authorizeGolemClose lets a window whose satellite owns the drafts be closed only
\* when main has received and acknowledged the draft map of the current handoff.
THEOREM CloseEarnedAlways == Spec => []CloseEarned
<1>1. IInv => CloseEarned
  BY DEF IInv
<1> QED BY <1>1, Invariance, PTL

-----------------------------------------------------------------------------
(* What each critical section does to the fields that the proofs speak of. *)

\* w2 differs from w in none of these fields.
SamePhase(w, w2) ==
  /\ w2.phase = w.phase /\ w2.mode = w.mode
  /\ w2.handle = w.handle /\ w2.closeAuthorized = w.closeAuthorized

SameAttempt(w, w2) ==
  /\ w2.instance = w.instance /\ w2.handoff = w.handoff
  /\ w2.instanceSeq = w.instanceSeq /\ w2.handoffSeq = w.handoffSeq
  /\ w2.observing = w.observing

LEMMA RetireFields ==
  ASSUME NEW w \in golemWindowRuntime
  PROVE  /\ Retire(w).phase = "closed" /\ Retire(w).mode = "docked"
         /\ Retire(w).handle = 0 /\ Retire(w).closeAuthorized = FALSE
         /\ Retire(w).instance = 0 /\ Retire(w).handoff = 0
         /\ Retire(w).instanceSeq = w.instanceSeq /\ Retire(w).handoffSeq = w.handoffSeq
         /\ Retire(w).deadline = 0 /\ Retire(w).observing = FALSE
         /\ Retire(w).saveGen = w.saveGen + 1
BY DEF Retire, Transition, golemWindowRuntime

LEMMA ReserveFields ==
  ASSUME NEW w \in golemWindowRuntime
  PROVE  /\ Reserve(w).phase = "bootstrapping" /\ Reserve(w).mode = w.mode
         /\ Reserve(w).handle = w.handle /\ Reserve(w).closeAuthorized = w.closeAuthorized
         /\ Reserve(w).instance = w.instanceSeq + 1
         /\ Reserve(w).handoff = w.handoffSeq + 1
         /\ Reserve(w).instanceSeq = w.instanceSeq + 1
         /\ Reserve(w).handoffSeq = w.handoffSeq + 1
         /\ Reserve(w).deadline = w.deadline /\ Reserve(w).observing = w.observing
         /\ Reserve(w).saveGen = w.saveGen
BY DEF Reserve, golemWindowRuntime

LEMMA InstallFields ==
  ASSUME NEW w \in golemWindowRuntime, NEW i \in Instance
  PROVE  /\ Install(w, i).phase = w.phase /\ Install(w, i).mode = w.mode
         /\ Install(w, i).handle = i /\ Install(w, i).closeAuthorized = w.closeAuthorized
         /\ SameAttempt(w, Install(w, i))
         /\ Install(w, i).deadline = w.handoff
         /\ Install(w, i).saveGen = w.saveGen + 1
BY DEF Install, Transition, golemWindowRuntime, SameAttempt

LEMMA BootstrapFields ==
  ASSUME NEW w \in golemWindowRuntime, w.phase = "bootstrapping"
  PROVE  /\ Bootstrap(w).phase = "bootstrapped" /\ Bootstrap(w).mode = w.mode
         /\ Bootstrap(w).handle = w.handle
         /\ Bootstrap(w).closeAuthorized = w.closeAuthorized
         /\ SameAttempt(w, Bootstrap(w))
         /\ Bootstrap(w).deadline = w.deadline
         /\ Bootstrap(w).saveGen = w.saveGen + 1
BY DEF Bootstrap, Transition, golemWindowRuntime, SameAttempt

LEMMA CommitFields ==
  ASSUME NEW w \in golemWindowRuntime
  PROVE  /\ Commit(w).phase = "ready" /\ Commit(w).mode = "undocked"
         /\ Commit(w).handle = w.handle /\ Commit(w).closeAuthorized = w.closeAuthorized
         /\ SameAttempt(w, Commit(w))
         /\ Commit(w).deadline = 0
         /\ Commit(w).saveGen = w.saveGen + 1
BY DEF Commit, Transition, golemWindowRuntime, SameAttempt

LEMMA ReDockFields ==
  ASSUME NEW w \in golemWindowRuntime
  PROVE  /\ ReDock(w).phase = "closing" /\ ReDock(w).mode = w.mode
         /\ ReDock(w).handle = w.handle /\ ReDock(w).closeAuthorized = w.closeAuthorized
         /\ ReDock(w).instance = w.instance /\ ReDock(w).instanceSeq = w.instanceSeq
         /\ ReDock(w).handoff = w.handoffSeq + 1 /\ ReDock(w).handoffSeq = w.handoffSeq + 1
         /\ ReDock(w).deadline = w.handoffSeq + 1 /\ ReDock(w).observing = w.observing
         /\ ReDock(w).saveGen = w.saveGen + 1
BY DEF ReDock, Transition, golemWindowRuntime

LEMMA ObserveAgainFields ==
  ASSUME NEW w \in golemWindowRuntime
  PROVE  /\ SamePhase(w, ObserveAgain(w))
         /\ ObserveAgain(w).instance = w.instance /\ ObserveAgain(w).handoff = w.handoff
         /\ ObserveAgain(w).instanceSeq = w.instanceSeq
         /\ ObserveAgain(w).handoffSeq = w.handoffSeq
         /\ ObserveAgain(w).deadline = w.deadline /\ ObserveAgain(w).observing = TRUE
         /\ ObserveAgain(w).saveGen = w.saveGen + 1
BY DEF ObserveAgain, Transition, golemWindowRuntime, SamePhase

LEMMA RestoreFields ==
  ASSUME NEW w \in golemWindowRuntime
  PROVE  /\ Restore(w).phase = "ready" /\ Restore(w).mode = w.mode
         /\ Restore(w).handle = w.handle /\ Restore(w).closeAuthorized = w.closeAuthorized
         /\ SameAttempt(w, Restore(w))
         /\ Restore(w).deadline = 0
         /\ Restore(w).saveGen = w.saveGen + 1
BY DEF Restore, Transition, golemWindowRuntime, SameAttempt

LEMMA AuthorizeFields ==
  ASSUME NEW w \in golemWindowRuntime, w.handle # 0
  PROVE  /\ Authorize(w).phase = "closing" /\ Authorize(w).mode = w.mode
         /\ Authorize(w).handle = w.handle /\ Authorize(w).closeAuthorized = TRUE
         /\ Authorize(w).instance = w.instance /\ Authorize(w).handoff = w.handoff
         /\ Authorize(w).instanceSeq = w.instanceSeq
         /\ Authorize(w).handoffSeq = w.handoffSeq
         /\ Authorize(w).deadline = 0 /\ Authorize(w).observing = TRUE
         /\ Authorize(w).saveGen = w.saveGen + 1
BY DEF Authorize, Transition, golemWindowRuntime

-----------------------------------------------------------------------------
(* The preference.  Generations order the writes; the last preference that   *)
(* was handed over decides.                                                  *)

GenInv ==
  /\ \A s \in saves : 0 < s.gen /\ s.gen <= win.saveGen
  /\ savedGen <= win.saveGen
  /\ \A s, t \in saves : s.gen = t.gen => s = t

\* The newest preference that was handed over is m: it waits, or it was written.
Newest(m) ==
  \/ \E s \in saves : /\ s.mode = m /\ savedGen <= s.gen
                      /\ \A t \in saves : t.gen <= s.gen
  \/ /\ savedGen > 0 /\ \A t \in saves : t.gen < savedGen
     /\ saveError \/ disk = m

Started == saves # {} \/ savedGen > 0

\* A committed window has handed over "undocked", and one that is not, if
\* anything, "docked".  A window whose close is authorized owes a last one.
PreferenceInv ==
  /\ win.phase \in {"bootstrapped", "ready", "closing"} => win.handle # 0
  /\ win.phase \in {"ready", "closing"} /\ ~win.closeAuthorized =>
       win.mode = "undocked" /\ Newest("undocked")
  /\ win.phase \in {"closed", "bootstrapping", "bootstrapped"} /\ Started => Newest("docked")

\* A new preference is the newest one.
LEMMA SaveNewest ==
  ASSUME TypeOK, GenInv, win'.saveGen = win.saveGen + 1, NEW m \in Mode, Save(win', m),
         UNCHANGED diskVars
  PROVE  GenInv' /\ Newest(m)'
<1> DEFINE s0 == [gen |-> win.saveGen + 1, mode |-> m]
<1>1. win.saveGen \in Nat /\ savedGen \in Nat /\ saves \subseteq [gen : Nat, mode : Mode]
  BY DEF TypeOK, golemWindowRuntime
<1>2. saves' = saves \cup {s0}
  BY DEF Save
<1>3. s0.gen = win.saveGen + 1 /\ s0.mode = m
  OBVIOUS
<1>4. UNCHANGED <<savedGen, saveError, disk>>
  BY DEF diskVars
<1> HIDE DEF s0
<1>5. \A t \in saves : t.gen \in Nat /\ t.gen < s0.gen
  BY <1>1, <1>3 DEF GenInv
<1>6. GenInv'
  BY <1>1, <1>2, <1>3, <1>4, <1>5 DEF GenInv
<1>7. Newest(m)'
  BY <1>1, <1>2, <1>3, <1>4, <1>5 DEF GenInv, Newest
<1> QED BY <1>6, <1>7

\* A write of any preference keeps the newest one.
LEMMA WriteKeeps ==
  ASSUME TypeOK, GenInv, NEW s \in saves, SaveGolemPreference(s)
  PROVE  /\ GenInv' /\ (Started' => Started)
         /\ \A m \in Mode : Newest(m) => Newest(m)'
<1>1. win.saveGen \in Nat /\ savedGen \in Nat /\ saves \subseteq [gen : Nat, mode : Mode]
  BY DEF TypeOK, golemWindowRuntime
<1>2. win' = win /\ saves' = saves \ {s}
  BY DEF SaveGolemPreference
<1>3. \A t \in saves : t.gen \in Nat
  BY <1>1
<1>4. CASE s.gen < savedGen
  <2>1. UNCHANGED <<savedGen, saveError, disk>>
    BY <1>4 DEF SaveGolemPreference, diskVars
  <2>2. GenInv' /\ (Started' => Started)
    BY <1>2, <2>1 DEF GenInv, Started
  <2>3. ASSUME NEW m \in Mode, Newest(m) PROVE Newest(m)'
    BY <1>1, <1>2, <1>3, <1>4, <2>1, <2>3 DEF Newest
  <2> QED BY <2>2, <2>3
<1>5. CASE ~(s.gen < savedGen)
  <2>1. savedGen' = s.gen /\ (saveError' \/ disk' = s.mode)
    BY <1>5 DEF SaveGolemPreference
  <2>2. GenInv' /\ Started
    BY <1>1, <1>2, <1>3, <2>1 DEF GenInv, Started
  <2>3. ASSUME NEW m \in Mode, Newest(m) PROVE Newest(m)'
    <3>1. PICK n \in saves : /\ n.mode = m /\ savedGen <= n.gen
                             /\ \A t \in saves : t.gen <= n.gen
      BY <1>1, <1>3, <1>5, <2>3 DEF Newest
    <3>2. CASE n = s
      <4>1. \A t \in saves' : t.gen < savedGen'
        BY <1>1, <1>2, <1>3, <2>1, <3>1, <3>2 DEF GenInv
      <4>2. savedGen' > 0 /\ (saveError' \/ disk' = m)
        BY <1>3, <2>1, <3>1, <3>2 DEF GenInv
      <4> QED BY <4>1, <4>2 DEF Newest
    <3>3. CASE n # s
      BY <1>2, <1>3, <2>1, <3>1, <3>3 DEF Newest
    <3> QED BY <3>2, <3>3
  <2> QED BY <2>2, <2>3
<1> QED BY <1>4, <1>5

\* A step that hands nothing over.
LEMMA QuietSaves ==
  ASSUME TypeOK, GenInv, UNCHANGED <<saves, diskVars>>,
         win'.saveGen \in {win.saveGen, win.saveGen + 1}
  PROVE  /\ GenInv' /\ (Started' => Started)
         /\ \A m \in Mode : Newest(m) => Newest(m)'
<1>1. win.saveGen \in Nat /\ savedGen \in Nat /\ saves \subseteq [gen : Nat, mode : Mode]
  BY DEF TypeOK, golemWindowRuntime
<1>2. GenInv'
  BY <1>1 DEF GenInv, diskVars
<1> QED BY <1>2 DEF Started, Newest, diskVars

\* What may happen to the window while nothing is handed over.
PhaseMove(w, w2) ==
  \/ SamePhase(w, w2)
  \/ w.phase \in {"closed", "bootstrapping"} /\ w2.phase = "bootstrapping"
  \/ w.phase = "bootstrapping" /\ w2.phase = "bootstrapped" /\ w2.handle # 0
  \/ /\ w.phase = "ready" /\ w2.phase = "closing"
     /\ w2.mode = w.mode /\ w2.handle = w.handle /\ ~w.closeAuthorized
  \/ /\ w.phase = "closing" /\ ~w.closeAuthorized /\ w2.phase = "ready"
     /\ w2.mode = w.mode /\ w2.handle = w.handle
  \/ w2.phase = "closing" /\ w2.closeAuthorized /\ w2.handle # 0
  \/ Uncommitted(w) /\ w2.phase = "closed"

Quiet ==
  /\ PhaseMove(win, win') /\ win'.saveGen \in {win.saveGen, win.saveGen + 1}
  /\ UNCHANGED <<saves, diskVars>>

\* What is handed over is the mode that the step leaves committed.
HandsOver(m) ==
  /\ Save(win', m) /\ win'.saveGen = win.saveGen + 1 /\ UNCHANGED diskVars
  /\ ~ (Uncommitted(win) /\ Uncommitted(win'))
  /\ win'.phase \in {"bootstrapped", "ready", "closing"} => win'.handle # 0
  /\ win'.phase \in {"ready", "closing"} /\ ~win'.closeAuthorized =>
       win'.mode = "undocked" /\ m = "undocked"
  /\ win'.phase \in {"closed", "bootstrapping", "bootstrapped"} => m = "docked"

PrefInv == GenInv /\ PreferenceInv

LEMMA QuietPreference ==
  ASSUME IInv, PrefInv, Quiet PROVE PrefInv'
<1>1. /\ GenInv' /\ (Started' => Started)
      /\ \A m \in Mode : Newest(m) => Newest(m)'
  BY QuietSaves DEF IInv, PrefInv, Quiet
<1>2. (Newest("docked") => Newest("docked")') /\ (Newest("undocked") => Newest("undocked")')
  BY <1>1 DEF Mode
<1>3. win.closeAuthorized => win.phase = "closing"
  BY DEF IInv, Sound
<1>4. PreferenceInv'
  BY <1>1, <1>2, <1>3 DEF PrefInv, PreferenceInv, Quiet, PhaseMove, SamePhase, Uncommitted
<1> QED BY <1>1, <1>4 DEF PrefInv

LEMMA HandOverPreference ==
  ASSUME IInv, PrefInv, NEW m \in Mode, HandsOver(m) PROVE PrefInv'
<1>1. GenInv' /\ Newest(m)'
  BY SaveNewest DEF IInv, PrefInv, HandsOver
<1>2. PreferenceInv'
  BY <1>1 DEF PreferenceInv, HandsOver
<1> QED BY <1>1, <1>2 DEF PrefInv

\* The window itself does not change.
LEMMA OuterQuiet ==
  ASSUME win' = win, UNCHANGED <<saves, diskVars>> PROVE Quiet
BY DEF Quiet, PhaseMove, SamePhase

LEMMA OpenerMoves ==
  ASSUME IInv, NEW i \in Instance, Opener(i) PROVE Quiet
<1>1. win \in golemWindowRuntime
  BY DEF IInv, TypeOK
<1>2. CASE CreateGolemWindow(i) \/ AddWindow(i) \/ RunWindow(i) \/ CheckGolemWindow(i)
  BY <1>2, OuterQuiet DEF CreateGolemWindow, AddWindow, RunWindow, CheckGolemWindow
<1>3. CASE AbandonGolemOpen(i)
  BY <1>1, <1>3, OuterQuiet, RetireFields
     DEF AbandonGolemOpen, CanInstall, Quiet, PhaseMove, Uncommitted, diskVars
<1>4. CASE InstallGolemWindow(i)
  BY <1>1, <1>4, OuterQuiet, InstallFields
     DEF InstallGolemWindow, CanInstall, Quiet, PhaseMove, diskVars
<1> QED BY <1>2, <1>3, <1>4 DEF Opener

\* Calls of the windows, and what the platform does.
LEMMA OutsideMoves ==
  ASSUME IInv,
         Windows \/ Timers \/ PermitQuit \/ (\E i \in Instance : CloseDispatched(i))
           \/ UNCHANGED vars
  PROVE  Quiet
<1>1. win \in golemWindowRuntime
  BY DEF IInv, TypeOK
<1>2. CASE BootstrapGolemWindow
  BY <1>1, <1>2, BootstrapFields
     DEF BootstrapGolemWindow, Satellite, Quiet, PhaseMove, diskVars
<1>3. ASSUME NEW i \in Instance, ScheduleGolemBoundsSave(i) PROVE Quiet
  BY <1>1, <1>3 DEF ScheduleGolemBoundsSave, Quiet, PhaseMove, SamePhase, golemWindowRuntime, diskVars
<1>4. CASE Timers
  BY <1>1, <1>4 DEF Timers, SaveTimerFires, DeadlineFires, Quiet, PhaseMove, SamePhase,
       golemWindowRuntime, diskVars
<1>5. CASE PermitQuit \/ (\E i \in Instance : CloseDispatched(i)) \/ UNCHANGED vars
  BY <1>5, OuterQuiet DEF PermitQuit, CloseDispatched, vars
<1>6. CASE \/ OpenGolemWindow \/ CloseGolemWindow
           \/ \E h \in Handoff : ConfirmGolemWindowClose(h)
           \/ PostView \/ PostMainDrafts \/ PostReady \/ PostFinalDrafts \/ PostAck \/ PostAbort
           \/ \E i \in Instance : UserCloses(i)
  BY <1>6, OuterQuiet DEF OpenGolemWindow, CloseGolemWindow, ConfirmGolemWindowClose, Post,
       PostView, PostMainDrafts, PostReady, PostFinalDrafts, PostAck, PostAbort, UserCloses
<1> QED BY <1>2, <1>3, <1>4, <1>5, <1>6 DEF Windows

\* Goroutines that hand nothing over.
LEMMA GoroutineMoves ==
  ASSUME IInv, PrefInv, NEW c \in calls,
         \/ ReserveGolemWindow(c) \/ GolemTransitionTimeout(c) \/ RestoreGolemReady(c)
         \/ RequestGolemReDock(c) \/ AuthorizeGolemClose(c) \/ CloseHandle(c)
         \/ WaitGolemWindowRemoved(c) \/ AcceptGolemView(c) \/ AcceptGolemDrafts(c)
         \/ AcceptGolemAck(c) \/ AcceptGolemAbort(c) \/ SaveGolemFrameForShutdown(c)
  PROVE  Quiet
<1>1. win \in golemWindowRuntime /\ (win.closeAuthorized => win.phase = "closing")
  BY DEF IInv, TypeOK, Sound
<1>2. CASE ReserveGolemWindow(c)
  BY <1>1, <1>2, OuterQuiet, ReserveFields
     DEF ReserveGolemWindow, CanReserve, Quiet, PhaseMove, diskVars
<1>3. CASE RestoreGolemReady(c)
  BY <1>1, <1>3, OuterQuiet, RestoreFields
     DEF RestoreGolemReady, CanRestore, Quiet, PhaseMove, diskVars
<1>4. CASE RequestGolemReDock(c)
  <2>1. CASE UNCHANGED win
    BY <1>4, <2>1, OuterQuiet DEF RequestGolemReDock
  <2>2. CASE CanReDock(win, c.instance) /\ win' = ReDock(win)
    BY <1>1, <1>4, <2>2, ReDockFields
       DEF RequestGolemReDock, CanReDock, Quiet, PhaseMove, diskVars
  <2>3. CASE win' = ObserveAgain(win)
    BY <1>1, <1>4, <2>3, ObserveAgainFields DEF RequestGolemReDock, Quiet, PhaseMove, diskVars
  <2> QED BY <1>4, <2>1, <2>2, <2>3 DEF RequestGolemReDock
<1>5. CASE AuthorizeGolemClose(c)
  <2>1. CASE UNCHANGED win
    BY <1>5, <2>1, OuterQuiet DEF AuthorizeGolemClose
  <2>2. ASSUME CanAuthorize(win, c.instance, c.n, c.op = "abandon"), win' = Authorize(win)
        PROVE  Quiet
    <3>1. CASE win.handle # 0
      BY <1>1, <1>5, <2>2, <3>1, AuthorizeFields
         DEF AuthorizeGolemClose, Quiet, PhaseMove, diskVars
    <3>2. CASE win.handle = 0
      <4>1. Uncommitted(win)
        BY <2>2, <3>2 DEF CanAuthorize, PrefInv, PreferenceInv
      <4>2. win' = Retire(win)
        BY <2>2, <3>2 DEF Authorize
      <4> QED BY <1>1, <1>5, <4>1, <4>2, RetireFields
              DEF AuthorizeGolemClose, Quiet, PhaseMove, diskVars
    <3> QED BY <3>1, <3>2
  <2> QED BY <1>5, <2>1, <2>2 DEF AuthorizeGolemClose
<1>6. CASE AcceptGolemView(c) \/ AcceptGolemDrafts(c) \/ AcceptGolemAck(c)
  BY <1>1, <1>6 DEF AcceptGolemView, AcceptGolemDrafts, AcceptGolemAck, Accept, RecordDrafts,
       RecordAck, Quiet, PhaseMove, SamePhase, golemWindowRuntime, diskVars
<1>7. CASE \/ GolemTransitionTimeout(c) \/ CloseHandle(c) \/ WaitGolemWindowRemoved(c)
           \/ AcceptGolemAbort(c) \/ SaveGolemFrameForShutdown(c)
  BY <1>7, OuterQuiet DEF GolemTransitionTimeout, CloseHandle, WaitGolemWindowRemoved,
       AcceptGolemAbort, SaveGolemFrameForShutdown
<1> QED BY <1>2, <1>3, <1>4, <1>5, <1>6, <1>7

\* Goroutines that hand a preference over, or may.
LEMMA SavingMoves ==
  ASSUME IInv, PrefInv, NEW c \in calls,
         \/ CaptureGolemFrame(c) \/ ObserveGolemRetirement(c) \/ AcceptGolemReady(c)
         \/ SaveGolemFrameForQuit(c)
  PROVE  Quiet \/ \E m \in Mode : HandsOver(m)
<1>1. win \in golemWindowRuntime /\ Sound(win)
  BY DEF IInv, TypeOK
<1>2. ASSUME NEW m \in Mode, Save(win', m), UNCHANGED diskVars, ~Uncommitted(win),
             win'.saveGen = win.saveGen + 1, SamePhase(win, win'),
             m = win.mode \/ (m = "docked" /\ win.closeAuthorized)
      PROVE  HandsOver(m)
  BY <1>1, <1>2 DEF HandsOver, SamePhase, PrefInv, PreferenceInv, Sound, Uncommitted
<1>3. CASE CaptureGolemFrame(c)
  <2>1. CASE win.instance = c.instance /\ ~Uncommitted(win)
    <3>1. win.mode \in Mode /\ win'.saveGen = win.saveGen + 1 /\ SamePhase(win, win')
      BY <1>1, <1>3, <2>1 DEF CaptureGolemFrame, SamePhase, golemWindowRuntime
    <3> QED BY <1>2, <1>3, <2>1, <3>1 DEF CaptureGolemFrame
  <2>2. CASE ~(win.instance = c.instance /\ ~Uncommitted(win))
    BY <1>3, <2>2, OuterQuiet DEF CaptureGolemFrame
  <2> QED BY <2>1, <2>2
<1>4. CASE ObserveGolemRetirement(c)
  <2> DEFINE retiring == /\ win.instance = c.instance /\ win.handoff = c.n
                         /\ win.closeAuthorized
  <2>1. CASE retiring /\ c.op = "removed"
    <3>1. win' = Retire(win) /\ Save(win', "docked") /\ UNCHANGED diskVars /\ win.closeAuthorized
      BY <1>4, <2>1 DEF ObserveGolemRetirement
    <3>2. HandsOver("docked")
      BY <1>1, <3>1, RetireFields DEF HandsOver, Uncommitted
    <3> QED BY <3>2 DEF Mode
  <2>2. CASE ~(retiring /\ c.op = "removed")
    <3>1. UNCHANGED <<saves, diskVars>>
      BY <1>4, <2>2 DEF ObserveGolemRetirement
    <3>2. SamePhase(win, win') /\ win'.saveGen \in {win.saveGen, win.saveGen + 1}
      BY <1>1, <1>4, <2>2 DEF ObserveGolemRetirement, Transition, SamePhase, golemWindowRuntime
    <3> QED BY <3>1, <3>2 DEF Quiet, PhaseMove
  <2> QED BY <2>1, <2>2
<1>5. CASE AcceptGolemReady(c)
  <2>1. CASE CanCommit(win, c.instance, c.n)
    <3>1. win' = Commit(win) /\ Save(win', "undocked") /\ UNCHANGED diskVars /\ win.handle # 0
      BY <1>5, <2>1 DEF AcceptGolemReady, CanCommit, PrefInv, PreferenceInv
    <3>2. HandsOver("undocked")
      BY <1>1, <3>1, CommitFields DEF HandsOver, Uncommitted
    <3> QED BY <3>2 DEF Mode
  <2>2. CASE ~CanCommit(win, c.instance, c.n)
    BY <1>5, <2>2, OuterQuiet DEF AcceptGolemReady
  <2> QED BY <2>1, <2>2
<1>6. CASE SaveGolemFrameForQuit(c)
  <2>1. CASE win.instance = c.instance /\ win.handle = c.n
    <3>1. win'.saveGen = win.saveGen + 1 /\ SamePhase(win, win') /\ UNCHANGED diskVars
      BY <1>1, <1>6, <2>1 DEF SaveGolemFrameForQuit, SamePhase, golemWindowRuntime
    <3>2. CASE Uncommitted(win)
      BY <1>6, <2>1, <3>1, <3>2 DEF SaveGolemFrameForQuit, Quiet, PhaseMove
    <3>3. CASE ~Uncommitted(win)
      <4>1. Save(win', IF win.closeAuthorized THEN "docked" ELSE win.mode)
        BY <1>6, <2>1, <3>3 DEF SaveGolemFrameForQuit
      <4>2. CASE win.closeAuthorized
        <5>1. Save(win', "docked") /\ "docked" \in Mode
          BY <4>1, <4>2 DEF Mode
        <5>2. HandsOver("docked")
          BY <1>2, <3>1, <3>3, <4>2, <5>1
        <5> QED BY <5>1, <5>2
      <4>3. CASE ~win.closeAuthorized
        <5>1. Save(win', win.mode) /\ win.mode \in Mode
          BY <1>1, <4>1, <4>3 DEF golemWindowRuntime
        <5> QED BY <1>2, <3>1, <3>3, <5>1
      <4> QED BY <4>2, <4>3
    <3> QED BY <3>2, <3>3
  <2>2. CASE ~(win.instance = c.instance /\ win.handle = c.n)
    BY <1>6, <2>2, OuterQuiet DEF SaveGolemFrameForQuit
  <2> QED BY <2>1, <2>2
<1> QED BY <1>3, <1>4, <1>5, <1>6

\* A step hands nothing over, hands the committed mode over, or writes.
LEMMA Moves ==
  ASSUME IInv, PrefInv, [Next]_vars
  PROVE  Quiet \/ (\E m \in Mode : HandsOver(m)) \/ \E s \in saves : SaveGolemPreference(s)
<1>1. ASSUME NEW c \in calls, Goroutine(c) PROVE Quiet \/ \E m \in Mode : HandsOver(m)
  BY <1>1, GoroutineMoves, SavingMoves DEF Goroutine
<1> QED BY <1>1, OpenerMoves, OutsideMoves DEF Next

LEMMA PreferenceStep == IInv /\ PrefInv /\ [Next]_vars => PrefInv'
<1> SUFFICES ASSUME IInv, PrefInv, [Next]_vars PROVE PrefInv'
  OBVIOUS
<1>1. ASSUME NEW s \in saves, SaveGolemPreference(s) PROVE PrefInv'
  <2>1. /\ GenInv' /\ (Started' => Started)
        /\ \A m \in Mode : Newest(m) => Newest(m)'
    BY <1>1, WriteKeeps DEF IInv, PrefInv
  <2>2. (Newest("docked") => Newest("docked")') /\ (Newest("undocked") => Newest("undocked")')
    BY <2>1 DEF Mode
  <2>3. win' = win
    BY <1>1 DEF SaveGolemPreference
  <2> QED BY <2>1, <2>2, <2>3 DEF PrefInv, PreferenceInv
<1> QED BY <1>1, Moves, QuietPreference, HandOverPreference

LEMMA PreferenceInit == Init => PrefInv
<1> SUFFICES ASSUME Init PROVE PrefInv
  OBVIOUS
<1> QED BY DEF Init, Loaded, PrefInv, GenInv, PreferenceInv, Started

(***************************************************************************)
(* Once no write is pending and the last one succeeded, app.json says what  *)
(* the committed window is: late and reordered writes are dropped by their  *)
(* generation, and an attempt that is undone has handed nothing over.       *)
(***************************************************************************)
THEOREM PreferenceSettledAlways == Spec => []PreferenceSettled
<1>1. Init => IInv /\ PrefInv
  BY InitInv, PreferenceInit
<1>2. IInv /\ PrefInv /\ [Next]_vars => (IInv /\ PrefInv)'
  BY NextInv, PreferenceStep
<1>3. IInv /\ PrefInv => PreferenceSettled
  BY DEF IInv, Sound, PrefInv, PreferenceInv, PreferenceSettled, Newest, Started
<1> QED BY <1>1, <1>2, <1>3, PTL DEF Spec

(***************************************************************************)
(* An attempt that is not committed hands no preference over, so a restore  *)
(* that is interrupted keeps the preference that it restores.               *)
(***************************************************************************)
THEOREM UncommittedSavesNothingAlways == Spec => UncommittedSavesNothing
<1>1. Init => IInv /\ PrefInv
  BY InitInv, PreferenceInit
<1>2. IInv /\ PrefInv /\ [Next]_vars => (IInv /\ PrefInv)'
  BY NextInv, PreferenceStep
<1>3. IInv /\ PrefInv /\ [Next]_vars =>
        [Uncommitted(win) /\ Uncommitted(win') => saves' \subseteq saves]_vars
  BY Moves DEF Quiet, HandsOver, SaveGolemPreference
<1> QED BY <1>1, <1>2, <1>3, PTL DEF Spec, UncommittedSavesNothing

-----------------------------------------------------------------------------
(* The retirement.  Calls in flight that were made for an earlier attempt or  *)
(* handoff never speak of the present one, because both are numbered afresh.  *)

Observer(c) == c.op \in {"close", "observe", "removed", "stalled", "quitting"}
Ender(c)    == c.op \in {"timeout", "restore", "abandon"}

\* Attempts and handoffs are numbered upwards.
NumberInv ==
  /\ win.instance <= win.instanceSeq /\ win.handoff <= win.handoffSeq
  /\ win.deadline <= win.handoffSeq
  /\ win.phase = "closed" => win.handle = 0
  /\ \A c \in calls : Ender(c) => c.instance <= win.instanceSeq /\ c.n <= win.handoffSeq

\* Who ends a handoff can end it: a restore finds a re-dock, an abandon an attempt.
EnderInv ==
  /\ \A c \in calls : c.op = "restore" /\ c.instance = win.instance => ~Uncommitted(win)
  /\ \A c \in calls :
       c.op = "abandon" /\ c.instance = win.instance /\ c.n = win.handoff =>
         ~(win.phase = "closing" /\ ~win.closeAuthorized)
  /\ \A c \in calls : c.op \in {"shutdown", "quitsave"} => quit
  /\ DeadlineSet

\* One observer, which observing announces, and only for an authorized close.
ObserverInv ==
  /\ win.observing => win.closeAuthorized
  /\ win.observing <=> \E c \in calls : Observer(c)
  /\ \A c, d \in calls : Observer(c) /\ Observer(d) => c = d

RetirementInv == NumberInv /\ EnderInv /\ ObserverInv

\* A call that watches or ends nothing.
Aside(c) == ~Observer(c) /\ ~Ender(c) /\ (c.op \in {"shutdown", "quitsave"} => quit')

LEMMA NumberTypes ==
  ASSUME TypeOK
  PROVE  /\ win \in golemWindowRuntime
         /\ {win.instance, win.handoff, win.instanceSeq, win.handoffSeq,
             win.deadline, win.handle} \subseteq Nat
         /\ \A c \in calls : c.instance \in Nat /\ c.n \in Nat
BY GolemAssumption DEF TypeOK, golemWindowRuntime, Instance

\* No attempt, handoff or observer is touched; a deadline is only dropped while
\* the application quits.
LEMMA AsideStep ==
  ASSUME RetirementInv, SamePhase(win, win'), SameAttempt(win, win'),
         win'.deadline = win.deadline \/ (win'.deadline = 0 /\ quit'),
         quit => quit', TypeOK,
         \A c \in calls : c \in calls' \/ Aside(c),
         \A c \in calls' : c \in calls \/ Aside(c)
  PROVE  RetirementInv'
<1> USE DEF RetirementInv, SamePhase, SameAttempt
<1>1. NumberInv'
  BY NumberTypes DEF NumberInv, Aside
<1>2. ObserverInv'
  BY DEF ObserverInv, Aside
<1>3. EnderInv'
  <2>1. (Uncommitted(win') <=> Uncommitted(win)) /\ (Open(win') <=> Open(win))
    BY DEF Uncommitted, Open
  <2>2. /\ \A c \in calls' : c.op = "restore" /\ c.instance = win'.instance => ~Uncommitted(win')
        /\ \A c \in calls' :
             c.op = "abandon" /\ c.instance = win'.instance /\ c.n = win'.handoff =>
               ~(win'.phase = "closing" /\ ~win'.closeAuthorized)
    BY <2>1 DEF EnderInv, Aside, Ender
  <2>3. \A c \in calls' : c.op \in {"shutdown", "quitsave"} => quit'
    BY DEF EnderInv, Aside
  <2>4. DeadlineSet'
    BY <2>1 DEF EnderInv, DeadlineSet, Aside, Ender
  <2> QED BY <2>2, <2>3, <2>4 DEF EnderInv
<1> QED BY <1>1, <1>2, <1>3

\* Calls that the windows make.
LEMMA AsideCall ==
  ASSUME NEW i, NEW n,
         NEW op \in {"open", "view", "drafts", "final", "ack", "nack", "ready", "abort",
                     "redock", "confirm", "capture"}
  PROVE  Aside(Call(op, i, n))
BY DEF Aside, Call, Observer, Ender

LEMMA OutsideAside ==
  ASSUME IInv, RetirementInv,
         \/ OpenGolemWindow \/ CloseGolemWindow \/ SaveTimerFires \/ PermitQuit
         \/ \E h \in Handoff : ConfirmGolemWindowClose(h)
         \/ PostView \/ PostMainDrafts \/ PostReady \/ PostFinalDrafts \/ PostAck \/ PostAbort
         \/ \E i \in Instance :
              \/ CreateGolemWindow(i) \/ AddWindow(i) \/ RunWindow(i) \/ CheckGolemWindow(i)
              \/ UserCloses(i) \/ ScheduleGolemBoundsSave(i) \/ CloseDispatched(i)
         \/ \E s \in saves : SaveGolemPreference(s)
         \/ UNCHANGED vars
  PROVE  RetirementInv'
<1>1. win \in golemWindowRuntime /\ TypeOK
  BY DEF IInv, TypeOK
<1> USE DEF SamePhase, SameAttempt, nativeVars
<1>2. CASE \/ OpenGolemWindow \/ CloseGolemWindow
           \/ \E h \in Handoff : ConfirmGolemWindowClose(h)
           \/ PostView \/ PostMainDrafts \/ PostReady \/ PostFinalDrafts \/ PostAck \/ PostAbort
  <2>1. /\ UNCHANGED <<win, quit>>
        /\ \E i, n : \E op \in {"open", "view", "drafts", "final", "ack", "nack", "ready",
                                "abort", "redock", "confirm"} :
             calls' = calls \cup {Call(op, i, n)}
    BY <1>2 DEF OpenGolemWindow, CloseGolemWindow, ConfirmGolemWindowClose, Post, PostView,
         PostMainDrafts, PostReady, PostFinalDrafts, PostAck, PostAbort
  <2> QED BY <1>1, <2>1, AsideCall, AsideStep
<1>3. CASE SaveTimerFires
  <2>1. /\ SamePhase(win, win') /\ SameAttempt(win, win') /\ win'.deadline = win.deadline
        /\ UNCHANGED quit /\ calls' \subseteq calls \cup {Call("capture", win.saveTimer, 0)}
        /\ calls \subseteq calls'
    BY <1>1, <1>3 DEF SaveTimerFires, golemWindowRuntime
  <2>2. Aside(Call("capture", win.saveTimer, 0))
    BY AsideCall
  <2> QED BY <1>1, <2>1, <2>2, AsideStep
<1>4. CASE PermitQuit
  <2>1. Aside(Call("shutdown", 0, 0))
    BY <1>4 DEF PermitQuit, Aside, Call, Observer, Ender
  <2> QED BY <1>1, <1>4, <2>1, AsideStep DEF PermitQuit
<1>5. ASSUME NEW i \in Instance, ScheduleGolemBoundsSave(i) PROVE RetirementInv'
  <2>1. /\ SamePhase(win, win') /\ SameAttempt(win, win') /\ win'.deadline = win.deadline
        /\ UNCHANGED <<quit, calls>>
    BY <1>1, <1>5 DEF ScheduleGolemBoundsSave, golemWindowRuntime
  <2> QED BY <1>1, <2>1, AsideStep
<1>6. ASSUME NEW i \in Instance, CloseDispatched(i) PROVE RetirementInv'
  <2>1. Aside(Call("redock", i, 0))
    BY AsideCall
  <2>2. quit' => Aside(Call("quitsave", i, i))
    BY DEF Aside, Call, Observer, Ender
  <2>3. /\ UNCHANGED <<win, quit>> /\ calls \subseteq calls'
        /\ \A c \in calls' : \/ c \in calls \/ c = Call("redock", i, 0)
                             \/ c = Call("quitsave", i, i) /\ quit
    BY <1>6 DEF CloseDispatched
  <2> QED BY <1>1, <2>1, <2>2, <2>3, AsideStep
<1>7. CASE \/ \E i \in Instance :
                \/ CreateGolemWindow(i) \/ AddWindow(i) \/ RunWindow(i)
                \/ CheckGolemWindow(i) \/ UserCloses(i)
           \/ \E s \in saves : SaveGolemPreference(s)
           \/ UNCHANGED vars
  <2>1. UNCHANGED <<win, quit, calls>>
    BY <1>7 DEF CreateGolemWindow, AddWindow, RunWindow, CheckGolemWindow, UserCloses,
         SaveGolemPreference, vars
  <2> QED BY <1>1, <2>1, AsideStep
<1> QED BY <1>2, <1>3, <1>4, <1>5, <1>6, <1>7

\* Goroutines that watch and end nothing.
LEMMA GoroutineAside ==
  ASSUME IInv, RetirementInv, NEW c \in calls,
         \/ CaptureGolemFrame(c) \/ AcceptGolemView(c) \/ AcceptGolemDrafts(c)
         \/ AcceptGolemAck(c) \/ SaveGolemFrameForShutdown(c) \/ SaveGolemFrameForQuit(c)
         \/ UNCHANGED <<win, quit>> /\ Finish(c, {}) /\ Aside(c)
  PROVE  RetirementInv'
<1>1. win \in golemWindowRuntime /\ TypeOK
  BY DEF IInv, TypeOK
<1> USE DEF SamePhase, SameAttempt, nativeVars, Finish
<1>2. CASE SaveGolemFrameForShutdown(c)
  <2>1. quit' /\ UNCHANGED <<win, quit>>
    BY <1>2 DEF SaveGolemFrameForShutdown, RetirementInv, EnderInv
  <2>2. Aside(c) /\ Aside(Call("quitsave", win.instance, win.handle))
    BY <1>2, <2>1 DEF SaveGolemFrameForShutdown, Aside, Call, Observer, Ender
  <2> QED BY <1>1, <1>2, <2>1, <2>2, AsideStep DEF SaveGolemFrameForShutdown
<1>3. CASE SaveGolemFrameForQuit(c)
  <2>1. quit' /\ UNCHANGED quit
    BY <1>3 DEF SaveGolemFrameForQuit, RetirementInv, EnderInv
  <2>2. Aside(c)
    BY <1>3, <2>1 DEF SaveGolemFrameForQuit, Aside, Observer, Ender
  <2>3. /\ SamePhase(win, win') /\ SameAttempt(win, win')
        /\ win'.deadline = win.deadline \/ win'.deadline = 0
        /\ calls' = calls \ {c}
    BY <1>1, <1>3 DEF SaveGolemFrameForQuit, golemWindowRuntime
  <2> QED BY <1>1, <2>1, <2>2, <2>3, AsideStep
<1>4. CASE CaptureGolemFrame(c)
  <2>1. /\ SamePhase(win, win') /\ SameAttempt(win, win') /\ win'.deadline = win.deadline
        /\ UNCHANGED quit /\ calls' = calls \ {c}
    BY <1>1, <1>4 DEF CaptureGolemFrame, golemWindowRuntime
  <2>2. Aside(c)
    BY <1>4 DEF CaptureGolemFrame, Aside, Observer, Ender
  <2> QED BY <1>1, <2>1, <2>2, AsideStep
<1>5. CASE AcceptGolemView(c) \/ AcceptGolemDrafts(c) \/ AcceptGolemAck(c)
  <2>1. /\ SamePhase(win, win') /\ SameAttempt(win, win') /\ win'.deadline = win.deadline
        /\ UNCHANGED quit /\ calls' = calls \ {c}
    BY <1>1, <1>5 DEF AcceptGolemView, AcceptGolemDrafts, AcceptGolemAck, Accept,
         RecordDrafts, RecordAck, golemWindowRuntime
  <2>2. Aside(c)
    BY <1>5 DEF AcceptGolemView, AcceptGolemDrafts, AcceptGolemAck, Aside, Observer, Ender
  <2> QED BY <1>1, <2>1, <2>2, AsideStep
<1>6. CASE UNCHANGED <<win, quit>> /\ Finish(c, {}) /\ Aside(c)
  BY <1>1, <1>6, AsideStep
<1> QED BY <1>2, <1>3, <1>4, <1>5, <1>6

\* An attempt is reserved, given up before it has a window, or installed.
LEMMA AttemptStep ==
  ASSUME IInv, RetirementInv,
         \/ \E c \in calls : ReserveGolemWindow(c)
         \/ \E i \in Instance : AbandonGolemOpen(i) \/ InstallGolemWindow(i)
         \/ BootstrapGolemWindow
  PROVE  RetirementInv'
<1>1. /\ win \in golemWindowRuntime /\ TypeOK
      /\ (win.closeAuthorized => win.phase = "closing")
  BY DEF IInv, TypeOK, Sound
<1> USE NumberTypes DEF RetirementInv, nativeVars
<1>2. ASSUME NEW c \in calls, ReserveGolemWindow(c) PROVE RetirementInv'
  <2>0. Aside(c) /\ calls' = calls \ {c} /\ quit' = quit
    BY <1>2 DEF ReserveGolemWindow, Aside, Observer, Ender, Finish
  <2>1. CASE CanReserve(win)
    <3>1. win' = Reserve(win) /\ win.phase = "closed" /\ win.handle = 0
      BY <1>2, <2>1 DEF ReserveGolemWindow, CanReserve, NumberInv
    <3>2. /\ win'.phase = "bootstrapping" /\ win'.handle = 0
          /\ win'.closeAuthorized = win.closeAuthorized /\ win'.observing = win.observing
          /\ win'.instance = win.instanceSeq + 1 /\ win'.instanceSeq = win.instanceSeq + 1
          /\ win'.handoff = win.handoffSeq + 1 /\ win'.handoffSeq = win.handoffSeq + 1
          /\ win'.deadline = win.deadline
      BY <1>1, <3>1, ReserveFields
    <3>3. NumberInv'
      BY <1>1, <2>0, <3>2 DEF NumberInv
    <3>4. ObserverInv'
      BY <2>0, <3>2 DEF ObserverInv, Aside
    <3>5. \A d \in calls' : d.op = "restore" => d.instance # win'.instance
      BY <1>1, <2>0, <3>2 DEF NumberInv, Ender
    <3>6. EnderInv'
      BY <2>0, <3>2, <3>5 DEF EnderInv, DeadlineSet
    <3> QED BY <3>3, <3>4, <3>6
  <2>2. CASE ~CanReserve(win)
    <3>1. win' = win
      BY <1>2, <2>2 DEF ReserveGolemWindow
    <3> QED BY <1>1, <2>0, <3>1, GoroutineAside DEF Finish
  <2> QED BY <2>1, <2>2
<1>3. ASSUME NEW i \in Instance, AbandonGolemOpen(i) PROVE RetirementInv'
  <2>1. CASE CanInstall(win, i)
    <3>1. win' = Retire(win) /\ UNCHANGED <<calls, quit>> /\ ~win.observing
      BY <1>1, <1>3, <2>1 DEF AbandonGolemOpen, CanInstall, ObserverInv
    <3>2. /\ win'.phase = "closed" /\ win'.handle = 0 /\ win'.instance = 0
          /\ win'.handoff = 0 /\ win'.deadline = 0 /\ ~win'.observing
          /\ win'.instanceSeq = win.instanceSeq /\ win'.handoffSeq = win.handoffSeq
      BY <1>1, <3>1, RetireFields
    <3>3. NumberInv'
      BY <1>1, <3>1, <3>2 DEF NumberInv
    <3>4. ObserverInv'
      BY <3>1, <3>2 DEF ObserverInv
    <3>5. EnderInv'
      BY <3>1, <3>2 DEF EnderInv, DeadlineSet, Uncommitted
    <3> QED BY <3>3, <3>4, <3>5
  <2>2. CASE ~CanInstall(win, i)
    <3>1. UNCHANGED <<win, quit, calls>>
      BY <1>3, <2>2 DEF AbandonGolemOpen
    <3> QED BY <1>1, <3>1, AsideStep DEF SamePhase, SameAttempt
  <2> QED BY <2>1, <2>2
<1>4. ASSUME NEW i \in Instance, InstallGolemWindow(i) PROVE RetirementInv'
  <2>1. CASE CanInstall(win, i)
    <3>1. /\ UNCHANGED <<calls, quit>> /\ win.phase = "bootstrapping"
          /\ win'.phase = win.phase /\ win'.closeAuthorized = win.closeAuthorized
          /\ SameAttempt(win, win') /\ win'.deadline = win.handoff
      BY <1>1, <1>4, <2>1, InstallFields DEF InstallGolemWindow, CanInstall
    <3>2. NumberInv'
      BY <1>1, <3>1 DEF NumberInv, SameAttempt
    <3>3. ObserverInv'
      BY <3>1 DEF ObserverInv, SameAttempt
    <3>4. EnderInv'
      BY <3>1 DEF EnderInv, DeadlineSet, SameAttempt, Uncommitted
    <3> QED BY <3>2, <3>3, <3>4
  <2>2. CASE ~CanInstall(win, i)
    <3>1. UNCHANGED <<win, quit, calls>>
      BY <1>4, <2>2 DEF InstallGolemWindow
    <3> QED BY <1>1, <3>1, AsideStep DEF SamePhase, SameAttempt
  <2> QED BY <2>1, <2>2
<1>5. CASE BootstrapGolemWindow
  <2>1. /\ UNCHANGED <<calls, quit>> /\ win.phase = "bootstrapping"
        /\ win'.phase = "bootstrapped" /\ win'.closeAuthorized = win.closeAuthorized
        /\ win'.handle = win.handle
        /\ SameAttempt(win, win') /\ win'.deadline = win.deadline
    BY <1>1, <1>5, BootstrapFields DEF BootstrapGolemWindow
  <2>2. NumberInv'
    BY <1>1, <2>1 DEF NumberInv, SameAttempt
  <2>3. ObserverInv'
    BY <2>1 DEF ObserverInv, SameAttempt
  <2>4. EnderInv'
    BY <2>1 DEF EnderInv, DeadlineSet, SameAttempt, Uncommitted, Open
  <2> QED BY <2>2, <2>3, <2>4
<1> QED BY <1>2, <1>3, <1>4, <1>5

\* A deadline expires, and who acts on it reads the state again.
LEMMA UndoStep ==
  ASSUME IInv, RetirementInv,
         \/ DeadlineFires
         \/ \E c \in calls : GolemTransitionTimeout(c) \/ AcceptGolemAbort(c)
  PROVE  RetirementInv'
<1>1. win \in golemWindowRuntime /\ TypeOK
  BY DEF IInv, TypeOK
<1> USE NumberTypes DEF RetirementInv, nativeVars
<1>2. CASE DeadlineFires
  <2> DEFINE t == Call("timeout", win.instance, win.deadline)
  <2>1. /\ SamePhase(win, win') /\ SameAttempt(win, win') /\ win'.deadline = 0
        /\ win.deadline # 0 /\ UNCHANGED quit
        /\ calls' = IF quit THEN calls ELSE calls \cup {t}
    BY <1>1, <1>2 DEF DeadlineFires, SamePhase, SameAttempt, golemWindowRuntime
  <2>2. t.op = "timeout" /\ t.instance = win.instance /\ t.n = win.deadline
    BY DEF Call
  <2> HIDE DEF t
  <2>3. NumberInv'
    BY <1>1, <2>1, <2>2 DEF NumberInv, SamePhase, SameAttempt
  <2>4. ObserverInv'
    BY <2>1, <2>2 DEF ObserverInv, Observer, SamePhase, SameAttempt
  <2>5. DeadlineSet'
    <3>1. CASE win.deadline = win.handoff
      BY <2>1, <2>2, <3>1 DEF DeadlineSet, SamePhase, SameAttempt
    <3>2. CASE win.deadline # win.handoff
      BY <2>1, <3>2 DEF EnderInv, DeadlineSet, SamePhase, SameAttempt, Open, Uncommitted
    <3> QED BY <3>1, <3>2
  <2>6. EnderInv'
    BY <2>1, <2>2, <2>5 DEF EnderInv, SamePhase, SameAttempt, Uncommitted
  <2> QED BY <2>3, <2>4, <2>6
<1>3. ASSUME NEW c \in calls, GolemTransitionTimeout(c) \/ AcceptGolemAbort(c)
      PROVE  RetirementInv'
  <2>1. /\ c.op \in {"timeout", "abort"} /\ UNCHANGED <<win, quit>>
        /\ calls' = (calls \ {c}) \cup Undo(c)
    BY <1>3 DEF GolemTransitionTimeout, AcceptGolemAbort, Finish
  <2>2. \A d \in Undo(c) :
          /\ d.op \in {"restore", "abandon"} /\ d.instance = win.instance /\ d.n = win.handoff
          /\ Open(win)
          /\ d.op = "restore" => ~Uncommitted(win)
          /\ d.op = "abandon" => Uncommitted(win)
    BY DEF Undo, Call
  <2>3. NumberInv'
    BY <1>1, <2>1, <2>2 DEF NumberInv
  <2>4. ObserverInv'
    BY <2>1, <2>2 DEF ObserverInv, Observer
  <2>5. DeadlineSet'
    <3> SUFFICES ASSUME win.handle # 0, Open(win), ~quit, win.deadline # win.handoff
                 PROVE  \E d \in calls' :
                          /\ d.op \in {"timeout", "restore", "abandon"}
                          /\ d.instance = win.instance /\ d.n = win.handoff
      BY <2>1 DEF DeadlineSet
    <3>1. PICK d \in calls : /\ d.op \in {"timeout", "restore", "abandon"}
                             /\ d.instance = win.instance /\ d.n = win.handoff
      BY DEF EnderInv, DeadlineSet
    <3>2. CASE d = c
      <4>1. \E e : e \in Undo(c)
        BY <3>1, <3>2 DEF Undo
      <4> QED BY <2>1, <2>2, <4>1
    <3>3. CASE d # c
      BY <2>1, <3>1, <3>3
    <3> QED BY <3>2, <3>3
  <2>6. EnderInv'
    BY <2>1, <2>2, <2>5 DEF EnderInv, Uncommitted
  <2> QED BY <2>3, <2>4, <2>6
<1> QED BY <1>2, <1>3

\* A handoff ends, or the next one begins.
LEMMA HandoffStep ==
  ASSUME IInv, RetirementInv, NEW c \in calls,
         RestoreGolemReady(c) \/ AcceptGolemReady(c) \/ RequestGolemReDock(c)
  PROVE  RetirementInv'
<1>1. /\ win \in golemWindowRuntime /\ TypeOK
      /\ (win.closeAuthorized => win.phase = "closing")
  BY DEF IInv, TypeOK, Sound
<1> USE NumberTypes DEF RetirementInv, nativeVars, Finish
<1>2. CASE RestoreGolemReady(c)
  <2>0. c.op = "restore" /\ calls' = calls \ {c} /\ quit' = quit
    BY <1>2 DEF RestoreGolemReady
  <2>1. CASE CanRestore(win, c.instance, c.n)
    <3>1. /\ win'.phase = "ready" /\ win'.closeAuthorized = win.closeAuthorized
          /\ win'.handle = win.handle /\ SameAttempt(win, win') /\ win'.deadline = 0
      BY <1>1, <1>2, <2>1, RestoreFields DEF RestoreGolemReady
    <3>2. NumberInv'
      BY <1>1, <2>0, <3>1 DEF NumberInv, SameAttempt
    <3>3. ObserverInv'
      BY <2>0, <3>1 DEF ObserverInv, SameAttempt, Observer
    <3>4. EnderInv'
      BY <2>0, <3>1 DEF EnderInv, DeadlineSet, Open, Uncommitted
    <3> QED BY <3>2, <3>3, <3>4
  <2>2. CASE ~CanRestore(win, c.instance, c.n)
    <3>1. win' = win
      BY <1>2, <2>2 DEF RestoreGolemReady
    <3>2. NumberInv' /\ ObserverInv'
      BY <1>1, <2>0, <3>1 DEF NumberInv, ObserverInv, Observer
    <3>3. c.instance = win.instance /\ c.n = win.handoff => ~Open(win)
      BY <2>0, <2>2 DEF EnderInv, CanRestore, Open
    <3>4. EnderInv'
      BY <2>0, <3>1, <3>3 DEF EnderInv, DeadlineSet, Open, Uncommitted
    <3> QED BY <3>2, <3>4
  <2> QED BY <2>1, <2>2
<1>3. CASE AcceptGolemReady(c)
  <2>0. c.op = "ready" /\ calls' = calls \ {c} /\ quit' = quit
    BY <1>3 DEF AcceptGolemReady
  <2>1. CASE CanCommit(win, c.instance, c.n)
    <3>1. /\ win'.phase = "ready" /\ win'.closeAuthorized = win.closeAuthorized
          /\ win'.handle = win.handle /\ SameAttempt(win, win') /\ win'.deadline = 0
      BY <1>1, <1>3, <2>1, CommitFields DEF AcceptGolemReady
    <3>2. NumberInv'
      BY <1>1, <2>0, <3>1 DEF NumberInv, SameAttempt
    <3>3. ObserverInv'
      BY <2>0, <3>1 DEF ObserverInv, SameAttempt, Observer
    <3>4. EnderInv'
      BY <2>0, <3>1 DEF EnderInv, DeadlineSet, Open, Uncommitted
    <3> QED BY <3>2, <3>3, <3>4
  <2>2. CASE ~CanCommit(win, c.instance, c.n)
    <3>1. UNCHANGED win /\ Aside(c)
      BY <1>3, <2>0, <2>2 DEF AcceptGolemReady, Aside, Observer, Ender
    <3> QED BY <2>0, <3>1, GoroutineAside
  <2> QED BY <2>1, <2>2
<1>4. CASE RequestGolemReDock(c)
  <2>0. c.op = "redock" /\ quit' = quit /\ Aside(c)
    BY <1>4 DEF RequestGolemReDock, Aside, Observer, Ender
  <2>1. CASE CanReDock(win, c.instance) /\ win' = ReDock(win) /\ Finish(c, {})
    <3>1. /\ win'.phase = "closing" /\ win'.closeAuthorized = win.closeAuthorized
          /\ win'.handle = win.handle /\ win.phase = "ready"
          /\ win'.instance = win.instance /\ win'.instanceSeq = win.instanceSeq
          /\ win'.handoff = win.handoffSeq + 1 /\ win'.handoffSeq = win.handoffSeq + 1
          /\ win'.deadline = win.handoffSeq + 1 /\ win'.observing = win.observing
      BY <1>1, <2>1, ReDockFields DEF CanReDock
    <3>2. calls' = calls \ {c}
      BY <2>1
    <3>3. NumberInv'
      BY <1>1, <3>1, <3>2 DEF NumberInv
    <3>4. ObserverInv'
      BY <2>0, <3>1, <3>2 DEF ObserverInv, Aside
    <3>5. \A d \in calls' : d.op = "abandon" => d.n # win'.handoff
      BY <1>1, <3>1, <3>2 DEF NumberInv, Ender
    <3>6. EnderInv'
      BY <2>0, <3>1, <3>2, <3>5 DEF EnderInv, DeadlineSet, Uncommitted
    <3> QED BY <3>3, <3>4, <3>6
  <2>2. CASE /\ CanObserveAgain(win, c.instance) /\ win' = ObserveAgain(win)
             /\ Finish(c, {Call("observe", c.instance, win.handoff)})
    <3> DEFINE o == Call("observe", c.instance, win.handoff)
    <3>1. /\ SamePhase(win, win') /\ win.closeAuthorized /\ win.phase = "closing"
          /\ win'.instance = win.instance /\ win'.handoff = win.handoff
          /\ win'.instanceSeq = win.instanceSeq /\ win'.handoffSeq = win.handoffSeq
          /\ win'.deadline = win.deadline /\ win'.observing /\ ~win.observing
      BY <1>1, <2>2, ObserveAgainFields DEF CanObserveAgain
    <3>2. calls' = (calls \ {c}) \cup {o} /\ o.op = "observe"
      BY <2>2 DEF Call
    <3> HIDE DEF o
    <3>3. NumberInv'
      BY <1>1, <3>1, <3>2 DEF NumberInv, SamePhase, Ender
    <3>4. ObserverInv'
      BY <3>1, <3>2 DEF ObserverInv, Observer, SamePhase
    <3>5. EnderInv'
      BY <2>0, <3>1, <3>2 DEF EnderInv, DeadlineSet, Uncommitted, Open, SamePhase
    <3> QED BY <3>3, <3>4, <3>5
  <2>3. CASE /\ win.instance = c.instance /\ Uncommitted(win) /\ UNCHANGED win
             /\ Finish(c, {Call("abandon", c.instance, win.handoff)})
    <3> DEFINE a == Call("abandon", c.instance, win.handoff)
    <3>1. /\ calls' = (calls \ {c}) \cup {a}
          /\ a.op = "abandon" /\ a.instance = win.instance /\ a.n = win.handoff
      BY <2>3 DEF Call
    <3> HIDE DEF a
    <3>2. NumberInv'
      BY <1>1, <2>3, <3>1 DEF NumberInv
    <3>3. ObserverInv'
      BY <2>0, <2>3, <3>1 DEF ObserverInv, Aside, Observer
    <3>4. EnderInv'
      BY <2>0, <2>3, <3>1 DEF EnderInv, DeadlineSet, Uncommitted
    <3> QED BY <3>2, <3>3, <3>4
  <2>4. CASE UNCHANGED win /\ Finish(c, {})
    BY <2>0, <2>4, GoroutineAside
  <2> QED BY <1>4, <2>1, <2>2, <2>3, <2>4 DEF RequestGolemReDock
<1> QED BY <1>2, <1>3, <1>4

\* The close is authorized: the only step that starts an observer for a window
\* that has none.
LEMMA AuthorizedStep ==
  ASSUME IInv, PrefInv, RetirementInv, NEW c \in calls, AuthorizeGolemClose(c)
  PROVE  RetirementInv'
<1>1. /\ win \in golemWindowRuntime /\ TypeOK
      /\ (win.closeAuthorized => win.phase = "closing")
  BY DEF IInv, TypeOK, Sound
<1> USE NumberTypes DEF RetirementInv, nativeVars, Finish
<1>2. c.op \in {"confirm", "abandon"} /\ quit' = quit
  BY DEF AuthorizeGolemClose
<1>3. CASE CanAuthorize(win, c.instance, c.n, c.op = "abandon")
  <2>1. win' = Authorize(win) /\ ~win.closeAuthorized /\ ~win.observing
    BY <1>3 DEF AuthorizeGolemClose, CanAuthorize, ObserverInv
  <2>2. \A d \in calls : ~Observer(d)
    BY <2>1 DEF ObserverInv
  <2>3. CASE win.handle = 0
    <3>1. win' = Retire(win) /\ calls' = calls \ {c}
      BY <1>3, <2>1, <2>3 DEF Authorize, AuthorizeGolemClose
    <3>2. /\ win'.phase = "closed" /\ win'.handle = 0 /\ win'.instance = 0
          /\ win'.handoff = 0 /\ win'.deadline = 0 /\ ~win'.observing
          /\ win'.instanceSeq = win.instanceSeq /\ win'.handoffSeq = win.handoffSeq
      BY <1>1, <3>1, RetireFields
    <3>3. NumberInv'
      BY <1>1, <3>1, <3>2 DEF NumberInv
    <3>4. ObserverInv'
      BY <2>2, <3>1, <3>2 DEF ObserverInv
    <3>5. EnderInv'
      BY <1>2, <3>1, <3>2 DEF EnderInv, DeadlineSet, Uncommitted
    <3> QED BY <3>3, <3>4, <3>5
  <2>4. CASE win.handle # 0
    <3> DEFINE o == Call("close", c.instance, c.n)
    <3>1. calls' = (calls \ {c}) \cup {o} /\ o.op = "close"
      BY <1>3, <2>4 DEF AuthorizeGolemClose, Call
    <3> HIDE DEF o
    <3>2. /\ win'.phase = "closing" /\ win'.handle = win.handle /\ win'.closeAuthorized
          /\ win'.instance = win.instance /\ win'.handoff = win.handoff
          /\ win'.deadline = 0 /\ win'.observing
          /\ win'.instanceSeq = win.instanceSeq /\ win'.handoffSeq = win.handoffSeq
      BY <1>1, <2>1, <2>4, AuthorizeFields
    <3>3. NumberInv'
      BY <1>1, <3>1, <3>2 DEF NumberInv, Ender
    <3>4. ObserverInv'
      BY <2>2, <3>1, <3>2 DEF ObserverInv, Observer
    <3>5. EnderInv'
      BY <1>2, <3>1, <3>2 DEF EnderInv, DeadlineSet, Uncommitted, Open
    <3> QED BY <3>3, <3>4, <3>5
  <2> QED BY <2>3, <2>4
<1>4. CASE ~CanAuthorize(win, c.instance, c.n, c.op = "abandon")
  <2>1. UNCHANGED win /\ calls' = calls \ {c}
    BY <1>4 DEF AuthorizeGolemClose
  <2>2. NumberInv' /\ ObserverInv'
    BY <1>1, <1>2, <2>1 DEF NumberInv, ObserverInv, Observer
  <2>3. c.op = "abandon" /\ c.instance = win.instance /\ c.n = win.handoff => ~Open(win)
    BY <1>1, <1>4 DEF EnderInv, CanAuthorize, Open, Uncommitted
  <2>4. EnderInv'
    BY <1>2, <2>1, <2>3 DEF EnderInv, DeadlineSet
  <2> QED BY <2>2, <2>4
<1> QED BY <1>3, <1>4

\* The observer goes on, or reports.
LEMMA ObserverStep ==
  ASSUME IInv, PrefInv, RetirementInv, NEW c \in calls,
         CloseHandle(c) \/ WaitGolemWindowRemoved(c) \/ ObserveGolemRetirement(c)
  PROVE  RetirementInv'
<1>1. win \in golemWindowRuntime /\ TypeOK
  BY DEF IInv, TypeOK
<1> USE NumberTypes DEF RetirementInv, nativeVars, Finish
<1>2. Observer(c) /\ quit' = quit
  BY DEF CloseHandle, WaitGolemWindowRemoved, ObserveGolemRetirement, Observer
<1>3. win.observing /\ win.closeAuthorized /\ \A d \in calls : Observer(d) => d = c
  BY <1>2 DEF ObserverInv
<1>4. CASE CloseHandle(c) \/ WaitGolemWindowRemoved(c)
  <2>1. UNCHANGED win /\ \E o : Observer(o) /\ calls' = (calls \ {c}) \cup {o}
    <3>1. CASE CloseHandle(c)
      <4> DEFINE o == Call("observe", c.instance, c.n)
      <4>1. UNCHANGED win /\ calls' = (calls \ {c}) \cup {o}
        BY <3>1 DEF CloseHandle
      <4>2. Observer(o)
        BY DEF Observer, Call
      <4> HIDE DEF o
      <4> QED BY <4>1, <4>2
    <3>2. CASE WaitGolemWindowRemoved(c)
      <4>1. PICK op \in {"removed", "stalled", "quitting"} :
              calls' = (calls \ {c}) \cup {Call(op, c.instance, c.n)}
        BY <3>2 DEF WaitGolemWindowRemoved
      <4> DEFINE o == Call(op, c.instance, c.n)
      <4>2. UNCHANGED win /\ calls' = (calls \ {c}) \cup {o}
        BY <3>2, <4>1 DEF WaitGolemWindowRemoved
      <4>3. Observer(o)
        BY DEF Observer, Call
      <4> HIDE DEF o
      <4> QED BY <4>2, <4>3
    <3> QED BY <1>4, <3>1, <3>2
  <2>2. PICK o : Observer(o) /\ calls' = (calls \ {c}) \cup {o}
    BY <2>1
  <2>3. NumberInv'
    BY <1>1, <2>1, <2>2 DEF NumberInv, Observer, Ender
  <2>4. ObserverInv'
    BY <1>3, <2>1, <2>2 DEF ObserverInv
  <2>5. EnderInv'
    BY <1>2, <2>1, <2>2 DEF EnderInv, DeadlineSet, Observer, Open, Uncommitted
  <2> QED BY <2>3, <2>4, <2>5
<1>5. CASE ObserveGolemRetirement(c)
  <2>1. calls' = calls \ {c} /\ \A d \in calls' : ~Observer(d)
    BY <1>3, <1>5 DEF ObserveGolemRetirement
  <2>2. CASE win' = Retire(win)
    <3>2. /\ win'.phase = "closed" /\ win'.handle = 0 /\ win'.instance = 0
          /\ win'.handoff = 0 /\ win'.deadline = 0 /\ ~win'.observing
          /\ win'.instanceSeq = win.instanceSeq /\ win'.handoffSeq = win.handoffSeq
      BY <1>1, <2>2, RetireFields
    <3>3. NumberInv'
      BY <1>1, <2>1, <3>2 DEF NumberInv
    <3>4. ObserverInv'
      BY <2>1, <3>2 DEF ObserverInv
    <3>5. EnderInv'
      BY <1>2, <2>1, <3>2 DEF EnderInv, DeadlineSet, Uncommitted
    <3> QED BY <3>3, <3>4, <3>5
  <2>3. CASE win' # Retire(win)
    <3>2. /\ SamePhase(win, win') /\ ~win'.observing /\ win'.deadline = win.deadline
          /\ win'.instance = win.instance /\ win'.handoff = win.handoff
          /\ win'.instanceSeq = win.instanceSeq /\ win'.handoffSeq = win.handoffSeq
      <4> DEFINE observed == [win EXCEPT !.observing = FALSE]
                 stalled == [observed EXCEPT !.retirementFailed = TRUE]
      <4>1. win' \in {observed, Transition(stalled)}
        BY <1>5, <2>3 DEF ObserveGolemRetirement
      <4>2. CASE win' = observed
        BY <1>1, <4>2 DEF SamePhase, golemWindowRuntime
      <4>3. CASE win' = Transition(stalled)
        BY <1>1, <4>3 DEF Transition, SamePhase, golemWindowRuntime
      <4> HIDE DEF observed, stalled
      <4> QED BY <4>1, <4>2, <4>3
    <3>3. NumberInv'
      BY <1>1, <2>1, <3>2 DEF NumberInv, SamePhase
    <3>4. ObserverInv'
      BY <2>1, <3>2 DEF ObserverInv
    <3>5. EnderInv'
      BY <1>2, <1>3, <2>1, <3>2 DEF EnderInv, DeadlineSet, Observer, Open, Uncommitted, SamePhase
    <3> QED BY <3>3, <3>4, <3>5
  <2> QED BY <2>2, <2>3
<1> QED BY <1>4, <1>5

LEMMA RetirementStepInv ==
  IInv /\ PrefInv /\ RetirementInv /\ [Next]_vars => RetirementInv'
<1> SUFFICES ASSUME IInv, PrefInv, RetirementInv, [Next]_vars PROVE RetirementInv'
  OBVIOUS
<1>1. ASSUME NEW c \in calls, Goroutine(c) PROVE RetirementInv'
  BY <1>1, AttemptStep, UndoStep, HandoffStep, AuthorizedStep, ObserverStep, GoroutineAside
     DEF Goroutine
<1>2. CASE Windows
  BY <1>2, AttemptStep, OutsideAside DEF Windows
<1>3. CASE Timers \/ PermitQuit \/ UNCHANGED vars \/ \E s \in saves : SaveGolemPreference(s)
  BY <1>3, UndoStep, OutsideAside DEF Timers
<1>4. ASSUME NEW i \in Instance, Opener(i) \/ CloseDispatched(i) PROVE RetirementInv'
  BY <1>4, AttemptStep, OutsideAside DEF Opener
<1> QED BY <1>1, <1>2, <1>3, <1>4 DEF Next

LEMMA RetirementInit == Init => RetirementInv
<1> SUFFICES ASSUME Init PROVE RetirementInv
  OBVIOUS
<1> QED BY DEF Init, Loaded, RetirementInv, NumberInv, EnderInv, ObserverInv, DeadlineSet,
             Uncommitted

(***************************************************************************)
(* A window that closes has exactly one observer, which will report what    *)
(* became of it, and a handoff that Go can undo has a deadline or a         *)
(* goroutine that will undo it, until the application quits.                *)
(***************************************************************************)
THEOREM RetirementSoundAlways == Spec => []RetirementSound
<1>1. Init => IInv /\ PrefInv /\ RetirementInv
  BY InitInv, PreferenceInit, RetirementInit
<1>2. IInv /\ PrefInv /\ RetirementInv /\ [Next]_vars => (IInv /\ PrefInv /\ RetirementInv)'
  BY NextInv, PreferenceStep, RetirementStepInv
<1>3. IInv /\ PrefInv /\ RetirementInv => RetirementSound
  <2> SUFFICES ASSUME IInv, RetirementInv PROVE RetirementSound
    OBVIOUS
  <2> DEFINE observers ==
        {c \in calls : c.op \in {"close", "observe", "removed", "stalled", "quitting"}}
  <2>1. win.observing <=> observers # {}
    BY DEF RetirementInv, ObserverInv, Observer
  <2>2. Cardinality(observers) <= 1
    <3>1. \A c, d \in observers : c = d
      BY DEF RetirementInv, ObserverInv, Observer
    <3> HIDE DEF observers
    <3>2. CASE observers = {}
      BY <3>2, FS_EmptySet
    <3>3. CASE observers # {}
      <4>1. PICK c : c \in observers
        BY <3>3
      <4>2. observers = {c}
        BY <3>1, <4>1
      <4> QED BY <4>2, FS_Singleton
    <3> QED BY <3>2, <3>3
  <2>3. ObserverCounted
    BY <2>1, <2>2 DEF ObserverCounted
  <2> QED BY <2>3 DEF RetirementSound, IInv, RetirementInv, EnderInv
<1> QED BY <1>1, <1>2, <1>3, PTL DEF Spec

-----------------------------------------------------------------------------
(* An authorized close. *)

\* The same window goes on closing, or it has been retired.
OnlyRetires(w, w2) ==
  \/ w2.phase = w.phase /\ w2.closeAuthorized = w.closeAuthorized /\ w2.instance = w.instance
  \/ w2.phase = "closed" /\ ~w2.closeAuthorized /\ w2.instance = 0

LEMMA AuthorizedMoves ==
  ASSUME IInv, win.closeAuthorized, [Next]_vars PROVE OnlyRetires(win, win')
<1>1. win \in golemWindowRuntime /\ win.phase = "closing"
  BY DEF IInv, TypeOK, Sound
<1>2. CASE UNCHANGED win
  BY <1>2 DEF OnlyRetires
<1>3. ASSUME NEW c \in calls, Goroutine(c) PROVE OnlyRetires(win, win')
  <2>1. CASE \/ GolemTransitionTimeout(c) \/ CloseHandle(c) \/ WaitGolemWindowRemoved(c)
             \/ AcceptGolemAbort(c) \/ SaveGolemFrameForShutdown(c)
    BY <1>2, <2>1 DEF GolemTransitionTimeout, CloseHandle, WaitGolemWindowRemoved,
         AcceptGolemAbort, SaveGolemFrameForShutdown
  <2>2. CASE \/ ReserveGolemWindow(c) \/ RestoreGolemReady(c) \/ AuthorizeGolemClose(c)
             \/ AcceptGolemReady(c)
    BY <1>1, <1>2, <2>2 DEF ReserveGolemWindow, RestoreGolemReady, AuthorizeGolemClose,
         AcceptGolemReady, CanReserve, CanRestore, CanAuthorize, CanCommit
  <2>3. CASE RequestGolemReDock(c)
    <3>1. UNCHANGED win \/ win' = ObserveAgain(win)
      BY <1>1, <2>3 DEF RequestGolemReDock, CanReDock
    <3>2. CASE win' = ObserveAgain(win)
      BY <1>1, <3>2, ObserveAgainFields DEF OnlyRetires, SamePhase
    <3> QED BY <1>2, <3>1, <3>2
  <2>4. CASE ObserveGolemRetirement(c)
    <3> DEFINE observed == [win EXCEPT !.observing = FALSE]
               stalled == [observed EXCEPT !.retirementFailed = TRUE]
    <3>1. win' \in {Retire(win), observed, Transition(stalled)}
      BY <2>4 DEF ObserveGolemRetirement
    <3>2. CASE win' = Retire(win)
      BY <1>1, <3>2, RetireFields DEF OnlyRetires
    <3>3. CASE win' = observed
      BY <1>1, <3>3 DEF OnlyRetires, golemWindowRuntime
    <3>4. CASE win' = Transition(stalled)
      BY <1>1, <3>4 DEF OnlyRetires, Transition, golemWindowRuntime
    <3> HIDE DEF observed, stalled
    <3> QED BY <3>1, <3>2, <3>3, <3>4
  <2>5. CASE AcceptGolemView(c) \/ AcceptGolemDrafts(c) \/ AcceptGolemAck(c)
    BY <1>1, <2>5 DEF AcceptGolemView, AcceptGolemDrafts, AcceptGolemAck, Accept, RecordDrafts,
         RecordAck, OnlyRetires, golemWindowRuntime
  <2>6. CASE CaptureGolemFrame(c) \/ SaveGolemFrameForQuit(c)
    BY <1>1, <2>6 DEF CaptureGolemFrame, SaveGolemFrameForQuit, OnlyRetires, golemWindowRuntime
  <2> QED BY <1>3, <2>1, <2>2, <2>3, <2>4, <2>5, <2>6 DEF Goroutine
<1>4. CASE Windows
  <2>1. ASSUME NEW i \in Instance, ScheduleGolemBoundsSave(i) PROVE FALSE
    BY <2>1 DEF ScheduleGolemBoundsSave
  <2>2. UNCHANGED win
    BY <1>1, <1>4, <2>1 DEF Windows, OpenGolemWindow, BootstrapGolemWindow, CloseGolemWindow,
         ConfirmGolemWindowClose, Post, PostView, PostMainDrafts, PostReady, PostFinalDrafts,
         PostAck, PostAbort, UserCloses
  <2> QED BY <1>2, <2>2
<1>5. CASE Timers
  BY <1>1, <1>5 DEF Timers, SaveTimerFires, DeadlineFires, OnlyRetires, golemWindowRuntime
<1>6. ASSUME NEW i \in Instance, Opener(i) \/ CloseDispatched(i) PROVE OnlyRetires(win, win')
  BY <1>1, <1>2, <1>6 DEF Opener, CreateGolemWindow, AbandonGolemOpen, InstallGolemWindow,
       AddWindow, RunWindow, CheckGolemWindow, CanInstall, CloseDispatched
<1>7. CASE PermitQuit \/ UNCHANGED vars \/ \E s \in saves : SaveGolemPreference(s)
  BY <1>2, <1>7 DEF PermitQuit, SaveGolemPreference, vars
<1> QED BY <1>3, <1>4, <1>5, <1>6, <1>7 DEF Next

(***************************************************************************)
(* Once its close is authorized a window is neither made ready again nor    *)
(* replaced: nothing but its retirement ends the close.                     *)
(***************************************************************************)
THEOREM NoWayBackAlways == Spec => NoWayBack
<1>1. IInv /\ [Next]_vars =>
        [win.closeAuthorized =>
           /\ win'.phase = (IF win'.closeAuthorized THEN "closing" ELSE "closed")
           /\ win'.instance \in {win.instance, 0}]_vars
  <2> SUFFICES ASSUME IInv, [Next]_vars, win.closeAuthorized
               PROVE  /\ win'.phase = (IF win'.closeAuthorized THEN "closing" ELSE "closed")
                      /\ win'.instance \in {win.instance, 0}
    OBVIOUS
  <2>1. OnlyRetires(win, win') /\ win.phase = "closing"
    BY AuthorizedMoves DEF IInv, Sound
  <2> QED BY <2>1 DEF OnlyRetires
<1> QED BY <1>1, Invariance, InitInv, NextInv, PTL DEF Spec, NoWayBack

=============================================================================
