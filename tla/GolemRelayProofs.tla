-------------------------- MODULE GolemRelayProofs --------------------------
(***************************************************************************)
(* Proofs about GolemRelay: the composer is never live in both windows,    *)
(* for any number of attempts to open the window, of transfers, of posts   *)
(* and of behaviours' bounds, whatever the order in which calls, relayed   *)
(* messages and published states arrive and whatever of them is lost.      *)
(***************************************************************************)
EXTENDS GolemRelay, TLAPS

-----------------------------------------------------------------------------
(* The invariant.  The main window lifts its barrier when it installs a     *)
(* state without a window.  It may do so long after another window was      *)
(* opened, so what keeps the composers apart is not the barrier itself but  *)
(* that the satellite becomes interactive only in a window whose drafts     *)
(* main has sent, which it does from a state of that window, and that no    *)
(* state of another window, or of none, is newer than that one while the    *)
(* window lives.                                                            *)

\* The states that were published and may still be installed, or are.
History == emitted \cup {main.state, sat.state, Snapshot(win)}

\* The fields of the machine that the proof reads.
Runtime(w) ==
  /\ {"phase", "mode", "instance", "instanceSeq", "handoff", "handoffSeq", "handle", "transferID",
      "closeAuthorized", "stateRevision", "saveGen"} \subseteq DOMAIN w
  /\ w.stateRevision \in Nat /\ w.instanceSeq \in Nat /\ w.instance \in Nat

\* A window is there exactly while its attempt lasts.
WinSound(w) ==
  /\ Runtime(w)
  /\ w.instance = 0 <=> w.phase = "closed"
  /\ w.handle \in {0, w.instance}
  /\ w.instance <= w.instanceSeq

Shapes == {"state", "frozen", "acks", "returned"} \subseteq DOMAIN main /\ "state" \in DOMAIN sat

\* What main answers is an acknowledgement.
Answers == \A a \in main.acks \cup main.returned : a.kind = "ack"

\* A state was published by the machine, which has moved on.
Past ==
  \A s \in History :
    /\ s.rev \in Nat /\ s.rev <= win.stateRevision
    /\ s.instance \in Nat /\ s.instance <= win.instanceSeq
    /\ s.instance = 0 <=> s.phase = "closed"

\* While a window lives, every state since its first is of it.
Newest ==
  \A s, t \in History :
    s.instance = win.instance /\ s.instance # 0 /\ s.rev <= t.rev => t.instance = win.instance

\* Main knows of the window.
Aware == main.state.instance = win.instance

\* The satellite has the drafts, or Go has recorded that they were sent to it.
Owns(w) ==
  \/ w.phase = "ready"
  \/ w.phase = "closing" /\ ~w.closeAuthorized
  \/ Uncommitted(w) /\ w.transferID # 0

FromMainDrafts(p) == p.from = "main" /\ p.m.kind = "drafts"

\* The drafts reach no window that main does not know of.
Handed ==
  /\ Owns(win) => Aware
  /\ \A s \in History : s.phase = "ready" /\ s.instance = win.instance => Aware
  /\ \A p \in posts : FromMainDrafts(p) =>
       /\ p.m.instance \in Nat /\ p.m.instance <= win.instanceSeq
       /\ p.m.instance = win.instance /\ win.instance # 0 => Aware

Barrier == main.frozen \/ main.state.phase = "closed"

EditorInv == WinSound(win) /\ Shapes /\ Answers /\ Past /\ Newest /\ Handed /\ Barrier

-----------------------------------------------------------------------------
(* The machine.  Advances(w, v): v is w one critical section later, and no  *)
(* window has become the owner of the drafts.                               *)

Later(w, v) ==
  /\ WinSound(v)
  /\ w.stateRevision <= v.stateRevision /\ w.instanceSeq <= v.instanceSeq
  /\ v.instance \in {w.instance, 0} \/ v.instance > w.instanceSeq
  /\ v.instance # w.instance => w.stateRevision < v.stateRevision

Advances(w, v) == Later(w, v) /\ (Owns(v) => Owns(w) /\ v.instance = w.instance)

LEMMA SameAdvances == ASSUME NEW w, WinSound(w) PROVE Advances(w, w)
BY DEF Advances, Later, WinSound, Runtime

LEMMA TransitionFields ==
  ASSUME NEW w, Runtime(w)
  PROVE  /\ Runtime(Transition(w))
         /\ Transition(w).stateRevision = w.stateRevision + 1
         /\ Transition(w).phase = w.phase /\ Transition(w).mode = w.mode
         /\ Transition(w).instance = w.instance /\ Transition(w).handoff = w.handoff
         /\ Transition(w).instanceSeq = w.instanceSeq
         /\ Transition(w).handle = w.handle /\ Transition(w).transferID = w.transferID
         /\ Transition(w).closeAuthorized = w.closeAuthorized
BY DEF Transition, Runtime

LEMMA RetireAdvances ==
  ASSUME NEW w, Runtime(w)
  PROVE  /\ WinSound(Retire(w)) /\ Retire(w).instance = 0 /\ ~Owns(Retire(w))
         /\ Retire(w).stateRevision = w.stateRevision + 1
         /\ Retire(w).instanceSeq = w.instanceSeq
<1> DEFINE v == [w EXCEPT
    !.mode = "docked", !.phase = "closed", !.instance = 0, !.handoff = 0,
    !.handle = 0, !.view = FALSE, !.transferID = 0, !.transferAcked = FALSE,
    !.deadline = 0, !.saveTimer = 0, !.closeAuthorized = FALSE,
    !.observing = FALSE, !.retirementFailed = FALSE]
<1>2. /\ Runtime(v) /\ v.phase = "closed" /\ v.instance = 0 /\ v.handle = 0
      /\ v.stateRevision = w.stateRevision /\ v.instanceSeq = w.instanceSeq
  BY DEF Runtime
<1>3. Retire(w) = Transition(v)
  BY DEF Retire
<1> HIDE DEF v
<1>4. /\ Runtime(Transition(v)) /\ Transition(v).phase = "closed"
      /\ Transition(v).instance = 0 /\ Transition(v).handle = 0
      /\ Transition(v).stateRevision = w.stateRevision + 1
      /\ Transition(v).instanceSeq = w.instanceSeq
  BY <1>2, TransitionFields
<1>5. 0 <= w.instanceSeq
  BY DEF Runtime
<1> QED BY <1>3, <1>4, <1>5 DEF WinSound, Owns, Uncommitted

\* A critical section that keeps the attempt, up to the fields of a transition.
LEMMA KeptAdvances ==
  ASSUME NEW w, WinSound(w), NEW v, Runtime(v),
         v.instance = w.instance, v.instanceSeq = w.instanceSeq, v.handle = w.handle,
         v.stateRevision = w.stateRevision, v.phase = "closed" <=> w.phase = "closed",
         Owns(v) => Owns(w)
  PROVE  Advances(w, v) /\ Advances(w, Transition(v))
<1>1. /\ Runtime(Transition(v))
      /\ Transition(v).instance = w.instance /\ Transition(v).instanceSeq = w.instanceSeq
      /\ Transition(v).handle = w.handle /\ Transition(v).stateRevision = w.stateRevision + 1
      /\ Transition(v).phase = v.phase /\ Transition(v).closeAuthorized = v.closeAuthorized
      /\ Transition(v).transferID = v.transferID
  BY TransitionFields
<1>2. w.stateRevision \in Nat /\ w.instanceSeq \in Nat /\ w.instance \in Nat
  BY DEF WinSound, Runtime
<1>3. Owns(Transition(v)) => Owns(w)
  BY <1>1 DEF Owns, Uncommitted
<1> QED BY <1>1, <1>2, <1>3 DEF Advances, Later, WinSound

LEMMA ReserveAdvances ==
  ASSUME NEW w, WinSound(w), CanReserve(w)
  PROVE  /\ Advances(w, Install(Reserve(w), Reserve(w).instance))
         /\ Advances(w, Retire(Reserve(w)))
<1> DEFINE i == w.instanceSeq + 1
           r == Reserve(w)
<1>1. /\ i \in Nat /\ i # 0 /\ i > w.instanceSeq /\ w.instanceSeq <= i
      /\ w.stateRevision \in Nat /\ w.instanceSeq \in Nat
  BY DEF WinSound, Runtime
<1>2. w.instance = 0 /\ w.handle = 0
  BY DEF CanReserve, WinSound
<1>3. /\ Runtime(r) /\ r.phase = "bootstrapping" /\ r.instance = i
      /\ r.instanceSeq = i /\ r.stateRevision = w.stateRevision /\ r.transferID = 0
  BY <1>1 DEF Reserve, WinSound, Runtime
<1> HIDE DEF i, r
<1> DEFINE v == [r EXCEPT !.handle = i, !.deadline = r.handoff]
<1>5. /\ Runtime(v) /\ v.phase = "bootstrapping" /\ v.instance = i /\ v.handle = i
      /\ v.instanceSeq = i /\ v.stateRevision = w.stateRevision /\ v.transferID = 0
  BY <1>1, <1>3 DEF Runtime
<1>6. Install(r, r.instance) = Transition(v)
  BY <1>3 DEF Install
<1> HIDE DEF v
<1>7. Advances(w, Transition(v))
  <2>1. /\ Runtime(Transition(v)) /\ Transition(v).phase = "bootstrapping"
        /\ Transition(v).instance = i /\ Transition(v).handle = i
        /\ Transition(v).instanceSeq = i /\ Transition(v).transferID = 0
        /\ Transition(v).stateRevision = w.stateRevision + 1
    BY <1>5, TransitionFields
  <2>2. WinSound(Transition(v))
    BY <2>1, <1>1 DEF WinSound
  <2> QED BY <2>1, <2>2, <1>1 DEF Advances, Later, Owns, Uncommitted
<1>8. Advances(w, Retire(r))
  BY <1>1, <1>3, RetireAdvances DEF Advances, Later
<1> QED BY <1>6, <1>7, <1>8 DEF r

LEMMA BootstrapAdvances == ASSUME NEW w, WinSound(w) PROVE Advances(w, Bootstrap(w))
<1> DEFINE v == [w EXCEPT !.phase = "bootstrapped"]
<1>1. CASE w.phase = "bootstrapping"
  <2>1. /\ Runtime(v) /\ v.phase = "bootstrapped" /\ v.instance = w.instance
        /\ v.instanceSeq = w.instanceSeq /\ v.handle = w.handle
        /\ v.stateRevision = w.stateRevision /\ v.transferID = w.transferID
    BY DEF WinSound, Runtime
  <2>2. Owns(v) => Owns(w)
    BY <1>1, <2>1 DEF Owns, Uncommitted
  <2>3. Bootstrap(w) = Transition(v)
    BY <1>1 DEF Bootstrap
  <2> HIDE DEF v
  <2> QED BY <1>1, <2>1, <2>2, <2>3, KeptAdvances
<1>2. CASE w.phase # "bootstrapping"
  BY <1>2, SameAdvances DEF Bootstrap
<1> QED BY <1>1, <1>2

LEMMA ViewAdvances == ASSUME NEW w, WinSound(w) PROVE Advances(w, [w EXCEPT !.view = TRUE])
<1> DEFINE v == [w EXCEPT !.view = TRUE]
<1>1. /\ Runtime(v) /\ v.phase = w.phase /\ v.instance = w.instance
      /\ v.instanceSeq = w.instanceSeq /\ v.handle = w.handle
      /\ v.stateRevision = w.stateRevision /\ v.transferID = w.transferID
      /\ v.closeAuthorized = w.closeAuthorized
  BY DEF WinSound, Runtime
<1>2. Owns(v) => Owns(w)
  BY <1>1 DEF Owns, Uncommitted
<1> HIDE DEF v
<1>3. Advances(w, v)
  BY <1>1, <1>2, KeptAdvances
<1> QED BY <1>3 DEF v

LEMMA RecordAckAdvances ==
  ASSUME NEW w, WinSound(w), NEW ok PROVE Advances(w, RecordAck(w, ok))
<1> DEFINE v == [w EXCEPT !.transferAcked = ok]
<1>1. /\ Runtime(v) /\ v.phase = w.phase /\ v.instance = w.instance
      /\ v.instanceSeq = w.instanceSeq /\ v.handle = w.handle
      /\ v.stateRevision = w.stateRevision /\ v.transferID = w.transferID
      /\ v.closeAuthorized = w.closeAuthorized
  BY DEF WinSound, Runtime
<1>2. Owns(v) => Owns(w)
  BY <1>1 DEF Owns, Uncommitted
<1> HIDE DEF v
<1>3. Advances(w, v)
  BY <1>1, <1>2, KeptAdvances
<1> QED BY <1>3 DEF v, RecordAck

\* Go records the drafts of a transfer: while a window is brought up, it owns them from here.
LEMMA RecordDraftsAdvances ==
  ASSUME NEW w, WinSound(w), NEW id
  PROVE  /\ Later(w, RecordDrafts(w, id)) /\ RecordDrafts(w, id).instance = w.instance
         /\ w.phase = "closing" => Advances(w, RecordDrafts(w, id))
<1> DEFINE v == [w EXCEPT !.transferID = id, !.transferAcked = FALSE]
<1>1. /\ Runtime(v) /\ v.phase = w.phase /\ v.instance = w.instance
      /\ v.instanceSeq = w.instanceSeq /\ v.handle = w.handle
      /\ v.stateRevision = w.stateRevision
      /\ v.closeAuthorized = w.closeAuthorized
  BY DEF WinSound, Runtime
<1>2. w.stateRevision \in Nat /\ w.instanceSeq \in Nat
  BY DEF WinSound, Runtime
<1>3. v = RecordDrafts(w, id)
  BY DEF RecordDrafts
<1> HIDE DEF v
<1>4. Later(w, v) /\ (w.phase = "closing" => Advances(w, v))
  BY <1>1, <1>2 DEF Later, Advances, WinSound, Owns, Uncommitted
<1> QED BY <1>1, <1>3, <1>4

LEMMA CommitAdvances ==
  ASSUME NEW w, WinSound(w), NEW i, NEW id, CanCommit(w, i, id)
  PROVE  Advances(w, Commit(w))
<1> DEFINE v == [w EXCEPT !.phase = "ready", !.mode = "undocked",
                          !.restorePending = FALSE, !.deadline = 0]
<1>2. /\ Runtime(v) /\ v.phase = "ready" /\ v.instance = w.instance
      /\ v.instanceSeq = w.instanceSeq /\ v.handle = w.handle
      /\ v.stateRevision = w.stateRevision
  BY DEF WinSound, Runtime
<1>3. Owns(w) /\ w.phase # "closed"
  BY DEF Owns, Uncommitted, CanCommit
<1>4. Commit(w) = Transition(v)
  BY DEF Commit
<1> HIDE DEF v
<1> QED BY <1>2, <1>3, <1>4, KeptAdvances

LEMMA ReDockAdvances ==
  ASSUME NEW w, WinSound(w), NEW i, CanReDock(w, i) PROVE Advances(w, ReDock(w))
<1> DEFINE h == w.handoffSeq + 1
<1> HIDE DEF h
<1> DEFINE v == [w EXCEPT
      !.phase = "closing", !.handoffSeq = h, !.handoff = h,
      !.transferID = 0, !.transferAcked = FALSE, !.saveTimer = 0, !.deadline = h]
<1>2. /\ Runtime(v) /\ v.phase = "closing" /\ v.instance = w.instance
      /\ v.instanceSeq = w.instanceSeq /\ v.handle = w.handle
      /\ v.stateRevision = w.stateRevision
  BY DEF WinSound, Runtime
<1>3. ReDock(w) = Transition(v)
  BY DEF ReDock, h, WinSound, Runtime
<1>4. Owns(w) /\ w.phase # "closed"
  BY DEF Owns, CanReDock
<1> HIDE DEF v
<1> QED BY <1>2, <1>3, <1>4, KeptAdvances

LEMMA ObserveAdvances ==
  ASSUME NEW w, WinSound(w), NEW observes, NEW fails
  PROVE  Advances(w, Transition([w EXCEPT !.observing = observes, !.retirementFailed = fails]))
<1> DEFINE v == [w EXCEPT !.observing = observes, !.retirementFailed = fails]
<1>1. /\ Runtime(v) /\ v.phase = w.phase /\ v.instance = w.instance
      /\ v.instanceSeq = w.instanceSeq /\ v.handle = w.handle
      /\ v.stateRevision = w.stateRevision /\ v.transferID = w.transferID
      /\ v.closeAuthorized = w.closeAuthorized
  BY DEF WinSound, Runtime
<1>2. Owns(v) => Owns(w)
  BY <1>1 DEF Owns, Uncommitted
<1> HIDE DEF v
<1>3. Advances(w, Transition(v))
  BY <1>1, <1>2, KeptAdvances
<1> QED BY <1>3 DEF v

LEMMA ObserveAgainAdvances ==
  ASSUME NEW w, WinSound(w) PROVE Advances(w, ObserveAgain(w))
<1>1. ObserveAgain(w) = Transition([w EXCEPT !.observing = TRUE, !.retirementFailed = FALSE])
  BY DEF ObserveAgain, WinSound, Runtime
<1> QED BY <1>1, ObserveAdvances

LEMMA RestoreAdvances ==
  ASSUME NEW w, WinSound(w), w.phase = "closing", ~w.closeAuthorized
  PROVE  Advances(w, Restore(w))
<1> DEFINE v == [w EXCEPT !.phase = "ready", !.transferID = 0, !.transferAcked = FALSE, !.deadline = 0]
<1>2. /\ Runtime(v) /\ v.phase = "ready" /\ v.instance = w.instance
      /\ v.instanceSeq = w.instanceSeq /\ v.handle = w.handle
      /\ v.stateRevision = w.stateRevision
  BY DEF WinSound, Runtime
<1>3. Owns(w) /\ Restore(w) = Transition(v)
  BY DEF Owns, Restore
<1> HIDE DEF v
<1> QED BY <1>2, <1>3, KeptAdvances

LEMMA AuthorizeAdvances == ASSUME NEW w, WinSound(w), w.phase # "closed" PROVE Advances(w, Authorize(w))
<1>1. CASE w.handle = 0
  <2>1. w.stateRevision \in Nat /\ w.instanceSeq \in Nat
    BY DEF WinSound, Runtime
  <2> QED BY <1>1, <2>1, RetireAdvances DEF Authorize, Advances, Later, WinSound
<1>2. CASE w.handle # 0
  <2> DEFINE v == [w EXCEPT
         !.phase = "closing", !.closeAuthorized = TRUE, !.retirementFailed = FALSE,
         !.observing = TRUE, !.deadline = 0, !.saveTimer = 0]
  <2>2. /\ Runtime(v) /\ v.phase = "closing" /\ v.instance = w.instance
        /\ v.instanceSeq = w.instanceSeq /\ v.handle = w.handle
        /\ v.stateRevision = w.stateRevision /\ v.closeAuthorized
    BY DEF WinSound, Runtime
  <2>3. ~Owns(v) /\ Authorize(w) = Transition(v)
    BY <1>2, <2>2 DEF Owns, Uncommitted, Authorize
  <2> HIDE DEF v
  <2> QED BY <2>2, <2>3, KeptAdvances
<1> QED BY <1>1, <1>2

LEMMA RetiredAdvances == ASSUME NEW w, WinSound(w) PROVE Advances(w, Retire(w))
<1>1. w.stateRevision \in Nat /\ w.instanceSeq \in Nat
  BY DEF WinSound, Runtime
<1> QED BY <1>1, RetireAdvances DEF Advances, Later, WinSound

-----------------------------------------------------------------------------
(* What a step makes of the two windows' states.                            *)

LEMMA SnapshotFields ==
  ASSUME NEW w, WinSound(w)
  PROVE  /\ Snapshot(w).rev = w.stateRevision /\ Snapshot(w).instance = w.instance
         /\ Snapshot(w).phase = w.phase
         /\ w.stateRevision \in Nat /\ w.instance \in Nat /\ w.instanceSeq \in Nat
BY DEF Snapshot, WinSound, Runtime

\* States are published by the machine only, main's is never replaced by an older one, and
\* main posts drafts only for the window it knows.
Publishes ==
  /\ \A s \in History' : s \in History \/ s = Snapshot(win')
  /\ \/ main'.state = main.state
     \/ main'.state \in History /\ main.state.rev <= main'.state.rev
  /\ \A p \in posts' : FromMainDrafts(p) => p \in posts \/ p.m.instance = main'.state.instance

Advanced ==
  Later(win, win') /\ (Owns(win') => win'.instance = win.instance /\ (Owns(win) \/ Aware))

LEMMA AdvancesAdvanced == Advances(win, win') => Advanced
BY DEF Advances, Advanced

LEMMA EditorKept ==
  ASSUME EditorInv, Advanced, Publishes, Shapes', Answers', Barrier'
  PROVE  EditorInv'
<1> USE DEF EditorInv, Later, Advanced
<1>1. WinSound(win) /\ WinSound(win')
  OBVIOUS
<1>2. Snapshot(win) \in History /\ Snapshot(win') \in History' /\ main.state \in History
      /\ main'.state \in History'
  BY DEF History
<1>3. \A s \in History' : s = Snapshot(win') \/ s \in History
  BY DEF Publishes
<1>4. /\ Snapshot(win').rev = win'.stateRevision /\ Snapshot(win').instance = win'.instance
      /\ Snapshot(win').phase = win'.phase
      /\ win'.stateRevision \in Nat /\ win'.instance \in Nat /\ win'.instanceSeq \in Nat
      /\ win.stateRevision \in Nat /\ win.instance \in Nat /\ win.instanceSeq \in Nat
  BY <1>1, SnapshotFields
<1>5. Past'
  <2> SUFFICES ASSUME NEW s \in History'
               PROVE  /\ s.rev \in Nat /\ s.rev <= win'.stateRevision
                      /\ s.instance \in Nat /\ s.instance <= win'.instanceSeq
                      /\ s.instance = 0 <=> s.phase = "closed"
    BY DEF Past
  <2>1. CASE s = Snapshot(win')
    BY <2>1, <1>1, <1>4 DEF WinSound
  <2>2. CASE s \in History
    BY <2>2, <1>4 DEF Past
  <2> QED BY <2>1, <2>2, <1>3
\* A state of the window that lives now is new with it, or of the window that lived before.
<1>6. \A s \in History : s.instance = win'.instance /\ s.instance # 0 => win'.instance = win.instance
  BY <1>4 DEF Past
<1>7. \A s, t \in History' :
        s.instance = win'.instance /\ s.instance # 0 /\ s.rev <= t.rev => t.instance = win'.instance
  <2> SUFFICES ASSUME NEW s \in History', NEW t \in History',
                      s.instance = win'.instance, s.instance # 0, s.rev <= t.rev
               PROVE  t.instance = win'.instance
    OBVIOUS
  <2>1. CASE t = Snapshot(win')
    BY <2>1, <1>4
  <2>2. CASE t \in History /\ s \in History
    BY <2>2, <1>6 DEF Newest
  <2>3. CASE t \in History /\ s = Snapshot(win')
    <3>1. t.rev \in Nat /\ t.rev <= win.stateRevision
      BY <2>3 DEF Past
    <3>2. win'.stateRevision <= win.stateRevision
      BY <2>3, <3>1, <1>4
    <3>3. win'.instance = win.instance /\ win.stateRevision <= t.rev
      BY <3>1, <3>2, <2>3, <1>4
    <3> QED BY <3>3, <2>3, <1>2, <1>4, <1>1, SnapshotFields DEF Newest
  <2> QED BY <2>1, <2>2, <2>3, <1>3
\* Main does not forget the window that lives.
<1>8. Aware /\ win'.instance = win.instance /\ win.instance # 0 => Aware'
  BY <1>2 DEF Aware, Publishes, Newest
<1>9. Owns(win) => win.instance # 0
  BY <1>1 DEF Owns, WinSound, Uncommitted
<1>10. (Owns(win) => Aware) /\ (Owns(win') => win'.instance # 0)
  BY <1>1 DEF Handed, Owns, WinSound, Uncommitted
<1>11. Owns(win') => Aware'
  BY <1>8, <1>10
<1>12. ASSUME NEW s \in History', s.phase = "ready", s.instance = win'.instance
       PROVE  Aware'
  <2>1. s.instance # 0
    BY <1>5, <1>12 DEF Past
  <2>2. CASE s = Snapshot(win')
    BY <2>2, <1>4, <1>11, <1>12 DEF Owns
  <2>3. CASE s \in History
    BY <2>1, <2>3, <1>6, <1>8, <1>12 DEF Handed
  <2> QED BY <2>2, <2>3, <1>3
<1>13. ASSUME NEW p \in posts', FromMainDrafts(p)
       PROVE  /\ p.m.instance \in Nat /\ p.m.instance <= win'.instanceSeq
              /\ p.m.instance = win'.instance /\ win'.instance # 0 => Aware'
  <2>1. CASE p.m.instance = main'.state.instance
    BY <2>1, <1>2, <1>5 DEF Past, Aware
  <2>2. CASE p \in posts
    <3>1. p.m.instance \in Nat /\ p.m.instance <= win.instanceSeq
          /\ (p.m.instance = win.instance /\ win.instance # 0 => Aware)
      BY <2>2, <1>13 DEF Handed
    <3> QED BY <3>1, <1>4, <1>8
  <2> QED BY <2>1, <2>2, <1>13 DEF Publishes
<1>14. Newest'
  BY <1>7 DEF Newest
<1>15. Handed'
  BY <1>11, <1>12, <1>13 DEF Handed
<1> QED BY <1>1, <1>5, <1>14, <1>15

-----------------------------------------------------------------------------
(* The steps.                                                               *)

\* A step of Go: what it makes of the machine is published, or concerns no state.
GoPart ==
  \/ Advances(win, win') /\ emitted' \subseteq emitted \cup {Snapshot(win')}
  \/ UNCHANGED <<win, emitted>>

\* The main window keeps the state it has, and its barrier unless that has no window.
MainPart ==
  /\ Shapes' /\ Answers' /\ Barrier'
  /\ main'.state = main.state

\* What is posted now hands no drafts over, or those for the window main knows.
PostsPart ==
  \A p \in posts' : FromMainDrafts(p) => p \in posts \/ p.m.instance = main'.state.instance

LEMMA PartsKept ==
  ASSUME EditorInv, GoPart, MainPart, PostsPart,
         sat'.state \in History \cup {Snapshot(win')}
  PROVE  EditorInv'
<1>1. Advanced
  BY SameAdvances, AdvancesAdvanced DEF GoPart, EditorInv
<1>2. Publishes
  BY DEF Publishes, History, GoPart, MainPart, PostsPart
<1> QED BY <1>1, <1>2, EditorKept DEF MainPart

\* Steps that leave a window alone.
LEMMA MainAlone == ASSUME EditorInv, UNCHANGED main, "state" \in DOMAIN sat' PROVE MainPart
BY DEF MainPart, Shapes, Answers, Barrier, EditorInv

LEMMA PostsAlone == ASSUME EditorInv, posts' \subseteq posts PROVE PostsPart
BY DEF PostsPart

LEMMA SatAlone == UNCHANGED sat => sat'.state \in History
BY DEF History

LEMMA Emitting ==
  ASSUME NEW w, Emits(w), Advances(win, w) PROVE GoPart
BY DEF Emits, GoPart

\* Closing a window, by either of them.
LEMMA CloseGoPart == ASSUME EditorInv, CloseGolemWindow PROVE GoPart
<1> USE DEF EditorInv
<1>1. \/ win.phase # "closed" /\ Emits(Authorize(win))
      \/ CanReDock(win, win.instance) /\ Emits(ReDock(win))
      \/ Emits(ObserveAgain(win))
      \/ UNCHANGED <<win, emitted>>
  BY DEF CloseGolemWindow, Uncommitted, CanReDock, CanObserveAgain
<1> QED BY <1>1, AuthorizeAdvances, ReDockAdvances, ObserveAgainAdvances, Emitting DEF GoPart

\* Recording the drafts of a transfer makes the satellite's window own them, and main knows
\* of that window: it posted them from a state of it.
LEMMA RelayKeeps ==
  ASSUME EditorInv, NEW p \in posts, NEW lost, Relay(p, lost) PROVE EditorInv'
<1> DEFINE m == p.m
           w == Recorded(m)
<1> USE DEF EditorInv
<1>1. /\ Accepts(p.from, m) /\ UNCHANGED <<main, sat>> /\ posts' \subseteq posts
      /\ win' = w /\ emitted' \subseteq emitted \cup {Snapshot(win')}
  BY DEF Relay, Emits
<1>2. win.phase # "closed" /\ win.instance = m.instance /\ win.instance # 0
  BY <1>1 DEF Accepts, WinSound
<1>3. Advanced
  <2>1. CASE m.kind = "view"
    BY <1>1, <2>1, ViewAdvances, AdvancesAdvanced DEF Recorded
  <2>2. CASE m.kind = "drafts"
    <3>1. w = RecordDrafts(win, m.id) /\ CanRecordDrafts(win, p.from, m.instance, m.id)
      BY <1>1, <2>2 DEF Recorded, Accepts
    <3>2. CASE p.from = "main"
      <4>1. Aware
        BY <2>2, <3>2, <1>2 DEF Handed, FromMainDrafts
      <4> QED BY <1>1, <3>1, <4>1, RecordDraftsAdvances DEF Advanced
    <3>3. CASE p.from # "main"
      BY <1>1, <3>1, <3>3, RecordDraftsAdvances, AdvancesAdvanced DEF CanRecordDrafts
    <3> QED BY <3>2, <3>3
  <2>3. CASE m.kind = "ack" /\ m.handoff # 0
    BY <1>1, <2>3, RecordAckAdvances, AdvancesAdvanced DEF Recorded
  <2>4. CASE m.kind = "ready" /\ win.phase = "bootstrapped"
    <3>1. CanCommit(win, m.instance, m.id) /\ w = Commit(win)
      BY <1>1, <2>4 DEF Recorded, Accepts
    <3> QED BY <1>1, <3>1, CommitAdvances, AdvancesAdvanced
  <2>5. CASE m.kind = "abort"
    <3>1. Open(win) /\ w = IF win.phase = "closing" THEN Restore(win) ELSE Authorize(win)
      BY <1>1, <2>5 DEF Recorded, Accepts
    <3> QED BY <1>1, <1>2, <3>1, RestoreAdvances, AuthorizeAdvances, AdvancesAdvanced
              DEF Open, Uncommitted
  <2>6. CASE w = win
    BY <1>1, <2>6, SameAdvances, AdvancesAdvanced
  <2> QED BY <2>1, <2>2, <2>3, <2>4, <2>5, <2>6 DEF Recorded
<1>4. Publishes
  BY <1>1 DEF Publishes, History
<1>5. Shapes' /\ Answers' /\ Barrier'
  BY <1>1 DEF Shapes, Answers, Barrier
<1> QED BY <1>3, <1>4, <1>5, EditorKept

LEMMA RefuseKeeps == ASSUME EditorInv, NEW p \in posts, Refuse(p) PROVE EditorInv'
<1> USE DEF EditorInv
<1>1. GoPart
  BY DEF Refuse, Go, GoPart
<1>2. "state" \in DOMAIN sat' /\ sat'.state = sat.state /\ UNCHANGED main
  BY DEF Refuse, Unsent, Shapes
<1>3. \A q \in Refused(p.m) : q.m.kind # "drafts"
  BY DEF Refused, Posting
<1>4. PostsPart
  BY <1>3 DEF Refuse, PostsPart, FromMainDrafts
<1> QED BY <1>1, <1>2, <1>4, MainAlone, PartsKept DEF History

LEMMA OpenKeeps == ASSUME EditorInv, OpenGolemWindow PROVE EditorInv'
<1> USE DEF EditorInv
<1>1. GoPart
  BY ReserveAdvances, Emitting DEF OpenGolemWindow, Go, GoPart
<1>2. MainPart /\ UNCHANGED <<posts, sat>>
  BY DEF OpenGolemWindow, Wire, MainPart, Shapes, Answers, Barrier
<1> QED BY <1>1, <1>2, PostsAlone, SatAlone, PartsKept

LEMMA DeadlineKeeps == ASSUME EditorInv, Deadline PROVE EditorInv'
<1> USE DEF EditorInv
<1>1. GoPart
  BY AuthorizeAdvances, RestoreAdvances, Emitting DEF Deadline, Uncommitted, CanRestore
<1>2. UNCHANGED <<posts, main, sat>>
  BY DEF Deadline, Wire
<1> QED BY <1>1, <1>2, PostsAlone, MainAlone, SatAlone, PartsKept DEF Shapes

LEMMA RetiredKeeps == ASSUME EditorInv, Retired PROVE EditorInv'
<1> USE DEF EditorInv
<1>1. GoPart
  BY RetiredAdvances, Emitting DEF Retired
<1>2. posts' \subseteq posts /\ UNCHANGED main
  BY DEF Retired
<1>3. "state" \in DOMAIN sat' /\ sat'.state = Snapshot(win')
  BY DEF Retired, Shapes
<1> QED BY <1>1, <1>2, <1>3, PostsAlone, MainAlone, PartsKept

LEMMA StallsKeeps == ASSUME EditorInv, Stalls PROVE EditorInv'
<1> USE DEF EditorInv
<1>1. GoPart
  BY ObserveAdvances, Emitting DEF Stalls
<1>2. UNCHANGED <<posts, main, sat>>
  BY DEF Stalls, Wire
<1> QED BY <1>1, <1>2, PostsAlone, MainAlone, SatAlone, PartsKept DEF Shapes

\* What a snapshot's phase does to the main window leaves its state and its barrier alone.
LEMMA InstalledFields ==
  ASSUME NEW m, NEW s, {"state", "frozen", "acks", "returned"} \subseteq DOMAIN m
  PROVE  /\ {"state", "frozen", "acks", "returned"} \subseteq DOMAIN Installed(m, s)
         /\ Installed(m, s).state = m.state /\ Installed(m, s).frozen = m.frozen
         /\ Installed(m, s).acks = m.acks /\ Installed(m, s).returned = m.returned
<1> DEFINE F == {"state", "frozen", "acks", "returned"}
           Same(x, y) == /\ F \subseteq DOMAIN y /\ y.state = x.state /\ y.frozen = x.frozen
                         /\ y.acks = x.acks /\ y.returned = x.returned
<1>1. ASSUME NEW x, F \subseteq DOMAIN x
      PROVE  Same(x, StopsTransfer(x)) /\ Same(x, StartsTransfer(x, s)) /\ Same(x, Hands(x, s))
  BY <1>1 DEF StopsTransfer, StartsTransfer, Hands
<1>2. Same(m, Hands(StopsTransfer(m), s))
  <2>1. Same(m, StopsTransfer(m))
    BY <1>1
  <2>2. Same(StopsTransfer(m), Hands(StopsTransfer(m), s))
    BY <1>1, <2>1
  <2> QED BY <2>1, <2>2
<1>3. CASE s.phase = "bootstrapped"
  BY <1>1, <1>3 DEF Installed
<1>4. CASE s.phase = "ready"
  BY <1>2, <1>4 DEF Installed
<1>5. CASE s.phase = "closing"
  BY <1>5 DEF Installed
<1>6. CASE s.phase = "closed"
  <2>1. Same(m, StopsTransfer(m))
    BY <1>1
  <2> QED BY <1>6, <2>1 DEF Installed
<1>7. CASE s.phase \notin {"bootstrapped", "ready", "closing", "closed"}
  BY <1>7 DEF Installed
<1> QED BY <1>3, <1>4, <1>5, <1>6, <1>7

\* A state that main installs is newer than the one it had, and the barrier is up unless it
\* has no window.
LEMMA InstallKeeps ==
  ASSUME EditorInv, NEW s \in emitted \cup {Snapshot(win)}, InstallState(s) PROVE EditorInv'
<1> USE DEF EditorInv
<1> DEFINE bound == [BindCore(main, s) EXCEPT !.state = s, !.frozen = Freezes(s)]
           next == Installed(bound, s)
           F == {"state", "frozen", "acks", "returned"}
<1>1. /\ F \subseteq DOMAIN bound /\ bound.state = s /\ bound.frozen = Freezes(s)
      /\ \A a \in bound.acks \cup bound.returned : a.kind = "ack"
  <2>1. /\ F \subseteq DOMAIN BindCore(main, s)
        /\ \A a \in BindCore(main, s).acks \cup BindCore(main, s).returned : a.kind = "ack"
    <3>1. CASE s.instance = main.state.instance
      BY <3>1 DEF BindCore, Shapes, Answers
    <3>2. CASE s.instance # main.state.instance
      <4>1. /\ F \subseteq DOMAIN BindCore(main, s)
            /\ BindCore(main, s).acks = {} /\ BindCore(main, s).returned = {}
        BY <3>2 DEF BindCore, Shapes
      <4> QED BY <4>1
    <3> QED BY <3>1, <3>2
  <2> QED BY <2>1
<1> HIDE DEF bound
<1>2. /\ F \subseteq DOMAIN next /\ next.state = s /\ next.frozen = Freezes(s)
      /\ next.acks = bound.acks /\ next.returned = bound.returned
  BY <1>1, InstalledFields
<1>3. /\ main' = [next EXCEPT !.pending = {}] /\ UNCHANGED <<win, sat>> /\ s.rev > main.state.rev
      /\ emitted' \subseteq emitted
      /\ posts' = posts
            \cup (IF s.instance # 0 /\ s.instance # main.state.instance
                  THEN Posting("main", {View([bound EXCEPT !.state = s])}) ELSE {})
            \cup (IF next.transfer # bound.transfer /\ s.phase = "bootstrapped"
                  THEN Posting("main", {Drafts(next)}) ELSE {})
  BY DEF InstallState, bound
<1> HIDE DEF next
<1>4. /\ F \subseteq DOMAIN main' /\ main'.state = s /\ main'.frozen = Freezes(s)
      /\ main'.acks = next.acks /\ main'.returned = next.returned
  BY <1>2, <1>3
<1>5. Shapes' /\ Answers' /\ Barrier'
  BY <1>1, <1>2, <1>3, <1>4 DEF Shapes, Answers, Barrier, Freezes
<1>6. s \in History /\ s \in History' /\ main.state \in History
  BY <1>3, <1>4 DEF History
<1>7. Publishes
  <2>1. \A x \in History' : x \in History
    BY <1>3, <1>4, <1>6 DEF History
  <2>2. main.state.rev <= main'.state.rev /\ main'.state \in History'
    BY <1>3, <1>4, <1>6 DEF Past
  <2>3. ASSUME NEW p \in posts', FromMainDrafts(p) PROVE p \in posts \/ p.m.instance = main'.state.instance
    <3>1. p \in posts \/ p.m = View([bound EXCEPT !.state = s]) \/ p.m = Drafts(next)
      BY <1>3 DEF Posting
    <3>2. View([bound EXCEPT !.state = s]).kind # "drafts"
      BY DEF View
    <3>3. Drafts(next).instance = s.instance
      BY <1>2 DEF Drafts
    <3> QED BY <2>3, <3>1, <3>2, <3>3, <1>4 DEF FromMainDrafts
  <2> QED BY <2>1, <2>2, <2>3 DEF Publishes
<1>8. Advanced
  BY <1>3, SameAdvances, AdvancesAdvanced
<1> QED BY <1>5, <1>7, <1>8, EditorKept

\* Main's other steps, and the user's there.
LEMMA MainRests ==
  ASSUME EditorInv, UNCHANGED <<win, emitted, sat>>, MainPart, PostsPart PROVE EditorInv'
BY PartsKept, SatAlone DEF GoPart

LEMMA RetryTransferKeeps == ASSUME EditorInv, RetryTransfer PROVE EditorInv'
<1> USE DEF EditorInv
<1>1. UNCHANGED <<win, emitted, sat>>
  BY DEF RetryTransfer, Go
<1>2. MainPart
  BY DEF RetryTransfer, MainPart, Shapes, Answers, Barrier
<1>3. PostsPart
  <2>1. main'.state = main.state
    BY <1>2 DEF MainPart
  <2>2. ASSUME NEW p \in posts', FromMainDrafts(p) PROVE p \in posts \/ p.m.instance = main'.state.instance
    <3>1. p \in posts \/ p.m = Drafts(main') \/ p.m.kind = "abort"
      BY DEF RetryTransfer, Posting
    <3> QED BY <2>2, <3>1 DEF FromMainDrafts, Drafts
  <2> QED BY <2>2 DEF PostsPart
<1> QED BY <1>1, <1>2, <1>3, MainRests

LEMMA MessageKeeps ==
  ASSUME EditorInv, NEW m \in inbox.main,
         Hold(m) \/ Reject(m) \/ MainReady(m) \/ MainAbort(m) \/ MainAction(m) \/ MainDrafts(m)
  PROVE  EditorInv'
<1> USE DEF EditorInv
<1>1. UNCHANGED <<win, emitted, sat>>
  BY DEF Hold, Reject, MainReady, MainAbort, MainAction, MainDrafts, Go
<1>2. CASE Hold(m) \/ Reject(m) \/ MainReady(m) \/ MainAbort(m)
  <2>1. MainPart
    BY <1>2 DEF Hold, Reject, MainReady, MainAbort, StopsTransfer, MainPart, Shapes, Answers, Barrier
  <2>2. posts' \subseteq posts
    BY <1>2 DEF Hold, Reject, MainReady, MainAbort
  <2> QED BY <1>1, <2>1, <2>2, PostsAlone, MainRests
<1>3. CASE MainAction(m)
  <2>1. MainPart
    BY <1>3 DEF MainAction, MainPart, Shapes, Answers, Barrier
  <2>2. \A p \in posts' : p \in posts \/ p.m.kind = "ack"
    BY <1>3 DEF MainAction, Posting, Answers
  <2> QED BY <1>1, <2>1, <2>2, MainRests DEF PostsPart, FromMainDrafts
<1>4. CASE MainDrafts(m)
  <2> DEFINE ack == [kind |-> "ack", instance |-> m.instance, handoff |-> m.handoff, id |-> m.id,
                     ok |-> Owned(m)]
  <2>1. MainPart
    <3>1. CASE UNCHANGED main
      BY <1>1, <3>1 DEF MainPart, Shapes, Answers, Barrier
    <3>2. CASE main' = [main EXCEPT !.returned = {ack}, !.draft = IF Owned(m) THEN m.text ELSE @]
      <4>1. /\ {"state", "frozen", "acks", "returned"} \subseteq DOMAIN main'
            /\ main'.state = main.state /\ main'.frozen = main.frozen
            /\ main'.acks = main.acks /\ main'.returned = {ack}
        BY <3>2 DEF Shapes
      <4> QED BY <1>1, <4>1 DEF MainPart, Shapes, Answers, Barrier
    <3> QED BY <1>4, <3>1, <3>2 DEF MainDrafts
  <2>2. \A p \in posts' : p \in posts \/ p.m.kind = "ack"
    BY <1>4, <2>1 DEF MainDrafts, Posting, MainPart, Answers
  <2> QED BY <1>1, <2>1, <2>2, MainRests DEF PostsPart, FromMainDrafts
<1> QED BY <1>2, <1>3, <1>4

LEMMA AnswerKeeps ==
  ASSUME EditorInv, (\E ok \in BOOLEAN : Execute(ok)) \/ PublishForAck \/ PostAck PROVE EditorInv'
<1> USE DEF EditorInv
<1>1. UNCHANGED <<win, emitted, sat>>
  BY DEF Execute, PublishForAck, PostAck, Go
<1>2. MainPart
  <2>1. CASE \E ok \in BOOLEAN : Execute(ok)
    BY <2>1 DEF Execute, MainPart, Shapes, Answers, Barrier
  <2>2. CASE PublishForAck
    BY <2>2 DEF PublishForAck, MainPart, Shapes, Answers, Barrier
  <2>3. CASE PostAck
    BY <2>3 DEF PostAck, MainPart, Shapes, Answers, Barrier
  <2> QED BY <2>1, <2>2, <2>3
<1>3. \A p \in posts' : p \in posts \/ p.m.kind = "ack" \/ p.m.kind = "view"
  <2>1. CASE \E ok \in BOOLEAN : Execute(ok)
    BY <2>1 DEF Execute, Wire
  <2>2. CASE PublishForAck
    BY <2>2 DEF PublishForAck, Posting, View
  <2>3. CASE PostAck
    BY <2>3 DEF PostAck, Posting
  <2> QED BY <2>1, <2>2, <2>3
<1> QED BY <1>1, <1>2, <1>3, MainRests DEF PostsPart, FromMainDrafts

LEMMA UserAtMainKeeps ==
  ASSUME EditorInv, Undock \/ UndockRefused \/ UndockRetired \/ TypeMain PROVE EditorInv'
<1> USE DEF EditorInv
<1>1. UNCHANGED <<win, emitted, sat, posts>>
  BY DEF Undock, UndockRefused, UndockRetired, TypeMain, Go, Wire
<1>2. MainPart
  BY DEF Undock, UndockRefused, UndockRetired, TypeMain, Freezes, MainPart, Shapes, Answers, Barrier
<1> QED BY <1>1, <1>2, PostsAlone, MainRests

LEMMA DockKeeps == ASSUME EditorInv, DockFromMain PROVE EditorInv'
<1> USE DEF EditorInv
<1>1. GoPart
  BY CloseGoPart DEF DockFromMain, GoPart
<1>2. MainPart /\ UNCHANGED <<posts, sat>>
  BY DEF DockFromMain, Wire, MainPart, Shapes, Answers, Barrier
<1> QED BY <1>1, <1>2, PostsAlone, SatAlone, PartsKept

\* The satellite's steps: it installs states that were published, and posts nothing as main.
SatPart ==
  /\ "state" \in DOMAIN sat'
  /\ sat'.state \in History \cup {Snapshot(win')}
  /\ \A p \in posts' : p \in posts \/ p.from = "sat"

LEMMA SatKeeps ==
  ASSUME EditorInv, GoPart, UNCHANGED main, SatPart PROVE EditorInv'
BY MainAlone, PartsKept DEF SatPart, PostsPart, FromMainDrafts

LEMMA BootstrapKeeps == ASSUME EditorInv, BootstrapGolemWindow PROVE EditorInv'
<1> USE DEF EditorInv
<1>1. UNCHANGED <<main, posts>>
  BY DEF BootstrapGolemWindow, Wire
<1>2. GoPart
  BY BootstrapAdvances, Emitting DEF BootstrapGolemWindow, GoPart
<1>3. win' = Bootstrap(win)
  BY DEF BootstrapGolemWindow, Emits
<1>4. "state" \in DOMAIN sat' /\ sat'.state = Snapshot(win')
  BY <1>3 DEF BootstrapGolemWindow, Shapes
<1> QED BY <1>1, <1>2, <1>4, SatKeeps DEF SatPart

\* Steps that leave its state alone.
LEMMA SatRests ==
  ASSUME EditorInv, UNCHANGED <<win, emitted, main>>, "state" \in DOMAIN sat',
         sat'.state = sat.state, \A p \in posts' : p \in posts \/ p.from = "sat"
  PROVE  EditorInv'
BY SatKeeps DEF SatPart, History, GoPart

LEMMA EnqueueKeeps ==
  ASSUME NEW what, NEW text, NEW s, Enqueue(what, text, s), "state" \in DOMAIN s
  PROVE  /\ "state" \in DOMAIN sat' /\ sat'.state = s.state
         /\ \A p \in posts' : p \in posts \/ p.from = "sat"
<1> DEFINE t == [s EXCEPT !.next = @ + 1,
              !.queue = Append(@, [id |-> s.next + 1, what |-> what, text |-> text, tries |-> 0, posted |-> FALSE])]
<1>1. "state" \in DOMAIN t /\ t.state = s.state
  OBVIOUS
<1>2. sat' = Pumped(t) /\ posts' = posts \cup Pump(t)
  BY DEF Enqueue
<1> HIDE DEF t
<1>3. "state" \in DOMAIN Pumped(t) /\ Pumped(t).state = t.state
  BY <1>1 DEF Pumped
<1> QED BY <1>1, <1>2, <1>3 DEF Pump, Posting

LEMMA SatMessageKeeps ==
  ASSUME EditorInv, NEW m \in inbox.sat,
         SatView(m) \/ SatViewError(m) \/ SatDrafts(m) \/ SatAck(m) \/ SatHandoffAck(m) \/ SatAbort(m)
  PROVE  EditorInv'
<1> USE DEF EditorInv
<1>0. "state" \in DOMAIN sat
  BY DEF Shapes
<1>1. UNCHANGED <<win, emitted, main>>
  BY DEF SatView, SatViewError, SatDrafts, SatAck, SatHandoffAck, SatAbort, Go
<1>2. ASSUME NEW s, NEW n, "state" \in DOMAIN s
      PROVE  /\ "state" \in DOMAIN Takeover(s, n) /\ Takeover(s, n).state = s.state
             /\ "state" \in DOMAIN Aborted(s, n) /\ Aborted(s, n).state = s.state
             /\ "state" \in DOMAIN Pumped(s) /\ Pumped(s).state = s.state
  BY <1>2 DEF Takeover, Aborted, Pumped
<1>3. ASSUME NEW n, NEW k PROVE \A p \in Ready(n, k) : p.from = "sat"
  BY DEF Ready, Posting
<1>4. ASSUME NEW s PROVE \A p \in Pump(s) \cup AbortOf(s) : p.from = "sat"
  BY DEF Pump, AbortOf, Posting
<1>5. CASE SatView(m)
  <2> DEFINE v == [rev |-> m.rev, through |-> m.through, item |-> m.item]
             s == [sat EXCEPT !.view = v, !.error = 0, !.edit = Dropped(sat.edit, v), !.deferred = None]
  <2>1. "state" \in DOMAIN s /\ s.state = sat.state
    BY <1>0
  <2>2. \/ UNCHANGED <<sat, posts>>
        \/ sat' = Takeover(s, sat.deferred) /\ posts' = posts \cup Ready(sat.deferred, 0)
        \/ sat' = s /\ UNCHANGED posts
    BY <1>5 DEF SatView
  <2> HIDE DEF s
  <2>3. /\ "state" \in DOMAIN sat' /\ sat'.state = sat.state
        /\ \A p \in posts' : p \in posts \/ p.from = "sat"
    BY <1>0, <1>2, <1>3, <2>1, <2>2
  <2> QED BY <1>1, <2>3, SatRests
<1>6. CASE SatViewError(m)
  <2>1. /\ "state" \in DOMAIN sat' /\ sat'.state = sat.state /\ UNCHANGED posts
    BY <1>0, <1>6 DEF SatViewError
  <2> QED BY <1>1, <2>1, SatRests
<1>7. CASE SatDrafts(m)
  <2>1. \/ UNCHANGED sat /\ posts' \subseteq posts \cup Ready(m, m.n)
        \/ sat' = [sat EXCEPT !.deferred = m] /\ UNCHANGED posts
        \/ sat' = Takeover(sat, m) /\ posts' = posts \cup Ready(m, 0)
    BY <1>7 DEF SatDrafts
  <2>2. /\ "state" \in DOMAIN sat' /\ sat'.state = sat.state
        /\ \A p \in posts' : p \in posts \/ p.from = "sat"
    BY <1>0, <1>2, <1>3, <2>1
  <2> QED BY <1>1, <2>2, SatRests
<1>8. CASE SatAck(m)
  <2>1. CASE UNCHANGED <<sat, posts>>
    BY <1>0, <1>1, <2>1, SatRests
  <2>2. CASE ~UNCHANGED <<sat, posts>>
    <3> DEFINE send == Head(sat.queue).what = "send"
               mine == sat.edit # NoEdit /\ sat.edit.id = m.id
               s == [sat EXCEPT !.queue = Tail(@), !.settled = m.id,
                      !.draft = IF send /\ m.ok THEN 0 ELSE @, !.locked = IF send THEN FALSE ELSE @,
                      !.edit = CASE mine /\ m.ok -> Dropped([sat.edit EXCEPT !.settled = m.id], NoView)
                                 [] mine /\ ~m.ok -> NoEdit
                                 [] OTHER -> @]
    <3>1. sat' = Pumped(s) /\ posts' = posts \cup Pump(s)
      BY <1>8, <2>2 DEF SatAck
    <3>2. "state" \in DOMAIN s /\ s.state = sat.state
      BY <1>0
    <3> HIDE DEF s
    <3>3. /\ "state" \in DOMAIN sat' /\ sat'.state = sat.state
          /\ \A p \in posts' : p \in posts \/ p.from = "sat"
      BY <1>2, <1>4, <3>1, <3>2
    <3> QED BY <1>1, <3>3, SatRests
  <2> QED BY <2>1, <2>2
<1>9. CASE SatHandoffAck(m) \/ SatAbort(m)
  <2>1. \/ UNCHANGED <<sat, posts>>
        \/ sat' = [sat EXCEPT !.hand.step = "confirm"] /\ UNCHANGED posts
        \/ sat' = Aborted(sat, m.handoff) /\ posts' \subseteq posts \cup AbortOf(sat)
    BY <1>9 DEF SatHandoffAck, SatAbort
  <2>2. /\ "state" \in DOMAIN sat' /\ sat'.state = sat.state
        /\ \A p \in posts' : p \in posts \/ p.from = "sat"
    BY <1>0, <1>2, <1>4, <2>1
  <2> QED BY <1>1, <2>2, SatRests
<1> QED BY <1>5, <1>6, <1>7, <1>8, <1>9

LEMMA SatInstallKeeps == ASSUME EditorInv, NEW s \in emitted, SatInstallState(s) PROVE EditorInv'
<1> USE DEF EditorInv
<1> DEFINE t == [sat EXCEPT !.state = s]
<1>1. "state" \in DOMAIN t /\ t.state = s
  BY DEF Shapes
<1>2. \/ sat' = Aborted(t, s.handoff)
      \/ sat' = [t EXCEPT !.blocked = TRUE, !.next = @ + 1,
                   !.hand = [handoff |-> s.handoff, id |-> s.handoff, text |-> 0, tries |-> 0, step |-> "drain"]]
      \/ sat' = t
  BY DEF SatInstallState
<1> HIDE DEF t
<1>3. "state" \in DOMAIN sat' /\ sat'.state = s
  BY <1>1, <1>2 DEF Aborted
<1>4. UNCHANGED <<win, main, posts>> /\ emitted' \subseteq emitted
  BY DEF SatInstallState, Wire
<1> QED BY <1>3, <1>4, SameAdvances, SatKeeps DEF SatPart, History, GoPart

LEMMA SatTimersKeep ==
  ASSUME EditorInv, RetryAction \/ PostDrafts \/ RetryDrafts \/ RetryGolemConnection PROVE EditorInv'
<1> USE DEF EditorInv
<1>1. UNCHANGED main
  BY DEF RetryAction, PostDrafts, RetryDrafts, RetryGolemConnection
<1>2. GoPart
  BY CloseGoPart DEF RetryAction, PostDrafts, RetryDrafts, RetryGolemConnection, Go, GoPart
<1>3. "state" \in DOMAIN sat' /\ sat'.state = sat.state
  BY DEF RetryAction, PostDrafts, RetryDrafts, RetryGolemConnection, Shapes
<1>4. \A p \in posts' : p \in posts \/ p.from = "sat"
  BY DEF RetryAction, PostDrafts, RetryDrafts, RetryGolemConnection, Posting
<1> QED BY <1>1, <1>2, <1>3, <1>4, SatKeeps DEF SatPart, History

LEMMA ConfirmKeeps == ASSUME EditorInv, Confirm PROVE EditorInv'
<1> USE DEF EditorInv
<1>1. UNCHANGED main
  BY DEF Confirm
<1>2. GoPart
  <2>1. CanAuthorize(win, sat.core, sat.hand.handoff, FALSE) => win.phase # "closed"
    BY DEF CanAuthorize
  <2> QED BY <2>1, AuthorizeAdvances, Emitting DEF Confirm, GoPart
<1>3. "state" \in DOMAIN sat' /\ sat'.state = sat.state
  BY DEF Confirm, Shapes, Aborted
<1>4. \A p \in posts' : p \in posts \/ p.from = "sat"
  <2>1. posts' \subseteq posts \cup AbortOf(sat)
    BY DEF Confirm
  <2> QED BY <2>1 DEF AbortOf, Posting
<1> QED BY <1>1, <1>2, <1>3, <1>4, SatKeeps DEF SatPart, History

LEMMA UserAtSatKeeps ==
  ASSUME EditorInv, TypeSat \/ Send \/ EditQueued \/ RequestReDock PROVE EditorInv'
<1> USE DEF EditorInv
<1>0. "state" \in DOMAIN sat
  BY DEF Shapes
<1>1. CASE TypeSat
  <2>1. "state" \in DOMAIN sat' /\ sat'.state = sat.state
    BY <1>0, <1>1 DEF TypeSat
  <2> QED BY <1>1, <2>1, SatRests DEF TypeSat, Go, Wire
<1>2. CASE Send
  <2>1. Enqueue("send", sat.draft, [sat EXCEPT !.locked = TRUE]) /\ UNCHANGED <<win, emitted, main>>
    BY <1>2 DEF Send, Go
  <2>2. "state" \in DOMAIN [sat EXCEPT !.locked = TRUE] /\ [sat EXCEPT !.locked = TRUE].state = sat.state
    BY <1>0
  <2> QED BY <2>1, <2>2, EnqueueKeeps, SatRests
<1>3. CASE EditQueued
  <2> DEFINE s == [sat EXCEPT !.edit = [id |-> sat.next + 1, text |-> texts', settled |-> 0]]
  <2>1. Enqueue("edit", texts', s) /\ UNCHANGED <<win, emitted, main>>
    BY <1>3 DEF EditQueued, Go
  <2>2. "state" \in DOMAIN s /\ s.state = sat.state
    BY <1>0
  <2> HIDE DEF s
  <2> QED BY <2>1, <2>2, EnqueueKeeps, SatRests
<1>4. CASE RequestReDock
  <2>1. UNCHANGED <<main, sat, posts>> /\ CloseGolemWindow
    BY <1>4 DEF RequestReDock, Wire
  <2> QED BY <1>0, <2>1, CloseGoPart, SatKeeps DEF SatPart, History
<1> QED BY <1>1, <1>2, <1>3, <1>4

-----------------------------------------------------------------------------

LEMMA EditorInit == Init => EditorInv
<1> SUFFICES ASSUME Init PROVE EditorInv
  OBVIOUS
<1>1. /\ win.phase = "closed" /\ win.instance = 0 /\ win.instanceSeq = 0 /\ win.handle = 0
      /\ win.stateRevision = 0 /\ win.closeAuthorized = FALSE /\ Runtime(win)
  BY DEF Init, Loaded, Runtime
<1>2. WinSound(win) /\ ~Owns(win)
  BY <1>1 DEF WinSound, Owns, Uncommitted
<1>3. /\ main.state = Snapshot(win) /\ sat.state = Snapshot(win) /\ emitted = {} /\ posts = {}
      /\ main.acks = {} /\ main.returned = {} /\ Shapes
  BY DEF Init, Shapes
<1>4. \A s \in History : s.rev = 0 /\ s.instance = 0 /\ s.phase = "closed"
  BY <1>1, <1>3 DEF History, Snapshot
<1>5. Past
  BY <1>1, <1>4 DEF Past
<1>6. Newest /\ Handed /\ Answers
  BY <1>2, <1>3, <1>4 DEF Newest, Handed, Answers
<1>7. Barrier
  BY <1>3, <1>4 DEF Barrier, History
<1> QED BY <1>2, <1>3, <1>5, <1>6, <1>7 DEF EditorInv

LEMMA EditorStep == EditorInv /\ [Next]_vars => EditorInv'
<1> SUFFICES ASSUME EditorInv, [Next]_vars PROVE EditorInv'
  OBVIOUS
<1>1. CASE MainSteps
  BY <1>1, InstallKeeps, MessageKeeps, RetryTransferKeeps, AnswerKeeps, UserAtMainKeeps DEF MainSteps
<1>2. CASE SatSteps
  BY <1>2, BootstrapKeeps, SatInstallKeeps, SatMessageKeeps, SatTimersKeep, ConfirmKeeps DEF SatSteps
<1>3. CASE GoSteps
  BY <1>3, RelayKeeps, RefuseKeeps, OpenKeeps, DeadlineKeeps, RetiredKeeps, StallsKeeps DEF GoSteps
<1>4. CASE User
  BY <1>4, UserAtMainKeeps, DockKeeps, UserAtSatKeeps, SatTimersKeep DEF User
<1>5. CASE UNCHANGED vars
  BY <1>5 DEF vars, EditorInv, Shapes, Answers, Past, Newest, Handed, Barrier, History, Aware, FromMainDrafts
<1> QED BY <1>1, <1>2, <1>3, <1>4, <1>5 DEF Next

LEMMA OneEditorFollows == EditorInv => OneEditor
<1> SUFFICES ASSUME EditorInv, SatInteractive PROVE main.frozen
  BY DEF OneEditor, Interactive
<1> USE DEF EditorInv
<1>1. /\ sat.state.phase = "ready" /\ sat.state.instance = win.instance /\ win.instance # 0
      /\ sat.state \in History /\ main.state \in History
  BY DEF SatInteractive, Live, WinSound, History
<1>2. main.state.instance # 0
  BY <1>1 DEF Handed, Aware
<1> QED BY <1>1, <1>2 DEF Past, Barrier

(***************************************************************************)
(* The composer is never live in both windows: the main window's barrier   *)
(* is up whenever the satellite accepts input, although main lifts it on   *)
(* a state that may have been published long ago, calls and states arrive  *)
(* in any order, and messages are lost.                                    *)
(***************************************************************************)
THEOREM OneEditorAlways == Spec => []OneEditor
<1> QED BY EditorInit, EditorStep, OneEditorFollows, PTL DEF Spec
=============================================================================
