---------------------------- MODULE StoreProofs ----------------------------
(*****************************************************************************)
(* Proofs about StoreParts: the saves of a file, what is kept of the runs,   *)
(* the configuration of Golem and the layout of the shell. Each has an       *)
(* inductive invariant of its own, which the steps of the other components   *)
(* leave alone.                                                              *)
(*****************************************************************************)
EXTENDS StoreParts, FiniteSetTheorems, WellFoundedInduction, TLAPS

-----------------------------------------------------------------------------
(* The saves of a file.  Of a behaviour without late reads.                 *)

SavesTyped ==
  /\ buf \in [open : BOOLEAN, text : Texts, modified : BOOLEAN]
  /\ disk \in Texts /\ last \in Texts
  /\ queue \in Seq([kind : F!Kinds, text : Texts])
  /\ edit \in [present : BOOLEAN, text : Texts, newer : BOOLEAN, timer : BOOLEAN,
               draining : BOOLEAN]
  /\ saving \in BOOLEAN
  /\ closing \in {"no", "drain", "settle", "closed"}
  /\ opening \in [phase : {"no", "flush"}, text : Texts] /\ reloads = <<>>
  /\ faults \in [lost : BOOLEAN, refused : BOOLEAN]

Queued == 1..Len(queue)

\* The last text is on the disk, or on its way there by a write of what left the editor, of
\* the diff pane or of the close.
OnDisk == disk = last /\ \A i \in Queued : queue[i].text = last
OnTheWay ==
  \E k \in Queued : /\ queue[k].kind \in {"left", "diff", "close"}
                    /\ \A i \in Queued : i >= k => queue[i].text = last
Lands == OnDisk \/ OnTheWay

\* Who has the last text that the user gave.
Held ==
  /\ edit.present => edit.text = last /\ ~buf.open
  /\ buf.open => buf.text = last
  /\ buf.open /\ ~buf.modified => OnDisk /\ \A i \in Queued : queue[i].kind = "close"
  /\ ~buf.open /\ ~edit.present => Lands

\* The queue: one autosave at most, a barrier's write alone at its head, the diff pane's at
\* its end, nothing of a closed buffer under an open one, and behind a closed tab only the
\* diff pane.
Ordered ==
  /\ \A i \in Queued : queue[i].kind = "close" =>
        queue[i].text = last /\ closing \in {"settle", "closed"} /\ buf.open
  /\ \A i \in Queued : queue[i].kind = "lock" => i = 1
  /\ \A i \in Queued : queue[i].kind = "auto" => saving /\ \A j \in Queued : queue[j].kind = "auto" => i = j
  /\ \A i \in Queued : queue[i].kind = "diff" => i = Len(queue) /\ edit.draining
  /\ \A i \in Queued : queue[i].kind = "left" =>
        ~buf.open /\ \A j \in Queued : j > i => queue[j].kind = "diff"
  /\ edit.draining => /\ edit.present /\ queue # <<>> /\ queue[Len(queue)].kind = "diff"
                      /\ ~edit.newer => queue[Len(queue)].text = last

\* An opening and a close let the diff pane's edit go first, unless a write of it fails.
Flushed ==
  /\ opening.phase = "flush" /\ edit.present => edit.draining
  /\ closing # "no" /\ edit.present => edit.draining \/ faults.refused
  /\ closing = "settle" => faults.refused \/ (~edit.present /\ Lands)
  /\ closing = "closed" => ~edit.present /\ OnDisk

\* Until the last text is lost with its tab, and from then to the next text.
SavesInv == SavesTyped /\ ~faults.lost /\ Held /\ Ordered /\ Flushed
LostInv ==
  /\ SavesTyped /\ faults.lost
  /\ queue = <<>> /\ ~edit.present /\ ~edit.draining
  /\ buf.open => ~buf.modified /\ buf.text = disk
SavesHold == part = "saves" /\ ~slow => SavesInv \/ LostInv

Ops == [kind : F!Kinds, text : Texts]

\* What Append and Tail do to a queue.
LEMMA Appended ==
  ASSUME NEW S, NEW s \in Seq(S), NEW x \in S
  PROVE  /\ Append(s, x) \in Seq(S) /\ Len(Append(s, x)) = Len(s) + 1
         /\ Append(s, x)[Len(s) + 1] = x
         /\ \A i \in 1..Len(s) : Append(s, x)[i] = s[i]
  OBVIOUS

LEMMA Dropped ==
  ASSUME NEW S, NEW s \in Seq(S), s # <<>>
  PROVE  /\ Tail(s) \in Seq(S) /\ Len(Tail(s)) = Len(s) - 1 /\ Len(s) \in Nat \ {0}
         /\ \A i \in 1..Len(s) - 1 : Tail(s)[i] = s[i + 1]
         /\ Head(s) = s[1]
  OBVIOUS

LEMMA Emptied == ASSUME NEW S, NEW s \in Seq(S), Len(s) = 0 PROVE s = <<>>
  OBVIOUS

LEMMA NextIndex ==
  ASSUME NEW n \in Nat, NEW i \in 1..n, i # n
  PROVE  i \in 1..n - 1 /\ i + 1 \in 1..n /\ i + 1 # 1
  OBVIOUS

LEMMA Requeued ==
  ASSUME NEW S, NEW s \in Seq(S), s # <<>>, NEW x \in S
  PROVE  LET t == Append(Tail(s), x)
         IN  /\ t \in Seq(S) /\ Len(t) = Len(s) /\ t[Len(s)] = x
             /\ \A i \in 1..Len(s) : i # Len(s) => i + 1 \in 1..Len(s) /\ i + 1 # 1 /\ t[i] = s[i + 1]
<1> DEFINE u == Tail(s)
           t == Append(u, x)
<1>1. /\ u \in Seq(S) /\ Len(u) = Len(s) - 1 /\ Len(s) \in Nat /\ Len(s) # 0
      /\ \A i \in 1..Len(s) - 1 : u[i] = s[i + 1]
  BY Dropped
<1> HIDE DEF u
<1>2. /\ t \in Seq(S) /\ Len(t) = Len(u) + 1 /\ t[Len(u) + 1] = x
      /\ \A i \in 1..Len(u) : t[i] = u[i]
  BY <1>1, Appended
<1> HIDE DEF t
<1>3. /\ Len(t) = Len(s)
      /\ \A i \in 1..Len(s) : i # Len(s) => i + 1 \in 1..Len(s) /\ i + 1 # 1 /\ t[i] = s[i + 1]
  <2>1. Len(t) = Len(s)
    BY <1>1, <1>2
  <2>2. ASSUME NEW i \in 1..Len(s), i # Len(s)
        PROVE  i + 1 \in 1..Len(s) /\ i + 1 # 1 /\ t[i] = s[i + 1]
    <3>1. i \in 1..Len(s) - 1 /\ i + 1 \in 1..Len(s) /\ i + 1 # 1
      BY <1>1, <2>2, NextIndex
    <3>2. i \in 1..Len(u)
      BY <1>1, <3>1
    <3> QED BY <1>1, <1>2, <3>1, <3>2
  <2> QED BY <2>1, <2>2
<1>4. Len(u) + 1 = Len(s)
  BY <1>1
<1>5. t \in Seq(S) /\ t[Len(s)] = x
  BY <1>2, <1>4
<1> QED BY <1>3, <1>5 DEF t, u

LEMMA QueueOps ==
  ASSUME SavesInv
  PROVE  queue \in Seq(Ops) /\ Len(queue) \in Nat /\ \A i \in Queued : queue[i] \in Ops
<1>1. queue \in Seq(Ops)
  BY DEF SavesInv, SavesTyped, Ops
<1> QED BY <1>1 DEF Queued

LEMMA LandsWith ==
  ASSUME SavesTyped, NEW op \in Ops, queue' = Append(queue, op), op.text = last',
         \/ Lands /\ UNCHANGED <<disk, last>>
         \/ op.kind \in {"left", "diff", "close"}
  PROVE  Lands'
<1>1. /\ Len(queue') = Len(queue) + 1 /\ queue'[Len(queue) + 1] = op /\ Len(queue) \in Nat
      /\ \A i \in Queued : queue'[i] = queue[i]
  BY Appended DEF SavesTyped, Ops, Queued
<1>2. CASE Lands /\ UNCHANGED <<disk, last>>
  <2>1. CASE OnDisk
    BY <1>1, <1>2, <2>1 DEF Lands, OnDisk, Queued
  <2>2. CASE OnTheWay
    <3>1. PICK k \in Queued : /\ queue[k].kind \in {"left", "diff", "close"}
                              /\ \A i \in Queued : i >= k => queue[i].text = last
      BY <2>2 DEF OnTheWay
    <3>2. k \in Queued' /\ queue'[k].kind \in {"left", "diff", "close"}
      BY <1>1, <3>1 DEF Queued
    <3>3. \A i \in Queued' : i >= k => queue'[i].text = last'
      BY <1>1, <1>2, <3>1 DEF Queued
    <3> QED BY <3>2, <3>3 DEF Lands, OnTheWay
  <2> QED BY <1>2, <2>1, <2>2 DEF Lands
<1>3. CASE op.kind \in {"left", "diff", "close"}
  <2>1. Len(queue) + 1 \in Queued' /\ queue'[Len(queue) + 1].kind \in {"left", "diff", "close"}
    BY <1>1, <1>3 DEF Queued
  <2>2. \A i \in Queued' : i >= Len(queue) + 1 => queue'[i].text = last'
    BY <1>1 DEF Queued
  <2> QED BY <2>1, <2>2 DEF Lands, OnTheWay
<1> QED BY <1>2, <1>3

LEMMA LandsOn ==
  ASSUME SavesTyped, Lands, queue # <<>>, queue' = Tail(queue), last' = last,
         \/ disk' = Head(queue).text
         \/ disk' = disk /\ Head(queue).kind \notin {"left", "diff", "close"}
  PROVE  Lands'
<1>1. /\ Len(queue') = Len(queue) - 1 /\ Len(queue) \in Nat \ {0} /\ Head(queue) = queue[1]
      /\ \A i \in 1..Len(queue) - 1 : queue'[i] = queue[i + 1]
  BY Dropped DEF SavesTyped
<1>2. CASE OnDisk
  BY <1>1, <1>2 DEF Lands, OnDisk, Queued
<1>3. CASE OnTheWay
  <2>1. PICK k \in Queued : /\ queue[k].kind \in {"left", "diff", "close"}
                            /\ \A i \in Queued : i >= k => queue[i].text = last
    BY <1>3 DEF OnTheWay
  <2>2. CASE k = 1
    BY <1>1, <2>1, <2>2 DEF Lands, OnDisk, Queued
  <2>3. CASE k # 1
    <3>1. k - 1 \in Queued' /\ queue'[k - 1].kind \in {"left", "diff", "close"}
      BY <1>1, <2>1, <2>3 DEF Queued
    <3>2. \A i \in Queued' : i >= k - 1 => queue'[i].text = last'
      BY <1>1, <2>1 DEF Queued
    <3> QED BY <3>1, <3>2 DEF Lands, OnTheWay
  <2> QED BY <2>2, <2>3
<1> QED BY <1>2, <1>3 DEF Lands

LEMMA EditBufferKeeps ==
  ASSUME SavesInv, ~slow, NEW t \in Texts, F!EditBuffer(t) PROVE SavesInv'
<1> USE DEF F!EditBuffer, F!Typing, F!Buffer, F!UpdateFileContent, F!Arms, F!Given
<1>0. faults' = faults /\ ~faults.lost
  BY DEF SavesInv, SavesTyped
<1>1. SavesTyped'
  BY <1>0 DEF SavesInv, SavesTyped
<1>2. Held'
  BY DEF SavesInv, SavesTyped, Held
<1>3. Ordered'
  BY DEF SavesInv, SavesTyped, Held, Ordered, Queued
<1>4. Flushed'
  BY <1>0 DEF SavesInv, SavesTyped, Held, Flushed
<1> QED BY <1>0, <1>1, <1>2, <1>3, <1>4 DEF SavesInv


\* What the invariant speaks of.
SavesView == <<buf, disk, queue, saving, edit, opening, reloads, closing, last, faults>>

LEMMA SavesRest == ASSUME SavesInv, UNCHANGED SavesView PROVE SavesInv'
<1> USE DEF SavesView
<1>1. SavesTyped'
  BY DEF SavesInv, SavesTyped
<1>2. (OnDisk <=> OnDisk') /\ (OnTheWay <=> OnTheWay')
  BY DEF OnDisk, OnTheWay, Queued
<1>3. Held'
  BY <1>2 DEF SavesInv, Held, Lands, Queued
<1>4. Ordered'
  BY DEF SavesInv, Ordered, Queued
<1>5. Flushed'
  BY <1>2 DEF SavesInv, Flushed, Lands
<1> QED BY <1>1, <1>3, <1>4, <1>5 DEF SavesInv

LEMMA NoEditTyped ==
  /\ F!NoEdit \in [present : BOOLEAN, text : Texts, newer : BOOLEAN, timer : BOOLEAN,
                   draining : BOOLEAN]
  /\ ~F!NoEdit.present /\ ~F!NoEdit.draining
  BY SavesAssumed DEF F!NoEdit, F!SaveAssumption

LEMMA QueueEditKeeps ==
  ASSUME SavesInv, ~slow, NEW t \in Texts, F!QueueWorkingTreeEdit(t) PROVE SavesInv'
<1> USE DEF F!QueueWorkingTreeEdit, F!Typing, F!Buffer, F!UpdateFileContent, F!Arms, F!NoEdit, F!Given
<1>0. faults' = faults /\ ~faults.lost
  BY DEF SavesInv, SavesTyped
<1>1. CASE buf.open
  <2>1. edit' = F!NoEdit /\ ~edit.draining /\ UNCHANGED <<disk, queue, saving, opening, closing, reloads>>
    BY <1>1 DEF SavesInv, SavesTyped, Held, Ordered
  <2>2. CASE t # buf.text
    <3>1. buf' = [buf EXCEPT !.text = t, !.modified = TRUE] /\ last' = t
      BY <1>1, <2>2
    <3>2. SavesTyped'
      BY <2>1, <3>1, NoEditTyped, <1>0 DEF SavesInv, SavesTyped
    <3>3. Held'
      BY <1>1, <2>1, <3>1 DEF SavesInv, SavesTyped, Held
    <3>4. Ordered'
      BY <1>1, <2>1, <3>1, <2>2 DEF SavesInv, SavesTyped, Held, Ordered, Queued
    <3>5. Flushed'
      BY <2>1 DEF SavesInv, SavesTyped, Flushed
    <3> QED BY <3>2, <3>3, <3>4, <3>5, <1>0 DEF SavesInv
  <2>3. CASE t = buf.text
    <3>1. buf.text = last /\ buf.modified = (buf.modified \/ edit.draining) /\ ~edit.present
      BY <1>1, <2>1 DEF SavesInv, SavesTyped, Held
    <3>2. buf' = buf /\ last' = last
      BY <1>1, <2>3, <3>1 DEF SavesInv, SavesTyped
    <3>3. SavesTyped'
      BY <2>1, <3>2, NoEditTyped, <1>0 DEF SavesInv, SavesTyped
    <3>4. Held'
      BY <2>1, <3>1, <3>2, <1>1 DEF SavesInv, SavesTyped, Held, OnDisk, Queued
    <3>5. Ordered'
      BY <2>1, <3>1, <3>2 DEF SavesInv, SavesTyped, Ordered, Queued
    <3>6. Flushed'
      BY <2>1 DEF SavesInv, SavesTyped, Flushed
    <3> QED BY <3>3, <3>4, <3>5, <3>6, <1>0 DEF SavesInv
  <2> QED BY <2>2, <2>3
<1>2. CASE ~buf.open
  <2>1. /\ edit' = [edit EXCEPT !.present = TRUE, !.text = t, !.newer = edit.draining, !.timer = TRUE]
        /\ last' = t /\ UNCHANGED <<buf, disk, queue, saving, opening, reloads, closing>>
        /\ opening.phase = "no" /\ closing = "no"
    BY <1>2 
  <2>2. SavesTyped'
    BY <2>1, <1>0 DEF SavesInv, SavesTyped
  <2>3. Held'
    BY <2>1, <1>2 DEF SavesInv, SavesTyped, Held
  <2>4. Ordered'
    BY <2>1, <1>2 DEF SavesInv, SavesTyped, Ordered, Queued
  <2>5. Flushed'
    BY <2>1, <1>2 DEF SavesInv, SavesTyped, Flushed
  <2> QED BY <2>2, <2>3, <2>4, <2>5, <1>0 DEF SavesInv
<1> QED BY <1>1, <1>2

\* The edit of the diff pane is let go, or there is none to let go, while what waits for it
\* begins.
Begins ==
  /\ UNCHANGED <<disk, saving, reloads, last, faults>>
  /\ opening' \in [phase : {"no", "flush"}, text : Texts]
  /\ closing # "no" => closing' = closing
  /\ closing' \in {closing, "drain"}

LEMMA DrainKeeps == ASSUME SavesInv, F!Drain, Begins PROVE SavesInv'
<1> DEFINE op == F!Op("diff", edit.text)
<1>1. /\ edit' = [edit EXCEPT !.draining = TRUE, !.newer = FALSE, !.timer = FALSE]
      /\ queue' = Append(queue, op) /\ buf' = buf /\ ~buf.open /\ edit.present /\ ~edit.draining
  BY DEF F!Drain, SavesInv, Held
<1>2. op \in Ops /\ op.kind = "diff" /\ op.text = last
  BY <1>1 DEF F!Op, F!Kinds, Ops, SavesInv, SavesTyped, Held
<1> HIDE DEF op
<1>3. /\ Len(queue') = Len(queue) + 1 /\ queue'[Len(queue) + 1] = op /\ Len(queue) \in Nat
      /\ queue' \in Seq(Ops)
      /\ \A i \in Queued : queue'[i] = queue[i]
  BY <1>1, <1>2, Appended DEF SavesInv, SavesTyped, Ops, Queued
<1>4. SavesTyped'
  BY <1>1, <1>3 DEF Begins, SavesInv, SavesTyped, Ops
<1>5. Held'
  BY <1>1, <1>3 DEF Begins, SavesInv, SavesTyped, Held
<1>6. Ordered'
  BY <1>1, <1>2, <1>3 DEF Begins, SavesInv, SavesTyped, Ordered, Flushed, Queued
<1>7. Flushed'
  BY <1>1 DEF Begins, SavesInv, SavesTyped, Flushed
<1> QED BY <1>4, <1>5, <1>6, <1>7 DEF SavesInv, Begins

LEMMA NoDrainKeeps ==
  ASSUME SavesInv, edit.present => edit.draining, UNCHANGED <<buf, queue, edit>>, Begins
  PROVE  SavesInv'
<1> USE DEF Begins
<1>1. SavesTyped'
  BY DEF SavesInv, SavesTyped
<1>2. (OnDisk <=> OnDisk') /\ (OnTheWay <=> OnTheWay')
  BY DEF OnDisk, OnTheWay, Queued
<1>3. Held'
  BY <1>2 DEF SavesInv, Held, Lands, Queued
<1>4. Ordered'
  BY DEF SavesInv, Ordered, Queued
<1>5. Flushed'
  BY <1>2 DEF SavesInv, Flushed, Lands
<1> QED BY <1>1, <1>3, <1>4, <1>5 DEF SavesInv

\* A write that is added to the queue, and is not the diff pane's.
LEMMA WriteAdded ==
  ASSUME SavesInv, NEW op \in Ops, queue' = Append(queue, op), op.text = last,
         buf.open, buf.modified, UNCHANGED <<disk, edit, opening, reloads, last, faults>>,
         \/ op.kind = "auto" /\ ~saving /\ saving' = TRUE /\ UNCHANGED <<buf, closing>>
         \/ op.kind = "left" /\ closing = "no" /\ ~buf'.open /\ UNCHANGED <<saving, closing>>
         \/ op.kind = "close" /\ closing' = "settle" /\ UNCHANGED <<buf, saving>>
         \/ op.kind = "lock" /\ queue = <<>> /\ UNCHANGED <<buf, saving, closing>>,
         buf' \in [open : BOOLEAN, text : Texts, modified : BOOLEAN]
  PROVE  SavesInv'
<1>1. /\ Len(queue') = Len(queue) + 1 /\ queue'[Len(queue) + 1] = op /\ Len(queue) \in Nat
      /\ queue' \in Seq(Ops)
      /\ \A i \in Queued : queue'[i] = queue[i]
  BY Appended DEF SavesInv, SavesTyped, Ops, Queued
<1>2. SavesTyped'
  BY <1>1 DEF SavesInv, SavesTyped, Ops
<1>3. Lands \/ op.kind \in {"left", "close"} => Lands'
  BY LandsWith DEF SavesInv
<1>4. Held'
  BY <1>1, <1>3 DEF SavesInv, SavesTyped, Held
<1>5. ~edit.draining
  BY DEF SavesInv, Held, Ordered
<1>6. Ordered'
  <2>1. \A i \in Queued : queue[i].kind \notin {"left", "diff"}
    BY <1>5 DEF SavesInv, Ordered
  <2>2. Queued' = Queued \cup {Len(queue) + 1} /\ \A i \in Queued : i # Len(queue) + 1
    BY <1>1 DEF Queued
  <2>3. \A i \in Queued' : queue'[i].kind = "close" =>
           queue'[i].text = last' /\ closing' \in {"settle", "closed"} /\ buf'.open
    <3>1. ASSUME NEW i \in Queued, queue[i].kind = "close"
          PROVE  queue[i].text = last' /\ closing' \in {"settle", "closed"} /\ buf'.open
      BY <3>1 DEF SavesInv, Ordered
    <3>2. op.kind = "close" => op.text = last' /\ closing' = "settle" /\ buf'.open
      OBVIOUS
    <3>3. ASSUME NEW i \in Queued', queue'[i].kind = "close"
          PROVE  queue'[i].text = last' /\ closing' \in {"settle", "closed"} /\ buf'.open
      <4>1. CASE i \in Queued
        BY <1>1, <3>1, <3>3, <4>1
      <4>2. CASE i = Len(queue) + 1
        BY <1>1, <3>2, <3>3, <4>2
      <4> QED BY <2>2, <4>1, <4>2
    <3> QED BY <3>3
  <2>4. \A i \in Queued' : queue'[i].kind = "lock" => i = 1
    BY <1>1, <2>2 DEF SavesInv, Ordered, Queued
  <2>5. \A i \in Queued' : queue'[i].kind = "auto" =>
           saving' /\ \A j \in Queued' : queue'[j].kind = "auto" => i = j
    <3>1. \A i \in Queued : queue[i].kind = "auto" =>
             saving /\ saving' /\ \A j \in Queued : queue[j].kind = "auto" => i = j
      BY DEF SavesInv, Ordered
    <3>2. op.kind = "auto" => saving' /\ \A i \in Queued : queue[i].kind # "auto"
      BY <3>1
    <3>3. ASSUME NEW i \in Queued', queue'[i].kind = "auto",
                 NEW j \in Queued', queue'[j].kind = "auto"
          PROVE  i = j
      <4>1. CASE i \in Queued
        <5>1. queue[i].kind = "auto" /\ j \in Queued /\ queue[j].kind = "auto"
          BY <1>1, <2>2, <3>2, <3>3, <4>1
        <5> QED BY <3>1, <4>1, <5>1
      <4>2. CASE i = Len(queue) + 1
        BY <1>1, <2>2, <3>2, <3>3, <4>2
      <4> QED BY <2>2, <4>1, <4>2
    <3>4. ASSUME NEW i \in Queued', queue'[i].kind = "auto" PROVE saving'
      BY <1>1, <2>2, <3>1, <3>2, <3>4
    <3> QED BY <3>3, <3>4
  <2>6. \A i \in Queued' : queue'[i].kind # "diff"
    BY <1>1, <2>1, <2>2
  <2>7. \A i \in Queued' : queue'[i].kind = "left" =>
           ~buf'.open /\ \A j \in Queued' : j > i => queue'[j].kind = "diff"
    BY <1>1, <2>1, <2>2 DEF Queued
  <2> QED BY <1>5, <2>3, <2>4, <2>5, <2>6, <2>7 DEF Ordered
<1>7. OnDisk => OnDisk'
  BY <1>1 DEF OnDisk, Queued
<1>8. Flushed'
  BY <1>1, <1>3, <1>7 DEF SavesInv, SavesTyped, Held, Flushed
<1> QED BY <1>2, <1>4, <1>6, <1>8 DEF SavesInv

LEMMA AutosaveKeeps ==
  ASSUME SavesInv, ~slow, F!Autosave PROVE SavesInv'
<1> USE DEF F!Autosave, F!SaveFile
<1>1. CASE saving \/ ~buf.open \/ ~buf.modified
  BY <1>1, SavesRest DEF SavesView
<1>2. CASE ~(saving \/ ~buf.open \/ ~buf.modified)
  <2> DEFINE op == F!Op("auto", buf.text)
  <2>1. op \in Ops /\ op.kind = "auto" /\ op.text = last
    BY <1>2 DEF F!Op, F!Kinds, Ops, SavesInv, SavesTyped, Held
  <2>2. queue' = Append(queue, op) /\ saving' = TRUE
    BY <1>2
  <2> HIDE DEF op
  <2> QED BY <1>2, <2>1, <2>2, WriteAdded DEF SavesInv, SavesTyped
<1> QED BY <1>1, <1>2

LEMMA CloseFileKeeps == ASSUME SavesInv, ~slow, F!CloseFile PROVE SavesInv'
<1> USE DEF F!CloseFile
<1>1. buf' = F!Closed /\ F!Closed.open = FALSE /\ F!Closed.text = FirstText /\ F!Closed.modified = FALSE
  BY DEF F!Closed
<1>0. buf' \in [open : BOOLEAN, text : Texts, modified : BOOLEAN] /\ ~buf'.open
  BY SavesAssumed DEF F!Closed, F!SaveAssumption
<1>2. CASE buf.modified
  <2> DEFINE op == F!Op("left", buf.text)
  <2>1. op \in Ops /\ op.kind = "left" /\ op.text = last
    BY <1>2 DEF F!Op, F!Kinds, Ops, SavesInv, SavesTyped, Held
  <2>2. queue' = Append(queue, op)
    BY <1>2
  <2> HIDE DEF op
  <2> QED BY <1>0, <1>2, <2>1, <2>2, WriteAdded
<1>3. CASE ~buf.modified
  <2>1. OnDisk /\ \A i \in Queued : queue[i].kind = "close"
    BY <1>3 DEF SavesInv, Held
  <2>2. UNCHANGED <<disk, queue, saving, edit, opening, reloads, closing, last, faults>>
    BY <1>3
  <2>3. OnDisk'
    BY <2>1, <2>2 DEF OnDisk, Queued
  <2>4. SavesTyped'
    BY <1>0, <2>2 DEF SavesInv, SavesTyped
  <2>5. Held'
    BY <1>0, <2>2, <2>3 DEF SavesInv, Held, Lands
  <2>6. Ordered'
    BY <1>0, <2>1, <2>2 DEF SavesInv, Held, Ordered, Queued
  <2>7. Flushed'
    BY <2>2, <2>3 DEF SavesInv, Flushed, Lands
  <2> QED BY <2>4, <2>5, <2>6, <2>7 DEF SavesInv
<1> QED BY <1>2, <1>3

LEMMA ReadToOpenKeeps == ASSUME SavesInv, ~slow, F!ReadToOpen PROVE SavesInv'
<1> USE DEF F!ReadToOpen, F!Buffer
<1>1. /\ opening.phase = "flush" /\ queue = <<>> /\ ~edit.present
      /\ opening' = [opening EXCEPT !.phase = "no"]
      /\ UNCHANGED <<disk, queue, saving, edit, reloads, closing, last, faults>>
  BY DEF SavesInv, SavesTyped, Flushed
<1>2. opening' \in [phase : {"no", "flush"}, text : Texts] /\ opening'.phase = "no"
  BY <1>1 DEF SavesInv, SavesTyped
<1>3. CASE buf.open
  <2>1. buf' = buf
    BY <1>3
  <2>3. Begins
    BY <1>1, <1>2 DEF Begins
  <2> HIDE DEF F!ReadToOpen, F!Buffer
  <2> QED BY <1>1, <2>1, <2>3, NoDrainKeeps
<1>4. CASE ~buf.open
  <2>1. buf' = [open |-> TRUE, text |-> disk, modified |-> FALSE]
    BY <1>4 DEF F!Opened
  <2>2. OnDisk /\ OnDisk'
    BY <1>1, <1>4 DEF SavesInv, SavesTyped, Held, Lands, OnDisk, OnTheWay, Queued
  <2>3. SavesTyped'
    BY <1>1, <1>2, <2>1 DEF SavesInv, SavesTyped
  <2>4. Held'
    BY <1>1, <2>1, <2>2 DEF SavesInv, SavesTyped, Held, OnDisk, Queued
  <2>5. Ordered'
    BY <1>1, <2>1 DEF SavesInv, SavesTyped, Ordered, Queued
  <2>6. Flushed'
    BY <1>1, <2>2 DEF SavesInv, Flushed, Lands
  <2> QED BY <2>3, <2>4, <2>5, <2>6 DEF SavesInv
<1> QED BY <1>3, <1>4

LEMMA FileChangedKeeps == ASSUME SavesInv, ~slow, F!FileChanged PROVE SavesInv'
<1>1. buf' = buf
  BY DEF F!FileChanged, F!Reload, SavesInv, SavesTyped, Held, OnDisk
<1> QED BY <1>1, SavesRest DEF F!FileChanged, SavesView

LEMMA LockTakenKeeps == ASSUME SavesInv, ~slow, F!LockTaken PROVE SavesInv'
<1> USE DEF F!LockTaken
<1>1. CASE buf.open /\ buf.modified
  <2> DEFINE op == F!Op("lock", buf.text)
  <2>1. op \in Ops /\ op.kind = "lock" /\ op.text = last
    BY <1>1 DEF F!Op, F!Kinds, Ops, SavesInv, SavesTyped, Held
  <2>2. queue' = <<op>> /\ queue = <<>>
    BY <1>1
  <2> HIDE DEF op
  <2>3. queue' = Append(queue, op)
    BY <2>2
  <2> QED BY <1>1, <2>1, <2>2, <2>3, WriteAdded DEF SavesInv, SavesTyped
<1>2. CASE ~(buf.open /\ buf.modified)
  BY <1>2, SavesRest DEF SavesView
<1> QED BY <1>1, <1>2

LEMMA FlushBuffersKeeps == ASSUME SavesInv, ~slow, F!FlushBuffers PROVE SavesInv'
<1> USE DEF F!FlushBuffers
<1>1. CASE buf.open /\ buf.modified
  <2> DEFINE op == F!Op("close", buf.text)
  <2>1. op \in Ops /\ op.kind = "close" /\ op.text = last
    BY <1>1 DEF F!Op, F!Kinds, Ops, SavesInv, SavesTyped, Held
  <2>2. queue' = Append(queue, op)
    BY <1>1
  <2> HIDE DEF op
  <2> QED BY <1>1, <2>1, <2>2, WriteAdded DEF SavesInv, SavesTyped
<1>2. CASE ~(buf.open /\ buf.modified)
  <2>1. UNCHANGED <<buf, disk, queue, saving, edit, opening, reloads, last, faults>> /\ closing' = "settle"
        /\ closing = "drain" /\ ~edit.draining
    BY <1>2
  <2>2. faults.refused \/ (~edit.present /\ Lands)
    BY <1>2, <2>1 DEF SavesInv, Held, Flushed, Lands
  <2>3. (OnDisk <=> OnDisk') /\ (OnTheWay <=> OnTheWay')
    BY <2>1 DEF OnDisk, OnTheWay, Queued
  <2>4. SavesTyped'
    BY <2>1 DEF SavesInv, SavesTyped
  <2>5. Held'
    BY <2>1, <2>3 DEF SavesInv, Held, Lands, Queued
  <2>6. Ordered'
    BY <2>1 DEF SavesInv, Ordered, Queued
  <2>7. Flushed'
    BY <2>1, <2>2, <2>3 DEF SavesInv, Flushed, Lands
  <2> QED BY <2>4, <2>5, <2>6, <2>7 DEF SavesInv
<1> QED BY <1>1, <1>2

LEMMA SettledKeeps == ASSUME SavesInv, ~slow, F!Settled PROVE SavesInv'
<1>1. /\ UNCHANGED <<buf, disk, queue, saving, edit, opening, reloads, last>>
      /\ closing = "settle" /\ queue = <<>>
      /\ closing' = IF faults.refused THEN "no" ELSE "closed"
      /\ faults' = [faults EXCEPT !.refused = FALSE]
  BY DEF F!Settled, F!Ends
<1>2. faults.refused \/ (OnDisk /\ ~edit.present)
  BY <1>1 DEF SavesInv, SavesTyped, Flushed, Lands, OnTheWay, Queued
<1>3. (OnDisk <=> OnDisk') /\ (OnTheWay <=> OnTheWay')
  BY <1>1 DEF OnDisk, OnTheWay, Queued
<1>4. SavesTyped' /\ ~faults'.lost
  BY <1>1 DEF SavesInv, SavesTyped
<1>5. Held'
  BY <1>1, <1>3 DEF SavesInv, Held, Lands, Queued
<1>6. Ordered'
  BY <1>1 DEF SavesInv, SavesTyped, Ordered, Queued
<1>7. Flushed'
  BY <1>1, <1>2, <1>3 DEF SavesInv, Flushed
<1> QED BY <1>4, <1>5, <1>6, <1>7 DEF SavesInv

\* The head of the queue is gone: it was written, or given up.
LEMMA HeadGone ==
  ASSUME SavesInv, queue # <<>>, queue' = Tail(queue), Head(queue).kind # "diff",
         UNCHANGED <<edit, opening, reloads, closing, last>>,
         faults' \in [lost : BOOLEAN, refused : BOOLEAN], ~faults'.lost,
         faults.refused => faults'.refused,
         \/ disk' = Head(queue).text
         \/ /\ disk' = disk
            /\ \/ Head(queue).kind \in {"auto", "lock"}
               \/ Head(queue).kind = "left" /\ edit.present
               \/ Head(queue).kind = "close" /\ faults'.refused,
         saving' \in BOOLEAN, Head(queue).kind # "auto" => saving' = saving,
         \/ buf' = buf
         \/ /\ buf.open /\ buf.text = Head(queue).text /\ disk' = Head(queue).text
            /\ buf' = [buf EXCEPT !.modified = FALSE]
            /\ \/ Head(queue).kind = "auto"
               \/ Head(queue).kind = "lock" /\ queue' = <<>>
  PROVE  SavesInv'
<1>1. /\ queue' \in Seq(Ops) /\ Len(queue') = Len(queue) - 1 /\ Len(queue) \in Nat \ {0}
      /\ Head(queue) = queue[1] /\ \A i \in 1..Len(queue) - 1 : queue'[i] = queue[i + 1]
  BY Dropped DEF SavesInv, SavesTyped, Ops
<1>2. queue[1] \in Ops /\ \A i \in Queued : queue[i] \in Ops
  BY <1>1, QueueOps DEF Queued
<1>3. SavesTyped'
  <2>1. buf' \in [open : BOOLEAN, text : Texts, modified : BOOLEAN]
    BY DEF SavesInv, SavesTyped
  <2>2. disk' \in Texts
    BY <1>1, <1>2 DEF SavesInv, SavesTyped, Ops
  <2>3. queue' \in Seq([kind : F!Kinds, text : Texts])
    BY <1>1 DEF Ops
  <2> QED BY <2>1, <2>2, <2>3 DEF SavesInv, SavesTyped
<1>4. Lands /\ ~edit.present /\ (~buf.open \/ ~faults'.refused) => Lands'
  <2>1. Head(queue).kind = "close" => buf.open
    BY <1>1 DEF SavesInv, Ordered, Queued
  <2>2. SUFFICES ASSUME Lands, ~edit.present, ~buf.open \/ ~faults'.refused PROVE Lands'
    OBVIOUS
  <2>3. \/ disk' = Head(queue).text
        \/ disk' = disk /\ Head(queue).kind \notin {"left", "diff", "close"}
    BY <2>1, <2>2
  <2> QED BY ONLY <2>2, <2>3, LandsOn, SavesInv, queue # <<>>, queue' = Tail(queue), last' = last
          DEF SavesInv
<1>5. OnDisk => OnDisk'
  BY <1>1 DEF OnDisk, Queued
<1>6. CASE buf' = buf
  <2>1. Held'
    BY <1>1, <1>4, <1>5, <1>6 DEF SavesInv, SavesTyped, Held, Queued
  <2>2. Ordered'
    BY <1>1, <1>6, SMTT(30) DEF SavesInv, SavesTyped, Ordered, Queued
  <2>3. Flushed'
    BY <1>4, <1>5 DEF SavesInv, Flushed
  <2> QED BY <1>3, <2>1, <2>2, <2>3 DEF SavesInv
<1>7. CASE buf' # buf
  <2>1. /\ buf.open /\ buf.text = last /\ disk' = last /\ buf' = [buf EXCEPT !.modified = FALSE]
        /\ buf'.open /\ buf'.text = last
    BY <1>7 DEF SavesInv, SavesTyped, Held
  <2>2. ~edit.present /\ ~edit.draining
    BY <2>1 DEF SavesInv, Held, Ordered
  <2>3. \A i \in Queued : i # 1 /\ queue[1].kind = "auto" => queue[i].kind = "close" /\ queue[i].text = last
    BY <1>1, <1>2, <2>1, <2>2, SMTT(30) DEF SavesInv, SavesTyped, Ordered, Queued, Ops, F!Kinds
  <2>4. \A i \in Queued' : queue'[i].kind = "close" /\ queue'[i].text = last
    BY <1>1, <2>3, <1>7 DEF Queued
  <2>5. OnDisk'
    BY <2>1, <2>4 DEF OnDisk
  <2>6. Held'
    BY <2>1, <2>2, <2>4, <2>5 DEF SavesInv, Held
  <2>7. Ordered'
    BY <1>1, <2>1, <2>2, <2>4 DEF SavesInv, SavesTyped, Ordered, Queued
  <2>8. Flushed'
    BY <2>5, <2>2 DEF SavesInv, Flushed, Lands
  <2> QED BY <1>3, <2>6, <2>7, <2>8 DEF SavesInv
<1> QED BY <1>6, <1>7

\* The text of a closed tab is lost when its save fails and the diff pane has no newer one.
LEMMA LeftLost ==
  ASSUME SavesInv, queue # <<>>, queue' = Tail(queue), Head(queue).kind = "left", ~edit.present,
         faults' \in [lost : BOOLEAN, refused : BOOLEAN], faults'.lost,
         UNCHANGED <<buf, disk, saving, edit, opening, reloads, closing, last>>
  PROVE  LostInv'
<1>1. /\ Tail(queue) \in Seq(Ops) /\ Len(Tail(queue)) = Len(queue) - 1 /\ Len(queue) \in Nat \ {0}
      /\ Head(queue) = queue[1]
  BY Dropped DEF SavesInv, SavesTyped, Ops
<1>2. ~buf.open /\ ~edit.draining /\ \A j \in Queued : j > 1 => queue[j].kind = "diff"
  <2>1. 1 \in Queued /\ queue[1].kind = "left"
    BY <1>1 DEF Queued
  <2> QED BY <2>1 DEF SavesInv, Ordered
<1>3. Len(queue) = 1
  <2>1. SUFFICES ASSUME Len(queue) # 1 PROVE FALSE
    OBVIOUS
  <2>2. 2 \in Queued
    BY <1>1, <2>1 DEF Queued
  <2> QED BY <1>2, <2>2 DEF SavesInv, Ordered
<1>4. queue' = <<>>
  BY <1>1, <1>3, Emptied
<1>5. SavesTyped'
  BY <1>1, <1>4 DEF SavesInv, SavesTyped, Ops
<1> QED BY <1>2, <1>4, <1>5 DEF LostInv

\* A failed edit of the diff pane is pending again.
LEMMA DiffFails ==
  ASSUME SavesInv, queue # <<>>, queue' = Tail(queue), Head(queue).kind = "diff",
         edit' \in [present : BOOLEAN, text : Texts, newer : BOOLEAN, timer : BOOLEAN,
                    draining : BOOLEAN],
         edit'.present = edit.present, edit'.text = edit.text, ~edit'.draining,
         opening' \in [phase : {"no", "flush"}, text : Texts], opening'.phase = "no",
         faults' \in [lost : BOOLEAN, refused : BOOLEAN], ~faults'.lost,
         closing \in {"drain", "settle"} => faults'.refused,
         UNCHANGED <<buf, disk, saving, reloads, closing, last>>
  PROVE  SavesInv'
<1>1. /\ Tail(queue) \in Seq(Ops) /\ Len(Tail(queue)) = Len(queue) - 1 /\ Len(queue) \in Nat \ {0}
      /\ Head(queue) = queue[1]
  BY Dropped DEF SavesInv, SavesTyped, Ops
<1>2. Len(queue) = 1 /\ edit.draining /\ edit.present /\ ~buf.open /\ edit.text = last
  <2>1. 1 \in Queued /\ queue[1].kind = "diff"
    BY <1>1 DEF Queued
  <2>2. 1 = Len(queue) /\ edit.draining
    BY <2>1 DEF SavesInv, Ordered
  <2> QED BY <2>2 DEF SavesInv, Held, Ordered
<1>3. queue' = <<>>
  BY <1>1, <1>2, Emptied
<1>4. SavesTyped'
  <2>1. queue' \in Seq([kind : F!Kinds, text : Texts])
    BY <1>1 DEF Ops
  <2>2. opening' \in [phase : {"no", "flush"}, text : Texts]
    OBVIOUS
  <2> QED BY <2>1, <2>2 DEF SavesInv, SavesTyped
<1>5. Held'
  BY <1>2 DEF Held
<1>6. Ordered'
  <2>1. Queued' = {} /\ ~edit'.draining
    BY <1>3 DEF Queued
  <2> QED BY ONLY <2>1 DEF Ordered
<1>7. Flushed'
  BY <1>2 DEF SavesInv, SavesTyped, Flushed
<1> QED BY <1>4, <1>5, <1>6, <1>7 DEF SavesInv

LEMMA WriteFailsKeeps == ASSUME SavesInv, ~slow, F!WriteFails PROVE SavesInv' \/ LostInv'
<1> DEFINE kind == Head(queue).kind
<1>1. /\ queue # <<>> /\ queue' = Tail(queue) /\ UNCHANGED <<buf, disk, reloads, closing, last>>
      /\ F!StillHeld(kind)
      /\ faults' \in [lost : BOOLEAN, refused : BOOLEAN]
      /\ faults.refused => faults'.refused
      /\ faults'.lost <=> kind = "left" /\ ~edit.present
      /\ kind \in {"diff", "close"} /\ closing \in {"drain", "settle"} => faults'.refused
  <2>1. faults \in [lost : BOOLEAN, refused : BOOLEAN] /\ ~faults.lost
    BY DEF SavesInv, SavesTyped
  <2>2. PICK seen \in {TRUE, F!Rest = <<>>} :
           faults' = [lost |-> faults.lost \/ F!Loses(kind),
                      refused |-> faults.refused \/ F!Refuses(kind, seen)]
    BY DEF F!WriteFails
  <2>3. F!Refuses(kind, seen) \in BOOLEAN /\ F!Loses(kind) \in BOOLEAN
    BY DEF F!Refuses, F!Loses
  <2>4. /\ faults'.lost = (faults.lost \/ F!Loses(kind))
        /\ faults'.refused = (faults.refused \/ F!Refuses(kind, seen))
    BY <2>2
  <2>5. faults' \in [lost : BOOLEAN, refused : BOOLEAN]
    BY <2>1, <2>2, <2>3
  <2>6. kind \in {"diff", "close"} /\ closing \in {"drain", "settle"} => F!Refuses(kind, seen)
    BY DEF F!Refuses
  <2>7. /\ queue # <<>> /\ queue' = Tail(queue) /\ UNCHANGED <<buf, disk, reloads, closing, last>>
        /\ F!StillHeld(kind)
    BY DEF F!WriteFails, F!Rest
  <2> QED BY <2>1, <2>4, <2>5, <2>6, <2>7 DEF F!Loses
<1>2. kind \in F!Kinds /\ Head(queue) = queue[1] /\ 1 \in Queued
  BY <1>1, QueueOps, Dropped DEF Queued, Ops
<1>3. saving' \in BOOLEAN /\ (kind # "auto" => saving' = saving)
  BY <1>1 DEF F!StillHeld, SavesInv, SavesTyped
<1>4. kind # "diff" => UNCHANGED <<edit, opening>>
  BY <1>1 DEF F!StillHeld
<1>5. CASE kind = "diff"
  <2>1. edit.draining
    BY <1>2, <1>5 DEF SavesInv, Ordered
  <2>2. PICK t \in {FALSE, edit.timer} :
           edit' = [edit EXCEPT !.draining = FALSE, !.newer = FALSE, !.timer = t]
    BY <1>1, <1>5, <2>1 DEF F!StillHeld
  <2>3. opening' \in [phase : {"no", "flush"}, text : Texts] /\ opening'.phase = "no"
    BY <1>1, <1>5 DEF F!StillHeld, SavesInv, SavesTyped
  <2>4. /\ edit' \in [present : BOOLEAN, text : Texts, newer : BOOLEAN, timer : BOOLEAN,
                       draining : BOOLEAN]
        /\ edit'.present = edit.present /\ edit'.text = edit.text /\ ~edit'.draining
    BY <2>2 DEF SavesInv, SavesTyped
  <2>5. saving' = saving
    BY <1>3, <1>5
  <2> QED BY <1>1, <1>5, <2>3, <2>4, <2>5, DiffFails
<1>6. CASE kind = "left" /\ ~edit.present
  BY <1>1, <1>3, <1>4, <1>6, LeftLost
<1>7. CASE kind # "diff" /\ ~(kind = "left" /\ ~edit.present)
  <2>1. CASE kind = "close" /\ ~faults'.refused
    <3>1. closing = "closed"
      BY <1>1, <1>2, <2>1 DEF SavesInv, Ordered
    <3>2. disk' = Head(queue).text
      BY <1>1, <1>2, <3>1 DEF SavesInv, Flushed, OnDisk
    <3> QED BY <1>1, <1>3, <1>4, <1>7, <3>2, HeadGone
  <2>2. CASE ~(kind = "close" /\ ~faults'.refused)
    <3>1. \/ kind \in {"auto", "lock"}
          \/ kind = "left" /\ edit.present
          \/ kind = "close" /\ faults'.refused
      BY <1>2, <1>7, <2>2 DEF F!Kinds
    <3> QED BY <1>1, <1>3, <1>4, <1>7, <3>1, HeadGone
  <2> QED BY <2>1, <2>2
<1> QED BY <1>5, <1>6, <1>7

\* A write that the buffer has moved on from is followed by one of what it holds now.
LEMMA WrittenAgain ==
  ASSUME SavesInv, queue # <<>>, Head(queue).kind = "auto", buf.open,
         buf.text # Head(queue).text, buf.modified, saving' = TRUE,
         disk' = Head(queue).text, UNCHANGED <<buf, edit, opening, reloads, closing, last, faults>>,
         NEW op \in Ops, op.kind = "auto", op.text = buf.text,
         queue' \in Seq(Ops), Len(queue') = Len(queue), queue'[Len(queue)] = op,
         \A i \in Queued : i # Len(queue) => i + 1 \in Queued /\ i + 1 # 1 /\ queue'[i] = queue[i + 1]
  PROVE  SavesInv'
<1>1. op.text = last /\ buf.text = last
  BY DEF SavesInv, SavesTyped, Held
<1>2. Head(queue) = queue[1] /\ Len(queue) \in Nat /\ 1 \in Queued
  BY QueueOps, Dropped DEF Queued
<1>4. Queued' = Queued
  BY DEF Queued
<1>5. queue[1] \in Ops
  BY <1>2, QueueOps DEF Queued
<1>6. SavesTyped'
  BY <1>4, <1>5 DEF SavesInv, SavesTyped, Ops
<1>7. Held'
  BY DEF SavesInv, Held
<1>8. ~edit.present /\ ~edit.draining
  BY DEF SavesInv, Held, Ordered
<1>9. Ordered'
  <2>2. \A i \in Queued : i # 1 => queue[i].kind \notin {"auto", "diff", "left", "lock"}
    <3>1. 1 \in Queued /\ queue[1].kind = "auto"
      BY <1>2
    <3> QED BY <1>8, <3>1 DEF SavesInv, Ordered
  <2>3. \A i \in Queued' : i # Len(queue) =>
          queue'[i].kind \notin {"auto", "diff", "left", "lock"}
    <3>1. ASSUME NEW i \in Queued, i # Len(queue)
          PROVE  queue'[i].kind \notin {"auto", "diff", "left", "lock"}
      <4>1. i + 1 \in Queued /\ i + 1 # 1 /\ queue'[i] = queue[i + 1]
        BY <3>1
      <4> QED BY <2>2, <4>1
    <3> QED BY <1>4, <3>1
  <2>4. \A i \in Queued' : queue'[i].kind = "close" =>
          queue'[i].text = last /\ closing \in {"settle", "closed"}
    <3>1. ASSUME NEW i \in Queued', queue'[i].kind = "close"
          PROVE  queue'[i].text = last /\ closing \in {"settle", "closed"}
      <4>1. i # Len(queue)
        BY <1>1, <1>4, <3>1
      <4>2. i + 1 \in Queued /\ queue'[i] = queue[i + 1]
        BY <1>4, <3>1, <4>1
      <4> QED BY <3>1, <4>2 DEF SavesInv, Ordered
    <3> QED BY <3>1
  <2> QED BY <1>1, <1>4, <1>8, <2>3, <2>4 DEF Ordered, Queued
<1>10. ~OnDisk
  BY <1>1, <1>2 DEF OnDisk, Queued
<1>11. Lands => Lands'
  <2>1. SUFFICES ASSUME OnTheWay PROVE OnTheWay'
    BY <1>10 DEF Lands
  <2>2. PICK k \in Queued : /\ queue[k].kind \in {"left", "diff", "close"}
                            /\ \A i \in Queued : i >= k => queue[i].text = last
    BY <2>1 DEF OnTheWay
  <2>3. k \in 2..Len(queue)
    BY <1>2, <2>2 DEF Queued
  <2>4. k - 1 \in Queued' /\ queue'[k - 1].kind \in {"left", "diff", "close"}
    <3>1. k - 1 \in Queued /\ k - 1 # Len(queue) /\ (k - 1) + 1 = k
      BY <1>4, <2>3 DEF Queued
    <3> QED BY <1>4, <2>2, <3>1
  <2>6. ASSUME NEW i \in Queued', i >= k - 1 PROVE queue'[i].text = last'
    <3>1. CASE i = Len(queue)
      BY <1>1, <1>4, <3>1
    <3>2. CASE i # Len(queue)
      <4>1. i \in Queued /\ i + 1 \in Queued /\ i + 1 >= k /\ queue'[i] = queue[i + 1]
        BY <1>4, <2>3, <2>6, <3>2 DEF Queued
      <4> QED BY <2>2, <4>1
    <3> QED BY <3>1, <3>2
  <2> QED BY <2>4, <2>6 DEF OnTheWay
<1>12. Flushed'
  BY <1>8, <1>10, <1>11 DEF SavesInv, Flushed
<1> QED BY <1>6, <1>7, <1>9, <1>12 DEF SavesInv

LEMMA DiffWrittenKeeps ==
  ASSUME SavesInv, queue # <<>>, Head(queue).kind = "diff", F!DiffWritten,
         disk' = Head(queue).text, UNCHANGED <<opening, reloads, closing, last, faults>>
  PROVE  SavesInv'
<1>1. /\ Tail(queue) \in Seq(Ops) /\ Len(Tail(queue)) = Len(queue) - 1 /\ Len(queue) \in Nat \ {0}
      /\ Head(queue) = queue[1]
  BY Dropped DEF SavesInv, SavesTyped, Ops
<1>2. Len(queue) = 1 /\ edit.draining /\ edit.present /\ ~buf.open /\ edit.text = last
  <2>1. 1 \in Queued /\ queue[1].kind = "diff"
    BY <1>1 DEF Queued
  <2>2. 1 = Len(queue) /\ edit.draining
    BY <2>1 DEF SavesInv, Ordered
  <2> QED BY <2>2 DEF SavesInv, Held, Ordered
<1>3. Tail(queue) = <<>> /\ queue[1] \in Ops
  <2>1. Len(Tail(queue)) = 0 /\ 1 \in Queued
    BY <1>1, <1>2 DEF Queued
  <2>2. queue[1] \in Ops
    BY <2>1, QueueOps
  <2>3. Tail(queue) = <<>>
    BY <1>1, <2>1, Emptied
  <2> QED BY <2>2, <2>3
<1>4. CASE ~edit.newer
  <2>1. edit' = F!NoEdit /\ queue' = <<>> /\ UNCHANGED <<buf, saving>>
    BY <1>2, <1>3, <1>4 DEF F!DiffWritten, F!Rest
  <2>2. disk' = last
    BY <1>1, <1>2, <1>4 DEF SavesInv, Ordered
  <2>3. OnDisk'
    BY <2>1, <2>2 DEF OnDisk, Queued
  <2>4. SavesTyped'
    BY <1>1, <1>3, <2>1, NoEditTyped DEF SavesInv, SavesTyped, Ops
  <2>5. Held'
    BY <2>1, <2>3, <1>2, NoEditTyped DEF Held, Lands
  <2>6. Ordered'
    BY <2>1, NoEditTyped DEF Ordered, Queued
  <2>7. Flushed'
    BY <2>1, <2>3, NoEditTyped DEF Flushed, Lands
  <2> QED BY <2>4, <2>5, <2>6, <2>7 DEF SavesInv
<1>5. CASE edit.newer
  <2>1. /\ edit' = [edit EXCEPT !.newer = FALSE, !.timer = FALSE]
        /\ queue' = Append(<<>>, F!Op("diff", edit.text)) /\ UNCHANGED <<buf, saving>>
    BY <1>2, <1>3, <1>5 DEF F!DiffWritten, F!Rest
  <2>2. /\ queue' = <<F!Op("diff", edit.text)>> /\ F!Op("diff", edit.text) \in Ops
        /\ F!Op("diff", edit.text).kind = "diff" /\ F!Op("diff", edit.text).text = last
    BY <1>2, <2>1 DEF F!Op, F!Kinds, Ops, SavesInv, SavesTyped
  <2>3. Len(queue') = 1 /\ queue'[1].kind = "diff" /\ queue'[1].text = last /\ queue' \in Seq(Ops)
    BY <2>2
  <2>4. SavesTyped'
    BY <1>1, <1>3, <2>1, <2>3 DEF SavesInv, SavesTyped, Ops
  <2>5. Held'
    BY <1>2, <2>1 DEF SavesInv, SavesTyped, Held
  <2>6. Ordered'
    BY <1>2, <2>1, <2>3 DEF SavesInv, SavesTyped, Ordered, Queued
  <2>7. Flushed'
    BY <1>2, <2>1 DEF SavesInv, SavesTyped, Flushed
  <2> QED BY <2>4, <2>5, <2>6, <2>7 DEF SavesInv
<1> QED BY <1>4, <1>5

LEMMA WriteSucceedsKeeps == ASSUME SavesInv, ~slow, F!WriteSucceeds PROVE SavesInv'
<1>1. /\ queue # <<>> /\ disk' = Head(queue).text
      /\ UNCHANGED <<opening, reloads, closing, last, faults>>
  BY DEF F!WriteSucceeds, F!Env
<1>2. CASE Head(queue).kind = "auto"
  <2>1. F!AutosaveWritten(Head(queue).text)
    BY <1>1, <1>2 DEF F!WriteSucceeds
  <2>2. CASE ~buf.open \/ buf.text = Head(queue).text
    <3>1. faults' \in [lost : BOOLEAN, refused : BOOLEAN] /\ ~faults'.lost
      BY <1>1 DEF SavesInv, SavesTyped
    <3> QED BY <1>1, <1>2, <2>1, <2>2, <3>1, HeadGone DEF F!AutosaveWritten, F!Cleaned, F!Rest
  <2>3. CASE buf.open /\ buf.text # Head(queue).text
    <3>1. buf.modified
      BY <1>1, <1>2, <2>3, Dropped DEF SavesInv, SavesTyped, Held, Queued
    <3> DEFINE op == F!Op("auto", buf.text)
    <3>2. op \in Ops /\ op.kind = "auto" /\ op.text = buf.text
      BY DEF F!Op, F!Kinds, Ops, SavesInv, SavesTyped
    <3>3. /\ saving' = TRUE /\ queue' = Append(Tail(queue), op)
          /\ UNCHANGED <<buf, edit>>
      BY <2>1, <2>3, <3>1 DEF F!AutosaveWritten, F!Rest
    <3> HIDE DEF op
    <3>4. /\ queue' \in Seq(Ops) /\ Len(queue') = Len(queue) /\ queue'[Len(queue)] = op
          /\ \A i \in Queued : i # Len(queue) =>
                i + 1 \in Queued /\ i + 1 # 1 /\ queue'[i] = queue[i + 1]
      BY <1>1, <3>2, <3>3, QueueOps, Requeued DEF Queued
    <3> QED BY <1>1, <1>2, <2>3, <3>1, <3>2, <3>3, <3>4, WrittenAgain
  <2> QED BY <2>2, <2>3
<1>3. CASE Head(queue).kind = "diff"
  <2>1. F!DiffWritten
    BY <1>1, <1>3 DEF F!WriteSucceeds
  <2> QED BY <1>1, <1>3, <2>1, DiffWrittenKeeps
<1>4. CASE Head(queue).kind = "lock"
  <2>1. F!LockWritten(Head(queue).text)
    BY <1>1, <1>4 DEF F!WriteSucceeds
  <2>2. CASE Tail(queue) # <<>> \/ (buf.open /\ buf.text # Head(queue).text)
    BY <1>1, <1>4, <2>1, <2>2, HeadGone DEF F!LockWritten, F!Rest, SavesInv, SavesTyped
  <2>3. CASE ~(Tail(queue) # <<>> \/ (buf.open /\ buf.text # Head(queue).text))
    BY <1>1, <1>4, <2>1, <2>3, HeadGone DEF F!LockWritten, F!Cleaned, F!Rest, SavesInv, SavesTyped
  <2> QED BY <2>2, <2>3
<1>5. CASE Head(queue).kind \in {"left", "close"}
  <2>1. queue' = Tail(queue) /\ UNCHANGED <<buf, saving, edit>>
    BY <1>1, <1>5 DEF F!WriteSucceeds, F!Rest
  <2> QED BY <1>1, <1>5, <2>1, HeadGone DEF SavesInv, SavesTyped
<1> QED BY <1>2, <1>3, <1>4, <1>5 DEF F!WriteSucceeds

LEMMA SavesStart == F!Init => SavesInv
<1> SUFFICES ASSUME F!Init PROVE SavesInv
  OBVIOUS
<1> USE SavesAssumed DEF F!Init, F!SaveAssumption, F!Closed
<1>1. SavesTyped
  <2>1. edit = F!NoEdit /\ queue = <<>> /\ saving = FALSE /\ closing = "no" /\ reloads = <<>>
    OBVIOUS
  <2>2. /\ buf = [open |-> FALSE, text |-> FirstText, modified |-> FALSE]
        /\ opening = [phase |-> "no", text |-> FirstText]
        /\ faults = [lost |-> FALSE, refused |-> FALSE]
    OBVIOUS
  <2>3. disk \in Texts /\ last \in Texts /\ FirstText \in Texts
    OBVIOUS
  <2>4. buf \in [open : BOOLEAN, text : Texts, modified : BOOLEAN]
    BY <2>2, <2>3
  <2>5. queue \in Seq([kind : F!Kinds, text : Texts])
    BY <2>1
  <2> HIDE DEF F!Init, F!Closed
  <2> QED BY <2>1, <2>2, <2>3, <2>4, <2>5, NoEditTyped DEF SavesTyped
<1>2. Held /\ Ordered /\ Flushed
  BY NoEditTyped DEF Held, Ordered, Flushed, Lands, OnDisk, Queued
<1> QED BY <1>1, <1>2 DEF SavesInv

LEMMA SavesStep == ASSUME SavesInv, ~slow, F!Next PROVE SavesInv' \/ LostInv'
<1>1. CASE F!DrainWorkingTreeEdit
  BY <1>1, DrainKeeps DEF F!DrainWorkingTreeEdit, Begins, SavesInv, SavesTyped
<1>2. CASE F!EnsureEditorFileOpen
  <2>1. Begins
    BY <1>2 DEF F!EnsureEditorFileOpen, Begins, SavesInv, SavesTyped
  <2>2. \/ F!Drain
        \/ /\ edit.present => edit.draining
           /\ UNCHANGED <<buf, edit, queue>>
    BY <1>2 DEF F!EnsureEditorFileOpen
  <2> QED BY <2>1, <2>2, DrainKeeps, NoDrainKeeps
<1>3. CASE F!SaveOpenFileToDisk
  <2>1. Begins
    BY <1>3 DEF F!SaveOpenFileToDisk, Begins, SavesInv, SavesTyped
  <2>2. \/ F!Drain
        \/ /\ edit.present => edit.draining
           /\ UNCHANGED <<buf, edit, queue>>
    BY <1>3 DEF F!SaveOpenFileToDisk
  <2> QED BY <2>1, <2>2, DrainKeeps, NoDrainKeeps
<1>4. CASE F!FlushAllFileEdits
  <2>1. Begins
    BY <1>4 DEF F!FlushAllFileEdits, Begins, SavesInv, SavesTyped
  <2>2. \/ F!Drain
        \/ /\ edit.present => edit.draining
           /\ UNCHANGED <<buf, edit, queue>>
    BY <1>4 DEF F!FlushAllFileEdits
  <2> QED BY <2>1, <2>2, DrainKeeps, NoDrainKeeps
<1>5. ~F!OpenFile /\ ~F!Reloaded
  BY DEF F!OpenFile, F!Reloaded, SavesInv, SavesTyped
<1> QED BY <1>1, <1>2, <1>3, <1>4, <1>5, EditBufferKeeps, QueueEditKeeps, AutosaveKeeps,
           CloseFileKeeps, ReadToOpenKeeps, FileChangedKeeps, LockTakenKeeps, FlushBuffersKeeps,
           SettledKeeps, WriteSucceedsKeeps, WriteFailsKeeps DEF F!Next

\* Once the last text is lost, the file is what the disk holds until the next text.
LEMMA LostEdit ==
  ASSUME LostInv, ~slow, NEW t \in Texts, F!EditBuffer(t) \/ F!QueueWorkingTreeEdit(t)
  PROVE  SavesInv'
<1> USE DEF F!EditBuffer, F!QueueWorkingTreeEdit, F!Typing, F!Buffer, F!UpdateFileContent, F!Given
<1>1. /\ UNCHANGED <<disk, queue, saving, opening, reloads, closing>> /\ queue = <<>>
      /\ last' = t /\ faults' = [faults EXCEPT !.lost = FALSE] /\ closing = "no"
  BY DEF LostInv
<1>2. faults' \in [lost : BOOLEAN, refused : BOOLEAN] /\ ~faults'.lost
  BY <1>1 DEF LostInv, SavesTyped
<1>3. Queued' = {} /\ Queued = {}
  BY <1>1 DEF Queued
<1>4. /\ buf' \in [open : BOOLEAN, text : Texts, modified : BOOLEAN] /\ buf'.open = buf.open
      /\ buf.open => buf'.text = t
  BY DEF LostInv, SavesTyped
<1>5. /\ edit' \in [present : BOOLEAN, text : Texts, newer : BOOLEAN, timer : BOOLEAN,
                     draining : BOOLEAN]
      /\ edit'.present => ~buf.open /\ edit'.text = t /\ opening.phase = "no"
      /\ ~edit'.draining /\ (buf.open \/ edit'.present)
  BY NoEditTyped DEF LostInv, SavesTyped
<1>6. ASSUME buf.open, ~buf'.modified PROVE disk = t
  <2>1. buf' = buf \/ (buf.text = t /\ buf' = [buf EXCEPT !.modified = @ \/ edit.draining])
        \/ buf' = [buf EXCEPT !.text = t, !.modified = TRUE]
    BY <1>6
  <2>2. buf.text = t
    BY <1>4, <1>6, <2>1 DEF LostInv, SavesTyped
  <2> QED BY <1>6, <2>2 DEF LostInv
<1>7. SavesTyped'
  BY <1>1, <1>2, <1>4, <1>5 DEF LostInv, SavesTyped
<1>8. Held'
  BY <1>1, <1>3, <1>4, <1>5, <1>6 DEF Held, OnDisk
<1>9. Ordered'
  BY ONLY <1>3, <1>5 DEF Ordered
<1>10. Flushed'
  BY <1>1, <1>5 DEF Flushed
<1> QED BY <1>2, <1>7, <1>8, <1>9, <1>10 DEF SavesInv

LEMMA LostStays ==
  ASSUME LostInv, UNCHANGED <<disk, queue, saving, edit, reloads, last>>, faults'.lost,
         faults' \in [lost : BOOLEAN, refused : BOOLEAN],
         opening' \in [phase : {"no", "flush"}, text : Texts],
         closing' \in {"no", "drain", "settle", "closed"},
         \/ buf' = buf \/ buf' = F!Closed \/ buf' = F!Opened(disk)
  PROVE  LostInv'
<1>1. /\ buf' \in [open : BOOLEAN, text : Texts, modified : BOOLEAN]
      /\ buf'.open => ~buf'.modified /\ buf'.text = disk
  <2>1. CASE buf' = buf
    BY <2>1 DEF LostInv, SavesTyped
  <2>2. CASE buf' = F!Closed
    BY <2>2, SavesAssumed DEF F!Closed, F!SaveAssumption
  <2>3. CASE buf' = F!Opened(disk)
    BY <2>3 DEF F!Opened, LostInv, SavesTyped
  <2> QED BY <2>1, <2>2, <2>3
<1>2. SavesTyped'
  BY <1>1 DEF LostInv, SavesTyped
<1> QED BY <1>1, <1>2 DEF LostInv

LEMMA LostStep == ASSUME LostInv, ~slow, F!Next PROVE SavesInv' \/ LostInv'
<1>1. /\ queue = <<>> /\ ~edit.present /\ reloads = <<>> /\ opening.phase \in {"no", "flush"}
      /\ buf.open => ~buf.modified /\ buf.text = disk
      /\ faults \in [lost : BOOLEAN, refused : BOOLEAN] /\ faults.lost
      /\ opening \in [phase : {"no", "flush"}, text : Texts]
      /\ closing \in {"no", "drain", "settle", "closed"}
  BY DEF LostInv, SavesTyped
<1>2. ~F!WriteSucceeds /\ ~F!WriteFails /\ ~F!OpenFile /\ ~F!Reloaded /\ ~F!DrainWorkingTreeEdit
  BY <1>1 DEF F!WriteSucceeds, F!WriteFails, F!OpenFile, F!Reloaded, F!DrainWorkingTreeEdit, F!Drain
<1>3. CASE F!Autosave \/ F!CloseFile
  BY <1>1, <1>3, LostStays DEF F!Autosave, F!SaveFile, F!CloseFile
<1>4. CASE F!EnsureEditorFileOpen \/ F!SaveOpenFileToDisk \/ F!FlushAllFileEdits
  BY <1>1, <1>4, LostStays DEF F!EnsureEditorFileOpen, F!SaveOpenFileToDisk, F!FlushAllFileEdits
<1>5. CASE F!ReadToOpen
  BY <1>1, <1>5, LostStays DEF F!ReadToOpen, F!Buffer
<1>6. CASE F!FileChanged
  <2>1. buf' = buf
    BY <1>1, <1>6 DEF F!FileChanged, F!Reload, LostInv, SavesTyped
  <2> QED BY <1>1, <1>6, <2>1, LostStays DEF F!FileChanged
<1>7. CASE F!LockTaken \/ F!FlushBuffers
  BY <1>1, <1>7, LostStays DEF F!LockTaken, F!FlushBuffers
<1>8. CASE F!Settled
  BY <1>1, <1>8, LostStays DEF F!Settled, F!Ends
<1> QED BY <1>2, <1>3, <1>4, <1>5, <1>6, <1>7, <1>8, LostEdit DEF F!Next

\* Whether reads are late is settled at the start.
LEMMA SlowSettled == ASSUME F!Next PROVE slow' = slow
  BY DEF F!Next, F!EditBuffer, F!QueueWorkingTreeEdit, F!DrainWorkingTreeEdit, F!Autosave,
         F!CloseFile, F!EnsureEditorFileOpen, F!ReadToOpen, F!OpenFile, F!FileChanged, F!Reloaded,
         F!SaveOpenFileToDisk, F!LockTaken, F!FlushAllFileEdits, F!FlushBuffers, F!Settled,
         F!Ends, F!WriteSucceeds, F!WriteFails, F!Env

LEMMA SavesHoldAlways == StoreSpec => []SavesHold
<1>1. StoreInit => SavesHold
  BY SavesStart DEF StoreInit, SavesHold
<1>2. SavesHold /\ [StoreNext]_storeVars => SavesHold'
  <2> SUFFICES ASSUME SavesHold, [StoreNext]_storeVars, part' = "saves", ~slow'
               PROVE  SavesInv' \/ LostInv'
    BY DEF SavesHold
  <2>1. CASE FStep
    BY <2>1, SavesStep, LostStep, SlowSettled DEF FStep, SavesHold
  <2>2. CASE UNCHANGED storeVars
    <3>1. UNCHANGED SavesView /\ part' = part /\ slow' = slow
      BY <2>2 DEF storeVars, SavesView
    <3>2. CASE LostInv
      BY <3>1, <3>2 DEF LostInv, SavesTyped, SavesView
    <3> QED BY <3>1, <3>2, SavesRest DEF SavesHold
  <2>3. part' = part
    BY DEF StoreNext, RStep, FStep, PStep, LStep, RRest, FRest, PRest, LRest, storeVars
  <2> QED BY <2>1, <2>2, <2>3 DEF StoreNext, RStep, PStep, LStep
<1> QED BY <1>1, <1>2, PTL DEF StoreSpec

LEMMA SavesEnough == ASSUME SavesHold PROVE SavesLand
<1>1. CASE slow
  BY <1>1 DEF F!CleanMeansSaved, F!CloseFlushes, SavesLand
<1>2. CASE ~slow
  BY <1>2 DEF SavesHold, SavesInv, LostInv, Held, Flushed, OnDisk, F!CleanMeansSaved,
     F!CleanWhenQuiet, F!CloseFlushes, SavesLand
<1> QED BY <1>1, <1>2

(*****************************************************************************)
(* A buffer shown as saved is what the disk holds, and a coordinated close   *)
(* that is confirmed has written the last text that was given, whichever     *)
(* writes fail, unless the failed save of a closed tab lost that text.       *)
(*****************************************************************************)
THEOREM SavesLandAlways == StoreSpec => []SavesLand
  BY SavesHoldAlways, SavesEnough, PTL

-----------------------------------------------------------------------------
(* What the IDE store keeps of the runs.                                    *)

Fields == {"state", "tail", "ids", "known", "discarded", "through", "latest", "compound", "owned",
           "active", "stopping", "restarting", "pstopping", "prestarting", "paused", "epoch"}
Shape(s) == DOMAIN s = Fields
Phases == {"none", "running", "done"}
Records == [run : RunIds \cup {NoRunId}, state : Phases, steps : [RunSteps -> Phases],
            tail : RunIds \cup {NoRunId}]

Typed(s) ==
  /\ Shape(s) /\ s.state \in [RunIds -> R!RunStates] /\ s.ids = {i \in RunIds : s.state[i] # "none"}
  /\ s.latest \in [RunProfiles -> RunIds \cup {NoRunId}] /\ s.compound \in [RunCompounds -> Records]
  /\ \A p \in RunProfiles : s.latest[p] # NoRunId => ProfileOf[s.latest[p]] = p
  /\ s.owned \subseteq RunIds /\ s.paused \in BOOLEAN

\* The outputs of a profile: as many as are retained, at most.
Of(s, p) == {j \in s.ids : ProfileOf[j] = p}
Retention(s) == \A p \in RunProfiles : IsFiniteSet(Of(s, p)) /\ Cardinality(Of(s, p)) <= MaxRetained

\* The record of a compound is of its latest run, which the store owns, and its steps end together,
\* after it.
Done(m) == {k \in RunSteps : m.steps[k] = "done"}
RecordKept(s, c, m) ==
  /\ Done(m) \in {{}, RunSteps} /\ (m.state # "done" => Done(m) = {})
  /\ m.tail \in {NoRunId, m.run}
  /\ m.run = NoRunId <=> m.state = "none"
  /\ m.run # NoRunId => m.run \in s.owned /\ s.latest[c] = m.run /\ ProfileOf[m.run] = c
CompoundsKept(s) == \A c \in RunCompounds : RecordKept(s, c, s.compound[c])

Current(s) == ~s.paused => \A i \in s.ids \cup s.owned : EpochOf[i] = s.epoch
ActiveKept(s) == s.active \in {NoRunId, AllRuns} \cup s.ids \cup s.owned
Kept(s) == Typed(s) /\ Retention(s) /\ CompoundsKept(s) /\ Current(s) /\ ActiveKept(s)

\* A flag that is set has its request among Q.
FlagsOf(s, Q) ==
  /\ \A i \in s.stopping : \E r \in Q : r.run = i /\ r.kind = "stop"
  /\ \A p \in s.pstopping : \E r \in Q : r.profile = p /\ r.kind = "stop"
  /\ \A i \in s.restarting : \E r \in Q : r.run = i /\ r.kind = "restart"

\* The end of a compound is told last.
ToldLast(i) == R!IsCompound(i) /\ ("running" \in todo[i] \/ "began" \in todo[i]) => "ended" \in todo[i]

\* The records given to the history: none before the run began, none of an ordinary run before it
\* ended, and of a compound one for its end and one for each step that has ended.
Waits(i, e) == i \notin launched \/ e \in todo[i]
OrdinaryArchived(i) ==
  /\ archived[i] \in {0, 1} /\ (Waits(i, "done") => archived[i] = 0)
  /\ store.state[i] = "done" => archived[i] = 1
Told(m) == (IF m.state = "done" THEN 1 ELSE 0) + Cardinality(Done(m))
CompoundArchived(i, m) ==
  /\ archived[i] \in 0..(1 + Cardinality(RunSteps))
  /\ Waits(i, "running") => archived[i] = 0 /\ m.run # i
  /\ m.run = i => /\ archived[i] = Told(m)
                  /\ "ended" \in todo[i] \/ store.paused \/ Done(m) = RunSteps
                       \/ (i \in pending /\ m.state # "done")
\* None at all of a run that is stopped because its workspace or the application is left; such a
\* run had not ended, and nothing is given of a run that has not.
Halted == halted.runs
Archived(i) == IF R!IsCompound(i) THEN CompoundArchived(i, store.compound[ProfileOf[i]])
                                  ELSE OrdinaryArchived(i)
History ==
  /\ \A i \in RunIds \ Halted : Archived(i)
  /\ \A i \in RunIds : i \in Halted \/ i \notin ended => archived[i] = 0
  /\ archived \in [RunIds -> Nat] /\ DOMAIN todo = RunIds /\ DOMAIN halted = {"runs", "shut"}
  /\ \A i \in RunIds : ToldLast(i) /\ (todo[i] # {} => i \in launched)
  /\ \A i \in pending : R!IsCompound(i)

RunsInv == Kept(store) /\ FlagsOf(store, calls) /\ History
RunsHold == part = "runs" => RunsInv

\* The records stay with a store that owns as much and whose latest runs are the same.
LEMMA RecordStays ==
  ASSUME NEW s, NEW t, NEW c, NEW m, RecordKept(s, c, m), s.owned \subseteq t.owned,
         t.latest[c] = s.latest[c]
  PROVE  RecordKept(t, c, m)
  BY DEF RecordKept

LEMMA RecordsStay ==
  ASSUME NEW s, NEW t, CompoundsKept(s), t.compound = s.compound, s.owned \subseteq t.owned,
         \A c \in RunCompounds : t.latest[c] = s.latest[c]
  PROVE  CompoundsKept(t)
<1>1. ASSUME NEW c \in RunCompounds PROVE RecordKept(t, c, t.compound[c])
  <2>1. RecordKept(s, c, s.compound[c])
    BY DEF CompoundsKept
  <2> QED BY <2>1, RecordStays
<1> QED BY <1>1 DEF CompoundsKept

USE RunsAssumed DEF R!RunAssumption

\* The operators of an instance are those of the module that it extends.
LEMMA Counts == \A S : R!IsFiniteSet(S) = IsFiniteSet(S) /\ R!Cardinality(S) = Cardinality(S)
  BY DEF R!IsFiniteSet, IsFiniteSet, R!Cardinality, Cardinality

LEMMA RunOf == /\ \A i \in RunIds : ProfileOf[i] \in RunProfiles
               /\ \A c \in RunCompounds : c \in RunProfiles
               /\ IsFiniteSet(RunSteps) /\ Cardinality(RunSteps) \in Nat
               /\ NoRunId \notin RunIds /\ AllRuns \notin RunIds
               /\ MaxRetained \in Nat \ {0}
<1>1. IsFiniteSet(RunSteps)
  BY Counts
<1>2. Cardinality(RunSteps) \in Nat
  BY <1>1, FS_CardinalityType
<1> QED BY <1>1, <1>2

\* A finite set of runs that is not empty has an oldest member and a newest: of the sets of runs
\* beyond a member, the smallest is empty.
LEMMA Ends ==
  ASSUME NEW S \in SUBSET RunIds, S # {}, IsFiniteSet(S)
  PROVE  R!Oldest(S) \in S /\ R!Newest(S) \in S
<1>1. FiniteSubsetsOf(S) = SUBSET S
  BY FS_FiniteSubsetsOfFinite
<1>2. \A i \in S : SeqOf[i] \in Nat
  OBVIOUS
<1>3. ASSUME NEW B \in [S -> SUBSET S]
      PROVE  \E i \in S : \A j \in S : ~(B[j] \subseteq B[i] /\ B[j] # B[i])
  <2> DEFINE T == {B[i] : i \in S}
  <2>1. T \subseteq FiniteSubsetsOf(S) /\ T # {}
    BY <1>1, <1>3
  <2>2. PICK A \in T : \A D \in T : ~(<<D, A>> \in StrictSubsetOrdering(S))
    BY <2>1, FS_StrictSubsetOrderingWellFounded, WFMin
  <2>3. PICK i \in S : A = B[i]
    OBVIOUS
  <2>4. \A j \in S : ~(<<B[j], B[i]>> \in StrictSubsetOrdering(S))
    BY <2>2, <2>3
  <2> QED BY <1>3, <2>4 DEF StrictSubsetOrdering
<1>4. R!Oldest(S) \in S
  <2> DEFINE B == [i \in S |-> {j \in S : SeqOf[j] < SeqOf[i]}]
  <2>1. PICK i \in S : \A j \in S : ~(B[j] \subseteq B[i] /\ B[j] # B[i])
    <3>1. B \in [S -> SUBSET S]
      OBVIOUS
    <3> HIDE DEF B
    <3> QED BY <1>3, <3>1
  <2>2. \A j \in S : SeqOf[i] <= SeqOf[j]
    <3> SUFFICES ASSUME NEW j \in S, ~(SeqOf[i] <= SeqOf[j]) PROVE FALSE
      OBVIOUS
    <3>1. SeqOf[j] < SeqOf[i] /\ SeqOf[i] \in Nat /\ SeqOf[j] \in Nat
      BY <1>2
    <3>2. B[j] \subseteq B[i] /\ j \in B[i] /\ j \notin B[j]
      BY <1>2, <3>1
    <3> QED BY <2>1, <3>2
  <2> QED BY <2>2 DEF R!Oldest
<1>5. R!Newest(S) \in S
  <2> DEFINE B == [i \in S |-> {j \in S : SeqOf[i] < SeqOf[j]}]
  <2>1. PICK i \in S : \A j \in S : ~(B[j] \subseteq B[i] /\ B[j] # B[i])
    <3>1. B \in [S -> SUBSET S]
      OBVIOUS
    <3> HIDE DEF B
    <3> QED BY <1>3, <3>1
  <2>2. \A j \in S : SeqOf[j] <= SeqOf[i]
    <3> SUFFICES ASSUME NEW j \in S, ~(SeqOf[j] <= SeqOf[i]) PROVE FALSE
      OBVIOUS
    <3>1. SeqOf[i] < SeqOf[j] /\ SeqOf[i] \in Nat /\ SeqOf[j] \in Nat
      BY <1>2
    <3>2. B[j] \subseteq B[i] /\ j \in B[i] /\ j \notin B[j]
      BY <1>2, <3>1
    <3> QED BY <2>1, <3>2
  <2> QED BY <2>2 DEF R!Newest
<1> QED BY <1>4, <1>5

-----------------------------------------------------------------------------
(* Retention.                                                               *)

\* Discarding touches the sequences that were discarded, and their mark.
Beside(s) == <<s.state, s.tail, s.ids, s.known, s.latest, s.compound, s.owned, s.active, s.stopping,
               s.restarting, s.pstopping, s.prestarting, s.paused, s.epoch>>

LEMMA Discards ==
  ASSUME NEW s, Shape(s), NEW p, NEW X
  PROVE  Shape(R!Discard(s, p, X)) /\ Beside(R!Discard(s, p, X)) = Beside(s)
<1>1. ASSUME NEW a, NEW b, NEW d, d = [s EXCEPT !.discarded = a, !.through = b]
      PROVE  Shape(d) /\ Beside(d) = Beside(s)
  BY <1>1 DEF Shape, Fields, Beside
<1>2. \/ R!Discard(s, p, X) = s
      \/ \E a, b : R!Discard(s, p, X) = [s EXCEPT !.discarded = a, !.through = b]
  BY DEF R!Discard
<1> QED BY <1>1, <1>2

\* What retaining a run leaves alone.
Aside(s) == <<s.compound, s.owned, s.stopping, s.restarting, s.pstopping, s.prestarting, s.paused,
              s.epoch>>

LEMMA PrunedIs ==
  ASSUME NEW s, NEW S
  PROVE  LET done == {j \in S : s.state[j] = "done"} IN
         R!Pruned(s, S) = IF Cardinality(S) <= MaxRetained THEN {}
                          ELSE {R!Oldest(IF done # {} THEN done ELSE S)}
  BY Counts DEF R!Pruned

\* t is s with run i retained in a state, and the outputs of X pushed out.
Retained(s, t, i, st, X) ==
  /\ Shape(t) /\ Aside(t) = Aside(s) /\ Retention(t)
  /\ i \notin X /\ (s.state[i] # "none" => X = {})
  /\ t.state = [j \in RunIds |-> IF j \in X THEN "none" ELSE IF j = i THEN st ELSE s.state[j]]
  /\ t.ids = (s.ids \cup {i}) \ X
  /\ \E n \in {i, s.latest[ProfileOf[i]]} : t.latest = [s.latest EXCEPT ![ProfileOf[i]] = n]
  /\ t.active = IF s.active \in X THEN i ELSE s.active

\* A run that is retained may push an output out, never one of a live run, and never its own.
LEMMA Retains ==
  ASSUME NEW s, Typed(s), Retention(s), NEW i \in RunIds, NEW st \in R!RunStates \ {"none"},
         s.state[i] = "none" => /\ st \in R!Live
                                /\ Cardinality(R!LiveOf(s, ProfileOf[i])) < MaxRetained
  PROVE  \E X \in SUBSET {j \in s.ids : s.state[j] = "done"} :
           Retained(s, R!RetainRunOutput(s, i, st), i, st, X)
<1> DEFINE p == ProfileOf[i]
           set == [s EXCEPT !.state[i] = st, !.ids = @ \cup {i}, !.known = @ \cup {i}]
           S == {j \in set.ids : ProfileOf[j] = p}
           X == R!Pruned(set, S)
           d == R!Discard(set, p, X)
           newer == s.latest[p] = NoRunId \/ SeqOf[i] >= R!LatestSeq(set, p)
           t == R!RetainRunOutput(s, i, st)
<1>1. /\ Shape(set) /\ Aside(set) = Aside(s) /\ set.latest = s.latest /\ set.active = s.active
      /\ set.state = [s.state EXCEPT ![i] = st] /\ set.ids = s.ids \cup {i}
  BY DEF Typed, Shape, Fields, Aside
<1>2. /\ S = Of(s, p) \cup {i} /\ S \subseteq RunIds /\ IsFiniteSet(S)
      /\ IsFiniteSet(Of(s, p)) /\ Cardinality(Of(s, p)) \in Nat /\ Cardinality(Of(s, p)) <= MaxRetained
      /\ Cardinality(S) = IF i \in Of(s, p) THEN Cardinality(Of(s, p)) ELSE Cardinality(Of(s, p)) + 1
  <2>1. S = Of(s, p) \cup {i} /\ S \subseteq RunIds
    BY <1>1 DEF Of, Typed
  <2>2. p \in RunProfiles
    BY RunOf
  <2>3. IsFiniteSet(Of(s, p)) /\ Cardinality(Of(s, p)) <= MaxRetained
    BY <2>2 DEF Retention
  <2>4. Cardinality(Of(s, p)) \in Nat
    BY <2>3, FS_CardinalityType
  <2>5. /\ IsFiniteSet(Of(s, p) \cup {i})
        /\ Cardinality(Of(s, p) \cup {i}) = IF i \in Of(s, p) THEN Cardinality(Of(s, p)) ELSE Cardinality(Of(s, p)) + 1
    BY <2>3, FS_AddElement
  <2> HIDE DEF S
  <2> QED BY <2>1, <2>3, <2>4, <2>5
<1> DEFINE done == {j \in S : set.state[j] = "done"}
<1>3. X = IF Cardinality(S) <= MaxRetained THEN {} ELSE {R!Oldest(IF done # {} THEN done ELSE S)}
  BY PrunedIs
<1>4. /\ X \subseteq {j \in s.ids : s.state[j] = "done"} /\ i \notin X /\ (s.state[i] # "none" => X = {})
      /\ IsFiniteSet(S \ X) /\ Cardinality(S \ X) <= MaxRetained
  <2>1. CASE Cardinality(S) <= MaxRetained
    <3>1. X = {}
      <4> HIDE DEF S, X, done
      <4> QED BY <1>3, <2>1
    <3>2. S \ X = S
      BY <3>1
    <3> HIDE DEF S, X, done
    <3> QED BY <1>2, <2>1, <3>1, <3>2
  <2>2. CASE ~(Cardinality(S) <= MaxRetained)
    <3>1. i \notin Of(s, p) /\ Cardinality(S) = Cardinality(Of(s, p)) + 1
      BY <1>2, <2>2
    <3>2. i \notin s.ids /\ s.state[i] = "none"
      BY <3>1 DEF Of, Typed
    <3>3. done # {}
      <4> SUFFICES ASSUME done = {} PROVE FALSE
        OBVIOUS
      <4>1. \A j \in Of(s, p) : s.state[j] \in R!Live
        <5> SUFFICES ASSUME NEW j \in Of(s, p) PROVE s.state[j] \in R!Live
          OBVIOUS
        <5>1. j \in S /\ j # i /\ j \in RunIds /\ s.state[j] # "none" /\ s.state[j] \in R!RunStates
          BY <1>2, <3>1 DEF Of, Typed
        <5>2. set.state[j] = s.state[j] /\ set.state[j] # "done"
          BY <1>1, <5>1 DEF Typed
        <5> QED BY <5>1, <5>2 DEF R!RunStates
      <4>2. R!LiveOf(s, p) = Of(s, p)
        BY <4>1 DEF R!LiveOf, Of
      <4> QED BY <1>2, <2>2, <3>1, <3>2, <4>2, RunOf
    <3>4. IsFiniteSet(done) /\ done \subseteq RunIds
      BY <1>2, FS_Subset
    <3>5. PICK o \in done : X = {o}
      <4>1. R!Oldest(done) \in done
        BY <3>3, <3>4, Ends
      <4> HIDE DEF S, X, done
      <4> QED BY <1>3, <2>2, <3>3, <4>1
    <3>6. o # i /\ o \in s.ids /\ s.state[o] = "done"
      <4>1. st # "done"
        BY <3>2 DEF R!Live
      <4>2. set.state[i] = st
        BY <1>1 DEF Typed
      <4>3. o # i
        BY <4>1, <4>2
      <4> QED BY <1>1, <4>3 DEF Typed
    <3>7. IsFiniteSet(S \ {o}) /\ Cardinality(S \ {o}) = Cardinality(S) - 1
      BY <1>2, FS_RemoveElement
    <3>8. Cardinality(S \ X) <= MaxRetained
      <4> HIDE DEF S, X, done
      <4> QED BY <1>2, <3>1, <3>5, <3>7, RunOf
    <3> QED BY <3>2, <3>5, <3>6, <3>7, <3>8
  <2> QED BY <2>1, <2>2
<1>5. Shape(d) /\ Beside(d) = Beside(set)
  BY <1>1, Discards
<1>6. /\ Shape(t) /\ Aside(t) = Aside(s)
      /\ t.state = [j \in RunIds |-> IF j \in X THEN "none" ELSE set.state[j]]
      /\ t.ids = set.ids \ X
      /\ t.latest = [s.latest EXCEPT ![p] = IF newer THEN i ELSE s.latest[p]]
      /\ t.active = IF s.active \in X THEN i ELSE s.active
  <2>1. t = [d EXCEPT !.state = [j \in RunIds |-> IF j \in X THEN "none" ELSE set.state[j]],
                      !.tail = @ \ X, !.ids = @ \ X, !.known = @ \ X,
                      !.latest[p] = IF newer THEN i ELSE @,
                      !.active = IF @ \in X THEN i ELSE @]
    BY DEF R!RetainRunOutput
  <2> HIDE DEF X, d, newer, t, set
  <2> QED BY <1>1, <1>5, <2>1 DEF Shape, Fields, Beside, Aside
<1>0. t = R!RetainRunOutput(s, i, st)
  OBVIOUS
<1> HIDE DEF X, d, newer, t, set, S, done
<1>7. t.ids = (s.ids \cup {i}) \ X
  BY <1>1, <1>6
<1>8. t.state = [j \in RunIds |-> IF j \in X THEN "none" ELSE IF j = i THEN st ELSE s.state[j]]
  BY <1>1, <1>6 DEF Typed
<1>9. \E n \in {i, s.latest[p]} : t.latest = [s.latest EXCEPT ![p] = n]
  BY <1>6
<1>10. Retention(t)
  <2> SUFFICES ASSUME NEW q \in RunProfiles
               PROVE  IsFiniteSet(Of(t, q)) /\ Cardinality(Of(t, q)) <= MaxRetained
    BY DEF Retention
  <2>1. CASE q = p
    <3>1. Of(t, q) = S \ X
      BY <1>2, <1>7, <2>1 DEF Of
    <3> QED BY <1>4, <3>1
  <2>2. CASE q # p
    <3>1. IsFiniteSet(Of(s, q)) /\ Cardinality(Of(s, q)) <= MaxRetained /\ Cardinality(Of(s, q)) \in Nat
      BY FS_CardinalityType DEF Retention
    <3>2. Of(t, q) \subseteq Of(s, q)
      BY <1>7, <2>2 DEF Of
    <3>3. IsFiniteSet(Of(t, q)) /\ Cardinality(Of(t, q)) <= Cardinality(Of(s, q)) /\ Cardinality(Of(t, q)) \in Nat
      BY <3>1, <3>2, FS_Subset, FS_CardinalityType
    <3> QED BY <3>1, <3>3, RunOf
  <2> QED BY <2>1, <2>2
<1> QED BY <1>0, <1>4, <1>6, <1>7, <1>8, <1>9, <1>10 DEF Retained

-----------------------------------------------------------------------------
(* Statuses and output.                                                     *)

Core(s) == <<s.state, s.ids, s.latest, s.compound, s.owned, s.paused, s.epoch>>

LEMMA CoreKept ==
  ASSUME NEW s, NEW t, Kept(s), Shape(t), Core(t) = Core(s), ActiveKept(t)
  PROVE  Kept(t)
<1>1. /\ t.state = s.state /\ t.ids = s.ids /\ t.latest = s.latest /\ t.compound = s.compound
      /\ t.owned = s.owned /\ t.paused = s.paused /\ t.epoch = s.epoch
  BY DEF Core
<1>2. Typed(t)
  BY <1>1 DEF Kept, Typed
<1>3. Retention(t)
  BY <1>1 DEF Kept, Retention, Of
<1>4. CompoundsKept(t)
  BY <1>1, RecordsStay DEF Kept
<1>5. Current(t)
  BY <1>1 DEF Kept, Current
<1> QED BY <1>2, <1>3, <1>4, <1>5 DEF Kept

\* No output of a live run goes, and the flags of t are flags of s.
Goes(s, t) ==
  /\ \A j \in RunIds : s.state[j] \in R!Live => t.state[j] # "none"
  /\ t.stopping \subseteq s.stopping /\ t.restarting \subseteq s.restarting
  /\ t.pstopping \subseteq s.pstopping /\ t.paused = s.paused

\* What flags a status leaves.
LEMMA FlagsKept ==
  ASSUME NEW s, Kept(s), NEW i, NEW new
  PROVE  LET t == R!FlagsAfter(s, i, new) IN
         /\ Kept(t) /\ Core(t) = Core(s) /\ t.active = s.active /\ Shape(t) /\ Goes(s, t)
<1> DEFINE t == R!FlagsAfter(s, i, new)
<1>1. Shape(s)
  BY DEF Kept, Typed
<1>2. \E a, b, c, d : t = [s EXCEPT !.stopping = a, !.restarting = b, !.pstopping = c, !.prestarting = d]
  BY DEF R!FlagsAfter
<1>3. /\ t.stopping \subseteq s.stopping /\ t.restarting \subseteq s.restarting
      /\ t.pstopping \subseteq s.pstopping
  BY <1>1 DEF R!FlagsAfter, Shape, Fields
<1>4. Shape(t) /\ Core(t) = Core(s) /\ t.active = s.active
  <2> HIDE DEF t
  <2> QED BY <1>1, <1>2 DEF Shape, Fields, Core
<1>5. t.state = s.state /\ t.paused = s.paused /\ t.ids = s.ids /\ t.owned = s.owned
  BY <1>4 DEF Core
<1>6. Goes(s, t)
  BY <1>3, <1>5 DEF Goes, R!Live
<1>7. ActiveKept(t)
  BY <1>4, <1>5 DEF Kept, ActiveKept
<1>8. Kept(t)
  <2> HIDE DEF t
  <2> QED BY <1>4, <1>7, CoreKept
<1> QED BY <1>4, <1>6, <1>8

\* What is retained is kept.
LEMMA RetainedKept ==
  ASSUME NEW s, Kept(s), NEW i \in RunIds, ~R!IsCompound(i), ~s.paused, EpochOf[i] = s.epoch,
         NEW st \in R!RunStates \ {"none"}, NEW X \in SUBSET {j \in s.ids : s.state[j] = "done"},
         NEW t, Retained(s, t, i, st, X)
  PROVE  /\ Kept(t) /\ Goes(s, t) /\ i \in t.ids /\ t.state[i] = st /\ t.compound = s.compound
         /\ \A j \in RunIds \ {i} : t.state[j] = "done" => s.state[j] = "done"
<1>1. /\ t.compound = s.compound /\ t.owned = s.owned /\ t.stopping = s.stopping
      /\ t.restarting = s.restarting /\ t.pstopping = s.pstopping /\ t.paused = s.paused
      /\ t.epoch = s.epoch /\ Shape(t) /\ Retention(t) /\ i \notin X
      /\ t.ids = (s.ids \cup {i}) \ X /\ t.active = IF s.active \in X THEN i ELSE s.active
  BY DEF Retained, Aside
<1>2. t.state = [j \in RunIds |-> IF j \in X THEN "none" ELSE IF j = i THEN st ELSE s.state[j]]
  BY DEF Retained
<1>3. PICK n \in {i, s.latest[ProfileOf[i]]} : t.latest = [s.latest EXCEPT ![ProfileOf[i]] = n]
  BY DEF Retained
<1>4. ProfileOf[i] \in RunProfiles \ RunCompounds
  BY RunOf DEF R!IsCompound
<1>5. Typed(t)
  <2>1. t.state \in [RunIds -> R!RunStates] /\ t.ids = {j \in RunIds : t.state[j] # "none"}
    BY <1>1, <1>2 DEF Kept, Typed, R!RunStates
  <2>2. t.latest \in [RunProfiles -> RunIds \cup {NoRunId}]
        /\ \A p \in RunProfiles : t.latest[p] # NoRunId => ProfileOf[t.latest[p]] = p
    BY <1>3, <1>4 DEF Kept, Typed
  <2> QED BY <1>1, <2>1, <2>2 DEF Kept, Typed
<1>6. CompoundsKept(t)
  <2>1. \A c \in RunCompounds : t.latest[c] = s.latest[c]
    BY <1>3, <1>4, RunOf DEF Kept, Typed
  <2> QED BY <1>1, <2>1, RecordsStay DEF Kept
<1>7. Current(t) /\ ActiveKept(t)
  BY <1>1 DEF Kept, Current, ActiveKept
<1>8. Goes(s, t)
  BY <1>1, <1>2 DEF Goes, R!Live, R!RunStates
<1> QED BY <1>1, <1>2, <1>5, <1>6, <1>7, <1>8 DEF Kept

\* What a status does, of an ordinary run and of a compound.
Fresh(m, i) == /\ m.run = i /\ m.state = "running" /\ m.tail = NoRunId
               /\ m.steps = [k \in RunSteps |-> "none"]
HandledOrdinary(s, t, i, new) ==
  /\ t.compound = s.compound
  /\ \A j \in RunIds : t.state[j] = "done"
       => s.state[j] = "done" \/ (j = i /\ new = "done" /\ s.state[i] \in R!Live)
HandledCompound(s, t, i, new) ==
  /\ t.state = s.state
  /\ \A c \in RunCompounds \ {ProfileOf[i]} : t.compound[c] = s.compound[c]
  /\ LET m == s.compound[ProfileOf[i]]
         n == t.compound[ProfileOf[i]]
     IN \/ n = m
        \/ new = "running" /\ m.run # i /\ Fresh(n, i)
        \/ new = "done" /\ m.run = i /\ m.state = "running" /\ n = [m EXCEPT !.state = "done"]

LEMMA OrdinaryKeeps ==
  ASSUME NEW s, Kept(s), NEW i \in RunIds, ~R!IsCompound(i), NEW new \in {"running", "done"},
         R!AcceptsRunEvent(s, i), R!AcceptsOrdinary(s, i, new)
  PROVE  LET t == R!OrdinaryStatus(s, i, new) IN
         Kept(t) /\ Goes(s, t) /\ HandledOrdinary(s, t, i, new)
<1> DEFINE f == R!FlagsAfter(s, i, new)
           kept == R!RetainRunOutput(f, i, new)
           t == R!OrdinaryStatus(s, i, new)
<1>1. Kept(f) /\ Core(f) = Core(s) /\ f.active = s.active /\ Goes(s, f)
  BY FlagsKept
<1>2. f.state = s.state /\ f.paused = s.paused /\ f.epoch = s.epoch /\ f.compound = s.compound /\ f.ids = s.ids
  BY <1>1 DEF Core
<1>3. f.state[i] = "none" => /\ new \in R!Live
                             /\ Cardinality(R!LiveOf(f, ProfileOf[i])) < MaxRetained
  <2>1. R!LiveOf(f, ProfileOf[i]) = R!LiveOf(s, ProfileOf[i])
    BY <1>2 DEF R!LiveOf
  <2> QED BY <1>2, <2>1, Counts DEF R!AcceptsOrdinary, R!Live
<1>4. new \in R!RunStates \ {"none"}
  BY DEF R!RunStates, R!Live
<1>5. PICK X \in SUBSET {j \in f.ids : f.state[j] = "done"} : Retained(f, kept, i, new, X)
  <2>1. Typed(f) /\ Retention(f)
    BY <1>1 DEF Kept
  <2> QED BY <1>3, <1>4, <2>1, Retains
<1>6. ~f.paused /\ EpochOf[i] = f.epoch
  BY <1>2 DEF R!AcceptsRunEvent
<1>7. /\ Kept(kept) /\ Goes(f, kept) /\ i \in kept.ids /\ kept.state[i] = new /\ kept.compound = f.compound
      /\ \A j \in RunIds \ {i} : kept.state[j] = "done" => f.state[j] = "done"
  <2> HIDE DEF f, kept
  <2> QED BY <1>1, <1>4, <1>5, <1>6, RetainedKept
<1>8. \E a, b : t = [kept EXCEPT !.tail = a, !.active = b] /\ b \in {i, kept.active}
  BY DEF R!OrdinaryStatus
<1> HIDE DEF f, kept, t
<1>9. Shape(t) /\ Core(t) = Core(kept) /\ t.active \in {i, kept.active}
      /\ t.stopping = kept.stopping /\ t.restarting = kept.restarting /\ t.pstopping = kept.pstopping
  <2>1. Shape(kept)
    BY <1>7 DEF Kept, Typed
  <2> QED BY <1>8, <2>1 DEF Shape, Fields, Core
<1>10. t.state = kept.state /\ t.ids = kept.ids /\ t.owned = kept.owned /\ t.paused = kept.paused
       /\ t.compound = kept.compound
  BY <1>9 DEF Core
<1>11. Kept(t)
  <2>1. ActiveKept(t)
    BY <1>7, <1>9, <1>10 DEF Kept, ActiveKept
  <2> QED BY <1>7, <1>9, <2>1, CoreKept
<1>12. Goes(s, t)
  BY <1>1, <1>2, <1>7, <1>9, <1>10 DEF Goes
<1>13. HandledOrdinary(s, t, i, new)
  <2>1. new = "done" => s.state[i] \in R!Live \/ s.state[i] = "done"
    BY DEF R!AcceptsOrdinary, R!Live, Kept, Typed, R!RunStates
  <2> QED BY <1>2, <1>7, <1>10, <2>1 DEF HandledOrdinary
<1> QED BY <1>11, <1>12, <1>13 DEF t

LEMMA AggregateKeeps ==
  ASSUME NEW s, Kept(s), NEW i \in RunIds, R!IsCompound(i), NEW new \in {"running", "done"},
         R!AcceptsRunEvent(s, i), R!AcceptsAggregate(s, i, new)
  PROVE  LET t == R!AggregateStatus(s, i, new) IN
         Kept(t) /\ Goes(s, t) /\ HandledCompound(s, t, i, new)
<1> DEFINE p == ProfileOf[i]
           m == s.compound[p]
           prev == s.latest[p]
           f == R!FlagsAfter(s, i, new)
           t == R!AggregateStatus(s, i, new)
<1>1. Kept(f) /\ Core(f) = Core(s) /\ f.active = s.active /\ Shape(f) /\ Goes(s, f)
  BY FlagsKept
<1>2. /\ f.state = s.state /\ f.ids = s.ids /\ f.latest = s.latest /\ f.compound = s.compound
      /\ f.owned = s.owned /\ f.paused = s.paused /\ f.epoch = s.epoch
  BY <1>1 DEF Core
<1>3. /\ p \in RunCompounds /\ p \in RunProfiles /\ m \in Records /\ RecordKept(s, p, m)
      /\ prev \in RunIds \cup {NoRunId} /\ (prev # NoRunId => ProfileOf[prev] = p)
  BY RunOf DEF R!IsCompound, Kept, Typed, CompoundsKept
<1>4. ~s.paused /\ EpochOf[i] = s.epoch /\ i # NoRunId
  BY RunOf DEF R!AcceptsRunEvent
<1>5. CASE new = "running"
  <2>1. i \notin s.owned /\ m.run # i
    BY <1>3, <1>4, <1>5 DEF R!AcceptsAggregate, RecordKept
  <2>2. \E k, b : /\ t = [f EXCEPT !.known = k, !.latest[p] = i,
                                   !.owned = (@ \ (IF prev \notin {NoRunId, i} THEN {prev} ELSE {})) \cup {i},
                                   !.compound[p] = R!FreshCompound(s, i), !.active = b]
                  /\ b = IF R!Selects(s, i) \/ (prev \notin {NoRunId, i} /\ f.active = prev) THEN i ELSE f.active
    BY <1>5, <2>1 DEF R!AggregateStatus
  <2>3. R!FreshCompound(s, i) \in Records /\ Fresh(R!FreshCompound(s, i), i)
    BY DEF R!FreshCompound, R!NoCompound, Records, Phases, Fresh
  <2> DEFINE n == R!FreshCompound(s, i)
  <2> HIDE DEF f, t, n
  <2>4. /\ Shape(t) /\ t.state = s.state /\ t.ids = s.ids /\ t.paused = s.paused /\ t.epoch = s.epoch
        /\ t.stopping = f.stopping /\ t.restarting = f.restarting /\ t.pstopping = f.pstopping
        /\ t.latest = [s.latest EXCEPT ![p] = i] /\ t.compound = [s.compound EXCEPT ![p] = n]
        /\ t.owned = (s.owned \ (IF prev \notin {NoRunId, i} THEN {prev} ELSE {})) \cup {i}
        /\ t.active = IF R!Selects(s, i) \/ (prev \notin {NoRunId, i} /\ s.active = prev) THEN i ELSE s.active
    BY <1>1, <1>2, <2>2 DEF Shape, Fields, n
  <2>5. Done(n) = {}
    BY <2>3 DEF Fresh, Done, n
  <2>6. Typed(t)
    BY <1>3, <2>3, <2>4 DEF Kept, Typed, n
  <2>7. Retention(t)
    BY <2>4 DEF Kept, Retention, Of
  <2>8. CompoundsKept(t)
    <3> SUFFICES ASSUME NEW c \in RunCompounds PROVE RecordKept(t, c, t.compound[c])
      BY DEF CompoundsKept
    <3>1. CASE c = p
      <4>1. t.compound[c] = n /\ t.latest[c] = i /\ i \in t.owned
        BY <1>3, <2>4, <3>1, RunOf DEF Kept, Typed
      <4> QED BY <1>4, <2>3, <2>5, <3>1, <4>1 DEF RecordKept, Fresh, n
    <3>2. CASE c # p
      <4>1. t.compound[c] = s.compound[c] /\ t.latest[c] = s.latest[c]
        BY <1>3, <2>4, <3>2, RunOf DEF Kept, Typed
      <4>2. RecordKept(s, c, s.compound[c])
        BY DEF Kept, CompoundsKept
      <4> QED BY <1>3, <2>4, <3>2, <4>1, <4>2 DEF RecordKept
    <3> QED BY <3>1, <3>2
  <2>9. Current(t) /\ ActiveKept(t)
    BY <1>4, <2>4 DEF Kept, Current, ActiveKept
  <2>10. Goes(s, t)
    BY <1>1, <1>2, <2>4 DEF Goes
  <2>11. HandledCompound(s, t, i, new)
    BY <1>3, <1>5, <2>1, <2>3, <2>4 DEF HandledCompound, Kept, Typed, n
  <2> QED BY <2>6, <2>7, <2>8, <2>9, <2>10, <2>11 DEF Kept, t
<1>6. CASE new = "done"
  <2>1. prev = i /\ i \in s.owned /\ m.run = i /\ m.state = "running"
    BY <1>6 DEF R!AcceptsAggregate
  <2>2. \E k : t = [f EXCEPT !.known = k, !.latest[p] = i, !.owned = @,
                             !.compound[p] = [@ EXCEPT !.state = "done"], !.active = @]
    BY <1>6, <2>1 DEF R!AggregateStatus
  <2> HIDE DEF f, t
  <2>3. /\ Shape(t) /\ t.state = s.state /\ t.ids = s.ids /\ t.paused = s.paused /\ t.epoch = s.epoch
        /\ t.stopping = f.stopping /\ t.restarting = f.restarting /\ t.pstopping = f.pstopping
        /\ t.latest = [s.latest EXCEPT ![p] = i] /\ t.owned = s.owned /\ t.active = s.active
        /\ t.compound = [s.compound EXCEPT ![p] = [m EXCEPT !.state = "done"]]
    BY <1>1, <1>2, <2>2 DEF Shape, Fields
  <2>4. [m EXCEPT !.state = "done"] \in Records /\ Done([m EXCEPT !.state = "done"]) = Done(m)
    BY <1>3 DEF Records, Phases, Done
  <2>5. Typed(t)
    BY <1>3, <2>3, <2>4 DEF Kept, Typed
  <2>6. Retention(t)
    BY <2>3 DEF Kept, Retention, Of
  <2>7. CompoundsKept(t)
    <3> SUFFICES ASSUME NEW c \in RunCompounds PROVE RecordKept(t, c, t.compound[c])
      BY DEF CompoundsKept
    <3>1. t.latest[c] = s.latest[c] /\ t.compound[c] = IF c = p THEN [m EXCEPT !.state = "done"] ELSE s.compound[c]
      BY <1>3, <2>1, <2>3, RunOf DEF Kept, Typed
    <3>2. RecordKept(s, c, s.compound[c])
      BY DEF Kept, CompoundsKept
    <3>3. [m EXCEPT !.state = "done"].run = m.run /\ [m EXCEPT !.state = "done"].tail = m.tail
          /\ [m EXCEPT !.state = "done"].state = "done"
      BY <1>3 DEF Records
    <3>4. CASE c = p
      BY <1>4, <2>1, <2>3, <2>4, <3>1, <3>2, <3>3, <3>4 DEF RecordKept
    <3>5. CASE c # p
      BY <2>3, <3>1, <3>2, <3>5 DEF RecordKept
    <3> QED BY <3>4, <3>5
  <2>8. Current(t) /\ ActiveKept(t)
    BY <2>3 DEF Kept, Current, ActiveKept
  <2>9. Goes(s, t)
    BY <1>1, <1>2, <2>3 DEF Goes
  <2>10. HandledCompound(s, t, i, new)
    BY <1>3, <1>6, <2>1, <2>3 DEF HandledCompound, Kept, Typed
  <2> QED BY <2>5, <2>6, <2>7, <2>8, <2>9, <2>10 DEF Kept, t
<1> QED BY <1>5, <1>6

Handled(s, t, i, new) ==
  IF R!IsCompound(i) THEN HandledCompound(s, t, i, new) ELSE HandledOrdinary(s, t, i, new)

LEMMA StatusKeeps ==
  ASSUME NEW s, Kept(s), NEW i \in RunIds, NEW new \in {"running", "done"}
  PROVE  LET t == R!HandleRunStatus(s, i, new) IN Kept(t) /\ Goes(s, t) /\ Handled(s, t, i, new)
<1>1. Goes(s, s) /\ Handled(s, s, i, new)
  BY DEF Goes, R!Live, Handled, HandledCompound, HandledOrdinary
<1> QED BY <1>1, OrdinaryKeeps, AggregateKeeps DEF R!HandleRunStatus, Handled

StepsOf(new) == IF new = "done" THEN RunSteps ELSE {}

\* The snapshot of a compound is of the run it shows, and ends the steps of one that has ended.
LEMMA SnapshotKeeps ==
  ASSUME NEW s, Kept(s), NEW i \in RunIds, R!IsCompound(i), NEW new \in {"running", "done"},
         s.compound[ProfileOf[i]].run = i, s.compound[ProfileOf[i]].state = new
  PROVE  LET t == R!HandleCompoundRun(s, i, new)
             n == t.compound[ProfileOf[i]]
         IN /\ Kept(t) /\ Goes(s, t) /\ t.state = s.state
            /\ \A c \in RunCompounds \ {ProfileOf[i]} : t.compound[c] = s.compound[c]
            /\ n.run = i /\ n.state = new /\ Done(n) = StepsOf(new)
<1> DEFINE c == ProfileOf[i]
           m == s.compound[c]
           t == R!HandleCompoundRun(s, i, new)
<1>1. c \in RunCompounds /\ c \in RunProfiles /\ m \in Records /\ RecordKept(s, c, m) /\ Shape(s)
  BY RunOf DEF R!IsCompound, Kept, Typed, CompoundsKept
<1>2. PICK tail \in {NoRunId, m.tail}, b \in {i, s.active} :
        t = [s EXCEPT !.compound[c].steps = [k \in RunSteps |-> new], !.compound[c].tail = tail, !.active = b]
  BY DEF R!HandleCompoundRun
<1> DEFINE n == [m EXCEPT !.steps = [k \in RunSteps |-> new], !.tail = tail]
<1>3. n \in Records /\ n.run = i /\ n.state = new /\ n.tail = tail /\ n.steps = [k \in RunSteps |-> new]
  BY <1>1 DEF Records, Phases
<1>4. Done(n) = IF new = "done" THEN RunSteps ELSE {}
  BY <1>3 DEF Done
<1>12. Done(n) = StepsOf(new)
  BY <1>4 DEF StepsOf
<1> HIDE DEF t, n
<1>5. /\ Shape(t) /\ t.state = s.state /\ t.ids = s.ids /\ t.latest = s.latest /\ t.owned = s.owned
      /\ t.paused = s.paused /\ t.epoch = s.epoch /\ t.stopping = s.stopping
      /\ t.restarting = s.restarting /\ t.pstopping = s.pstopping /\ t.active = b
      /\ t.compound = [s.compound EXCEPT ![c] = n]
  BY <1>1, <1>2 DEF Shape, Fields, n, Kept, Typed
<1>6. Typed(t)
  <2>1. t.compound \in [RunCompounds -> Records]
    BY <1>1, <1>3, <1>5 DEF Kept, Typed
  <2> QED BY <1>5, <2>1 DEF Kept, Typed
<1>7. Retention(t)
  BY <1>5 DEF Kept, Retention, Of
<1>8. i \in s.owned /\ i # NoRunId
  BY <1>1, RunOf DEF RecordKept
<1>9. CompoundsKept(t)
  <2> SUFFICES ASSUME NEW d \in RunCompounds PROVE RecordKept(t, d, t.compound[d])
    BY DEF CompoundsKept
  <2>1. t.compound[d] = IF d = c THEN n ELSE s.compound[d]
    BY <1>5 DEF Kept, Typed
  <2>2. RecordKept(s, d, s.compound[d])
    BY DEF Kept, CompoundsKept
  <2> QED BY <1>1, <1>3, <1>4, <1>5, <1>8, <2>1, <2>2 DEF RecordKept
<1>10. Current(t) /\ ActiveKept(t)
  BY <1>5, <1>8 DEF Kept, Current, ActiveKept
<1>11. Goes(s, t)
  BY <1>5 DEF Goes, R!Live
<1> QED BY <1>1, <1>3, <1>5, <1>6, <1>7, <1>9, <1>10, <1>11, <1>12 DEF Kept, Typed, t

\* What changes no run that is shown as ended, and leaves the records of the compounds or drops them.
SameRecord(m, n) == n.run = m.run /\ n.state = m.state /\ Done(n) = Done(m)
Settled(s, t) ==
  /\ \A j \in RunIds : t.state[j] = "done" => s.state[j] = "done"
  /\ \A c \in RunCompounds : \/ t.compound[c].run = NoRunId
                             \/ SameRecord(s.compound[c], t.compound[c]) /\ (s.paused => t.paused)

\* Output of a step of a compound is half a line of its record.
LEMMA StepOutputKeeps ==
  ASSUME NEW s, Kept(s), NEW i \in RunIds, R!IsCompound(i)
  PROVE  LET t == R!AppendStepOutput(s, i) IN Kept(t) /\ Goes(s, t) /\ Settled(s, t)
<1> DEFINE c == ProfileOf[i]
           m == s.compound[c]
           t == R!AppendStepOutput(s, i)
<1>1. Goes(s, s) /\ Settled(s, s)
  BY DEF Goes, R!Live, Settled, SameRecord
<1>2. CASE i \in s.owned /\ m.run = i /\ t = [s EXCEPT !.compound[c].tail = i]
  <2>1. c \in RunCompounds /\ m \in Records /\ Shape(s)
    BY RunOf DEF R!IsCompound, Kept, Typed
  <2> DEFINE n == [m EXCEPT !.tail = i]
  <2>2. n \in Records /\ n.run = m.run /\ n.state = m.state /\ Done(n) = Done(m) /\ n.tail = i
    BY <2>1 DEF Records, Done
  <2>3. t = [s EXCEPT !.compound = [@ EXCEPT ![c] = n]]
    BY <1>2
  <2> HIDE DEF t, n
  <2>4. /\ Shape(t) /\ t.state = s.state /\ t.ids = s.ids /\ t.latest = s.latest /\ t.owned = s.owned
        /\ t.paused = s.paused /\ t.epoch = s.epoch /\ t.stopping = s.stopping
        /\ t.restarting = s.restarting /\ t.pstopping = s.pstopping /\ t.active = s.active
        /\ t.compound = [s.compound EXCEPT ![c] = n]
    BY <2>1, <2>3 DEF Shape, Fields
  <2>5. Typed(t)
    <3>1. t.compound \in [RunCompounds -> Records]
      BY <2>1, <2>2, <2>4 DEF Kept, Typed
    <3> QED BY <2>4, <3>1 DEF Kept, Typed
  <2>6. Retention(t) /\ Current(t) /\ ActiveKept(t)
    BY <2>4 DEF Kept, Retention, Of, Current, ActiveKept
  <2>7. \A d \in RunCompounds : t.compound[d] = IF d = c THEN n ELSE s.compound[d]
    BY <2>4 DEF Kept, Typed
  <2>8. CompoundsKept(t)
    <3> SUFFICES ASSUME NEW d \in RunCompounds PROVE RecordKept(t, d, t.compound[d])
      BY DEF CompoundsKept
    <3>1. RecordKept(s, d, s.compound[d])
      BY DEF Kept, CompoundsKept
    <3> QED BY <1>2, <2>2, <2>4, <2>7, <3>1 DEF RecordKept
  <2>9. Goes(s, t)
    BY <2>4 DEF Goes, R!Live
  <2>10. Settled(s, t)
    BY <2>2, <2>4, <2>7 DEF Settled, SameRecord
  <2>11. Kept(t)
    BY <2>5, <2>6, <2>8 DEF Kept
  <2> QED BY <2>9, <2>10, <2>11 DEF t
<1>3. CASE t = s
  BY <1>1, <1>3
<1> QED BY <1>2, <1>3 DEF R!AppendStepOutput

\* Output of a run may provision it, as idle.
LEMMA RunOutputKeeps ==
  ASSUME NEW s, Kept(s), NEW i \in RunIds, ~R!IsCompound(i)
  PROVE  LET t == R!AppendRunOutput(s, i) IN Kept(t) /\ Goes(s, t) /\ Settled(s, t)
<1> DEFINE t == R!AppendRunOutput(s, i)
           r == IF s.state[i] = "none" THEN R!RetainRunOutput(s, i, "idle") ELSE s
<1>1. Goes(s, s) /\ Settled(s, s)
  BY DEF Goes, R!Live, Settled, SameRecord
<1>2. CASE /\ R!AcceptsRunEvent(s, i) /\ t = [r EXCEPT !.tail = @ \cup ({i} \cap r.ids)]
           /\ s.state[i] = "none" => R!Cardinality(R!LiveOf(s, ProfileOf[i])) < MaxRetained
  <2>1. ~s.paused /\ EpochOf[i] = s.epoch
    BY <1>2 DEF R!AcceptsRunEvent
  <2>2. Kept(r) /\ Goes(s, r) /\ Settled(s, r)
    <3>1. CASE s.state[i] = "none"
      <4>1. "idle" \in R!RunStates \ {"none"} /\ "idle" \in R!Live
        BY DEF R!RunStates, R!Live
      <4>2. Typed(s) /\ Retention(s) /\ Cardinality(R!LiveOf(s, ProfileOf[i])) < MaxRetained
        BY <1>2, <3>1, Counts DEF Kept
      <4>3. PICK X \in SUBSET {j \in s.ids : s.state[j] = "done"} :
              Retained(s, R!RetainRunOutput(s, i, "idle"), i, "idle", X)
        BY <4>1, <4>2, Retains
      <4>4. r = R!RetainRunOutput(s, i, "idle")
        BY <3>1
      <4> HIDE DEF r
      <4>5. /\ Kept(r) /\ Goes(s, r) /\ r.state[i] = "idle" /\ r.compound = s.compound
            /\ \A j \in RunIds \ {i} : r.state[j] = "done" => s.state[j] = "done"
        <5>1. Retained(s, r, i, "idle", X)
          BY <4>3, <4>4
        <5>2. "idle" \in R!RunStates \ {"none"} /\ ~s.paused /\ EpochOf[i] = s.epoch
          BY <2>1, <4>1
        <5> QED BY <5>1, <5>2, RetainedKept, SMTT(30)
      <4>6. \A j \in RunIds : r.state[j] = "done" => s.state[j] = "done"
        BY <4>5
      <4>7. \A c \in RunCompounds : SameRecord(s.compound[c], r.compound[c])
        BY <4>5 DEF SameRecord
      <4>8. r.paused = s.paused
        BY <4>5 DEF Goes
      <4> QED BY <4>5, <4>6, <4>7, <4>8 DEF Settled
    <3>2. CASE s.state[i] # "none"
      BY <1>1, <3>2
    <3> QED BY <3>1, <3>2
  <2>3. \E a : t = [r EXCEPT !.tail = a]
    BY <1>2
  <2> HIDE DEF r, t
  <2>4. Shape(r)
    BY <2>2 DEF Kept, Typed
  <2>5. /\ Shape(t) /\ Core(t) = Core(r) /\ t.active = r.active /\ t.stopping = r.stopping
        /\ t.restarting = r.restarting /\ t.pstopping = r.pstopping
    BY <2>3, <2>4 DEF Shape, Fields, Core
  <2>6. /\ t.state = r.state /\ t.ids = r.ids /\ t.owned = r.owned /\ t.compound = r.compound
        /\ t.paused = r.paused
    BY <2>5 DEF Core
  <2>7. ActiveKept(t)
    BY <2>2, <2>5, <2>6 DEF Kept, ActiveKept
  <2>8. Kept(t)
    BY <2>2, <2>5, <2>7, CoreKept
  <2>9. Goes(s, t) /\ Settled(s, t)
    BY <2>2, <2>5, <2>6 DEF Goes, Settled
  <2> QED BY <2>8, <2>9 DEF t
<1>3. CASE t = s
  BY <1>1, <1>3
<1> QED BY <1>2, <1>3 DEF R!AppendRunOutput

\* A workspace that is replaced shows no run.
LEMMA EmptyKeeps ==
  ASSUME NEW s, Shape(s), s.paused \in BOOLEAN
  PROVE  LET t == R!EmptyRuns(s) IN
         /\ Kept(t) /\ t.paused = s.paused /\ t.ids = {} /\ t.owned = {}
         /\ t.stopping = {} /\ t.restarting = {} /\ t.pstopping = {}
         /\ \A j \in RunIds : t.state[j] = "none"
         /\ \A c \in RunCompounds : t.compound[c].run = NoRunId
<1> DEFINE t == R!EmptyRuns(s)
<1>1. /\ Shape(t) /\ t.state = [i \in RunIds |-> "none"] /\ t.ids = {} /\ t.owned = {}
      /\ t.latest = [p \in RunProfiles |-> NoRunId] /\ t.active = NoRunId /\ t.paused = s.paused
      /\ t.compound = [c \in RunCompounds |-> R!NoCompound]
      /\ t.stopping = {} /\ t.restarting = {} /\ t.pstopping = {}
  BY DEF R!EmptyRuns, Shape, Fields
<1> HIDE DEF t
<1>2. R!NoCompound \in Records /\ R!NoCompound.run = NoRunId /\ R!NoCompound.state = "none"
      /\ R!NoCompound.tail = NoRunId /\ Done(R!NoCompound) = {}
  BY DEF R!NoCompound, Records, Phases, Done
<1>3. Typed(t)
  BY <1>1, <1>2 DEF Typed, R!RunStates
<1>4. Retention(t)
  <2>1. \A p : Of(t, p) = {}
    BY <1>1 DEF Of
  <2>2. IsFiniteSet({}) /\ Cardinality({}) = 0 /\ MaxRetained \in Nat
    BY RunOf, FS_EmptySet
  <2> QED BY <2>1, <2>2 DEF Retention
<1>5. CompoundsKept(t)
  <2>1. ASSUME NEW c \in RunCompounds PROVE RecordKept(t, c, t.compound[c])
    <3>1. t.compound[c] = R!NoCompound
      BY <1>1
    <3> QED BY <1>2, <3>1 DEF RecordKept
  <2> QED BY <2>1 DEF CompoundsKept
<1>6. Current(t) /\ ActiveKept(t)
  BY <1>1 DEF Current, ActiveKept
<1>7. Kept(t)
  BY <1>3, <1>4, <1>5, <1>6 DEF Kept
<1> QED BY <1>1, <1>2, <1>7 DEF t

-----------------------------------------------------------------------------
(* Gestures.                                                                *)

\* Clearing half lines keeps the records of the compounds.
LEMMA TailsClear ==
  ASSUME NEW s, Kept(s), NEW C
  PROVE  LET t == R!ClearedCompounds(s, C) IN Kept(t) /\ Goes(s, t) /\ Settled(s, t)
<1> DEFINE t == R!ClearedCompounds(s, C)
<1>1. Shape(s) /\ s.compound \in [RunCompounds -> Records]
  BY DEF Kept, Typed
<1>2. /\ Shape(t) /\ t.state = s.state /\ t.ids = s.ids /\ t.latest = s.latest /\ t.owned = s.owned
      /\ t.paused = s.paused /\ t.epoch = s.epoch /\ t.stopping = s.stopping
      /\ t.restarting = s.restarting /\ t.pstopping = s.pstopping /\ t.active = s.active
      /\ t.compound = [c \in RunCompounds |-> IF c \in C THEN [s.compound[c] EXCEPT !.tail = NoRunId]
                                                         ELSE s.compound[c]]
  BY <1>1 DEF R!ClearedCompounds, Shape, Fields
<1> HIDE DEF t
<1>3. ASSUME NEW c \in RunCompounds
      PROVE  /\ t.compound[c] \in Records /\ SameRecord(s.compound[c], t.compound[c])
             /\ t.compound[c].tail \in {NoRunId, s.compound[c].tail}
  <2> DEFINE m == s.compound[c]
             n == t.compound[c]
  <2>1. m \in Records /\ n \in {m, [m EXCEPT !.tail = NoRunId]}
    BY <1>1, <1>2
  <2> HIDE DEF m, n
  <2>2. n \in Records /\ n.run = m.run /\ n.state = m.state /\ n.steps = m.steps /\ n.tail \in {NoRunId, m.tail}
    BY <2>1 DEF Records
  <2> QED BY <2>2 DEF SameRecord, Done, m, n
<1>4. Typed(t)
  BY <1>2, <1>3 DEF Kept, Typed
<1>5. CompoundsKept(t)
  <2> SUFFICES ASSUME NEW c \in RunCompounds PROVE RecordKept(t, c, t.compound[c])
    BY DEF CompoundsKept
  <2>1. RecordKept(s, c, s.compound[c])
    BY DEF Kept, CompoundsKept
  <2> QED BY <1>2, <1>3, <2>1 DEF RecordKept, SameRecord
<1>6. Retention(t) /\ Current(t) /\ ActiveKept(t)
  BY <1>2 DEF Kept, Retention, Of, Current, ActiveKept
<1>7. Goes(s, t) /\ Settled(s, t)
  BY <1>2, <1>3 DEF Goes, R!Live, Settled
<1>8. Kept(t)
  BY <1>4, <1>5, <1>6 DEF Kept
<1> QED BY <1>7, <1>8 DEF t

\* Where the selection goes exists.
LEMMA NextActiveExists ==
  ASSUME NEW s, Kept(s), NEW i \in RunIds, NEW n \in R!NextActive(s, i)
  PROVE  n \in {NoRunId} \cup (s.ids \ {i}) \cup s.owned
<1> DEFINE siblings == {j \in s.ids \ {i} : ProfileOf[j] = ProfileOf[i]}
           others == {j \in s.ids \ {i} : s.state[j] # "none"}
           aggregates == {s.compound[c].run : c \in {d \in RunCompounds : s.compound[d].run # NoRunId}}
<1>1. n \in IF siblings # {} THEN {R!Newest(siblings)}
            ELSE IF others # {} THEN others ELSE IF aggregates # {} THEN aggregates ELSE {NoRunId}
  BY DEF R!NextActive
<1>2. siblings # {} => R!Newest(siblings) \in siblings
  <2>1. siblings \subseteq Of(s, ProfileOf[i]) /\ siblings \subseteq RunIds
    BY DEF Of, Kept, Typed
  <2>2. IsFiniteSet(siblings)
    BY <2>1, RunOf, FS_Subset DEF Kept, Retention
  <2> QED BY <2>1, <2>2, Ends
<1>3. aggregates \subseteq s.owned
  BY DEF Kept, CompoundsKept, RecordKept
<1> QED BY <1>1, <1>2, <1>3

\* An output that is taken away is one of a run that has ended.
LEMMA OutputGoes ==
  ASSUME NEW s, Kept(s), NEW i \in RunIds, s.state[i] = "done", NEW t,
         Shape(t), t.state = [s.state EXCEPT ![i] = "none"], t.ids = s.ids \ {i}, Aside(t) = [Aside(s)
           EXCEPT ![3] = s.stopping \ {i}, ![4] = s.restarting \ {i}],
         t.latest = s.latest, t.active \in {NoRunId, AllRuns} \cup t.ids \cup s.owned
  PROVE  Kept(t) /\ Goes(s, t) /\ Settled(s, t)
<1>1. /\ t.compound = s.compound /\ t.owned = s.owned /\ t.stopping = s.stopping \ {i}
      /\ t.restarting = s.restarting \ {i} /\ t.pstopping = s.pstopping /\ t.paused = s.paused
      /\ t.epoch = s.epoch
  BY DEF Aside
<1>2. Typed(t)
  BY <1>1 DEF Kept, Typed, R!RunStates
<1>3. Retention(t)
  <2> SUFFICES ASSUME NEW q \in RunProfiles
               PROVE  IsFiniteSet(Of(t, q)) /\ Cardinality(Of(t, q)) <= MaxRetained
    BY DEF Retention
  <2>1. IsFiniteSet(Of(s, q)) /\ Cardinality(Of(s, q)) <= MaxRetained /\ Cardinality(Of(s, q)) \in Nat
    BY FS_CardinalityType DEF Kept, Retention
  <2>2. Of(t, q) \subseteq Of(s, q)
    BY DEF Of
  <2>3. IsFiniteSet(Of(t, q)) /\ Cardinality(Of(t, q)) <= Cardinality(Of(s, q)) /\ Cardinality(Of(t, q)) \in Nat
    BY <2>1, <2>2, FS_Subset, FS_CardinalityType
  <2> QED BY <2>1, <2>3, RunOf
<1>4. CompoundsKept(t)
  <2> SUFFICES ASSUME NEW c \in RunCompounds PROVE RecordKept(t, c, t.compound[c])
    BY DEF CompoundsKept
  <2>1. RecordKept(s, c, s.compound[c])
    BY DEF Kept, CompoundsKept
  <2> QED BY <1>1, <2>1 DEF RecordKept
<1>5. Current(t) /\ ActiveKept(t)
  BY <1>1 DEF Kept, Current, ActiveKept
<1>6. Goes(s, t) /\ Settled(s, t)
  BY <1>1 DEF Goes, R!Live, Settled, SameRecord, Kept, Typed
<1> QED BY <1>2, <1>3, <1>4, <1>5, <1>6 DEF Kept

LEMMA ClearRunKeeps ==
  ASSUME Kept(store), NEW i \in RunIds, R!ClearRunOutput(i)
  PROVE  Kept(store') /\ Goes(store, store') /\ Settled(store, store')
<1>1. CASE store' = R!ClearedCompounds(store, {ProfileOf[i]})
  BY <1>1, TailsClear
<1>2. CASE store' = [store EXCEPT !.tail = @ \ {i}]
  <2> DEFINE s == store
             t == store'
  <2>1. Shape(s)
    BY DEF Kept, Typed
  <2>2. /\ Shape(t) /\ Core(t) = Core(s) /\ t.active = s.active /\ t.stopping = s.stopping
        /\ t.restarting = s.restarting /\ t.pstopping = s.pstopping
    BY <1>2, <2>1 DEF Shape, Fields, Core
  <2>3. /\ t.state = s.state /\ t.ids = s.ids /\ t.owned = s.owned /\ t.paused = s.paused
        /\ t.compound = s.compound
    BY <2>2 DEF Core
  <2>4. ActiveKept(t)
    BY <2>2, <2>3 DEF Kept, ActiveKept
  <2>5. Kept(t)
    BY <2>2, <2>4, CoreKept
  <2> QED BY <2>2, <2>3, <2>5 DEF Goes, R!Live, Settled, SameRecord
<1>3. ASSUME store.state[i] = "done", i \notin store.owned, NEW next \in R!NextActive(store, i),
             store' = [R!Discard(store, ProfileOf[i], {i}) EXCEPT
                         !.state[i] = "none", !.tail = @ \ {i}, !.ids = @ \ {i},
                         !.known = @ \ {i},
                         !.active = IF @ = i THEN next ELSE @,
                         !.stopping = @ \ {i}, !.restarting = @ \ {i}]
      PROVE  Kept(store') /\ Goes(store, store') /\ Settled(store, store')
  <2> DEFINE s == store
             t == store'
             d == R!Discard(s, ProfileOf[i], {i})
  <2>1. Shape(s) /\ Shape(d) /\ Beside(d) = Beside(s)
    BY Discards DEF Kept, Typed
  <2>2. t = [d EXCEPT !.state[i] = "none", !.tail = @ \ {i}, !.ids = @ \ {i}, !.known = @ \ {i},
                      !.active = IF @ = i THEN next ELSE @, !.stopping = @ \ {i},
                      !.restarting = @ \ {i}]
    BY <1>3
  <2> HIDE DEF d, t
  <2>3. /\ Shape(t) /\ t.state = [s.state EXCEPT ![i] = "none"] /\ t.ids = s.ids \ {i}
        /\ t.latest = s.latest /\ t.active = (IF s.active = i THEN next ELSE s.active)
        /\ t.compound = s.compound /\ t.owned = s.owned /\ t.stopping = s.stopping \ {i}
        /\ t.restarting = s.restarting \ {i} /\ t.pstopping = s.pstopping
        /\ t.prestarting = s.prestarting /\ t.paused = s.paused /\ t.epoch = s.epoch
    BY <2>1, <2>2 DEF Shape, Fields, Beside
  <2>4. Aside(t) = [Aside(s) EXCEPT ![3] = s.stopping \ {i}, ![4] = s.restarting \ {i}]
    BY <2>3 DEF Aside
  <2>5. t.active \in {NoRunId, AllRuns} \cup t.ids \cup s.owned
    BY <1>3, <2>3, NextActiveExists DEF Kept, ActiveKept
  <2>6. Kept(t) /\ Goes(s, t) /\ Settled(s, t)
    BY <1>3, <2>3, <2>4, <2>5, OutputGoes
  <2> QED BY <2>6 DEF t
<1> QED BY <1>1, <1>2, <1>3 DEF R!ClearRunOutput

LEMMA ClearAllKeeps ==
  ASSUME Kept(store), R!ClearAllRunOutputs
  PROVE  Kept(store') /\ Goes(store, store') /\ Settled(store, store')
<1> DEFINE s == store
           t == store'
           live == {i \in s.ids : s.state[i] \in R!Live}
           kept == {c \in RunCompounds : s.compound[c].state = "running"}
           keptRuns == {s.compound[c].run : c \in kept}
           first == IF live # {} THEN live ELSE IF keptRuns # {} THEN keptRuns ELSE {NoRunId}
           new(c) == IF c \in kept THEN [s.compound[c] EXCEPT !.tail = NoRunId] ELSE R!NoCompound
<1>1. PICK next, k, a, b :
        /\ next \in first
        /\ t = [[s EXCEPT !.discarded = a, !.through = b] EXCEPT
                 !.state = [i \in RunIds |-> IF i \in live THEN @[i] ELSE "none"],
                 !.tail = {}, !.ids = live, !.known = k,
                 !.compound = [c \in RunCompounds |->
                    IF c \in kept THEN [@[c] EXCEPT !.tail = NoRunId] ELSE R!NoCompound],
                 !.owned = keptRuns,
                 !.active = IF @ \in live \cup keptRuns THEN @ ELSE next,
                 !.stopping = @ \cap live, !.restarting = @ \cap live]
  BY DEF R!ClearAllRunOutputs, R!DiscardAll
<1>2. Shape(s) /\ s.compound \in [RunCompounds -> Records] /\ s.state \in [RunIds -> R!RunStates]
      /\ live \subseteq s.ids /\ live \subseteq RunIds
  BY DEF Kept, Typed
<1>3. \A c \in RunCompounds : RecordKept(s, c, s.compound[c])
  BY DEF Kept, CompoundsKept
<1>4. keptRuns \subseteq s.owned /\ first \subseteq live \cup keptRuns \cup {NoRunId}
  BY <1>3 DEF RecordKept
<1> HIDE DEF t, live, kept, keptRuns, first
<1>5. /\ Shape(t) /\ t.state = [i \in RunIds |-> IF i \in live THEN s.state[i] ELSE "none"]
      /\ t.ids = live /\ t.latest = s.latest /\ t.owned = keptRuns
      /\ t.active = (IF s.active \in live \cup keptRuns THEN s.active ELSE next)
      /\ t.compound = [c \in RunCompounds |-> IF c \in kept THEN [s.compound[c] EXCEPT !.tail = NoRunId]
                                                            ELSE R!NoCompound]
      /\ t.stopping = s.stopping \cap live /\ t.restarting = s.restarting \cap live
      /\ t.pstopping = s.pstopping /\ t.paused = s.paused /\ t.epoch = s.epoch
  BY <1>1, <1>2 DEF Shape, Fields
<1>6. R!NoCompound \in Records /\ R!NoCompound.run = NoRunId /\ R!NoCompound.state = "none"
      /\ R!NoCompound.tail = NoRunId /\ Done(R!NoCompound) = {}
  BY DEF R!NoCompound, Records, Phases, Done
<1>7. ASSUME NEW c \in RunCompounds
      PROVE  /\ t.compound[c] \in Records
             /\ c \notin kept => t.compound[c] = R!NoCompound
             /\ c \in kept => /\ SameRecord(s.compound[c], t.compound[c])
                              /\ t.compound[c].tail = NoRunId /\ s.compound[c].run \in keptRuns
  <2> DEFINE m == s.compound[c]
             n == t.compound[c]
  <2>1. m \in Records /\ n = IF c \in kept THEN [m EXCEPT !.tail = NoRunId] ELSE R!NoCompound
    BY <1>2, <1>5
  <2>2. c \in kept => m.run \in keptRuns
    BY DEF keptRuns
  <2> HIDE DEF m, n
  <2>3. n \in Records
    BY <1>6, <2>1 DEF Records
  <2>4. c \in kept => n.run = m.run /\ n.state = m.state /\ n.steps = m.steps /\ n.tail = NoRunId
    BY <2>1 DEF Records
  <2>5. c \in kept => SameRecord(m, n)
    BY <2>4 DEF SameRecord, Done
  <2> QED BY <2>1, <2>2, <2>3, <2>4, <2>5 DEF m, n
<1>8. Typed(t)
  <2>1. t.state \in [RunIds -> R!RunStates] /\ t.ids = {i \in RunIds : t.state[i] # "none"}
    BY <1>2, <1>5 DEF R!RunStates, R!Live, live
  <2>2. t.compound \in [RunCompounds -> Records]
    BY <1>5, <1>7
  <2>3. t.owned \subseteq RunIds
    BY <1>4, <1>5 DEF Kept, Typed
  <2> QED BY <1>5, <2>1, <2>2, <2>3 DEF Kept, Typed
<1>9. Retention(t)
  <2> SUFFICES ASSUME NEW q \in RunProfiles
               PROVE  IsFiniteSet(Of(t, q)) /\ Cardinality(Of(t, q)) <= MaxRetained
    BY DEF Retention
  <2>1. IsFiniteSet(Of(s, q)) /\ Cardinality(Of(s, q)) <= MaxRetained /\ Cardinality(Of(s, q)) \in Nat
    BY FS_CardinalityType DEF Kept, Retention
  <2>2. Of(t, q) \subseteq Of(s, q)
    BY <1>2, <1>5 DEF Of
  <2>3. IsFiniteSet(Of(t, q)) /\ Cardinality(Of(t, q)) <= Cardinality(Of(s, q)) /\ Cardinality(Of(t, q)) \in Nat
    BY <2>1, <2>2, FS_Subset, FS_CardinalityType
  <2> QED BY <2>1, <2>3, RunOf
<1>10. CompoundsKept(t)
  <2> SUFFICES ASSUME NEW c \in RunCompounds PROVE RecordKept(t, c, t.compound[c])
    BY DEF CompoundsKept
  <2>1. CASE c \in kept
    <3>1. RecordKept(s, c, s.compound[c]) /\ SameRecord(s.compound[c], t.compound[c])
          /\ t.compound[c].tail = NoRunId /\ s.compound[c].run \in t.owned
      BY <1>3, <1>5, <1>7, <2>1
    <3> QED BY <1>5, <3>1 DEF RecordKept, SameRecord
  <2>2. CASE c \notin kept
    BY <1>6, <1>7, <2>2 DEF RecordKept
  <2> QED BY <2>1, <2>2
<1>11. Current(t) /\ ActiveKept(t)
  <2>1. next \in {NoRunId} \cup live \cup keptRuns
    BY <1>1, <1>4
  <2>2. ActiveKept(t)
    BY <1>5, <2>1 DEF ActiveKept
  <2>3. Current(t)
    BY <1>2, <1>4, <1>5 DEF Kept, Current
  <2> QED BY <2>2, <2>3
<1>12. Goes(s, t)
  <2>1. \A j \in RunIds : s.state[j] \in R!Live => j \in live
    BY DEF Kept, Typed, R!Live, live
  <2> QED BY <1>5, <2>1 DEF Goes, R!Live
<1>13. Settled(s, t)
  <2>1. \A j \in RunIds : t.state[j] = "done" => s.state[j] = "done"
    BY <1>5
  <2>2. \A c \in RunCompounds : t.compound[c].run = NoRunId \/ SameRecord(s.compound[c], t.compound[c])
    BY <1>6, <1>7
  <2> QED BY <1>5, <2>1, <2>2 DEF Settled
<1> QED BY <1>8, <1>9, <1>10, <1>11, <1>12, <1>13 DEF Kept, t

LEMMA SelectKeeps ==
  ASSUME Kept(store), NEW i, R!SetActiveRunOutput(i)
  PROVE  Kept(store') /\ Goes(store, store') /\ Settled(store, store')
<1> DEFINE s == store
           t == store'
<1>1. Shape(s) /\ t = [s EXCEPT !.active = i] /\ i \in {AllRuns} \cup s.ids \cup s.owned
  BY DEF Kept, Typed, R!SetActiveRunOutput
<1>2. /\ Shape(t) /\ Core(t) = Core(s) /\ t.active = i /\ t.stopping = s.stopping
      /\ t.restarting = s.restarting /\ t.pstopping = s.pstopping
  BY <1>1 DEF Shape, Fields, Core
<1>3. /\ t.state = s.state /\ t.ids = s.ids /\ t.owned = s.owned /\ t.paused = s.paused
      /\ t.compound = s.compound
  BY <1>2 DEF Core
<1>4. ActiveKept(t)
  BY <1>1, <1>2, <1>3 DEF ActiveKept
<1>5. Kept(t)
  BY <1>2, <1>4, CoreKept
<1> QED BY <1>2, <1>3, <1>5 DEF Goes, R!Live, Settled, SameRecord

\* A gesture that asks sets flags, its answer takes them: the outputs stay.
Flags(s, t) == Shape(t) /\ Core(t) = Core(s) /\ t.active = s.active

LEMMA FlagsOnly ==
  ASSUME NEW s, Kept(s), NEW t, Flags(s, t)
  PROVE  Kept(t) /\ Settled(s, t) /\ t.state = s.state
<1>1. /\ t.state = s.state /\ t.ids = s.ids /\ t.owned = s.owned /\ t.paused = s.paused
      /\ t.compound = s.compound
  BY DEF Flags, Core
<1>2. ActiveKept(t)
  BY <1>1 DEF Kept, ActiveKept, Flags
<1>3. Kept(t)
  BY <1>2, CoreKept DEF Flags
<1> QED BY <1>1, <1>3 DEF Settled, SameRecord

LEMMA AsksKeep ==
  ASSUME Kept(store), FlagsOf(store, calls), NEW p, NEW k, R!RunControl(p, k), k \in {"stop", "restart"}
  PROVE  Kept(store') /\ Settled(store, store') /\ store'.state = store.state /\ FlagsOf(store', calls')
<1> DEFINE s == store
           t == store'
           r == R!Request(p, R!Representative(s, p), k)
<1>1. Shape(s) /\ t = R!FlagsSet(s, r) /\ calls' = calls \cup {r} /\ r.profile = p /\ r.kind = k
  BY DEF Kept, Typed, R!RunControl, R!Request
<1> HIDE DEF r
<1>2. Flags(s, t)
  BY <1>1 DEF Flags, Shape, Fields, Core, R!FlagsSet
<1>3. /\ t.stopping \subseteq s.stopping \cup (IF k = "stop" THEN {r.run} ELSE {})
      /\ t.restarting \subseteq s.restarting \cup (IF k = "restart" THEN {r.run} ELSE {})
      /\ t.pstopping \subseteq s.pstopping \cup (IF k = "stop" THEN {p} ELSE {})
  BY <1>1 DEF Shape, Fields, R!FlagsSet
<1>4. FlagsOf(t, calls')
  BY <1>1, <1>3 DEF FlagsOf
<1> QED BY <1>2, <1>4, FlagsOnly

LEMMA AnswerKeeps ==
  ASSUME Kept(store), FlagsOf(store, calls), NEW r, R!ControlAnswered(r)
  PROVE  Kept(store') /\ Settled(store, store') /\ store'.state = store.state /\ FlagsOf(store', calls')
<1> DEFINE s == store
           t == store'
<1>1. Shape(s) /\ t = R!FlagsCleared(s, r) /\ calls' = calls \ {r}
  BY DEF Kept, Typed, R!ControlAnswered
<1>2. Flags(s, t)
  BY <1>1 DEF Flags, Shape, Fields, Core, R!FlagsCleared
<1>3. /\ t.stopping = s.stopping \ (IF r.kind = "stop" THEN {r.run} ELSE {})
      /\ t.restarting = s.restarting \ (IF r.kind = "stop" THEN {} ELSE {r.run})
      /\ t.pstopping = s.pstopping \ (IF r.kind = "stop" THEN {r.profile} ELSE {})
  BY <1>1 DEF Shape, Fields, R!FlagsCleared
<1>4. FlagsOf(t, calls')
  <2>1. \A i \in t.stopping : \E q \in calls \ {r} : q.run = i /\ q.kind = "stop"
    BY <1>3 DEF FlagsOf
  <2>2. \A q \in t.pstopping : \E x \in calls \ {r} : x.profile = q /\ x.kind = "stop"
    BY <1>3 DEF FlagsOf
  <2>3. \A i \in t.restarting : \E q \in calls \ {r} : q.run = i /\ q.kind = "restart"
    BY <1>3 DEF FlagsOf
  <2> QED BY <1>1, <2>1, <2>2, <2>3 DEF FlagsOf
<1> QED BY <1>2, <1>4, FlagsOnly

-----------------------------------------------------------------------------
(* The history.                                                             *)

\* What settles the store leaves the history as it is.
LEMMA HistoryStays ==
  ASSUME History, Kept(store), Settled(store, store'), archived' = archived, launched' = launched,
         pending' \subseteq pending, pending' = pending \/ store'.paused, DOMAIN todo' = RunIds,
         ended' = ended, DOMAIN halted' = DOMAIN halted,
         Halted \subseteq Halted', Halted' \subseteq Halted \cup (launched \ ended),
         \A i \in RunIds : todo'[i] \subseteq todo[i] /\ todo[i] \ todo'[i] \subseteq {"part"}
  PROVE  History'
<1>1. \A i \in RunIds : \A e : Waits(i, e)' /\ e # "part" => Waits(i, e)
  BY DEF Waits
<1>2. ASSUME NEW i \in RunIds \ Halted, ~R!IsCompound(i) PROVE OrdinaryArchived(i)'
  <2>1. OrdinaryArchived(i)
    BY <1>2 DEF History, Archived
  <2>2. Waits(i, "done")' => Waits(i, "done")
    BY <1>1
  <2> QED BY <2>1, <2>2 DEF OrdinaryArchived, Settled
<1>3. ASSUME NEW i \in RunIds \ Halted, R!IsCompound(i)
      PROVE  CompoundArchived(i, store.compound[ProfileOf[i]])'
  <2> DEFINE m == store.compound[ProfileOf[i]]
             n == store'.compound[ProfileOf[i]]
  <2>1. CompoundArchived(i, m)
    BY <1>3 DEF History, Archived
  <2>2. n.run = NoRunId \/ (SameRecord(m, n) /\ (store.paused => store'.paused))
    <3>1. ProfileOf[i] \in RunCompounds
      BY <1>3 DEF R!IsCompound
    <3> QED BY <3>1 DEF Settled
  <2>3. (Waits(i, "running")' => Waits(i, "running")) /\ i # NoRunId
    BY <1>1, RunOf
  <2>4. "ended" \in todo[i] => "ended" \in todo'[i]
    OBVIOUS
  <2>5. i \in pending => i \in pending' \/ store'.paused
    OBVIOUS
  <2> HIDE DEF m, n
  <2>6. archived[i] \in 0..(1 + Cardinality(RunSteps)) /\ (Waits(i, "running") => archived[i] = 0)
    BY <2>1 DEF CompoundArchived
  <2>7. CASE n.run = NoRunId
    BY <2>3, <2>6, <2>7 DEF CompoundArchived, n
  <2>8. CASE SameRecord(m, n) /\ (store.paused => store'.paused)
    <3>1. Told(n) = Told(m) /\ n.run = m.run /\ Done(n) = Done(m) /\ n.state = m.state
      BY <2>8 DEF SameRecord, Told
    <3> QED BY <2>1, <2>3, <2>4, <2>5, <2>6, <2>8, <3>1 DEF CompoundArchived, n
  <2> QED BY <2>2, <2>7, <2>8
<1>4. ASSUME NEW i \in RunIds PROVE ToldLast(i)' /\ (todo'[i] # {} => i \in launched')
  BY DEF History, ToldLast
<1>5. \A i \in RunIds \ Halted' : Archived(i)'
  BY <1>2, <1>3 DEF Archived
<1>6. \A i \in RunIds : i \in Halted' \/ i \notin ended' => archived'[i] = 0
  BY DEF History
<1> QED BY <1>4, <1>5, <1>6 DEF History

\* An event that is due: no earlier one is.
LEMMA DueIs ==
  ASSUME History, NEW i \in RunIds, NEW e, R!Arrive(i, e)
  PROVE  /\ e \in todo[i] /\ i \in launched /\ todo' = [todo EXCEPT ![i] = @ \ {e}]
         /\ e \in {"done", "ended"} => i \in ended
         /\ e \in {"done", "ended"} => "running" \notin todo[i] /\ "began" \notin todo[i]
         /\ e = "began" => "running" \notin todo[i]
<1>1. e \in todo[i] /\ i \in launched /\ todo' = [todo EXCEPT ![i] = @ \ {e}]
  BY DEF History, R!Arrive, R!Due
<1>2. \A f \in todo[i] : R!Rank(e) <= R!Rank(f)
  BY DEF R!Arrive, R!Due
<1>3. R!Rank("running") = 1 /\ R!Rank("began") = 2 /\ R!Rank("done") = 4 /\ R!Rank("ended") = 4
  BY DEF R!Rank
<1>4. e \in {"done", "ended"} => "running" \notin todo[i] /\ "began" \notin todo[i]
  BY <1>2, <1>3
<1>5. e = "began" => "running" \notin todo[i]
  BY <1>2, <1>3
<1>6. e \in {"done", "ended"} => i \in ended
  BY <1>3 DEF R!Arrive, R!Due
<1> QED BY <1>1, <1>4, <1>5, <1>6

\* What an event of run i leaves alone: the history of the other runs.
LEMMA OthersStay ==
  ASSUME History, NEW i \in RunIds, NEW e, todo' = [todo EXCEPT ![i] = @ \ {e}], launched' = launched,
         store'.paused = store.paused, NEW a, archived' = [archived EXCEPT ![i] = a],
         \A j \in RunIds \ {i} : j \in pending' <=> j \in pending,
         \A j \in RunIds \ {i} : store'.state[j] = "done" => store.state[j] = "done",
         \A c \in RunCompounds : \/ store'.compound[c] = store.compound[c]
                                 \/ c = ProfileOf[i] /\ store'.compound[c].run = i
  PROVE  \A j \in RunIds \ ({i} \cup Halted) : Archived(j)'
<1> SUFFICES ASSUME NEW j \in RunIds \ ({i} \cup Halted) PROVE Archived(j)'
  OBVIOUS
<1>1. archived'[j] = archived[j] /\ todo'[j] = todo[j]
  BY DEF History
<1>2. \A x : Waits(j, x)' = Waits(j, x)
  BY <1>1 DEF Waits
<1>3. CASE ~R!IsCompound(j)
  <2>1. OrdinaryArchived(j)
    BY <1>3 DEF History, Archived
  <2> QED BY <1>1, <1>2, <1>3, <2>1 DEF OrdinaryArchived, Archived
<1>4. CASE R!IsCompound(j)
  <2> DEFINE m == store.compound[ProfileOf[j]]
             n == store'.compound[ProfileOf[j]]
  <2>1. CompoundArchived(j, m)
    BY <1>4 DEF History, Archived
  <2>2. n = m \/ n.run = i
    BY <1>4 DEF R!IsCompound
  <2>3. CompoundArchived(j, store.compound[ProfileOf[j]])'
    <3>0. n.run = i => n.run # j /\ j # NoRunId
      BY RunOf
    <3> HIDE DEF m, n
    <3>1. CASE n.run = i
      BY <1>1, <1>2, <2>1, <3>0, <3>1 DEF CompoundArchived, n
    <3>2. CASE n = m
      BY <1>1, <1>2, <2>1, <3>2 DEF CompoundArchived, Told, n
    <3> QED BY <2>2, <3>1, <3>2
  <2> QED BY <1>4, <2>3 DEF Archived
<1> QED BY <1>3, <1>4

\* With the history of run i and what is still to come of it, that of all runs.
LEMMA HistoryOf ==
  ASSUME History, NEW i \in RunIds, NEW e, R!Arrive(i, e), launched' = launched,
         store'.paused = store.paused, NEW a \in Nat, archived' = [archived EXCEPT ![i] = a],
         halted' = halted, ended' = ended, i \in Halted => a = 0,
         a = archived[i] \/ e \in {"done", "ended"},
         \A j \in RunIds \ {i} : j \in pending' <=> j \in pending,
         i \in pending' => i \in pending \/ R!IsCompound(i), pending' \subseteq pending \cup {i},
         \A j \in RunIds \ {i} : store'.state[j] = "done" => store.state[j] = "done",
         \A c \in RunCompounds : \/ store'.compound[c] = store.compound[c]
                                 \/ c = ProfileOf[i] /\ store'.compound[c].run = i,
         i \notin Halted => Archived(i)'
  PROVE  History'
<1>1. /\ todo' = [todo EXCEPT ![i] = @ \ {e}] /\ DOMAIN todo = RunIds
      /\ e = "ended" => "running" \notin todo[i] /\ "began" \notin todo[i]
      /\ e \in {"done", "ended"} => i \in ended
  BY DueIs DEF History
<1>2. \A j \in RunIds \ Halted' : Archived(j)'
  <2>1. \A j \in RunIds \ ({i} \cup Halted) : Archived(j)'
    BY <1>1, OthersStay
  <2> QED BY <2>1 DEF Halted
<1>3. archived' \in [RunIds -> Nat] /\ DOMAIN todo' = RunIds
  BY <1>1 DEF History
<1>4. ASSUME NEW j \in RunIds PROVE ToldLast(j)' /\ (todo'[j] # {} => j \in launched')
  BY <1>1 DEF History, ToldLast
<1>5. \A j \in pending' : R!IsCompound(j)
  BY DEF History
<1>6. \A j \in RunIds : j \in Halted' \/ j \notin ended' => archived'[j] = 0
  BY <1>1 DEF History, Halted
<1> QED BY <1>2, <1>3, <1>4, <1>5, <1>6 DEF History

-----------------------------------------------------------------------------
(* Events.                                                                  *)

LEMMA OutputEvent ==
  ASSUME Kept(store), History, NEW i \in RunIds, R!OnOutput(i)
  PROVE  Kept(store') /\ Goes(store, store') /\ History'
<1>1. Kept(store') /\ Goes(store, store') /\ Settled(store, store')
  BY StepOutputKeeps, RunOutputKeeps DEF R!OnOutput
<1>2. todo' = [todo EXCEPT ![i] = @ \ {"part"}] /\ DOMAIN todo = RunIds
  BY DEF R!OnOutput, R!Arrive, History
<1>3. /\ pending' = pending /\ archived' = archived /\ launched' = launched /\ ended' = ended
      /\ Halted' = Halted /\ halted' = halted
  BY DEF R!OnOutput, R!Env, Halted
<1>4. DOMAIN todo' = RunIds /\ \A j \in RunIds : todo'[j] \subseteq todo[j] /\ todo[j] \ todo'[j] \subseteq {"part"}
  BY <1>2
<1>5. History'
  BY <1>1, <1>3, <1>4, HistoryStays
<1> QED BY <1>1, <1>5

\* What archives are added: one for an end, one for each step that ends.
LEMMA StatusCounted ==
  ASSUME Kept(store), History, NEW i \in RunIds \ Halted, NEW new \in {"running", "done"},
         R!OnStatus(i, new)
  PROVE  Kept(store') /\ Goes(store, store') /\ History'
<1> DEFINE s == R!HandleRunStatus(store, i, new)
           c == ProfileOf[i]
           resume == i \in pending /\ s.compound[c].run = i /\ s.compound[c].state = "done"
           one == IF R!Ends(store, s, i, new) THEN 1 ELSE 0
           steps == IF resume THEN Cardinality(R!StepsEnding(s, i, "done")) ELSE 0
<1>0. /\ ~R!IsAdministrativeStop(i)
      /\ halted' = halted /\ ended' = ended
  BY DEF R!IsAdministrativeStop, Halted, R!OnStatus, R!Env
<1>1. /\ R!Arrive(i, new) /\ launched' = launched
      /\ store' = (IF resume THEN R!HandleCompoundRun(s, i, "done") ELSE s)
      /\ pending' = (IF resume THEN pending \ {i} ELSE pending)
      /\ archived' = [archived EXCEPT ![i] = @ + (one + steps)]
  BY <1>0, Counts DEF R!OnStatus, R!Env
<1>2. Kept(s) /\ Goes(store, s) /\ Handled(store, s, i, new)
  BY StatusKeeps
<1>3. /\ new \in todo[i] /\ i \in launched /\ todo' = [todo EXCEPT ![i] = @ \ {new}]
      /\ new = "done" => "running" \notin todo[i]
  BY <1>1, DueIs
<1>4. archived[i] \in Nat /\ DOMAIN todo = RunIds /\ archived \in [RunIds -> Nat]
  BY DEF History
<1>5. CASE ~R!IsCompound(i)
  <2>1. ~resume /\ OrdinaryArchived(i)
    BY <1>5 DEF History, Archived
  <2>2. HandledOrdinary(store, s, i, new)
    BY <1>2, <1>5 DEF Handled
  <2>3. store' = s /\ pending' = pending /\ steps = 0
    BY <1>1, <2>1
  <2>4. R!Ends(store, s, i, new) <=> new = "done" /\ store.state[i] \in R!Live /\ s.state[i] = "done"
    BY <1>0, <1>5 DEF R!Ends
  <2> HIDE DEF s, resume, steps
  <2>5. one \in {0, 1} /\ (one = 1 <=> new = "done" /\ store.state[i] \in R!Live /\ s.state[i] = "done")
    BY <2>4
  <2>6. s.state[i] = "done" => store.state[i] = "done" \/ one = 1
    BY <2>2, <2>5 DEF HandledOrdinary
  <2> HIDE DEF one
  <2> DEFINE a == archived[i] + one
  <2>7. archived' = [archived EXCEPT ![i] = a]
    BY <1>1, <1>4, <2>3, <2>5
  <2>8. new = "done" => archived[i] = 0
    BY <1>3, <2>1 DEF OrdinaryArchived, Waits
  <2>9. /\ a \in {0, 1} /\ (s.state[i] = "done" => a = 1)
        /\ new = "running" => a = archived[i]
    BY <2>1, <2>5, <2>6, <2>8 DEF OrdinaryArchived
  <2>10. Waits(i, "done")' => new = "running" /\ Waits(i, "done")
    BY <1>1, <1>3, <1>4 DEF Waits
  <2>11. archived'[i] = a
    BY <1>4, <2>7
  <2> HIDE DEF a
  <2>12. OrdinaryArchived(i)'
    BY <2>1, <2>3, <2>9, <2>10, <2>11 DEF OrdinaryArchived
  <2>13. \A j \in RunIds \ {i} : s.state[j] = "done" => store.state[j] = "done"
    BY <2>2 DEF HandledOrdinary
  <2>14. s.compound = store.compound /\ s.paused = store.paused
    BY <1>2, <2>2 DEF HandledOrdinary, Goes
  <2>15. History'
    <3>1. /\ \A j \in RunIds \ {i} : j \in pending' <=> j \in pending
          /\ pending' \subseteq pending \cup {i} /\ (i \in pending' => i \in pending \/ R!IsCompound(i))
      BY <2>3
    <3>2. /\ \A j \in RunIds \ {i} : store'.state[j] = "done" => store.state[j] = "done"
          /\ store'.compound = store.compound /\ store'.paused = store.paused
      BY <2>3, <2>13, <2>14
    <3>3. a \in Nat /\ launched' = launched /\ R!Arrive(i, new) /\ (a = archived[i] \/ new \in {"done", "ended"})
      BY <1>1, <2>9
    <3>4. i \notin Halted /\ Archived(i)'
      BY <1>5, <2>12 DEF Archived
    <3> QED BY <1>0, <2>7, <3>1, <3>2, <3>3, <3>4, HistoryOf
  <2> QED BY <1>2, <2>3, <2>15
<1>6. CASE R!IsCompound(i)
  <2> DEFINE m == store.compound[c]
             k == s.compound[c]
             n == store'.compound[c]
  <2>1. /\ c \in RunCompounds /\ m \in Records /\ k \in Records
        /\ RecordKept(store, c, m) /\ RecordKept(s, c, k)
    BY <1>2, <1>6 DEF R!IsCompound, Kept, Typed, CompoundsKept
  <2>2. /\ s.state = store.state /\ s.paused = store.paused
        /\ \A d \in RunCompounds \ {c} : s.compound[d] = store.compound[d]
        /\ \/ k = m
           \/ new = "running" /\ m.run # i /\ Fresh(k, i)
           \/ new = "done" /\ m.run = i /\ m.state = "running" /\ k = [m EXCEPT !.state = "done"]
    BY <1>2, <1>6 DEF Handled, HandledCompound, Goes
  <2>3. R!Ends(store, s, i, new) <=> new = "done" /\ m.run = i /\ m.state # "done" /\ k.run = i /\ k.state = "done"
    BY <1>0, <1>6 DEF R!Ends
  <2>4. /\ store'.state = store.state /\ store'.paused = store.paused /\ Kept(store') /\ Goes(store, store')
        /\ \A d \in RunCompounds \ {c} : store'.compound[d] = store.compound[d]
        /\ IF resume THEN n.run = i /\ n.state = "done" /\ Done(n) = RunSteps ELSE n = k
    <3>1. CASE resume
      <4>1. store' = R!HandleCompoundRun(s, i, "done")
        BY <1>1, <3>1
      <4>2. s.compound[ProfileOf[i]].run = i /\ s.compound[ProfileOf[i]].state = "done" /\ Kept(s)
        BY <1>2, <3>1
      <4> HIDE DEF s, resume
      <4>3. /\ Kept(store') /\ Goes(s, store') /\ store'.state = s.state
            /\ \A d \in RunCompounds \ {c} : store'.compound[d] = s.compound[d]
            /\ n.run = i /\ n.state = "done" /\ Done(n) = RunSteps
        BY <1>6, <4>1, <4>2, SnapshotKeeps DEF StepsOf
      <4>4. Goes(store, store')
        BY <1>2, <2>2, <4>3 DEF Goes
      <4> QED BY <2>2, <3>1, <4>3, <4>4 DEF Goes
    <3>2. CASE ~resume
      BY <1>1, <1>2, <2>2, <3>2
    <3> QED BY <3>1, <3>2
  <2>5. steps = IF resume THEN Cardinality(RunSteps \ Done(k)) ELSE 0
    <3>1. R!StepsEnding(s, i, "done") = RunSteps \ Done(k)
      BY <1>0 DEF R!StepsEnding, Done
    <3> QED BY <3>1
  <2>6. resume <=> i \in pending /\ k.run = i /\ k.state = "done"
    OBVIOUS
  <2>7. one = IF new = "done" /\ m.run = i /\ m.state # "done" /\ k.run = i /\ k.state = "done" THEN 1 ELSE 0
    BY <2>3
  <2>8. CompoundArchived(i, m) /\ ToldLast(i) /\ i # NoRunId
    BY <1>6, RunOf DEF History, Archived
  <2>9. /\ Waits(i, "running")' <=> "running" \in todo'[i]
        /\ "running" \notin todo'[i] /\ ("ended" \in todo[i] => "ended" \in todo'[i])
    BY <1>1, <1>3, <1>4 DEF Waits
  <2>10. new = "running" => m.run # i /\ archived[i] = 0 /\ "ended" \in todo[i]
    BY <1>3, <1>6, <2>8 DEF CompoundArchived, Waits, ToldLast
  <2> DEFINE a == archived[i] + (one + steps)
  <2>11. /\ archived' = [archived EXCEPT ![i] = a] /\ archived'[i] = a
    BY <1>1, <1>4
  <2>12. Cardinality(RunSteps) \in Nat /\ Cardinality({}) = 0 /\ RunSteps \ {} = RunSteps /\ RunSteps \ RunSteps = {}
    BY RunOf, FS_EmptySet
  <2>13. pending' = IF resume THEN pending \ {i} ELSE pending
    BY <1>1
  <2> HIDE DEF s, m, k, n, resume, one, steps, c
  <2>14. /\ a \in 0..(1 + Cardinality(RunSteps)) /\ a \in Nat
         /\ n.run = i => /\ a = Told(n)
                         /\ "ended" \in todo'[i] \/ store'.paused \/ Done(n) = RunSteps
                              \/ (i \in pending' /\ n.state # "done")
    <3>1. CASE resume
      <4>1. new = "done" /\ m.run = i /\ Done(k) = Done(m) /\ k.run = i /\ k.state = "done"
        <5>1. new = "running" => FALSE
          BY <2>2, <2>6, <2>10, <3>1 DEF Fresh
        <5> QED BY <2>1, <2>2, <2>6, <3>1, <5>1 DEF Records, Done
      <4>2. one = IF m.state # "done" THEN 1 ELSE 0
        BY <2>7, <4>1
      <4>3. archived[i] = (IF m.state = "done" THEN 1 ELSE 0) + Cardinality(Done(m))
        BY <2>8, <4>1 DEF CompoundArchived, Told
      <4>4. steps = Cardinality(RunSteps \ Done(m)) /\ Done(m) \in {{}, RunSteps}
        BY <2>1, <2>5, <3>1, <4>1 DEF RecordKept
      <4>5. Cardinality(Done(m)) + Cardinality(RunSteps \ Done(m)) = Cardinality(RunSteps)
            /\ Cardinality(Done(m)) \in Nat /\ Cardinality(RunSteps \ Done(m)) \in Nat
        <5>1. CASE Done(m) = {}
          BY <2>12, <5>1
        <5>2. CASE Done(m) = RunSteps
          BY <2>12, <5>2
        <5> QED BY <4>4, <5>1, <5>2
      <4>6. a = 1 + Cardinality(RunSteps)
        BY <2>12, <4>2, <4>3, <4>4, <4>5
      <4>7. n.run = i /\ n.state = "done" /\ Done(n) = RunSteps
        BY <2>4, <3>1
      <4>8. Told(n) = 1 + Cardinality(RunSteps)
        BY <4>7 DEF Told
      <4> HIDE DEF a
      <4> QED BY <2>12, <4>6, <4>7, <4>8
    <3>2. CASE ~resume
      <4>1. n = k /\ steps = 0 /\ pending' = pending
        BY <2>4, <2>5, <2>13, <3>2
      <4>2. CASE k = m
        <5>1. one = 0
          BY <2>7, <4>2
        <5>2. a = archived[i]
          BY <1>4, <4>1, <5>1
        <5> HIDE DEF a
        <5> QED BY <1>4, <2>4, <2>8, <2>9, <4>1, <4>2, <5>2 DEF CompoundArchived
      <4>3. CASE new = "running" /\ m.run # i /\ Fresh(k, i)
        <5>1. one = 0 /\ a = 0
          BY <2>7, <2>10, <4>1, <4>3
        <5>2. Done(k) = {} /\ k.state = "running" /\ Told(k) = 0
          <6>1. Done(k) = {} /\ k.state = "running"
            BY <4>3 DEF Fresh, Done
          <6> QED BY <2>12, <6>1 DEF Told
        <5>3. Told(n) = 0 /\ "ended" \in todo'[i]
          BY <2>9, <2>10, <4>1, <4>3, <5>2
        <5> HIDE DEF a
        <5> QED BY <2>12, <5>1, <5>3
      <4>4. CASE new = "done" /\ m.run = i /\ m.state = "running" /\ k = [m EXCEPT !.state = "done"]
        <5>1. k.run = i /\ k.state = "done" /\ k.steps = m.steps
          BY <2>1, <4>4 DEF Records
        <5>2. Done(k) = {} /\ Done(m) = {} /\ i \notin pending
          BY <2>1, <2>6, <3>2, <4>4, <5>1 DEF RecordKept, Done
        <5>3. archived[i] = 0 /\ one = 1 /\ Told(k) = 1
          <6>1. Told(m) = 0 /\ Told(k) = 1
            <7>1. Cardinality(Done(m)) = 0 /\ Cardinality(Done(k)) = 0
              BY <2>12, <5>2
            <7>2. m.state = "running" /\ k.state = "done"
              BY <4>4, <5>1
            <7> QED BY <7>1, <7>2 DEF Told
          <6>2. archived[i] = Told(m)
            BY <2>8, <4>4 DEF CompoundArchived
          <6> QED BY <2>7, <4>4, <5>1, <6>1, <6>2
        <5>4. a = 1
          BY <4>1, <5>3
        <5>5. "ended" \in todo[i] \/ store.paused \/ Done(m) = RunSteps
          BY <2>8, <4>4, <5>2 DEF CompoundArchived
        <5> HIDE DEF a
        <5> QED BY <2>4, <2>9, <2>12, <4>1, <5>2, <5>3, <5>4, <5>5
      <4> QED BY <2>2, <4>2, <4>3, <4>4
    <3> QED BY <3>1, <3>2
  <2>18. a = archived[i] \/ new = "done"
    <3> SUFFICES ASSUME new = "running" PROVE one = 0 /\ steps = 0
      BY <1>4
    <3>1. ~resume
      BY <2>2, <2>6, <2>10 DEF Fresh
    <3> QED BY <2>5, <2>7, <3>1
  <2> HIDE DEF a
  <2>15. CompoundArchived(i, store.compound[ProfileOf[i]])'
    BY <2>9, <2>11, <2>14 DEF CompoundArchived, n, c
  <2>16. \A d \in RunCompounds : \/ store'.compound[d] = store.compound[d]
                                 \/ d = ProfileOf[i] /\ store'.compound[d].run = i
    <3>1. n = m \/ n.run = i
      <4>1. k = m \/ k.run = i
        BY <2>1, <2>2 DEF Fresh, Records
      <4> QED BY <2>4, <4>1
    <3> QED BY <2>4, <3>1 DEF n, m, c
  <2>17. History'
    <3>1. \A j \in RunIds \ {i} : j \in pending' <=> j \in pending
      BY <2>13
    <3>2. pending' \subseteq pending \cup {i} /\ (i \in pending' => i \in pending \/ R!IsCompound(i))
      BY <1>6, <2>13
    <3>3. \A j \in RunIds \ {i} : store'.state[j] = "done" => store.state[j] = "done"
      BY <2>4
    <3>4. i \notin Halted /\ Archived(i)' /\ (a = archived[i] \/ new \in {"done", "ended"})
      BY <1>6, <2>15, <2>18 DEF Archived
    <3> QED BY <1>0, <1>1, <2>4, <2>11, <2>14, <2>16, <3>1, <3>2, <3>3, <3>4, HistoryOf
  <2> QED BY <2>4, <2>17
<1> QED BY <1>5, <1>6

\* The end of a run that a drain stopped is shown, and given to nobody.
LEMMA StatusHalted ==
  ASSUME Kept(store), History, NEW i \in Halted, i \in RunIds, NEW new \in {"running", "done"},
         R!OnStatus(i, new)
  PROVE  Kept(store') /\ Goes(store, store') /\ History'
<1> DEFINE s == R!HandleRunStatus(store, i, new)
<1>1. R!IsAdministrativeStop(i) /\ archived[i] = 0 /\ archived \in [RunIds -> Nat]
  BY DEF R!IsAdministrativeStop, Halted, History
<1>2. ~R!Ends(store, s, i, new)
  BY <1>1 DEF R!Ends
<1>3. /\ R!Arrive(i, new) /\ launched' = launched /\ halted' = halted /\ ended' = ended
      /\ store' = s /\ pending' = pending \ {i} /\ archived' = [archived EXCEPT ![i] = @ + (0 + 0)]
  BY <1>1, <1>2 DEF R!OnStatus, R!Env
<1>4. Kept(s) /\ Goes(store, s) /\ Handled(store, s, i, new)
  BY StatusKeeps
<1> HIDE DEF s
<1>5. archived' = [archived EXCEPT ![i] = 0]
  BY <1>1, <1>3
<1>6. /\ \A j \in RunIds \ {i} : s.state[j] = "done" => store.state[j] = "done"
      /\ \A c \in RunCompounds : \/ s.compound[c] = store.compound[c]
                                 \/ c = ProfileOf[i] /\ s.compound[c].run = i
  <2>1. CASE ~R!IsCompound(i)
    BY <1>4, <2>1 DEF Handled, HandledOrdinary
  <2>2. CASE R!IsCompound(i)
    <3>1. store.compound[ProfileOf[i]] \in Records
      BY <2>2 DEF R!IsCompound, Kept, Typed
    <3> QED BY <1>4, <2>2, <3>1 DEF Handled, HandledCompound, Fresh, Records
  <2> QED BY <2>1, <2>2
<1>7. s.paused = store.paused
  BY <1>4 DEF Goes
<1>8. /\ \A j \in RunIds \ {i} : j \in pending' <=> j \in pending
      /\ pending' \subseteq pending \cup {i} /\ i \notin pending'
  BY <1>3
<1>9. History'
  BY <1>1, <1>3, <1>5, <1>6, <1>7, <1>8, HistoryOf
<1> QED BY <1>3, <1>4, <1>9

LEMMA StatusEvent ==
  ASSUME Kept(store), History, NEW i \in RunIds, NEW new \in {"running", "done"}, R!OnStatus(i, new)
  PROVE  Kept(store') /\ Goes(store, store') /\ History'
  BY StatusCounted, StatusHalted

LEMMA SnapshotCounted ==
  ASSUME Kept(store), History, NEW i \in RunIds \ Halted, R!IsCompound(i), NEW e \in {"began", "ended"},
         R!OnSnapshot(i, e)
  PROVE  Kept(store') /\ Goes(store, store') /\ History'
<1>0. PICK new \in {"running", "done"} : new = IF e = "began" THEN "running" ELSE "done"
  OBVIOUS
<1> DEFINE c == ProfileOf[i]
           m == store.compound[c]
           n == store'.compound[c]
<1>9. /\ ~R!IsAdministrativeStop(i)
      /\ halted' = halted /\ ended' = ended
  BY DEF R!IsAdministrativeStop, Halted, R!OnSnapshot, R!Env
<1>1. /\ R!Arrive(i, e) /\ launched' = launched
      /\ IF R!AcceptsSnapshot(store, i, new)
         THEN /\ store' = R!HandleCompoundRun(store, i, new) /\ pending' = pending \ {i}
              /\ archived' = [archived EXCEPT ![i] = @ + Cardinality(R!StepsEnding(store, i, new))]
         ELSE /\ pending' = (IF R!Early(store, i, new) THEN pending \cup {i} ELSE pending)
              /\ store' = store /\ archived' = archived
  BY <1>0, Counts DEF R!OnSnapshot, R!Env
<1>2. /\ e \in todo[i] /\ i \in launched /\ todo' = [todo EXCEPT ![i] = @ \ {e}] /\ "running" \notin todo[i]
      /\ e = "ended" => "began" \notin todo[i]
  BY <1>1, DueIs
<1>3. /\ archived \in [RunIds -> Nat] /\ archived[i] \in Nat /\ DOMAIN todo = RunIds
      /\ CompoundArchived(i, m) /\ ToldLast(i) /\ i # NoRunId
  BY RunOf DEF History, Archived
<1>4. c \in RunCompounds /\ m \in Records /\ RecordKept(store, c, m)
  BY DEF R!IsCompound, Kept, Typed, CompoundsKept
<1>5. ~Waits(i, "running")' /\ (e = "began" => "ended" \in todo'[i])
  BY <1>1, <1>2, <1>3 DEF Waits, ToldLast
<1>6. Cardinality(RunSteps) \in Nat /\ Cardinality({}) = 0 /\ RunSteps \ {} = RunSteps /\ RunSteps \ RunSteps = {}
  BY RunOf, FS_EmptySet
<1>7. new = "running" <=> e = "began"
  BY <1>0
<1>8. new = "done" <=> e = "ended"
  BY <1>0
<1>10. CASE R!AcceptsSnapshot(store, i, new)
  <2>1. m.run = i /\ m.state = new
    BY <1>10 DEF R!AcceptsSnapshot
  <2>2. /\ Kept(store') /\ Goes(store, store') /\ store'.state = store.state
        /\ \A d \in RunCompounds \ {c} : store'.compound[d] = store.compound[d]
        /\ n.run = i /\ n.state = new
        /\ (new = "done" => Done(n) = RunSteps) /\ (new = "running" => Done(n) = {})
    <3>1. store' = R!HandleCompoundRun(store, i, new)
      BY <1>1, <1>10
    <3>2. store.compound[ProfileOf[i]].run = i /\ store.compound[ProfileOf[i]].state = new
      BY <2>1
    <3> DEFINE t == R!HandleCompoundRun(store, i, new)
    <3>3. /\ Kept(t) /\ Goes(store, t) /\ t.state = store.state
          /\ \A d \in RunCompounds \ {ProfileOf[i]} : t.compound[d] = store.compound[d]
          /\ t.compound[ProfileOf[i]].run = i /\ t.compound[ProfileOf[i]].state = new
          /\ Done(t.compound[ProfileOf[i]]) = StepsOf(new)
      BY <3>2, SnapshotKeeps
    <3> QED BY <3>1, <3>3 DEF StepsOf
  <2> DEFINE a == archived[i] + Cardinality(R!StepsEnding(store, i, new))
  <2>3. archived' = [archived EXCEPT ![i] = a] /\ archived'[i] = a /\ pending' = pending \ {i}
    BY <1>1, <1>3, <1>10
  <2>4. R!StepsEnding(store, i, new) = IF new = "done" THEN RunSteps \ Done(m) ELSE {}
    BY <1>9 DEF R!StepsEnding, Done
  <2>5. archived[i] = (IF new = "done" THEN 1 ELSE 0) + Cardinality(Done(m)) /\ Done(m) \in {{}, RunSteps}
        /\ (new # "done" => Done(m) = {})
    BY <1>3, <1>4, <2>1 DEF CompoundArchived, RecordKept, Told
  <2> HIDE DEF m, n, c
  <2>6. a = IF new = "done" THEN 1 + Cardinality(RunSteps) ELSE 0
    <3>1. CASE new = "done"
      <4>1. Cardinality(Done(m)) + Cardinality(RunSteps \ Done(m)) = Cardinality(RunSteps)
            /\ Cardinality(Done(m)) \in Nat /\ Cardinality(RunSteps \ Done(m)) \in Nat
        <5>1. CASE Done(m) = {}
          BY <1>6, <5>1
        <5>2. CASE Done(m) = RunSteps
          BY <1>6, <5>2
        <5> QED BY <2>5, <5>1, <5>2
      <4> QED BY <1>6, <2>4, <2>5, <3>1, <4>1
    <3>2. CASE new # "done"
      <4>1. Done(m) = {} /\ R!StepsEnding(store, i, new) = {}
        BY <2>4, <2>5, <3>2
      <4>2. archived[i] = 0 + Cardinality({}) /\ a = archived[i] + Cardinality({})
        BY <2>5, <3>2, <4>1
      <4> QED BY ONLY <1>6, <3>2, <4>2
    <3> QED BY <3>1, <3>2
  <2>7. Told(n) = IF new = "done" THEN 1 + Cardinality(RunSteps) ELSE 0
    BY <1>6, <2>2 DEF Told
  <2>8. a \in 0..(1 + Cardinality(RunSteps)) /\ a \in Nat /\ a = Told(n)
    <3> HIDE DEF a
    <3> QED BY <1>6, <2>6, <2>7
  <2> HIDE DEF a
  <2>9. "ended" \in todo'[i] \/ Done(n) = RunSteps
    BY <1>5, <1>7, <2>2
  <2>10. CompoundArchived(i, store.compound[ProfileOf[i]])'
    BY <1>5, <2>3, <2>8, <2>9 DEF CompoundArchived, n, c
  <2>11. History'
    <3>1. /\ \A j \in RunIds \ {i} : j \in pending' <=> j \in pending
          /\ pending' \subseteq pending \cup {i} /\ (i \in pending' => i \in pending \/ R!IsCompound(i))
      BY <2>3
    <3>2. /\ \A j \in RunIds \ {i} : store'.state[j] = "done" => store.state[j] = "done"
          /\ store'.paused = store.paused
      BY <2>2 DEF Goes
    <3>3. \A d \in RunCompounds : \/ store'.compound[d] = store.compound[d]
                                  \/ d = ProfileOf[i] /\ store'.compound[d].run = i
      BY <2>2 DEF n, c
    <3>4. i \notin Halted /\ Archived(i)'
      BY <2>10 DEF Archived
    <3>5. a = archived[i] \/ e \in {"done", "ended"}
      BY <1>6, <1>7, <2>5, <2>6, <1>0
    <3> QED BY <1>1, <1>9, <2>3, <2>8, <3>1, <3>2, <3>3, <3>4, <3>5, HistoryOf
  <2> QED BY <2>2, <2>11
<1>11. CASE ~R!AcceptsSnapshot(store, i, new)
  <2>1. /\ pending' = (IF R!Early(store, i, new) THEN pending \cup {i} ELSE pending)
        /\ store' = store /\ archived' = archived
    BY <1>1, <1>11
  <2>2. archived' = [archived EXCEPT ![i] = archived[i]]
    BY <1>3, <2>1
  <2>3. m.run = i => "ended" \in todo'[i] \/ store.paused \/ Done(m) = RunSteps \/ (i \in pending' /\ m.state # "done")
    <3> SUFFICES ASSUME m.run = i, e = "ended", ~store.paused PROVE i \in pending' /\ m.state # "done"
      BY <1>5, <2>1
    <3>1. store.latest[c] = i /\ i \in store.owned
      BY <1>3, <1>4 DEF RecordKept
    <3>2. EpochOf[i] = store.epoch
      BY <3>1 DEF Kept, Current
    <3>3. m.state # "done"
      BY <1>8, <1>11, <3>1, <3>2 DEF R!AcceptsSnapshot
    <3>4. R!Early(store, i, new)
      BY <1>8, <1>9, <3>2, <3>3 DEF R!Early
    <3> QED BY <2>1, <3>3, <3>4
  <2>4. CompoundArchived(i, store.compound[ProfileOf[i]])'
    BY <1>3, <1>5, <2>1, <2>3 DEF CompoundArchived
  <2>5. History'
    <3>1. /\ \A j \in RunIds \ {i} : j \in pending' <=> j \in pending
          /\ pending' \subseteq pending \cup {i} /\ (i \in pending' => i \in pending \/ R!IsCompound(i))
      BY <2>1
    <3>2. /\ \A j \in RunIds \ {i} : store'.state[j] = "done" => store.state[j] = "done"
          /\ store'.paused = store.paused /\ store'.compound = store.compound
      BY <2>1
    <3>3. i \notin Halted /\ Archived(i)'
      BY <2>4 DEF Archived
    <3> QED BY <1>1, <1>3, <1>9, <2>2, <3>1, <3>2, <3>3, HistoryOf
  <2>6. Goes(store, store') /\ Kept(store')
    BY <2>1 DEF Goes, R!Live
  <2> QED BY <2>5, <2>6
<1> QED BY <1>10, <1>11

LEMMA SnapshotHalted ==
  ASSUME Kept(store), History, NEW i \in Halted, i \in RunIds, R!IsCompound(i),
         NEW e \in {"began", "ended"}, R!OnSnapshot(i, e)
  PROVE  Kept(store') /\ Goes(store, store') /\ History'
<1>0. PICK new \in {"running", "done"} : new = IF e = "began" THEN "running" ELSE "done"
  OBVIOUS
<1>1. R!IsAdministrativeStop(i) /\ archived[i] = 0 /\ archived \in [RunIds -> Nat]
  BY DEF R!IsAdministrativeStop, Halted, History
<1>2. R!StepsEnding(store, i, new) = {} /\ ~R!Early(store, i, new) /\ Cardinality({}) = 0
  BY <1>1, FS_EmptySet DEF R!StepsEnding, R!Early
<1>3. /\ R!Arrive(i, e) /\ launched' = launched /\ halted' = halted /\ ended' = ended
      /\ IF R!AcceptsSnapshot(store, i, new)
         THEN /\ store' = R!HandleCompoundRun(store, i, new) /\ pending' = pending \ {i}
              /\ archived' = [archived EXCEPT ![i] = @ + Cardinality({})]
         ELSE pending' = pending /\ store' = store /\ archived' = archived
  BY <1>0, <1>2, Counts DEF R!OnSnapshot, R!Env
<1>4. archived' = [archived EXCEPT ![i] = 0]
  BY <1>1, <1>2, <1>3
<1>5. /\ Kept(store') /\ Goes(store, store') /\ store'.state = store.state
      /\ \A d \in RunCompounds : \/ store'.compound[d] = store.compound[d]
                                 \/ d = ProfileOf[i] /\ store'.compound[d].run = i
  <2>1. CASE R!AcceptsSnapshot(store, i, new)
    <3>1. store.compound[ProfileOf[i]].run = i /\ store.compound[ProfileOf[i]].state = new
      BY <2>1 DEF R!AcceptsSnapshot
    <3> DEFINE t == R!HandleCompoundRun(store, i, new)
    <3>2. /\ Kept(t) /\ Goes(store, t) /\ t.state = store.state
          /\ \A d \in RunCompounds \ {ProfileOf[i]} : t.compound[d] = store.compound[d]
          /\ t.compound[ProfileOf[i]].run = i
      BY <3>1, SnapshotKeeps
    <3> QED BY <1>3, <2>1, <3>2
  <2>2. CASE ~R!AcceptsSnapshot(store, i, new)
    BY <1>3, <2>2 DEF Goes, R!Live
  <2> QED BY <2>1, <2>2
<1>6. /\ \A j \in RunIds \ {i} : j \in pending' <=> j \in pending
      /\ pending' \subseteq pending \cup {i} /\ (i \in pending' => i \in pending)
  BY <1>3
<1>7. store'.paused = store.paused
  BY <1>5 DEF Goes
<1>8. History'
  BY <1>1, <1>3, <1>4, <1>5, <1>6, <1>7, HistoryOf
<1> QED BY <1>5, <1>8

LEMMA SnapshotEvent ==
  ASSUME Kept(store), History, NEW i \in RunIds, R!IsCompound(i), NEW e \in {"began", "ended"},
         R!OnSnapshot(i, e)
  PROVE  Kept(store') /\ Goes(store, store') /\ History'
  BY SnapshotCounted, SnapshotHalted

-----------------------------------------------------------------------------
(* Every step.                                                              *)

LEMMA PauseKeeps ==
  ASSUME Kept(store), FlagsOf(store, calls), R!PauseRunEvents
  PROVE  Kept(store') /\ Settled(store, store') /\ store'.state = store.state /\ store'.paused
         /\ FlagsOf(store', calls')
<1> DEFINE s == store
           t == store'
<1>1. Shape(s) /\ t = [s EXCEPT !.paused = TRUE] /\ calls' = calls
  BY DEF Kept, Typed, R!PauseRunEvents, R!Runs0
<1>2. /\ Shape(t) /\ t.state = s.state /\ t.ids = s.ids /\ t.latest = s.latest /\ t.compound = s.compound
      /\ t.owned = s.owned /\ t.active = s.active /\ t.stopping = s.stopping /\ t.pstopping = s.pstopping
      /\ t.restarting = s.restarting /\ t.paused = TRUE
  BY <1>1 DEF Shape, Fields
<1>3. Typed(t) /\ Retention(t)
  <2>1. t.paused \in BOOLEAN
    BY <1>2
  <2>2. Typed(t)
    BY <1>2, <2>1 DEF Kept, Typed
  <2>3. Retention(t)
    BY <1>2 DEF Kept, Retention, Of
  <2> QED BY <2>2, <2>3
<1>4. CompoundsKept(t)
  <2>1. ASSUME NEW c \in RunCompounds PROVE RecordKept(t, c, t.compound[c])
    <3>1. RecordKept(s, c, s.compound[c])
      BY DEF Kept, CompoundsKept
    <3> QED BY <1>2, <3>1 DEF RecordKept
  <2> QED BY <2>1 DEF CompoundsKept
<1>5. Current(t) /\ ActiveKept(t)
  BY <1>2 DEF Kept, Current, ActiveKept
<1>6. Settled(s, t) /\ FlagsOf(t, calls')
  BY <1>1, <1>2 DEF Settled, SameRecord, FlagsOf
<1> QED BY <1>2, <1>3, <1>4, <1>5, <1>6 DEF Kept

\* The store without runs, of the epoch that begins or of none.
LEMMA WorkspaceKeeps ==
  ASSUME Kept(store), R!ResetWorkspaceRunState \/ R!SetRunProfilesSnapshot \/ R!SetProfilesError
  PROVE  /\ Kept(store') /\ Settled(store, store') /\ FlagsOf(store', calls')
         /\ load \in {"draining", "loading"}
<1> DEFINE z == R!EmptyRuns(store)
<1>1. load \in {"draining", "loading"}
  BY DEF R!ResetWorkspaceRunState, R!SetRunProfilesSnapshot, R!SetProfilesError
<1>2. Shape(store) /\ store.paused \in BOOLEAN
  BY DEF Kept, Typed
<1>3. /\ Kept(z) /\ z.paused = store.paused /\ z.ids = {} /\ z.owned = {}
      /\ z.stopping = {} /\ z.restarting = {} /\ z.pstopping = {}
      /\ \A j \in RunIds : z.state[j] = "none"
      /\ \A c \in RunCompounds : z.compound[c].run = NoRunId
  BY <1>2, EmptyKeeps
<1>4. PICK n : store' = z \/ store' = [z EXCEPT !.epoch = n, !.paused = FALSE]
  BY DEF R!ResetWorkspaceRunState, R!SetRunProfilesSnapshot, R!SetProfilesError
<1> HIDE DEF z
<1>5. Shape(z)
  BY <1>3 DEF Kept, Typed
<1>6. /\ store'.state = z.state /\ store'.ids = {} /\ store'.latest = z.latest /\ store'.compound = z.compound
      /\ store'.owned = {} /\ store'.active = z.active /\ store'.stopping = {} /\ store'.pstopping = {}
      /\ store'.restarting = {} /\ store'.paused \in BOOLEAN /\ Shape(store')
  <2>1. CASE store' = z
    BY <1>2, <1>3, <1>5, <2>1
  <2>2. CASE store' = [z EXCEPT !.epoch = n, !.paused = FALSE]
    <3>1. \A e : /\ DOMAIN [z EXCEPT !.epoch = e, !.paused = FALSE] = DOMAIN z
                 /\ [z EXCEPT !.epoch = e, !.paused = FALSE].paused = FALSE
      BY <1>5 DEF Shape, Fields
    <3>2. store'.paused \in BOOLEAN /\ Shape(store')
      BY <1>5, <2>2, <3>1 DEF Shape
    <3>3. \A e : LET y == [z EXCEPT !.epoch = e, !.paused = FALSE] IN
                 /\ y.state = z.state /\ y.ids = z.ids /\ y.latest = z.latest /\ y.compound = z.compound
                 /\ y.owned = z.owned /\ y.active = z.active /\ y.stopping = z.stopping
                 /\ y.pstopping = z.pstopping /\ y.restarting = z.restarting
      BY <1>5 DEF Shape, Fields
    <3> QED BY <1>3, <2>2, <3>2, <3>3
  <2> QED BY <1>4, <2>1, <2>2
<1>7. Typed(store') /\ Retention(store')
  <2>1. Typed(store')
    BY <1>3, <1>6 DEF Kept, Typed
  <2>2. Retention(store')
    BY <1>3, <1>6 DEF Kept, Retention, Of
  <2> QED BY <2>1, <2>2
<1>8. CompoundsKept(store')
  BY <1>3, <1>6, RecordsStay DEF Kept
<1>9. Current(store') /\ ActiveKept(store')
  BY <1>3, <1>6 DEF Kept, Current, ActiveKept
<1>10. Settled(store, store') /\ FlagsOf(store', calls')
  BY <1>3, <1>6 DEF Settled, FlagsOf
<1> QED BY <1>1, <1>7, <1>8, <1>9, <1>10 DEF Kept

\* The executor starts a run whose events are all to come.
LEMMA LaunchKeeps ==
  ASSUME RunsInv, NEW i \in RunIds, R!Launch(i)
  PROVE  RunsInv' /\ store' = store
<1>1. /\ i \notin launched /\ launched' = launched \cup {i} /\ todo' = [todo EXCEPT ![i] = R!Script(i)]
      /\ store' = store /\ pending' = pending /\ calls' = calls /\ archived' = archived
      /\ ended' = ended /\ Halted' = Halted /\ halted' = halted
  BY DEF R!Launch, Halted
<1>2. History
  BY DEF RunsInv
<1>3. /\ R!IsCompound(i) => "running" \in R!Script(i) /\ "ended" \in R!Script(i)
      /\ ~R!IsCompound(i) => "done" \in R!Script(i)
  BY DEF R!Script
<1>4. ASSUME NEW j \in RunIds \ Halted PROVE Archived(j)'
  <2>1. IF R!IsCompound(j) THEN CompoundArchived(j, store.compound[ProfileOf[j]]) ELSE OrdinaryArchived(j)
    BY <1>2 DEF History, Archived
  <2>2. CASE j = i
    <3>1. \A e : Waits(i, e)
      BY <1>1 DEF Waits
    <3>2. todo'[i] = R!Script(i)
      BY <1>1, <1>2 DEF History
    <3>3. CASE R!IsCompound(i)
      BY <1>1, <1>3, <2>1, <2>2, <3>1, <3>2, <3>3 DEF CompoundArchived, Waits, Archived
    <3>4. CASE ~R!IsCompound(i)
      BY <1>1, <1>3, <2>1, <2>2, <3>1, <3>2, <3>4 DEF OrdinaryArchived, Waits, Archived
    <3> QED BY <3>3, <3>4
  <2>3. CASE j # i
    <3>1. todo'[j] = todo[j] /\ (j \in launched' <=> j \in launched)
      BY <1>1, <1>2, <2>3 DEF History
    <3> QED BY <1>1, <2>1, <3>1 DEF CompoundArchived, OrdinaryArchived, Waits, Archived
  <2> QED BY <2>2, <2>3
<1>5. ASSUME NEW j \in RunIds PROVE ToldLast(j)' /\ (todo'[j] # {} => j \in launched')
  <2>1. ToldLast(j) /\ (todo[j] # {} => j \in launched) /\ DOMAIN todo = RunIds
    BY <1>2 DEF History
  <2>2. todo'[j] = IF j = i THEN R!Script(i) ELSE todo[j]
    BY <1>1, <2>1
  <2> QED BY <1>1, <1>3, <2>1, <2>2 DEF ToldLast
<1>8. \A j \in RunIds : j \in Halted' \/ j \notin ended' => archived'[j] = 0
  BY <1>1, <1>2 DEF History
<1>6. History'
  BY <1>1, <1>2, <1>4, <1>5, <1>8 DEF History
<1>7. Kept(store') /\ FlagsOf(store', calls')
  BY <1>1 DEF RunsInv
<1> QED BY <1>1, <1>6, <1>7 DEF RunsInv

\* No output of a live run goes but with its workspace.
LEMMA GoesStays ==
  ASSUME Goes(store, store') \/ store'.state = store.state \/ load \in {"draining", "loading"}
  PROVE  R!LiveStays
  BY DEF Goes, R!LiveStays, R!Live

\* What leaves the history alone.
LEMMA QuietKeeps ==
  ASSUME History, Kept(store), Settled(store, store'), archived' = archived, launched' = launched,
         todo' = todo, pending' = pending \/ (pending' = {} /\ store'.paused), ended' = ended,
         DOMAIN halted' = DOMAIN halted,
         halted' = halted \/ Halted' = Halted \cup (launched \ ended)
  PROVE  History'
<1>1. DOMAIN todo' = RunIds /\ \A i \in RunIds : todo'[i] \subseteq todo[i] /\ todo[i] \ todo'[i] \subseteq {"part"}
  BY DEF History
<1>2. Halted \subseteq Halted' /\ Halted' \subseteq Halted \cup (launched \ ended)
  BY DEF Halted
<1> QED BY <1>1, <1>2, HistoryStays

\* A drain takes the runs that have not ended.
LEMMA DrainHalts ==
  ASSUME History, halted' = R!Drained \/ halted' = [R!Drained EXCEPT !.shut = TRUE]
  PROVE  Halted' = Halted \cup (launched \ ended) /\ DOMAIN halted' = DOMAIN halted
<1>1. DOMAIN halted = {"runs", "shut"}
  BY DEF History
<1> QED BY <1>1 DEF R!Drained, Halted

LEMMA GestureKeeps ==
  ASSUME RunsInv, NEW i,
         (i \in RunIds /\ R!ClearRunOutput(i)) \/ R!ClearAllRunOutputs \/ R!SetActiveRunOutput(i)
  PROVE  RunsInv' /\ R!LiveStays
<1>1. Kept(store) /\ History /\ FlagsOf(store, calls)
  BY DEF RunsInv
<1>2. Kept(store') /\ Goes(store, store') /\ Settled(store, store')
  BY <1>1, ClearRunKeeps, ClearAllKeeps, SelectKeeps
<1>3. /\ archived' = archived /\ launched' = launched /\ todo' = todo /\ pending' = pending
      /\ calls' = calls /\ ended' = ended /\ halted' = halted
  BY DEF R!ClearRunOutput, R!ClearAllRunOutputs, R!SetActiveRunOutput, R!ClearGesture, R!Env
<1>4. History'
  BY <1>1, <1>2, <1>3, QuietKeeps
<1>5. FlagsOf(store', calls')
  BY <1>1, <1>2, <1>3 DEF FlagsOf, Goes
<1> QED BY <1>2, <1>4, <1>5, GoesStays DEF RunsInv

LEMMA RequestKeeps ==
  ASSUME RunsInv, NEW p, NEW k \in {"stop", "restart"}, NEW r,
         \/ R!RunControl(p, k) \/ R!ControlAnswered(r) \/ R!PauseRunEvents
         \/ R!ResetWorkspaceRunState \/ R!SetRunProfilesSnapshot \/ R!SetProfilesError
  PROVE  RunsInv' /\ R!LiveStays
<1>1. Kept(store) /\ History /\ FlagsOf(store, calls)
  BY DEF RunsInv
<1>2. /\ Kept(store') /\ Settled(store, store') /\ FlagsOf(store', calls')
      /\ store'.state = store.state \/ load \in {"draining", "loading"}
  BY <1>1, AsksKeep, AnswerKeeps, PauseKeeps, WorkspaceKeeps
<1>3. /\ archived' = archived /\ launched' = launched /\ todo' = todo
      /\ pending' = pending \/ (pending' = {} /\ R!PauseRunEvents)
      /\ ended' = ended /\ (halted' = halted \/ halted' = R!Drained)
  BY DEF R!RunControl, R!ControlAnswered, R!PauseRunEvents, R!ResetWorkspaceRunState,
         R!SetRunProfilesSnapshot, R!SetProfilesError, R!Runs0, R!EpochTaken
<1>6. (halted' = halted \/ Halted' = Halted \cup (launched \ ended)) /\ DOMAIN halted' = DOMAIN halted
  BY <1>1, <1>3, DrainHalts
<1>4. R!PauseRunEvents => store'.paused
  BY <1>1, PauseKeeps
<1>5. History'
  BY <1>1, <1>2, <1>3, <1>4, <1>6, QuietKeeps
<1> QED BY <1>2, <1>5, GoesStays DEF RunsInv

LEMMA EventKeeps ==
  ASSUME RunsInv, NEW i \in RunIds,
         \/ \E e \in {"running", "done"} : R!OnStatus(i, e)
         \/ R!OnOutput(i)
         \/ R!IsCompound(i) /\ \E e \in {"began", "ended"} : R!OnSnapshot(i, e)
  PROVE  RunsInv' /\ R!LiveStays
<1>1. Kept(store) /\ History /\ FlagsOf(store, calls)
  BY DEF RunsInv
<1>2. Kept(store') /\ Goes(store, store') /\ History'
  BY <1>1, StatusEvent, OutputEvent, SnapshotEvent
<1>3. calls' = calls
  BY DEF R!OnStatus, R!OnOutput, R!OnSnapshot, R!Env
<1>4. FlagsOf(store', calls')
  BY <1>1, <1>2, <1>3 DEF FlagsOf, Goes
<1> QED BY <1>2, <1>4, GoesStays DEF RunsInv

LEMMA RunsRest ==
  ASSUME RunsInv, UNCHANGED <<store, pending, todo, launched, halted, calls, archived>>, ended \subseteq ended'
  PROVE  RunsInv'
<1>1. Kept(store') /\ FlagsOf(store', calls')
  BY DEF RunsInv
<1>2. History'
  <2>1. \A i \in RunIds \ Halted' : Archived(i)'
    BY DEF RunsInv, History, Halted, Archived, CompoundArchived, OrdinaryArchived, Waits
  <2>2. \A i \in RunIds : i \in Halted' \/ i \notin ended' => archived'[i] = 0
    BY DEF RunsInv, History, Halted
  <2> QED BY <2>1, <2>2 DEF RunsInv, History, ToldLast
<1> QED BY <1>1, <1>2 DEF RunsInv

LEMMA ShutdownKeeps == ASSUME RunsInv, R!BeginRunShutdown PROVE RunsInv' /\ R!LiveStays
<1>1. Kept(store) /\ History /\ FlagsOf(store, calls)
  BY DEF RunsInv
<1>2. /\ UNCHANGED <<store, pending, todo, launched, ended, calls, archived>>
      /\ halted' = [R!Drained EXCEPT !.shut = TRUE]
  BY DEF R!BeginRunShutdown
<1>3. Settled(store, store') /\ Kept(store') /\ FlagsOf(store', calls')
  BY <1>1, <1>2 DEF Settled, SameRecord
<1>4. History'
  BY <1>1, <1>2, <1>3, DrainHalts, QuietKeeps
<1> QED BY <1>2, <1>3, <1>4, GoesStays DEF RunsInv

LEMMA RunsStep == ASSUME RunsInv, R!Next PROVE RunsInv' /\ R!LiveStays
<1>1. ASSUME NEW i \in RunIds, R!Launch(i) PROVE RunsInv' /\ R!LiveStays
  BY <1>1, LaunchKeeps, GoesStays
<1>2. ASSUME NEW i \in RunIds, R!End(i) PROVE RunsInv' /\ R!LiveStays
  BY <1>2, RunsRest, GoesStays DEF R!End
<1>3. ASSUME NEW i \in RunIds, R!ClearRunOutput(i) PROVE RunsInv' /\ R!LiveStays
  BY <1>3, GestureKeeps
<1>4. ASSUME NEW i, R!ClearAllRunOutputs \/ R!SetActiveRunOutput(i) PROVE RunsInv' /\ R!LiveStays
  BY <1>4, GestureKeeps
<1>5. ASSUME NEW p, NEW k \in {"stop", "restart"}, R!RunControl(p, k) PROVE RunsInv' /\ R!LiveStays
  BY <1>5, RequestKeeps
<1>6. ASSUME NEW r, \/ R!ControlAnswered(r) \/ R!PauseRunEvents \/ R!ResetWorkspaceRunState
                    \/ R!SetRunProfilesSnapshot \/ R!SetProfilesError
      PROVE  RunsInv' /\ R!LiveStays
  BY <1>6, RequestKeeps
<1>7. ASSUME NEW i \in RunIds,
             \/ \E e \in {"running", "done"} : R!OnStatus(i, e)
             \/ R!OnOutput(i)
             \/ R!IsCompound(i) /\ \E e \in {"began", "ended"} : R!OnSnapshot(i, e)
      PROVE  RunsInv' /\ R!LiveStays
  BY <1>7, EventKeeps
<1>8. ASSUME R!BeginRunShutdown PROVE RunsInv' /\ R!LiveStays
  BY <1>8, ShutdownKeeps
<1> QED BY <1>1, <1>2, <1>3, <1>4, <1>5, <1>6, <1>7, <1>8 DEF R!Next

LEMMA RunsStart == ASSUME R!Init PROVE RunsInv
<1>1. /\ Shape(store) /\ store.state = [i \in RunIds |-> "none"] /\ store.ids = {} /\ store.owned = {}
      /\ store.latest = [p \in RunProfiles |-> NoRunId] /\ store.active = NoRunId /\ store.paused = FALSE
      /\ store.compound = [c \in RunCompounds |-> R!NoCompound]
      /\ store.stopping = {} /\ store.restarting = {} /\ store.pstopping = {}
      /\ pending = {} /\ todo = [i \in RunIds |-> {}] /\ launched = {} /\ archived = [i \in RunIds |-> 0]
      /\ halted = [runs |-> {}, shut |-> FALSE]
  BY DEF R!Init, Shape, Fields
<1>2. R!NoCompound \in Records /\ R!NoCompound.run = NoRunId /\ R!NoCompound.state = "none"
      /\ R!NoCompound.tail = NoRunId /\ Done(R!NoCompound) = {}
  BY DEF R!NoCompound, Records, Phases, Done
<1>3. Typed(store)
  <2>1. store.paused \in BOOLEAN
    BY <1>1
  <2>2. store.ids = {i \in RunIds : store.state[i] # "none"}
    BY <1>1
  <2> QED BY <1>1, <1>2, <2>1, <2>2 DEF Typed, R!RunStates
<1>4. Retention(store)
  <2>1. \A p : Of(store, p) = {}
    BY <1>1 DEF Of
  <2>2. IsFiniteSet({}) /\ Cardinality({}) = 0 /\ 0 <= MaxRetained
    BY RunOf, FS_EmptySet
  <2> QED BY <2>1, <2>2 DEF Retention
<1>5. CompoundsKept(store)
  BY <1>1, <1>2 DEF CompoundsKept, RecordKept
<1>6. Current(store) /\ ActiveKept(store) /\ FlagsOf(store, calls)
  BY <1>1 DEF Current, ActiveKept, FlagsOf
<1>7. ASSUME NEW i \in RunIds, R!IsCompound(i) PROVE CompoundArchived(i, store.compound[ProfileOf[i]])
  <2>1. store.compound[ProfileOf[i]].run = NoRunId /\ i # NoRunId
    BY <1>1, <1>2, <1>7, RunOf DEF R!IsCompound
  <2> QED BY <1>1, <2>1, RunOf DEF CompoundArchived
<1>8. History
  BY <1>1, <1>7 DEF History, Archived, OrdinaryArchived, ToldLast
<1> QED BY <1>3, <1>4, <1>5, <1>6, <1>8 DEF Kept, RunsInv

LEMMA RunsHoldAlways == StoreSpec => []RunsHold
<1>1. StoreInit => RunsHold
  BY RunsStart DEF StoreInit, RunsHold
<1>2. RunsHold /\ [StoreNext]_storeVars => RunsHold'
  <2> SUFFICES ASSUME RunsHold, [StoreNext]_storeVars, part' = "runs" PROVE RunsInv'
    BY DEF RunsHold
  <2>1. CASE RStep
    BY <2>1, RunsStep DEF RStep, RunsHold
  <2>2. CASE UNCHANGED storeVars
    BY <2>2, RunsRest DEF storeVars, RunsHold
  <2>3. part' = part
    BY DEF StoreNext, RStep, FStep, PStep, LStep, RRest, FRest, PRest, LRest, storeVars
  <2> QED BY <2>1, <2>2, <2>3 DEF StoreNext, FStep, PStep, LStep
<1> QED BY <1>1, <1>2, PTL DEF StoreSpec

LEMMA RunsEnough == ASSUME RunsHold PROVE RunsSound
<1> SUFFICES ASSUME RunsInv
             PROVE  /\ R!EpochClean /\ R!ActiveRetained
                    /\ R!ArchivedOnce /\ R!TailOwned /\ R!FlagsHaveCall
  BY DEF RunsHold, RunsSound
<1>1. R!EpochClean /\ R!ActiveRetained
  BY DEF RunsInv, Kept, Current, ActiveKept, R!EpochClean, R!ActiveRetained
<1>2. R!TailOwned
  BY DEF RunsInv, Kept, CompoundsKept, RecordKept, R!TailOwned
<1>3. R!FlagsHaveCall
  BY DEF RunsInv, FlagsOf, R!FlagsHaveCall
<1>4. R!ArchivedOnce
  <2>0. \A i \in RunIds : R!IsAdministrativeStop(i) <=> i \in Halted
    BY DEF R!IsAdministrativeStop, Halted
  <2>3. \A i \in Halted \cap RunIds : archived[i] = 0
    BY DEF RunsInv, History
  <2>1. ASSUME NEW i \in RunIds \ Halted, ~R!IsCompound(i)
        PROVE  archived[i] <= 1 /\ (store.state[i] = "done" => archived[i] = 1)
    BY <2>1 DEF RunsInv, History, Archived, OrdinaryArchived
  <2>2. ASSUME NEW i \in RunIds \ Halted, R!IsCompound(i)
        PROVE  LET m == store.compound[ProfileOf[i]] IN
               /\ archived[i] <= 1 + Cardinality(RunSteps)
               /\ m.run = i /\ m.state = "done" /\ todo[i] = {} /\ ~store.paused
                    => archived[i] = 1 + Cardinality(RunSteps)
    <3> DEFINE m == store.compound[ProfileOf[i]]
    <3>1. CompoundArchived(i, m)
      BY <2>2 DEF RunsInv, History, Archived
    <3> HIDE DEF m
    <3>2. archived[i] <= 1 + Cardinality(RunSteps)
      BY <3>1, RunOf DEF CompoundArchived
    <3>3. ASSUME m.run = i, m.state = "done", todo[i] = {}, ~store.paused PROVE archived[i] = 1 + Cardinality(RunSteps)
      <4>1. Done(m) = RunSteps /\ archived[i] = Told(m)
        BY <3>1, <3>3 DEF CompoundArchived
      <4> QED BY <3>3, <4>1 DEF Told
    <3> QED BY <3>2, <3>3 DEF m
  <2> QED BY <2>0, <2>1, <2>2, <2>3, Counts DEF R!ArchivedOnce
<1> QED BY <1>1, <1>2, <1>3, <1>4

(*****************************************************************************)
(* Nothing of a superseded workspace is shown, the selected output exists,   *)
(* each ending is given to the history once, half a line is completed by its *)
(* own run, and a spinner turns only while a request is unanswered.          *)
(*****************************************************************************)
THEOREM RunsSoundAlways == StoreSpec => []RunsSound
  BY RunsHoldAlways, RunsEnough, PTL

HIDE RunsAssumed DEF R!RunAssumption

-----------------------------------------------------------------------------
(* The configuration of Golem.                                              *)

Items == ConfigRows \cup ConfigKeys
Sources == ConfigProfiles \cup {"applied", "blank"}
Challenges == {"none", "settings", "grants"}
Drafts == [source : Sources, changes : SUBSET Items, review : SUBSET Items, target : Nat,
           drops : BOOLEAN]
Outcomes == [challenge : Challenges, drops : BOOLEAN,
             conflict : {"none", "target", "profile_source", "challenge"}, busy : BOOLEAN,
             unknown : BOOLEAN]
Reloads == [gen : Nat, kind : {"reload"}, clears : BOOLEAN]
Adoptions == [gen : Nat, kind : {"profile"}, profile : ConfigProfiles, keep : BOOLEAN,
              source : Sources, preview : Sources \cup {"none"}]
Aims == {a \in [then : {"none", "refresh", "blank", "source", "discard", "reload", "close", "quit",
                        "cancelled", "dismiss"}, arg : Sources \cup {"none"}] :
           /\ a.then = "source" => a.arg \in Sources \ {"blank"}
           /\ a.then = "none" => a.arg = "none"}
Aimed(then, arg) == [then |-> then, arg |-> arg] \in Aims /\ then # "none"

DraftTyped ==
  draft \in Drafts /\ vault \in SUBSET ConfigKeys /\ preview \in Sources \cup {"none"} /\ editors \in BOOLEAN
LoadsTyped ==
  /\ phase \in {"loading", "ready", "error"} /\ gen \in Nat /\ loads \subseteq Reloads \cup Adoptions
  /\ inFlight \in BOOLEAN /\ sourceLoading \in BOOLEAN
BackendTyped ==
  /\ outcome \in Outcomes /\ disk \in Nat /\ unsure \in BOOLEAN
  /\ token \subseteq {"settings", "grants", "lost"}
CallTyped ==
  /\ closing \in {"no", "torn", "revived", "closed"} /\ prompt \in Aims
  /\ call.kind = "cancel" => Aimed(call.then, call.arg)

\* One outcome at a time.
OutcomeApart ==
  /\ outcome.unknown \/ outcome.drops \/ outcome.conflict # "none"
       => outcome.challenge = "none" /\ ~outcome.busy
  /\ outcome.unknown => ~outcome.drops /\ outcome.conflict = "none"

\* One load is fresh at most, and the flags tell of it.
LoadsFresh ==
  /\ \A l \in loads : l.gen <= gen
  /\ \A l \in loads : l.gen = gen => IF l.kind = "reload" THEN inFlight ELSE sourceLoading
  /\ \A l, m \in loads : l.gen = gen /\ m.gen = gen => l = m

\* What a load will bring back was shown with its source.
Shows(p, s) == p = IF s = "applied" THEN "none" ELSE s
LoadsShow == closing = "no" => /\ Shows(preview, draft.source)
                               /\ \A l \in loads : l.kind = "profile" => Shows(l.preview, l.source)

\* While something loads, and before the first document, no request is held or under way.
LoadsAlone ==
  /\ inFlight \/ sourceLoading \/ phase # "ready"
       => outcome.challenge = "none" /\ ~outcome.busy /\ call = P!NoCall
  /\ prompt # P!NoPrompt => call = P!NoCall

\* A request that is held, or under way, is the draft on screen, and says something.
Requested == outcome.challenge = "settings" \/ outcome.busy \/ P!Writing
RequestHeld == Requested => pending = P!Request(draft, vault) /\ P!IsDirty(draft)

\* The backend honours the challenge that the surface shows and one that a lost answer left.
TokenShown == token \subseteq {outcome.challenge, "lost"}

\* Nothing goes on while an outcome is unknown, and it is while a write is unsure.
UnknownHolds ==
  /\ outcome.unknown => /\ call = P!NoCall /\ ~sourceLoading
                        /\ prompt.then \in {"none", "close", "quit"}
  /\ closing = "no" /\ unsure => outcome.unknown

ConfigInv == /\ DraftTyped /\ LoadsTyped /\ BackendTyped /\ CallTyped /\ OutcomeApart /\ LoadsFresh
             /\ LoadsShow /\ LoadsAlone /\ RequestHeld /\ TokenShown /\ UnknownHolds /\ P!KeysOwned
ConfigHold == part = "config" => ConfigInv
LEMMA DraftTypes ==
  ASSUME NEW d \in Drafts
  PROVE  /\ \A i \in Items : P!Staged(d, i) \in Drafts /\ P!Unstaged(d, i) \in Drafts
         /\ \A r \in BOOLEAN : P!RetainNonKeyChanges(d, r) \in Drafts
         /\ \A s \in Sources : [d EXCEPT !.source = s] \in Drafts
         /\ \A t \in Nat : [d EXCEPT !.target = t] \in Drafts /\ P!CleanDraft(t) \in Drafts
<1>1. d = [source |-> d.source, changes |-> d.changes, review |-> d.review, target |-> d.target,
           drops |-> d.drops] /\ d.source \in Sources /\ d.changes \subseteq Items
           /\ d.review \subseteq Items /\ d.target \in Nat /\ d.drops \in BOOLEAN
  BY DEF Drafts
<1>2. \A i \in Items : P!Staged(d, i) \in Drafts /\ P!Unstaged(d, i) \in Drafts
  <2> SUFFICES ASSUME NEW i \in Items PROVE P!Staged(d, i) \in Drafts /\ P!Unstaged(d, i) \in Drafts
    OBVIOUS
  <2>1. d.changes \cup {i} \subseteq Items /\ d.changes \ {i} \subseteq Items /\ d.review \ {i} \subseteq Items
    BY <1>1
  <2> QED BY <1>1, <2>1 DEF P!Staged, P!Unstaged, Drafts
<1>3. \A r \in BOOLEAN : P!RetainNonKeyChanges(d, r) \in Drafts
  <2>1. d.changes \cap ConfigRows \subseteq Items /\ d.review \cap ConfigRows \subseteq Items
    BY <1>1
  <2> QED BY <1>1, <2>1 DEF P!RetainNonKeyChanges, Drafts
<1>4. \A s \in Sources : [d EXCEPT !.source = s] \in Drafts
  BY <1>1 DEF Drafts
<1>5. \A t \in Nat : [d EXCEPT !.target = t] \in Drafts /\ P!CleanDraft(t) \in Drafts
  <2>1. {} \subseteq Items /\ "applied" \in Sources
    BY DEF Sources
  <2> QED BY <1>1, <2>1 DEF P!CleanDraft, Drafts
<1> QED BY <1>2, <1>3, <1>4, <1>5

LEMMA OutcomeTypes ==
  /\ P!NoOutcome \in Outcomes
  /\ \A c \in Challenges : [P!NoOutcome EXCEPT !.challenge = c] \in Outcomes
  /\ \A c \in Challenges : [P!NoOutcome EXCEPT !.busy = TRUE, !.challenge = c] \in Outcomes
  /\ [P!NoOutcome EXCEPT !.drops = TRUE] \in Outcomes
  /\ [P!NoOutcome EXCEPT !.unknown = TRUE] \in Outcomes
  /\ \A k \in {"target", "profile_source", "challenge"} : [P!NoOutcome EXCEPT !.conflict = k] \in Outcomes
  BY DEF P!NoOutcome, Outcomes, Challenges

\* What settles, or holds, leaves the loads to run out.
LEMMA Settles ==
  ASSUME LoadsTyped, NEW d, NEW out, P!Settle(d, out) \/ P!Hold(out), phase' = phase
  PROVE  LoadsTyped'
<1>1. gen' = gen + 1 /\ gen' \in Nat
  BY DEF P!Settle, P!Hold, LoadsTyped
<1> QED BY <1>1 DEF P!Settle, P!Hold, LoadsTyped

\* One more of what was not there is one more load.
LEMMA LoadMade ==
  ASSUME LoadsTyped, NEW n \in {1, 2}
  PROVE  /\ gen + n \in Nat
         /\ \A b \in BOOLEAN : [gen |-> gen + n, kind |-> "reload", clears |-> b] \in Reloads
         /\ \A p \in ConfigProfiles, k \in BOOLEAN, s \in Sources, v \in Sources \cup {"none"} :
              [gen |-> gen + n, kind |-> "profile", profile |-> p, keep |-> k, source |-> s, preview |-> v]
                \in Adoptions
<1>1. gen + n \in Nat
  BY DEF LoadsTyped
<1> QED BY <1>1 DEF Reloads, Adoptions

\* A profile that is adopted is the one fresh load.
LEMMA Adopted ==
  ASSUME LoadsTyped, LoadsFresh, DraftTyped, NEW p \in ConfigProfiles, NEW k \in BOOLEAN, NEW n \in {1, 2},
         P!AdoptProfile(p, k, gen + n, draft), phase' = phase
  PROVE  LoadsTyped' /\ LoadsFresh'
<1>1. draft.source \in Sources /\ preview \in Sources \cup {"none"}
  BY DEF DraftTyped, Drafts
<1>2. gen' \in Nat /\ loads' \subseteq Reloads \cup Adoptions
  BY <1>1, LoadMade DEF P!AdoptProfile, LoadsTyped
<1>3. gen' > gen /\ \A l \in loads : l.gen < gen'
  BY DEF P!AdoptProfile, LoadsTyped, LoadsFresh, Reloads, Adoptions
<1>4. \A l \in loads' : l \in loads \/ (l.gen = gen' /\ l.kind = "profile")
  BY DEF P!AdoptProfile
<1>5. \A l, m \in loads' \ loads : l = m
  BY DEF P!AdoptProfile
<1>6. sourceLoading' = TRUE
  BY DEF P!AdoptProfile
<1>7. \A l \in loads' : l.gen <= gen'
  BY <1>2, <1>3, <1>4 DEF LoadsTyped, Reloads, Adoptions
<1>8. \A l \in loads' : l.gen = gen' => l \notin loads /\ l.kind = "profile"
  BY <1>3, <1>4 DEF LoadsTyped, Reloads, Adoptions
<1> QED BY <1>2, <1>5, <1>6, <1>7, <1>8 DEF P!AdoptProfile, LoadsTyped, LoadsFresh

\* Of the challenges a call was about, none is left but one whose answer was lost.
LEMMA UsedUp == P!Used \subseteq {"lost"}
  BY DEF P!Used

USE ConfigAssumed DEF P!ConfigAssumption, P!Has, P!Spend, P!Shown, P!Open, P!Alive, P!Idle, P!Locked,
  P!Send, P!Backend, P!Drafting, P!Loading, P!Writing, P!Sending, P!NoCall, P!NoRequest, P!NoPrompt

\* A load that is started is the one fresh load.
LEMMA Started ==
  ASSUME LoadsTyped, LoadsFresh, NEW n \in {1, 2}, P!StartLoad(gen + n), phase' = phase
  PROVE  LoadsTyped' /\ LoadsFresh'
<1>1. gen' \in Nat /\ loads' \subseteq Reloads \cup Adoptions
  BY LoadMade DEF P!StartLoad, LoadsTyped
<1>2. gen' > gen /\ \A l \in loads : l.gen < gen'
  BY DEF P!StartLoad, LoadsTyped, LoadsFresh, Reloads, Adoptions
<1>3. \A l \in loads' : l \in loads \/ (l.gen = gen' /\ l.kind = "reload")
  BY DEF P!StartLoad
<1>4. (\A l, m \in loads' \ loads : l = m) /\ inFlight' = TRUE
  BY DEF P!StartLoad
<1>5. \A l \in loads' : l.gen <= gen'
  BY <1>1, <1>2, <1>3 DEF LoadsTyped, Reloads, Adoptions
<1>6. \A l \in loads' : l.gen = gen' => l \notin loads /\ l.kind = "reload"
  BY <1>2, <1>3 DEF LoadsTyped, Reloads, Adoptions
<1> QED BY <1>1, <1>4, <1>5, <1>6 DEF P!StartLoad, LoadsTyped, LoadsFresh

\* Without an outcome, a call or a challenge the surface holds nothing.
LEMMA Rested ==
  ASSUME ConfigInv, outcome' = P!NoOutcome, call' = P!NoCall, token' \subseteq {"lost"}, prompt' \in Aims,
         closing' \in {"no", "torn", "revived", "closed"},
         closing' = "no" => closing = "no" /\ ~outcome.unknown,
         UNCHANGED <<phase, disk, unsure>>
  PROVE  /\ BackendTyped' /\ CallTyped' /\ OutcomeApart' /\ LoadsAlone' /\ RequestHeld'
         /\ TokenShown' /\ UnknownHolds'
<1>1. BackendTyped'
  BY OutcomeTypes DEF ConfigInv, BackendTyped, Challenges
<1>2. CallTyped'
  BY DEF CallTyped
<1>3. OutcomeApart' /\ LoadsAlone' /\ RequestHeld' /\ TokenShown'
  BY DEF P!NoOutcome, OutcomeApart, LoadsAlone, RequestHeld, Requested, TokenShown
<1>4. UnknownHolds'
  BY DEF ConfigInv, UnknownHolds, P!NoOutcome
<1> QED BY <1>1, <1>2, <1>3, <1>4

\* A transition takes the draft away, or keeps what is not a key, with nothing held.
LEMMA ProceedKeeps ==
  ASSUME ConfigInv, NEW then, NEW arg, Aimed(then, arg), P!Proceed(then, arg),
         call' = P!NoCall, token' \subseteq {"lost"}, prompt' \in Aims, UNCHANGED <<phase, disk, unsure>>,
         then \notin {"close", "quit"} => ~outcome.unknown
  PROVE  ConfigInv'
<1>1. /\ then \in {"refresh", "blank", "source", "discard", "reload", "close", "quit", "cancelled",
                   "dismiss"}
      /\ then = "source" => arg \in Sources \ {"blank"}
  BY DEF Aimed, Aims
<1>2. /\ outcome' = P!NoOutcome
      /\ closing' = IF then = "close" THEN "closed" ELSE IF then = "quit" THEN "torn" ELSE closing
  BY <1>1 DEF P!Proceed, P!Settle
<1>3. /\ BackendTyped' /\ CallTyped' /\ OutcomeApart' /\ LoadsAlone' /\ RequestHeld'
      /\ TokenShown' /\ UnknownHolds'
  <2>1. closing' \in {"no", "torn", "revived", "closed"} /\ (closing' = "no" => closing = "no" /\ ~outcome.unknown)
    BY <1>1, <1>2 DEF ConfigInv, CallTyped
  <2> QED BY <1>2, <2>1, Rested
<1>4. draft.target \in Nat /\ draft.changes \subseteq Items /\ draft.source \in Sources
  BY DEF ConfigInv, DraftTyped, Drafts
<1>5. P!CleanDraft(draft.target) \in Drafts /\ P!CleanDraft(draft.target).source = "applied"
      /\ P!CleanDraft(draft.target).changes = {}
  BY <1>4, DraftTypes DEF ConfigInv, DraftTyped, P!CleanDraft
<1>6. CASE then \in {"refresh", "reload"}
  <2>1. /\ draft' = P!CleanDraft(draft.target) /\ vault' = {} /\ preview' = "none" /\ editors' = FALSE
        /\ P!StartLoad(gen + 2)
    BY <1>6 DEF P!Proceed, P!Discarded
  <2>2. LoadsTyped' /\ LoadsFresh'
    BY <2>1, Started DEF ConfigInv
  <2>3. DraftTyped' /\ P!KeysOwned'
    BY <1>5, <2>1 DEF DraftTyped, P!KeysOwned
  <2>4. LoadsShow'
    BY <1>2, <1>5, <1>6, <2>1 DEF ConfigInv, LoadsShow, Shows, P!StartLoad
  <2> QED BY <1>3, <2>2, <2>3, <2>4 DEF ConfigInv
<1>7. CASE then = "source" /\ arg # "applied"
  <2>1. /\ draft' = P!CleanDraft(draft.target) /\ vault' = {} /\ preview' = "none" /\ editors' = FALSE
        /\ P!AdoptProfile(arg, FALSE, gen + 2, draft) /\ arg \in ConfigProfiles
    BY <1>1, <1>7 DEF P!Proceed, P!Discarded, Sources
  <2>2. LoadsTyped' /\ LoadsFresh'
    BY <2>1, Adopted DEF ConfigInv
  <2>3. DraftTyped' /\ P!KeysOwned'
    BY <1>5, <2>1 DEF DraftTyped, P!KeysOwned
  <2>4. LoadsShow'
    BY <1>2, <1>5, <1>7, <2>1 DEF ConfigInv, LoadsShow, Shows, P!AdoptProfile
  <2> QED BY <1>3, <2>2, <2>3, <2>4 DEF ConfigInv
<1>8. CASE then = "dismiss"
  <2>1. UNCHANGED <<draft, vault, preview, editors, gen, loads, inFlight, sourceLoading, closing>>
    BY <1>8 DEF P!Proceed
  <2>2. DraftTyped' /\ LoadsTyped' /\ LoadsFresh' /\ LoadsShow' /\ P!KeysOwned'
    BY <2>1 DEF ConfigInv, DraftTyped, LoadsTyped, LoadsFresh, LoadsShow, P!KeysOwned
  <2> QED BY <1>3, <2>2 DEF ConfigInv
<1>9. CASE then \in {"blank", "discard", "close", "quit", "cancelled"} \/ (then = "source" /\ arg = "applied")
  <2>1. PICK d \in Drafts :
          /\ P!Settle(d, P!NoOutcome) /\ d.changes \cap ConfigKeys = {}
          /\ closing' = "no" => Shows(preview', d.source)
          /\ preview' \in {"none", "blank", preview}
    <3>1. CASE then = "blank"
      <4>1. [P!CleanDraft(draft.target) EXCEPT !.source = "blank"] \in Drafts
        BY <1>5, DraftTypes DEF Sources
      <4> QED BY <1>2, <3>1, <4>1 DEF P!Proceed, P!Discarded, P!CleanDraft, Shows
    <3>2. CASE then = "cancelled"
      <4>1. P!RetainNonKeyChanges(draft, FALSE) \in Drafts
        BY DraftTypes DEF ConfigInv, DraftTyped
      <4>2. /\ P!RetainNonKeyChanges(draft, FALSE).changes \cap ConfigKeys = {}
            /\ P!RetainNonKeyChanges(draft, FALSE).source = draft.source
        BY DEF P!RetainNonKeyChanges, ConfigInv, DraftTyped, Drafts
      <4> QED BY <1>2, <3>2, <4>1, <4>2 DEF P!Proceed, ConfigInv, LoadsShow
    <3>3. CASE then \in {"discard", "close", "quit"} \/ (then = "source" /\ arg = "applied")
      BY <1>2, <1>5, <3>3 DEF P!Proceed, P!Discarded, Shows
    <3> QED BY <1>9, <3>1, <3>2, <3>3
  <2>2. LoadsTyped'
    BY <2>1, Settles DEF ConfigInv
  <2>3. LoadsFresh'
    BY <2>1 DEF P!Settle, ConfigInv, LoadsTyped, LoadsFresh, Reloads, Adoptions
  <2>4. DraftTyped' /\ P!KeysOwned'
    BY <2>1 DEF P!Settle, DraftTyped, P!KeysOwned, ConfigInv, Sources
  <2>5. LoadsShow'
    BY <1>2, <2>1 DEF P!Settle, ConfigInv, LoadsShow
  <2> QED BY <1>3, <2>2, <2>3, <2>4, <2>5 DEF ConfigInv
<1> QED BY <1>1, <1>6, <1>7, <1>8, <1>9

LEMMA CancelThenKeeps ==
  ASSUME ConfigInv, NEW then, NEW arg, Aimed(then, arg), P!CancelThen(then, arg), call = P!NoCall,
         prompt' = P!NoPrompt, UNCHANGED <<phase, disk, unsure, token>>,
         then \notin {"close", "quit"} => ~outcome.unknown
  PROVE  ConfigInv'
<1>1. CASE P!Challenged
  <2>1. call' = [kind |-> "cancel", then |-> then, arg |-> arg] /\ prompt' \in Aims
        /\ UNCHANGED <<draft, vault, preview, editors, pending, outcome, gen, loads, inFlight, sourceLoading, closing>>
    BY <1>1 DEF P!CancelThen, Aims
  <2>2. DraftTyped' /\ LoadsTyped' /\ BackendTyped' /\ OutcomeApart' /\ LoadsFresh' /\ LoadsShow' /\ P!KeysOwned' /\ TokenShown'
    BY <2>1 DEF ConfigInv, DraftTyped, LoadsTyped, BackendTyped, OutcomeApart, LoadsFresh,
       LoadsShow, P!KeysOwned, TokenShown
  <2>3. CallTyped'
    BY <2>1 DEF Aimed, ConfigInv, CallTyped
  <2>4. RequestHeld'
    BY <2>1 DEF ConfigInv, RequestHeld, Requested
  <2>5. LoadsAlone' /\ UnknownHolds'
    BY <1>1, <2>1 DEF ConfigInv, LoadsAlone, UnknownHolds, OutcomeApart, P!Challenged
  <2> QED BY <2>2, <2>3, <2>4, <2>5 DEF ConfigInv
<1>2. CASE ~P!Challenged
  <2>1. P!Proceed(then, arg) /\ call' = P!NoCall /\ prompt' \in Aims
    BY <1>2 DEF P!CancelThen, Aims
  <2>2. token' \subseteq {"lost"}
    BY <1>2 DEF ConfigInv, BackendTyped, TokenShown, P!Challenged
  <2> QED BY <2>1, <2>2, ProceedKeeps
<1> QED BY <1>1, <1>2

LEMMA TransitionKeeps ==
  ASSUME ConfigInv, NEW then, NEW arg, Aimed(then, arg), P!Transition(then, arg), call = P!NoCall,
         UNCHANGED <<phase, disk, unsure, token>>,
         then \notin {"close", "quit"} => ~outcome.unknown
  PROVE  ConfigInv'
<1>1. CASE P!Unsaved
  <2>1. prompt' = [then |-> then, arg |-> arg] /\ prompt' \in Aims
        /\ UNCHANGED <<draft, vault, preview, editors, pending, outcome, gen, loads, inFlight, sourceLoading, call, closing>>
    BY <1>1 DEF P!Transition, Aimed
  <2>2. DraftTyped' /\ LoadsTyped' /\ BackendTyped' /\ OutcomeApart' /\ LoadsFresh' /\ LoadsShow' /\ P!KeysOwned' /\ TokenShown'
    BY <2>1 DEF ConfigInv, DraftTyped, LoadsTyped, BackendTyped, OutcomeApart, LoadsFresh,
       LoadsShow, P!KeysOwned, TokenShown
  <2>3. CallTyped' /\ RequestHeld' /\ LoadsAlone' /\ UnknownHolds'
    BY <2>1 DEF ConfigInv, CallTyped, RequestHeld, Requested, LoadsAlone, UnknownHolds
  <2> QED BY <2>2, <2>3 DEF ConfigInv
<1>2. CASE ~P!Unsaved
  <2>1. P!Proceed(then, arg) /\ call' = P!NoCall /\ prompt' \in Aims
    BY <1>2 DEF P!Transition, ConfigInv, CallTyped
  <2>2. token' \subseteq {"lost"}
    BY <1>2 DEF ConfigInv, BackendTyped, TokenShown, P!Unsaved
  <2> QED BY <2>1, <2>2, ProceedKeeps
<1> QED BY <1>1, <1>2

LEMMA RefreshKeeps ==
  ASSUME ConfigInv, P!Refresh
  PROVE  ConfigInv'
<1>1. Aimed("refresh", "none") /\ call = P!NoCall /\ ~outcome.unknown
      /\ UNCHANGED <<phase, disk, unsure, token>>
  BY DEF P!Refresh, Aimed, Aims
<1>2. CASE P!Unsaved
  BY <1>1, <1>2, TransitionKeeps DEF P!Refresh
<1>3. CASE ~P!Unsaved
  <2>1. P!StartLoad(gen + 1) /\ UNCHANGED <<draft, vault, preview, editors, pending, outcome, prompt, call, closing>>
    BY <1>3 DEF P!Refresh
  <2>2. LoadsTyped' /\ LoadsFresh'
    BY <1>1, <2>1, Started DEF ConfigInv
  <2>3. outcome.challenge = "none" /\ ~outcome.busy
    BY <1>3 DEF ConfigInv, RequestHeld, Requested, P!Unsaved
  <2>4. DraftTyped' /\ BackendTyped' /\ CallTyped' /\ OutcomeApart' /\ P!KeysOwned' /\ TokenShown'
    BY <1>1, <2>1 DEF ConfigInv, DraftTyped, BackendTyped, CallTyped, OutcomeApart, P!KeysOwned,
       TokenShown
  <2>5. LoadsShow'
    BY <2>1 DEF ConfigInv, LoadsShow, P!StartLoad
  <2>6. LoadsAlone' /\ UnknownHolds' /\ RequestHeld'
    BY <1>1, <2>1, <2>3 DEF ConfigInv, LoadsAlone, UnknownHolds, RequestHeld, Requested, P!StartLoad
  <2> QED BY <2>2, <2>4, <2>5, <2>6 DEF ConfigInv
<1> QED BY <1>2, <1>3

LEMMA SelectSourceKeeps ==
  ASSUME ConfigInv, NEW s \in Sources, P!SelectSource(s)
  PROVE  ConfigInv'
<1> DEFINE then == IF s = "blank" THEN "blank" ELSE "source"
<1>1. Aimed(then, s)
  BY DEF Aimed, Aims, Sources
<1>2. P!Transition(then, s) /\ call = P!NoCall /\ ~outcome.unknown /\ UNCHANGED <<phase, disk, unsure, token>>
  BY DEF P!SelectSource, P!SourceLocked
<1> QED BY <1>1, <1>2, TransitionKeeps

LEMMA StartFromProfileKeeps ==
  ASSUME ConfigInv, NEW p \in ConfigProfiles, P!StartFromProfile(p)
  PROVE  ConfigInv'
<1>1. Aimed("source", p)
  BY DEF Aimed, Aims, Sources
<1>2. P!Transition("source", p) /\ call = P!NoCall /\ ~outcome.unknown /\ UNCHANGED <<phase, disk, unsure, token>>
  BY DEF P!StartFromProfile, P!SourceLocked
<1> QED BY <1>1, <1>2, TransitionKeeps

LEMMA DiscardKeeps ==
  ASSUME ConfigInv, P!Discard
  PROVE  ConfigInv'
<1> DEFINE then == IF outcome.conflict = "none" THEN "discard" ELSE "reload"
<1>1. Aimed(then, "none")
  BY DEF Aimed, Aims
<1>2. P!CancelThen(then, "none") /\ call = P!NoCall /\ ~outcome.unknown /\ prompt' = P!NoPrompt
      /\ UNCHANGED <<phase, disk, unsure, token>>
  BY DEF P!Discard
<1> QED BY <1>1, <1>2, CancelThenKeeps

LEMMA AnswerPromptKeeps ==
  ASSUME ConfigInv, NEW yes \in BOOLEAN, P!AnswerPrompt(yes)
  PROVE  ConfigInv'
<1>1. call = P!NoCall /\ prompt' = P!NoPrompt /\ prompt' \in Aims /\ UNCHANGED <<phase, disk, unsure, token>>
  BY DEF P!AnswerPrompt, ConfigInv, LoadsAlone, Aims
<1>2. CASE yes
  <2>1. [then |-> prompt.then, arg |-> prompt.arg] = prompt /\ prompt \in Aims
    BY DEF ConfigInv, CallTyped, Aims
  <2>2. CASE prompt.then = "none"
    BY <2>1, <2>2 DEF Aims, P!AnswerPrompt
  <2>3. CASE prompt.then # "none"
    <3>1. Aimed(prompt.then, prompt.arg) /\ (prompt.then \notin {"close", "quit"} => ~outcome.unknown)
      BY <2>1, <2>3 DEF Aimed, ConfigInv, UnknownHolds
    <3> QED BY <1>1, <1>2, <3>1, CancelThenKeeps DEF P!AnswerPrompt
  <2> QED BY <2>2, <2>3
<1>3. CASE ~yes
  <2>1. UNCHANGED <<draft, vault, preview, editors, pending, outcome, gen, loads, inFlight, sourceLoading, call, closing>>
    BY <1>3 DEF P!AnswerPrompt
  <2>2. DraftTyped' /\ LoadsTyped' /\ BackendTyped' /\ OutcomeApart' /\ LoadsFresh' /\ LoadsShow' /\ P!KeysOwned' /\ TokenShown'
    BY <1>1, <2>1 DEF ConfigInv, DraftTyped, LoadsTyped, BackendTyped, OutcomeApart, LoadsFresh,
       LoadsShow, P!KeysOwned, TokenShown
  <2>3. CallTyped' /\ RequestHeld' /\ LoadsAlone' /\ UnknownHolds'
    BY <1>1, <2>1 DEF ConfigInv, CallTyped, RequestHeld, Requested, LoadsAlone, UnknownHolds
  <2> QED BY <2>2, <2>3 DEF ConfigInv
<1> QED BY <1>2, <1>3

LEMMA RequestCloseKeeps ==
  ASSUME ConfigInv, NEW t \in {"close", "quit"}, P!RequestClose(t)
  PROVE  ConfigInv'
<1>1. Aimed(t, "none") /\ call = P!NoCall /\ UNCHANGED <<phase, disk, unsure, token>>
  BY DEF P!RequestClose, Aimed, Aims
<1>2. CASE P!Transition(t, "none")
  BY <1>1, <1>2, TransitionKeeps
<1>3. CASE closing' = "torn" /\ UNCHANGED <<P!Drafting, outcome, P!Loading, prompt, call>>
  <2>1. DraftTyped' /\ LoadsTyped' /\ BackendTyped' /\ OutcomeApart' /\ LoadsFresh' /\ LoadsShow' /\ P!KeysOwned' /\ TokenShown'
    BY <1>1, <1>3 DEF ConfigInv, DraftTyped, LoadsTyped, BackendTyped, OutcomeApart, LoadsFresh,
       LoadsShow, P!KeysOwned, TokenShown
  <2>2. CallTyped' /\ RequestHeld' /\ LoadsAlone' /\ UnknownHolds'
    BY <1>1, <1>3 DEF ConfigInv, CallTyped, RequestHeld, Requested, LoadsAlone, UnknownHolds
  <2> QED BY <2>1, <2>2 DEF ConfigInv
<1> QED BY <1>2, <1>3 DEF P!RequestClose

LEMMA CancelDestinationKeeps ==
  ASSUME ConfigInv, P!CancelDestination
  PROVE  ConfigInv'
<1> DEFINE then == IF outcome.challenge = "grants" THEN "dismiss" ELSE "cancelled"
<1>1. Aimed(then, "none")
  BY DEF Aimed, Aims
<1>2. P!CancelThen(then, "none") /\ call = P!NoCall /\ ~outcome.unknown /\ prompt' = P!NoPrompt
      /\ UNCHANGED <<phase, disk, unsure, token>>
  BY DEF P!CancelDestination, P!Challenged, ConfigInv, OutcomeApart
<1> QED BY <1>1, <1>2, CancelThenKeeps

LEMMA CancelledKeeps ==
  ASSUME ConfigInv, P!Cancelled
  PROVE  ConfigInv'
<1>1. Aimed(call.then, call.arg) /\ ~outcome.unknown /\ prompt' \in Aims
  BY DEF P!Cancelled, ConfigInv, CallTyped, UnknownHolds
<1> QED BY <1>1, UsedUp, ProceedKeeps DEF P!Cancelled

LEMMA StageKeeps ==
  ASSUME ConfigInv, NEW i \in ConfigRows \cup ConfigKeys, P!Stage(i)
  PROVE  ConfigInv'
<1>1. DraftTyped'
  <2>1. i \in Items /\ {i} \cap ConfigKeys \subseteq ConfigKeys
    BY DEF Items
  <2>2. draft' \in Drafts
    BY <2>1, DraftTypes DEF P!Stage, ConfigInv, DraftTyped
  <2> QED BY <2>1, <2>2 DEF P!Stage, ConfigInv, DraftTyped
<1>2. LoadsTyped'
  BY DEF P!Stage, P!CanEdit, ConfigInv, LoadsTyped, DraftTyped, Drafts, Reloads, Adoptions
<1>3. BackendTyped'
  BY OutcomeTypes DEF P!Stage, P!CanEdit, ConfigInv, BackendTyped, Challenges, Outcomes
<1>4. CallTyped'
  BY DEF P!Stage, P!CanEdit, ConfigInv, CallTyped, Aims
<1>5. OutcomeApart' /\ LoadsFresh' /\ LoadsAlone'
  BY SMTT(20) DEF P!Stage, P!CanEdit, ConfigInv, DraftTyped, LoadsTyped, BackendTyped, CallTyped,
     OutcomeApart, LoadsFresh, LoadsShow, LoadsAlone, RequestHeld, TokenShown, UnknownHolds, P!KeysOwned, P!RetainNonKeyChanges, P!Staged, P!Unstaged, P!Request, P!IsDirty, P!CleanDraft, P!NoOutcome, Requested, Shows, Items, Sources, Challenges, Drafts, Outcomes, Reloads, Adoptions, Aims
<1>6. LoadsShow' /\ P!KeysOwned'
  BY SMTT(20) DEF P!Stage, P!CanEdit, ConfigInv, DraftTyped, LoadsTyped, BackendTyped, CallTyped,
     OutcomeApart, LoadsFresh, LoadsShow, LoadsAlone, RequestHeld, TokenShown, UnknownHolds, P!KeysOwned, P!RetainNonKeyChanges, P!Staged, P!Unstaged, P!Request, P!IsDirty, P!CleanDraft, P!NoOutcome, Requested, Shows, Items, Sources, Challenges, Drafts, Outcomes, Reloads, Adoptions, Aims
<1>7. RequestHeld' /\ TokenShown' /\ UnknownHolds'
  BY SMTT(20) DEF P!Stage, P!CanEdit, ConfigInv, DraftTyped, LoadsTyped, BackendTyped, CallTyped,
     OutcomeApart, LoadsFresh, LoadsShow, LoadsAlone, RequestHeld, TokenShown, UnknownHolds, P!KeysOwned, P!RetainNonKeyChanges, P!Staged, P!Unstaged, P!Request, P!IsDirty, P!CleanDraft, P!NoOutcome, Requested, Shows, Items, Sources, Challenges, Drafts, Outcomes, Reloads, Adoptions, Aims
<1> QED BY <1>1, <1>2, <1>3, <1>4, <1>5, <1>6, <1>7 DEF ConfigInv

LEMMA UnstageKeeps ==
  ASSUME ConfigInv, NEW i \in ConfigRows \cup ConfigKeys, P!Unstage(i)
  PROVE  ConfigInv'
<1>1. DraftTyped'
  <2>1. draft' \in Drafts
    BY DraftTypes DEF P!Unstage, ConfigInv, DraftTyped, Items
  <2> QED BY <2>1 DEF P!Unstage, ConfigInv, DraftTyped
<1>2. LoadsTyped'
  BY DEF P!Unstage, P!CanEdit, ConfigInv, LoadsTyped, DraftTyped, Drafts, Reloads, Adoptions
<1>3. BackendTyped'
  BY OutcomeTypes DEF P!Unstage, P!CanEdit, ConfigInv, BackendTyped, Challenges, Outcomes
<1>4. CallTyped'
  BY DEF P!Unstage, P!CanEdit, ConfigInv, CallTyped, Aims
<1>5. OutcomeApart' /\ LoadsFresh' /\ LoadsAlone'
  BY SMTT(20) DEF P!Unstage, P!CanEdit, ConfigInv, DraftTyped, LoadsTyped, BackendTyped, CallTyped,
     OutcomeApart, LoadsFresh, LoadsShow, LoadsAlone, RequestHeld, TokenShown, UnknownHolds, P!KeysOwned, P!RetainNonKeyChanges, P!Staged, P!Unstaged, P!Request, P!IsDirty, P!CleanDraft, P!NoOutcome, Requested, Shows, Items, Sources, Challenges, Drafts, Outcomes, Reloads, Adoptions, Aims
<1>6. LoadsShow' /\ P!KeysOwned'
  BY SMTT(20) DEF P!Unstage, P!CanEdit, ConfigInv, DraftTyped, LoadsTyped, BackendTyped, CallTyped,
     OutcomeApart, LoadsFresh, LoadsShow, LoadsAlone, RequestHeld, TokenShown, UnknownHolds, P!KeysOwned, P!RetainNonKeyChanges, P!Staged, P!Unstaged, P!Request, P!IsDirty, P!CleanDraft, P!NoOutcome, Requested, Shows, Items, Sources, Challenges, Drafts, Outcomes, Reloads, Adoptions, Aims
<1>7. RequestHeld' /\ TokenShown' /\ UnknownHolds'
  BY SMTT(20) DEF P!Unstage, P!CanEdit, ConfigInv, DraftTyped, LoadsTyped, BackendTyped, CallTyped,
     OutcomeApart, LoadsFresh, LoadsShow, LoadsAlone, RequestHeld, TokenShown, UnknownHolds, P!KeysOwned, P!RetainNonKeyChanges, P!Staged, P!Unstaged, P!Request, P!IsDirty, P!CleanDraft, P!NoOutcome, Requested, Shows, Items, Sources, Challenges, Drafts, Outcomes, Reloads, Adoptions, Aims
<1> QED BY <1>1, <1>2, <1>3, <1>4, <1>5, <1>6, <1>7 DEF ConfigInv

LEMMA EditKeeps ==
  ASSUME ConfigInv, P!Edit
  PROVE  ConfigInv'
<1>1. DraftTyped'
  BY DraftTypes DEF P!Edit, P!CanEdit, ConfigInv, DraftTyped, LoadsTyped, BackendTyped, Sources,
     Reloads, Adoptions
<1>2. LoadsTyped'
  BY DEF P!Edit, P!CanEdit, ConfigInv, LoadsTyped, DraftTyped, Drafts, Reloads, Adoptions
<1>3. BackendTyped'
  BY OutcomeTypes DEF P!Edit, P!CanEdit, ConfigInv, BackendTyped, Challenges, Outcomes
<1>4. CallTyped'
  BY DEF P!Edit, P!CanEdit, ConfigInv, CallTyped, Aims
<1>5. OutcomeApart' /\ LoadsFresh' /\ LoadsAlone'
  BY SMTT(20) DEF P!Edit, P!CanEdit, ConfigInv, DraftTyped, LoadsTyped, BackendTyped, CallTyped,
     OutcomeApart, LoadsFresh, LoadsShow, LoadsAlone, RequestHeld, TokenShown, UnknownHolds, P!KeysOwned, P!RetainNonKeyChanges, P!Staged, P!Unstaged, P!Request, P!IsDirty, P!CleanDraft, P!NoOutcome, Requested, Shows, Items, Sources, Challenges, Drafts, Outcomes, Reloads, Adoptions, Aims
<1>6. LoadsShow' /\ P!KeysOwned'
  BY SMTT(20) DEF P!Edit, P!CanEdit, ConfigInv, DraftTyped, LoadsTyped, BackendTyped, CallTyped,
     OutcomeApart, LoadsFresh, LoadsShow, LoadsAlone, RequestHeld, TokenShown, UnknownHolds, P!KeysOwned, P!RetainNonKeyChanges, P!Staged, P!Unstaged, P!Request, P!IsDirty, P!CleanDraft, P!NoOutcome, Requested, Shows, Items, Sources, Challenges, Drafts, Outcomes, Reloads, Adoptions, Aims
<1>7. RequestHeld' /\ TokenShown' /\ UnknownHolds'
  BY SMTT(20) DEF P!Edit, P!CanEdit, ConfigInv, DraftTyped, LoadsTyped, BackendTyped, CallTyped,
     OutcomeApart, LoadsFresh, LoadsShow, LoadsAlone, RequestHeld, TokenShown, UnknownHolds, P!KeysOwned, P!RetainNonKeyChanges, P!Staged, P!Unstaged, P!Request, P!IsDirty, P!CleanDraft, P!NoOutcome, Requested, Shows, Items, Sources, Challenges, Drafts, Outcomes, Reloads, Adoptions, Aims
<1> QED BY <1>1, <1>2, <1>3, <1>4, <1>5, <1>6, <1>7 DEF ConfigInv

LEMMA ReloadedKeeps ==
  ASSUME ConfigInv, NEW l \in loads, NEW b \in BOOLEAN, P!Reloaded(l, b)
  PROVE  ConfigInv'
<1>1. DraftTyped'
  <2>1. draft' \in Drafts
    BY DraftTypes DEF P!Reloaded, ConfigInv, DraftTyped, BackendTyped
  <2> QED BY <2>1 DEF P!Reloaded, ConfigInv, DraftTyped
<1>2. LoadsTyped'
  BY DEF P!Reloaded, P!Fresh, ConfigInv, LoadsTyped, DraftTyped, Drafts, Reloads, Adoptions
<1>3. BackendTyped'
  BY OutcomeTypes DEF P!Reloaded, P!Fresh, ConfigInv, BackendTyped, Challenges, Outcomes
<1>4. CallTyped'
  BY DEF P!Reloaded, P!Fresh, ConfigInv, CallTyped, Aims
<1>5. OutcomeApart' /\ LoadsFresh' /\ LoadsAlone'
  BY SMTT(20) DEF P!Reloaded, P!Fresh, ConfigInv, DraftTyped, LoadsTyped, BackendTyped, CallTyped,
     OutcomeApart, LoadsFresh, LoadsShow, LoadsAlone, RequestHeld, TokenShown, UnknownHolds, P!KeysOwned, P!RetainNonKeyChanges, P!Staged, P!Unstaged, P!Request, P!IsDirty, P!CleanDraft, P!NoOutcome, Requested, Shows, Items, Sources, Challenges, Drafts, Outcomes, Reloads, Adoptions, Aims
<1>6. LoadsShow' /\ P!KeysOwned'
  BY SMTT(20) DEF P!Reloaded, P!Fresh, ConfigInv, DraftTyped, LoadsTyped, BackendTyped, CallTyped,
     OutcomeApart, LoadsFresh, LoadsShow, LoadsAlone, RequestHeld, TokenShown, UnknownHolds, P!KeysOwned, P!RetainNonKeyChanges, P!Staged, P!Unstaged, P!Request, P!IsDirty, P!CleanDraft, P!NoOutcome, Requested, Shows, Items, Sources, Challenges, Drafts, Outcomes, Reloads, Adoptions, Aims
<1>7. RequestHeld' /\ TokenShown' /\ UnknownHolds'
  BY SMTT(20) DEF P!Reloaded, P!Fresh, ConfigInv, DraftTyped, LoadsTyped, BackendTyped, CallTyped,
     OutcomeApart, LoadsFresh, LoadsShow, LoadsAlone, RequestHeld, TokenShown, UnknownHolds, P!KeysOwned, P!RetainNonKeyChanges, P!Staged, P!Unstaged, P!Request, P!IsDirty, P!CleanDraft, P!NoOutcome, Requested, Shows, Items, Sources, Challenges, Drafts, Outcomes, Reloads, Adoptions, Aims
<1> QED BY <1>1, <1>2, <1>3, <1>4, <1>5, <1>6, <1>7 DEF ConfigInv

LEMMA ReloadFailsKeeps ==
  ASSUME ConfigInv, NEW l \in loads, P!ReloadFails(l)
  PROVE  ConfigInv'
<1>1. DraftTyped'
  BY DraftTypes DEF P!ReloadFails, P!Fresh, ConfigInv, DraftTyped, LoadsTyped, BackendTyped,
     Sources, Reloads, Adoptions
<1>2. LoadsTyped'
  BY DEF P!ReloadFails, P!Fresh, ConfigInv, LoadsTyped, DraftTyped, Drafts, Reloads, Adoptions
<1>3. BackendTyped'
  BY OutcomeTypes DEF P!ReloadFails, P!Fresh, ConfigInv, BackendTyped, Challenges, Outcomes
<1>4. CallTyped'
  BY DEF P!ReloadFails, P!Fresh, ConfigInv, CallTyped, Aims
<1>5. OutcomeApart' /\ LoadsFresh' /\ LoadsAlone'
  BY SMTT(20) DEF P!ReloadFails, P!Fresh, ConfigInv, DraftTyped, LoadsTyped, BackendTyped,
     CallTyped, OutcomeApart, LoadsFresh, LoadsShow, LoadsAlone, RequestHeld, TokenShown, UnknownHolds, P!KeysOwned, P!RetainNonKeyChanges, P!Staged, P!Unstaged, P!Request, P!IsDirty, P!CleanDraft, P!NoOutcome, Requested, Shows, Items, Sources, Challenges, Drafts, Outcomes, Reloads, Adoptions, Aims
<1>6. LoadsShow' /\ P!KeysOwned'
  BY SMTT(20) DEF P!ReloadFails, P!Fresh, ConfigInv, DraftTyped, LoadsTyped, BackendTyped,
     CallTyped, OutcomeApart, LoadsFresh, LoadsShow, LoadsAlone, RequestHeld, TokenShown, UnknownHolds, P!KeysOwned, P!RetainNonKeyChanges, P!Staged, P!Unstaged, P!Request, P!IsDirty, P!CleanDraft, P!NoOutcome, Requested, Shows, Items, Sources, Challenges, Drafts, Outcomes, Reloads, Adoptions, Aims
<1>7. RequestHeld' /\ TokenShown' /\ UnknownHolds'
  BY SMTT(20) DEF P!ReloadFails, P!Fresh, ConfigInv, DraftTyped, LoadsTyped, BackendTyped,
     CallTyped, OutcomeApart, LoadsFresh, LoadsShow, LoadsAlone, RequestHeld, TokenShown, UnknownHolds, P!KeysOwned, P!RetainNonKeyChanges, P!Staged, P!Unstaged, P!Request, P!IsDirty, P!CleanDraft, P!NoOutcome, Requested, Shows, Items, Sources, Challenges, Drafts, Outcomes, Reloads, Adoptions, Aims
<1> QED BY <1>1, <1>2, <1>3, <1>4, <1>5, <1>6, <1>7 DEF ConfigInv

LEMMA LoadAgainKeeps ==
  ASSUME ConfigInv, NEW b \in BOOLEAN, P!LoadAgain(b)
  PROVE  ConfigInv'
<1>1. DraftTyped'
  BY DraftTypes DEF P!LoadAgain, ConfigInv, DraftTyped, LoadsTyped, BackendTyped, Sources, Reloads,
     Adoptions
<1>2. LoadsTyped'
  <2>1. gen' \in Nat /\ loads' \subseteq Reloads \cup Adoptions
    BY LoadMade DEF P!LoadAgain, ConfigInv, LoadsTyped
  <2> QED BY <2>1 DEF P!LoadAgain, ConfigInv, LoadsTyped
<1>3. BackendTyped'
  BY OutcomeTypes DEF P!LoadAgain, ConfigInv, BackendTyped, Challenges, Outcomes
<1>4. CallTyped'
  BY DEF P!LoadAgain, ConfigInv, CallTyped, Aims
<1>5. OutcomeApart' /\ LoadsFresh' /\ LoadsAlone'
  BY SMTT(20) DEF P!LoadAgain, ConfigInv, DraftTyped, LoadsTyped, BackendTyped, CallTyped,
     OutcomeApart, LoadsFresh, LoadsShow, LoadsAlone, RequestHeld, TokenShown, UnknownHolds, P!KeysOwned, P!RetainNonKeyChanges, P!Staged, P!Unstaged, P!Request, P!IsDirty, P!CleanDraft, P!NoOutcome, Requested, Shows, Items, Sources, Challenges, Drafts, Outcomes, Reloads, Adoptions, Aims
<1>6. LoadsShow' /\ P!KeysOwned'
  BY SMTT(20) DEF P!LoadAgain, ConfigInv, DraftTyped, LoadsTyped, BackendTyped, CallTyped,
     OutcomeApart, LoadsFresh, LoadsShow, LoadsAlone, RequestHeld, TokenShown, UnknownHolds, P!KeysOwned, P!RetainNonKeyChanges, P!Staged, P!Unstaged, P!Request, P!IsDirty, P!CleanDraft, P!NoOutcome, Requested, Shows, Items, Sources, Challenges, Drafts, Outcomes, Reloads, Adoptions, Aims
<1>7. RequestHeld' /\ TokenShown' /\ UnknownHolds'
  BY SMTT(20) DEF P!LoadAgain, ConfigInv, DraftTyped, LoadsTyped, BackendTyped, CallTyped,
     OutcomeApart, LoadsFresh, LoadsShow, LoadsAlone, RequestHeld, TokenShown, UnknownHolds, P!KeysOwned, P!RetainNonKeyChanges, P!Staged, P!Unstaged, P!Request, P!IsDirty, P!CleanDraft, P!NoOutcome, Requested, Shows, Items, Sources, Challenges, Drafts, Outcomes, Reloads, Adoptions, Aims
<1> QED BY <1>1, <1>2, <1>3, <1>4, <1>5, <1>6, <1>7 DEF ConfigInv

LEMMA ProfileLoadedKeeps ==
  ASSUME ConfigInv, NEW l \in loads, P!ProfileLoaded(l)
  PROVE  ConfigInv'
<1>1. DraftTyped'
  <2>1. l.profile \in Sources
    BY DEF P!ProfileLoaded, ConfigInv, LoadsTyped, Reloads, Adoptions, Sources
  <2>2. draft' \in Drafts
    BY <2>1, DraftTypes DEF P!ProfileLoaded, ConfigInv, DraftTyped
  <2> QED BY <2>1, <2>2 DEF P!ProfileLoaded, ConfigInv, DraftTyped
<1>2. LoadsTyped'
  BY DEF P!ProfileLoaded, P!Fresh, ConfigInv, LoadsTyped, DraftTyped, Drafts, Reloads, Adoptions
<1>3. BackendTyped'
  BY OutcomeTypes DEF P!ProfileLoaded, P!Fresh, ConfigInv, BackendTyped, Challenges, Outcomes
<1>4. CallTyped'
  BY DEF P!ProfileLoaded, P!Fresh, ConfigInv, CallTyped, Aims
<1>5. OutcomeApart' /\ LoadsFresh' /\ LoadsAlone'
  BY SMTT(20) DEF P!ProfileLoaded, P!Fresh, ConfigInv, DraftTyped, LoadsTyped, BackendTyped,
     CallTyped, OutcomeApart, LoadsFresh, LoadsShow, LoadsAlone, RequestHeld, TokenShown, UnknownHolds, P!KeysOwned, P!RetainNonKeyChanges, P!Staged, P!Unstaged, P!Request, P!IsDirty, P!CleanDraft, P!NoOutcome, Requested, Shows, Items, Sources, Challenges, Drafts, Outcomes, Reloads, Adoptions, Aims
<1>6. LoadsShow' /\ P!KeysOwned'
  BY SMTT(20) DEF P!ProfileLoaded, P!Fresh, ConfigInv, DraftTyped, LoadsTyped, BackendTyped,
     CallTyped, OutcomeApart, LoadsFresh, LoadsShow, LoadsAlone, RequestHeld, TokenShown, UnknownHolds, P!KeysOwned, P!RetainNonKeyChanges, P!Staged, P!Unstaged, P!Request, P!IsDirty, P!CleanDraft, P!NoOutcome, Requested, Shows, Items, Sources, Challenges, Drafts, Outcomes, Reloads, Adoptions, Aims
<1>7. RequestHeld' /\ TokenShown' /\ UnknownHolds'
  BY SMTT(20) DEF P!ProfileLoaded, P!Fresh, ConfigInv, DraftTyped, LoadsTyped, BackendTyped,
     CallTyped, OutcomeApart, LoadsFresh, LoadsShow, LoadsAlone, RequestHeld, TokenShown, UnknownHolds, P!KeysOwned, P!RetainNonKeyChanges, P!Staged, P!Unstaged, P!Request, P!IsDirty, P!CleanDraft, P!NoOutcome, Requested, Shows, Items, Sources, Challenges, Drafts, Outcomes, Reloads, Adoptions, Aims
<1> QED BY <1>1, <1>2, <1>3, <1>4, <1>5, <1>6, <1>7 DEF ConfigInv

LEMMA ProfileFailsKeeps ==
  ASSUME ConfigInv, NEW l \in loads, P!ProfileFails(l)
  PROVE  ConfigInv'
<1>1. DraftTyped'
  <2>1. l.source \in Sources /\ l.preview \in Sources \cup {"none"}
    BY DEF P!ProfileFails, ConfigInv, LoadsTyped, Reloads, Adoptions
  <2>2. draft' \in Drafts
    BY <2>1, DraftTypes DEF P!ProfileFails, ConfigInv, DraftTyped
  <2> QED BY <2>1, <2>2 DEF P!ProfileFails, P!PriorPreview, ConfigInv, DraftTyped
<1>2. LoadsTyped'
  BY DEF P!ProfileFails, P!Fresh, P!PriorPreview, ConfigInv, LoadsTyped, DraftTyped, Drafts,
     Reloads, Adoptions
<1>3. BackendTyped'
  BY OutcomeTypes DEF P!ProfileFails, P!Fresh, P!PriorPreview, ConfigInv, BackendTyped, Challenges,
     Outcomes
<1>4. CallTyped'
  BY DEF P!ProfileFails, P!Fresh, P!PriorPreview, ConfigInv, CallTyped, Aims
<1>5. OutcomeApart' /\ LoadsFresh' /\ LoadsAlone'
  BY SMTT(20) DEF P!ProfileFails, P!Fresh, P!PriorPreview, ConfigInv, DraftTyped, LoadsTyped,
     BackendTyped, CallTyped, OutcomeApart, LoadsFresh, LoadsShow, LoadsAlone, RequestHeld, TokenShown, UnknownHolds, P!KeysOwned, P!RetainNonKeyChanges, P!Staged, P!Unstaged, P!Request, P!IsDirty, P!CleanDraft, P!NoOutcome, Requested, Shows, Items, Sources, Challenges, Drafts, Outcomes, Reloads, Adoptions, Aims
<1>6. LoadsShow' /\ P!KeysOwned'
  BY SMTT(20) DEF P!ProfileFails, P!Fresh, P!PriorPreview, ConfigInv, DraftTyped, LoadsTyped,
     BackendTyped, CallTyped, OutcomeApart, LoadsFresh, LoadsShow, LoadsAlone, RequestHeld, TokenShown, UnknownHolds, P!KeysOwned, P!RetainNonKeyChanges, P!Staged, P!Unstaged, P!Request, P!IsDirty, P!CleanDraft, P!NoOutcome, Requested, Shows, Items, Sources, Challenges, Drafts, Outcomes, Reloads, Adoptions, Aims
<1>7. RequestHeld' /\ TokenShown' /\ UnknownHolds'
  BY SMTT(20) DEF P!ProfileFails, P!Fresh, P!PriorPreview, ConfigInv, DraftTyped, LoadsTyped,
     BackendTyped, CallTyped, OutcomeApart, LoadsFresh, LoadsShow, LoadsAlone, RequestHeld, TokenShown, UnknownHolds, P!KeysOwned, P!RetainNonKeyChanges, P!Staged, P!Unstaged, P!Request, P!IsDirty, P!CleanDraft, P!NoOutcome, Requested, Shows, Items, Sources, Challenges, Drafts, Outcomes, Reloads, Adoptions, Aims
<1> QED BY <1>1, <1>2, <1>3, <1>4, <1>5, <1>6, <1>7 DEF ConfigInv

LEMMA QuitAbandonedKeeps ==
  ASSUME ConfigInv, P!QuitAbandoned
  PROVE  ConfigInv'
<1>1. DraftTyped'
  BY DraftTypes DEF P!QuitAbandoned, ConfigInv, DraftTyped, LoadsTyped, BackendTyped, Sources,
     Reloads, Adoptions
<1>2. LoadsTyped'
  BY DEF P!QuitAbandoned, ConfigInv, LoadsTyped, DraftTyped, Drafts, Reloads, Adoptions
<1>3. BackendTyped'
  BY OutcomeTypes DEF P!QuitAbandoned, ConfigInv, BackendTyped, Challenges, Outcomes
<1>4. CallTyped'
  BY DEF P!QuitAbandoned, ConfigInv, CallTyped, Aims
<1>5. OutcomeApart' /\ LoadsFresh' /\ LoadsAlone'
  BY SMTT(20) DEF P!QuitAbandoned, ConfigInv, DraftTyped, LoadsTyped, BackendTyped, CallTyped,
     OutcomeApart, LoadsFresh, LoadsShow, LoadsAlone, RequestHeld, TokenShown, UnknownHolds, P!KeysOwned, P!RetainNonKeyChanges, P!Staged, P!Unstaged, P!Request, P!IsDirty, P!CleanDraft, P!NoOutcome, Requested, Shows, Items, Sources, Challenges, Drafts, Outcomes, Reloads, Adoptions, Aims
<1>6. LoadsShow' /\ P!KeysOwned'
  BY SMTT(20) DEF P!QuitAbandoned, ConfigInv, DraftTyped, LoadsTyped, BackendTyped, CallTyped,
     OutcomeApart, LoadsFresh, LoadsShow, LoadsAlone, RequestHeld, TokenShown, UnknownHolds, P!KeysOwned, P!RetainNonKeyChanges, P!Staged, P!Unstaged, P!Request, P!IsDirty, P!CleanDraft, P!NoOutcome, Requested, Shows, Items, Sources, Challenges, Drafts, Outcomes, Reloads, Adoptions, Aims
<1>7. RequestHeld' /\ TokenShown' /\ UnknownHolds'
  BY SMTT(20) DEF P!QuitAbandoned, ConfigInv, DraftTyped, LoadsTyped, BackendTyped, CallTyped,
     OutcomeApart, LoadsFresh, LoadsShow, LoadsAlone, RequestHeld, TokenShown, UnknownHolds, P!KeysOwned, P!RetainNonKeyChanges, P!Staged, P!Unstaged, P!Request, P!IsDirty, P!CleanDraft, P!NoOutcome, Requested, Shows, Items, Sources, Challenges, Drafts, Outcomes, Reloads, Adoptions, Aims
<1> QED BY <1>1, <1>2, <1>3, <1>4, <1>5, <1>6, <1>7 DEF ConfigInv

LEMMA ApplyKeeps ==
  ASSUME ConfigInv, P!Apply
  PROVE  ConfigInv'
<1>1. DraftTyped'
  BY DraftTypes DEF P!Apply, P!CanApply, P!BootstrapComplete, ConfigInv, DraftTyped, LoadsTyped,
     BackendTyped, Sources, Reloads, Adoptions
<1>2. LoadsTyped'
  BY DEF P!Apply, P!CanApply, P!BootstrapComplete, ConfigInv, LoadsTyped, DraftTyped, Drafts,
     Reloads, Adoptions
<1>3. BackendTyped'
  BY OutcomeTypes DEF P!Apply, P!CanApply, P!BootstrapComplete, ConfigInv, BackendTyped,
     Challenges, Outcomes
<1>4. CallTyped'
  BY DEF P!Apply, P!CanApply, P!BootstrapComplete, ConfigInv, CallTyped, Aims
<1>5. OutcomeApart' /\ LoadsFresh' /\ LoadsAlone'
  BY SMTT(20) DEF P!Apply, P!CanApply, P!BootstrapComplete, ConfigInv, DraftTyped, LoadsTyped,
     BackendTyped, CallTyped, OutcomeApart, LoadsFresh, LoadsShow, LoadsAlone, RequestHeld, TokenShown, UnknownHolds, P!KeysOwned, P!RetainNonKeyChanges, P!Staged, P!Unstaged, P!Request, P!IsDirty, P!CleanDraft, P!NoOutcome, Requested, Shows, Items, Sources, Challenges, Drafts, Outcomes, Reloads, Adoptions, Aims
<1>6. LoadsShow' /\ P!KeysOwned'
  BY SMTT(20) DEF P!Apply, P!CanApply, P!BootstrapComplete, ConfigInv, DraftTyped, LoadsTyped,
     BackendTyped, CallTyped, OutcomeApart, LoadsFresh, LoadsShow, LoadsAlone, RequestHeld, TokenShown, UnknownHolds, P!KeysOwned, P!RetainNonKeyChanges, P!Staged, P!Unstaged, P!Request, P!IsDirty, P!CleanDraft, P!NoOutcome, Requested, Shows, Items, Sources, Challenges, Drafts, Outcomes, Reloads, Adoptions, Aims
<1>7. RequestHeld' /\ TokenShown' /\ UnknownHolds'
  BY SMTT(20) DEF P!Apply, P!CanApply, P!BootstrapComplete, ConfigInv, DraftTyped, LoadsTyped,
     BackendTyped, CallTyped, OutcomeApart, LoadsFresh, LoadsShow, LoadsAlone, RequestHeld, TokenShown, UnknownHolds, P!KeysOwned, P!RetainNonKeyChanges, P!Staged, P!Unstaged, P!Request, P!IsDirty, P!CleanDraft, P!NoOutcome, Requested, Shows, Items, Sources, Challenges, Drafts, Outcomes, Reloads, Adoptions, Aims
<1> QED BY <1>1, <1>2, <1>3, <1>4, <1>5, <1>6, <1>7 DEF ConfigInv

LEMMA ConfirmDestinationKeeps ==
  ASSUME ConfigInv, P!ConfirmDestination
  PROVE  ConfigInv'
<1>1. DraftTyped'
  BY DraftTypes DEF P!ConfirmDestination, ConfigInv, DraftTyped, LoadsTyped, BackendTyped, Sources,
     Reloads, Adoptions
<1>2. LoadsTyped'
  BY DEF P!ConfirmDestination, ConfigInv, LoadsTyped, DraftTyped, Drafts, Reloads, Adoptions
<1>3. BackendTyped'
  BY OutcomeTypes DEF P!ConfirmDestination, ConfigInv, BackendTyped, Challenges, Outcomes
<1>4. CallTyped'
  BY DEF P!ConfirmDestination, ConfigInv, CallTyped, Aims
<1>5. OutcomeApart' /\ LoadsFresh' /\ LoadsAlone'
  BY SMTT(20) DEF P!ConfirmDestination, ConfigInv, DraftTyped, LoadsTyped, BackendTyped, CallTyped,
     OutcomeApart, LoadsFresh, LoadsShow, LoadsAlone, RequestHeld, TokenShown, UnknownHolds, P!KeysOwned, P!RetainNonKeyChanges, P!Staged, P!Unstaged, P!Request, P!IsDirty, P!CleanDraft, P!NoOutcome, Requested, Shows, Items, Sources, Challenges, Drafts, Outcomes, Reloads, Adoptions, Aims
<1>6. LoadsShow' /\ P!KeysOwned'
  BY SMTT(20) DEF P!ConfirmDestination, ConfigInv, DraftTyped, LoadsTyped, BackendTyped, CallTyped,
     OutcomeApart, LoadsFresh, LoadsShow, LoadsAlone, RequestHeld, TokenShown, UnknownHolds, P!KeysOwned, P!RetainNonKeyChanges, P!Staged, P!Unstaged, P!Request, P!IsDirty, P!CleanDraft, P!NoOutcome, Requested, Shows, Items, Sources, Challenges, Drafts, Outcomes, Reloads, Adoptions, Aims
<1>7. RequestHeld' /\ TokenShown' /\ UnknownHolds'
  BY SMTT(20) DEF P!ConfirmDestination, ConfigInv, DraftTyped, LoadsTyped, BackendTyped, CallTyped,
     OutcomeApart, LoadsFresh, LoadsShow, LoadsAlone, RequestHeld, TokenShown, UnknownHolds, P!KeysOwned, P!RetainNonKeyChanges, P!Staged, P!Unstaged, P!Request, P!IsDirty, P!CleanDraft, P!NoOutcome, Requested, Shows, Items, Sources, Challenges, Drafts, Outcomes, Reloads, Adoptions, Aims
<1> QED BY <1>1, <1>2, <1>3, <1>4, <1>5, <1>6, <1>7 DEF ConfigInv

LEMMA RetryKeeps ==
  ASSUME ConfigInv, P!Retry
  PROVE  ConfigInv'
<1>1. DraftTyped'
  BY DraftTypes DEF P!Retry, ConfigInv, DraftTyped, LoadsTyped, BackendTyped, Sources, Reloads,
     Adoptions
<1>2. LoadsTyped'
  BY DEF P!Retry, ConfigInv, LoadsTyped, DraftTyped, Drafts, Reloads, Adoptions
<1>3. BackendTyped'
  BY OutcomeTypes DEF P!Retry, ConfigInv, BackendTyped, Challenges, Outcomes
<1>4. CallTyped'
  BY DEF P!Retry, ConfigInv, CallTyped, Aims
<1>5. OutcomeApart' /\ LoadsFresh' /\ LoadsAlone'
  BY SMTT(20) DEF P!Retry, ConfigInv, DraftTyped, LoadsTyped, BackendTyped, CallTyped,
     OutcomeApart, LoadsFresh, LoadsShow, LoadsAlone, RequestHeld, TokenShown, UnknownHolds, P!KeysOwned, P!RetainNonKeyChanges, P!Staged, P!Unstaged, P!Request, P!IsDirty, P!CleanDraft, P!NoOutcome, Requested, Shows, Items, Sources, Challenges, Drafts, Outcomes, Reloads, Adoptions, Aims
<1>6. LoadsShow' /\ P!KeysOwned'
  BY SMTT(20) DEF P!Retry, ConfigInv, DraftTyped, LoadsTyped, BackendTyped, CallTyped,
     OutcomeApart, LoadsFresh, LoadsShow, LoadsAlone, RequestHeld, TokenShown, UnknownHolds, P!KeysOwned, P!RetainNonKeyChanges, P!Staged, P!Unstaged, P!Request, P!IsDirty, P!CleanDraft, P!NoOutcome, Requested, Shows, Items, Sources, Challenges, Drafts, Outcomes, Reloads, Adoptions, Aims
<1>7. RequestHeld' /\ TokenShown' /\ UnknownHolds'
  BY SMTT(20) DEF P!Retry, ConfigInv, DraftTyped, LoadsTyped, BackendTyped, CallTyped,
     OutcomeApart, LoadsFresh, LoadsShow, LoadsAlone, RequestHeld, TokenShown, UnknownHolds, P!KeysOwned, P!RetainNonKeyChanges, P!Staged, P!Unstaged, P!Request, P!IsDirty, P!CleanDraft, P!NoOutcome, Requested, Shows, Items, Sources, Challenges, Drafts, Outcomes, Reloads, Adoptions, Aims
<1> QED BY <1>1, <1>2, <1>3, <1>4, <1>5, <1>6, <1>7 DEF ConfigInv

LEMMA AppliedKeeps ==
  ASSUME ConfigInv, P!Applied
  PROVE  ConfigInv'
<1>1. DraftTyped'
  <2>1. disk' \in Nat
    BY DEF P!Applied, ConfigInv, BackendTyped
  <2>2. draft' \in Drafts
    BY <2>1, DraftTypes DEF P!Applied, P!Settle, ConfigInv, DraftTyped
  <2> QED BY <2>2 DEF P!Applied, P!Settle, ConfigInv, DraftTyped
<1>2. LoadsTyped'
  BY Settles DEF P!Applied, P!Ends, ConfigInv
<1>3. BackendTyped'
  <2>1. disk' \in Nat
    BY DEF P!Applied, ConfigInv, BackendTyped
  <2> QED BY <2>1, OutcomeTypes, UsedUp DEF P!Applied, P!Settle, ConfigInv, BackendTyped, Challenges
<1>4. CallTyped'
  BY DEF P!Applied, P!Settle, P!Ends, ConfigInv, CallTyped, Aims
<1>5. OutcomeApart' /\ LoadsFresh' /\ LoadsAlone'
  BY SMTT(20) DEF P!Applied, P!Settle, P!Ends, ConfigInv, DraftTyped, LoadsTyped, BackendTyped,
     CallTyped, OutcomeApart, LoadsFresh, LoadsShow, LoadsAlone, RequestHeld, TokenShown, UnknownHolds, P!KeysOwned, P!RetainNonKeyChanges, P!Staged, P!Unstaged, P!Request, P!IsDirty, P!CleanDraft, P!NoOutcome, Requested, Shows, Items, Sources, Challenges, Drafts, Outcomes, Reloads, Adoptions, Aims
<1>6. LoadsShow' /\ P!KeysOwned'
  BY SMTT(20) DEF P!Applied, P!Settle, P!Ends, ConfigInv, DraftTyped, LoadsTyped, BackendTyped,
     CallTyped, OutcomeApart, LoadsFresh, LoadsShow, LoadsAlone, RequestHeld, TokenShown, UnknownHolds, P!KeysOwned, P!RetainNonKeyChanges, P!Staged, P!Unstaged, P!Request, P!IsDirty, P!CleanDraft, P!NoOutcome, Requested, Shows, Items, Sources, Challenges, Drafts, Outcomes, Reloads, Adoptions, Aims
<1>7. RequestHeld' /\ TokenShown' /\ UnknownHolds'
  BY UsedUp, SMTT(20) DEF P!Applied, P!Settle, P!Ends, ConfigInv, DraftTyped, LoadsTyped, BackendTyped,
     CallTyped, OutcomeApart, LoadsFresh, LoadsShow, LoadsAlone, RequestHeld, TokenShown, UnknownHolds, P!KeysOwned, P!RetainNonKeyChanges, P!Staged, P!Unstaged, P!Request, P!IsDirty, P!CleanDraft, P!NoOutcome, Requested, Shows, Items, Sources, Challenges, Drafts, Outcomes, Reloads, Adoptions, Aims
<1> QED BY <1>1, <1>2, <1>3, <1>4, <1>5, <1>6, <1>7 DEF ConfigInv

LEMMA ConsentRequiredKeeps ==
  ASSUME ConfigInv, P!ConsentRequired
  PROVE  ConfigInv'
<1>1. DraftTyped'
  BY DraftTypes DEF P!ConsentRequired, P!Hold, P!Ends, ConfigInv, DraftTyped, LoadsTyped,
     BackendTyped, Sources, Reloads, Adoptions
<1>2. LoadsTyped'
  BY Settles DEF P!ConsentRequired, P!Ends, ConfigInv
<1>3. BackendTyped'
  BY OutcomeTypes, UsedUp DEF P!ConsentRequired, P!Hold, P!Ends, ConfigInv, BackendTyped, Challenges,
     Outcomes
<1>4. CallTyped'
  BY DEF P!ConsentRequired, P!Hold, P!Ends, ConfigInv, CallTyped, Aims
<1>5. OutcomeApart' /\ LoadsFresh' /\ LoadsAlone'
  BY SMTT(20) DEF P!ConsentRequired, P!Hold, P!Ends, ConfigInv, DraftTyped, LoadsTyped,
     BackendTyped, CallTyped, OutcomeApart, LoadsFresh, LoadsShow, LoadsAlone, RequestHeld, TokenShown, UnknownHolds, P!KeysOwned, P!RetainNonKeyChanges, P!Staged, P!Unstaged, P!Request, P!IsDirty, P!CleanDraft, P!NoOutcome, Requested, Shows, Items, Sources, Challenges, Drafts, Outcomes, Reloads, Adoptions, Aims
<1>6. LoadsShow' /\ P!KeysOwned'
  BY SMTT(20) DEF P!ConsentRequired, P!Hold, P!Ends, ConfigInv, DraftTyped, LoadsTyped,
     BackendTyped, CallTyped, OutcomeApart, LoadsFresh, LoadsShow, LoadsAlone, RequestHeld, TokenShown, UnknownHolds, P!KeysOwned, P!RetainNonKeyChanges, P!Staged, P!Unstaged, P!Request, P!IsDirty, P!CleanDraft, P!NoOutcome, Requested, Shows, Items, Sources, Challenges, Drafts, Outcomes, Reloads, Adoptions, Aims
<1>7. RequestHeld' /\ TokenShown' /\ UnknownHolds'
  BY UsedUp, SMTT(20) DEF P!ConsentRequired, P!Hold, P!Ends, ConfigInv, DraftTyped, LoadsTyped,
     BackendTyped, CallTyped, OutcomeApart, LoadsFresh, LoadsShow, LoadsAlone, RequestHeld, TokenShown, UnknownHolds, P!KeysOwned, P!RetainNonKeyChanges, P!Staged, P!Unstaged, P!Request, P!IsDirty, P!CleanDraft, P!NoOutcome, Requested, Shows, Items, Sources, Challenges, Drafts, Outcomes, Reloads, Adoptions, Aims
<1> QED BY <1>1, <1>2, <1>3, <1>4, <1>5, <1>6, <1>7 DEF ConfigInv

LEMMA DropConfirmationRequiredKeeps ==
  ASSUME ConfigInv, P!DropConfirmationRequired
  PROVE  ConfigInv'
<1>1. DraftTyped'
  BY DraftTypes DEF P!DropConfirmationRequired, P!Hold, P!Ends, ConfigInv, DraftTyped, LoadsTyped,
     BackendTyped, Sources, Reloads, Adoptions
<1>2. LoadsTyped'
  BY Settles DEF P!DropConfirmationRequired, P!Ends, ConfigInv
<1>3. BackendTyped'
  BY OutcomeTypes, UsedUp DEF P!DropConfirmationRequired, P!Hold, P!Ends, ConfigInv, BackendTyped,
     Challenges, Outcomes
<1>4. CallTyped'
  BY DEF P!DropConfirmationRequired, P!Hold, P!Ends, ConfigInv, CallTyped, Aims
<1>5. OutcomeApart' /\ LoadsFresh' /\ LoadsAlone'
  BY SMTT(20) DEF P!DropConfirmationRequired, P!Hold, P!Ends, ConfigInv, DraftTyped, LoadsTyped,
     BackendTyped, CallTyped, OutcomeApart, LoadsFresh, LoadsShow, LoadsAlone, RequestHeld, TokenShown, UnknownHolds, P!KeysOwned, P!RetainNonKeyChanges, P!Staged, P!Unstaged, P!Request, P!IsDirty, P!CleanDraft, P!NoOutcome, Requested, Shows, Items, Sources, Challenges, Drafts, Outcomes, Reloads, Adoptions, Aims
<1>6. LoadsShow' /\ P!KeysOwned'
  BY SMTT(20) DEF P!DropConfirmationRequired, P!Hold, P!Ends, ConfigInv, DraftTyped, LoadsTyped,
     BackendTyped, CallTyped, OutcomeApart, LoadsFresh, LoadsShow, LoadsAlone, RequestHeld, TokenShown, UnknownHolds, P!KeysOwned, P!RetainNonKeyChanges, P!Staged, P!Unstaged, P!Request, P!IsDirty, P!CleanDraft, P!NoOutcome, Requested, Shows, Items, Sources, Challenges, Drafts, Outcomes, Reloads, Adoptions, Aims
<1>7. RequestHeld' /\ TokenShown' /\ UnknownHolds'
  BY UsedUp, SMTT(20) DEF P!DropConfirmationRequired, P!Hold, P!Ends, ConfigInv, DraftTyped, LoadsTyped,
     BackendTyped, CallTyped, OutcomeApart, LoadsFresh, LoadsShow, LoadsAlone, RequestHeld, TokenShown, UnknownHolds, P!KeysOwned, P!RetainNonKeyChanges, P!Staged, P!Unstaged, P!Request, P!IsDirty, P!CleanDraft, P!NoOutcome, Requested, Shows, Items, Sources, Challenges, Drafts, Outcomes, Reloads, Adoptions, Aims
<1> QED BY <1>1, <1>2, <1>3, <1>4, <1>5, <1>6, <1>7 DEF ConfigInv

LEMMA BusyKeeps ==
  ASSUME ConfigInv, P!Busy
  PROVE  ConfigInv'
<1>1. DraftTyped'
  BY DraftTypes DEF P!Busy, P!Hold, P!Ends, ConfigInv, DraftTyped, LoadsTyped, BackendTyped,
     Sources, Reloads, Adoptions
<1>2. LoadsTyped'
  BY Settles DEF P!Busy, P!Ends, ConfigInv
<1>3. BackendTyped'
  <2>1. outcome.challenge \in Challenges
    BY DEF ConfigInv, BackendTyped, Outcomes
  <2>2. outcome' \in Outcomes
    BY <2>1, OutcomeTypes DEF P!Busy, P!Hold
  <2>3. UNCHANGED <<disk, token, unsure>>
    BY DEF P!Busy, P!Backend
  <2> QED BY <2>2, <2>3 DEF ConfigInv, BackendTyped
<1>4. CallTyped'
  BY DEF P!Busy, P!Hold, P!Ends, ConfigInv, CallTyped, Aims
<1>5. OutcomeApart' /\ LoadsFresh' /\ LoadsAlone'
  BY SMTT(20) DEF P!Busy, P!Hold, P!Ends, ConfigInv, DraftTyped, LoadsTyped, BackendTyped,
     CallTyped, OutcomeApart, LoadsFresh, LoadsShow, LoadsAlone, RequestHeld, TokenShown, UnknownHolds, P!KeysOwned, P!RetainNonKeyChanges, P!Staged, P!Unstaged, P!Request, P!IsDirty, P!CleanDraft, P!NoOutcome, Requested, Shows, Items, Sources, Challenges, Drafts, Outcomes, Reloads, Adoptions, Aims
<1>6. LoadsShow' /\ P!KeysOwned'
  BY SMTT(20) DEF P!Busy, P!Hold, P!Ends, ConfigInv, DraftTyped, LoadsTyped, BackendTyped,
     CallTyped, OutcomeApart, LoadsFresh, LoadsShow, LoadsAlone, RequestHeld, TokenShown, UnknownHolds, P!KeysOwned, P!RetainNonKeyChanges, P!Staged, P!Unstaged, P!Request, P!IsDirty, P!CleanDraft, P!NoOutcome, Requested, Shows, Items, Sources, Challenges, Drafts, Outcomes, Reloads, Adoptions, Aims
<1>7. RequestHeld' /\ TokenShown' /\ UnknownHolds'
  BY SMTT(20) DEF P!Busy, P!Hold, P!Ends, ConfigInv, DraftTyped, LoadsTyped, BackendTyped,
     CallTyped, OutcomeApart, LoadsFresh, LoadsShow, LoadsAlone, RequestHeld, TokenShown, UnknownHolds, P!KeysOwned, P!RetainNonKeyChanges, P!Staged, P!Unstaged, P!Request, P!IsDirty, P!CleanDraft, P!NoOutcome, Requested, Shows, Items, Sources, Challenges, Drafts, Outcomes, Reloads, Adoptions, Aims
<1> QED BY <1>1, <1>2, <1>3, <1>4, <1>5, <1>6, <1>7 DEF ConfigInv

LEMMA RefusedKeeps ==
  ASSUME ConfigInv, P!Refused
  PROVE  ConfigInv'
<1>1. DraftTyped'
  BY DraftTypes DEF P!Refused, P!Settle, P!Ends, ConfigInv, DraftTyped, LoadsTyped, BackendTyped,
     Sources, Reloads, Adoptions
<1>2. LoadsTyped'
  BY Settles DEF P!Refused, P!Ends, ConfigInv
<1>3. BackendTyped'
  BY OutcomeTypes, UsedUp DEF P!Refused, P!Settle, P!Ends, ConfigInv, BackendTyped, Challenges, Outcomes
<1>4. CallTyped'
  BY DEF P!Refused, P!Settle, P!Ends, ConfigInv, CallTyped, Aims
<1>5. OutcomeApart' /\ LoadsFresh' /\ LoadsAlone'
  BY SMTT(20) DEF P!Refused, P!Settle, P!Ends, ConfigInv, DraftTyped, LoadsTyped, BackendTyped,
     CallTyped, OutcomeApart, LoadsFresh, LoadsShow, LoadsAlone, RequestHeld, TokenShown, UnknownHolds, P!KeysOwned, P!RetainNonKeyChanges, P!Staged, P!Unstaged, P!Request, P!IsDirty, P!CleanDraft, P!NoOutcome, Requested, Shows, Items, Sources, Challenges, Drafts, Outcomes, Reloads, Adoptions, Aims
<1>6. LoadsShow' /\ P!KeysOwned'
  BY SMTT(20) DEF P!Refused, P!Settle, P!Ends, ConfigInv, DraftTyped, LoadsTyped, BackendTyped,
     CallTyped, OutcomeApart, LoadsFresh, LoadsShow, LoadsAlone, RequestHeld, TokenShown, UnknownHolds, P!KeysOwned, P!RetainNonKeyChanges, P!Staged, P!Unstaged, P!Request, P!IsDirty, P!CleanDraft, P!NoOutcome, Requested, Shows, Items, Sources, Challenges, Drafts, Outcomes, Reloads, Adoptions, Aims
<1>7. RequestHeld' /\ TokenShown' /\ UnknownHolds'
  BY UsedUp, SMTT(20) DEF P!Refused, P!Settle, P!Ends, ConfigInv, DraftTyped, LoadsTyped, BackendTyped,
     CallTyped, OutcomeApart, LoadsFresh, LoadsShow, LoadsAlone, RequestHeld, TokenShown, UnknownHolds, P!KeysOwned, P!RetainNonKeyChanges, P!Staged, P!Unstaged, P!Request, P!IsDirty, P!CleanDraft, P!NoOutcome, Requested, Shows, Items, Sources, Challenges, Drafts, Outcomes, Reloads, Adoptions, Aims
<1> QED BY <1>1, <1>2, <1>3, <1>4, <1>5, <1>6, <1>7 DEF ConfigInv

LEMMA RejectedKeeps ==
  ASSUME ConfigInv, P!Rejected
  PROVE  ConfigInv'
<1>0. token' \subseteq {"lost"}
  BY DEF P!Rejected, P!AfterLoss, P!Used
<1>1. DraftTyped'
  BY DraftTypes DEF P!Rejected, P!Settle, P!Ends, ConfigInv, DraftTyped, LoadsTyped, BackendTyped,
     Sources, Reloads, Adoptions
<1>2. LoadsTyped'
  BY Settles DEF P!Rejected, P!Ends, ConfigInv
<1>3. BackendTyped'
  BY <1>0, OutcomeTypes DEF P!Rejected, P!Settle, P!Ends, ConfigInv, BackendTyped, Challenges, Outcomes
<1>4. CallTyped'
  BY DEF P!Rejected, P!Settle, P!Ends, ConfigInv, CallTyped, Aims
<1>5. OutcomeApart' /\ LoadsFresh' /\ LoadsAlone'
  BY SMTT(20) DEF P!Rejected, P!Settle, P!Ends, ConfigInv, DraftTyped, LoadsTyped, BackendTyped,
     CallTyped, OutcomeApart, LoadsFresh, LoadsShow, LoadsAlone, RequestHeld, TokenShown, UnknownHolds, P!KeysOwned, P!RetainNonKeyChanges, P!Staged, P!Unstaged, P!Request, P!IsDirty, P!CleanDraft, P!NoOutcome, Requested, Shows, Items, Sources, Challenges, Drafts, Outcomes, Reloads, Adoptions, Aims
<1>6. LoadsShow' /\ P!KeysOwned'
  BY SMTT(20) DEF P!Rejected, P!Settle, P!Ends, ConfigInv, DraftTyped, LoadsTyped, BackendTyped,
     CallTyped, OutcomeApart, LoadsFresh, LoadsShow, LoadsAlone, RequestHeld, TokenShown, UnknownHolds, P!KeysOwned, P!RetainNonKeyChanges, P!Staged, P!Unstaged, P!Request, P!IsDirty, P!CleanDraft, P!NoOutcome, Requested, Shows, Items, Sources, Challenges, Drafts, Outcomes, Reloads, Adoptions, Aims
<1>7. RequestHeld' /\ TokenShown' /\ UnknownHolds'
  BY <1>0, SMTT(20) DEF P!Rejected, P!Settle, P!Ends, ConfigInv, DraftTyped, LoadsTyped, BackendTyped,
     CallTyped, OutcomeApart, LoadsFresh, LoadsShow, LoadsAlone, RequestHeld, TokenShown, UnknownHolds, P!KeysOwned, P!RetainNonKeyChanges, P!Staged, P!Unstaged, P!Request, P!IsDirty, P!CleanDraft, P!NoOutcome, Requested, Shows, Items, Sources, Challenges, Drafts, Outcomes, Reloads, Adoptions, Aims
<1> QED BY <1>1, <1>2, <1>3, <1>4, <1>5, <1>6, <1>7 DEF ConfigInv

LEMMA ConflictKeeps ==
  ASSUME ConfigInv, NEW k \in {"target", "profile_source", "challenge"}, P!Conflict(k)
  PROVE  ConfigInv'
<1>1. DraftTyped'
  BY DraftTypes DEF P!Conflict, P!Settle, P!Ends, ConfigInv, DraftTyped, LoadsTyped, BackendTyped,
     Sources, Reloads, Adoptions
<1>2. LoadsTyped'
  BY Settles DEF P!Conflict, P!Ends, ConfigInv
<1>3. BackendTyped'
  BY OutcomeTypes, UsedUp DEF P!Conflict, P!Settle, P!Ends, ConfigInv, BackendTyped, Challenges, Outcomes
<1>4. CallTyped'
  BY DEF P!Conflict, P!Settle, P!Ends, ConfigInv, CallTyped, Aims
<1>5. OutcomeApart' /\ LoadsFresh' /\ LoadsAlone'
  BY SMTT(20) DEF P!Conflict, P!Settle, P!Ends, ConfigInv, DraftTyped, LoadsTyped, BackendTyped,
     CallTyped, OutcomeApart, LoadsFresh, LoadsShow, LoadsAlone, RequestHeld, TokenShown, UnknownHolds, P!KeysOwned, P!RetainNonKeyChanges, P!Staged, P!Unstaged, P!Request, P!IsDirty, P!CleanDraft, P!NoOutcome, Requested, Shows, Items, Sources, Challenges, Drafts, Outcomes, Reloads, Adoptions, Aims
<1>6. LoadsShow' /\ P!KeysOwned'
  BY SMTT(20) DEF P!Conflict, P!Settle, P!Ends, ConfigInv, DraftTyped, LoadsTyped, BackendTyped,
     CallTyped, OutcomeApart, LoadsFresh, LoadsShow, LoadsAlone, RequestHeld, TokenShown, UnknownHolds, P!KeysOwned, P!RetainNonKeyChanges, P!Staged, P!Unstaged, P!Request, P!IsDirty, P!CleanDraft, P!NoOutcome, Requested, Shows, Items, Sources, Challenges, Drafts, Outcomes, Reloads, Adoptions, Aims
<1>7. RequestHeld' /\ TokenShown' /\ UnknownHolds'
  BY UsedUp, SMTT(20) DEF P!Conflict, P!Settle, P!Ends, ConfigInv, DraftTyped, LoadsTyped, BackendTyped,
     CallTyped, OutcomeApart, LoadsFresh, LoadsShow, LoadsAlone, RequestHeld, TokenShown, UnknownHolds, P!KeysOwned, P!RetainNonKeyChanges, P!Staged, P!Unstaged, P!Request, P!IsDirty, P!CleanDraft, P!NoOutcome, Requested, Shows, Items, Sources, Challenges, Drafts, Outcomes, Reloads, Adoptions, Aims
<1> QED BY <1>1, <1>2, <1>3, <1>4, <1>5, <1>6, <1>7 DEF ConfigInv

LEMMA RestageDropsKeeps ==
  ASSUME ConfigInv, P!RestageDrops
  PROVE  ConfigInv'
<1>1. DraftTyped'
  <2>1. draft' \in Drafts
    <3>1. draft.review \ (draft.changes \cap ConfigRows) \subseteq Items
      BY DEF ConfigInv, DraftTyped, Drafts
    <3>2. (draft.changes \cap ConfigRows # {}) \in BOOLEAN
      OBVIOUS
    <3> QED BY <3>1, <3>2 DEF P!RestageDrops, ConfigInv, DraftTyped, Drafts
  <2> QED BY <2>1 DEF P!RestageDrops, ConfigInv, DraftTyped
<1>2. LoadsTyped'
  BY DEF P!RestageDrops, ConfigInv, LoadsTyped, DraftTyped, Drafts, Reloads, Adoptions
<1>3. BackendTyped'
  BY OutcomeTypes DEF P!RestageDrops, ConfigInv, BackendTyped, Challenges, Outcomes
<1>4. CallTyped'
  BY DEF P!RestageDrops, ConfigInv, CallTyped, Aims
<1>5. OutcomeApart' /\ LoadsFresh' /\ LoadsAlone'
  BY SMTT(20) DEF P!RestageDrops, ConfigInv, DraftTyped, LoadsTyped, BackendTyped, CallTyped,
     OutcomeApart, LoadsFresh, LoadsShow, LoadsAlone, RequestHeld, TokenShown, UnknownHolds, P!KeysOwned, P!RetainNonKeyChanges, P!Staged, P!Unstaged, P!Request, P!IsDirty, P!CleanDraft, P!NoOutcome, Requested, Shows, Items, Sources, Challenges, Drafts, Outcomes, Reloads, Adoptions, Aims
<1>6. LoadsShow' /\ P!KeysOwned'
  BY SMTT(20) DEF P!RestageDrops, ConfigInv, DraftTyped, LoadsTyped, BackendTyped, CallTyped,
     OutcomeApart, LoadsFresh, LoadsShow, LoadsAlone, RequestHeld, TokenShown, UnknownHolds, P!KeysOwned, P!RetainNonKeyChanges, P!Staged, P!Unstaged, P!Request, P!IsDirty, P!CleanDraft, P!NoOutcome, Requested, Shows, Items, Sources, Challenges, Drafts, Outcomes, Reloads, Adoptions, Aims
<1>7. RequestHeld' /\ TokenShown' /\ UnknownHolds'
  BY SMTT(20) DEF P!RestageDrops, ConfigInv, DraftTyped, LoadsTyped, BackendTyped, CallTyped,
     OutcomeApart, LoadsFresh, LoadsShow, LoadsAlone, RequestHeld, TokenShown, UnknownHolds, P!KeysOwned, P!RetainNonKeyChanges, P!Staged, P!Unstaged, P!Request, P!IsDirty, P!CleanDraft, P!NoOutcome, Requested, Shows, Items, Sources, Challenges, Drafts, Outcomes, Reloads, Adoptions, Aims
<1> QED BY <1>1, <1>2, <1>3, <1>4, <1>5, <1>6, <1>7 DEF ConfigInv

LEMMA ReviewConflictKeeps ==
  ASSUME ConfigInv, P!ReviewConflict
  PROVE  ConfigInv'
<1>1. DraftTyped'
  BY DraftTypes DEF P!ReviewConflict, P!AdoptProfile, ConfigInv, DraftTyped, LoadsTyped,
     BackendTyped, Sources, Reloads, Adoptions
<1>2. LoadsTyped'
  <2>1. CASE UNCHANGED P!Loading
    BY <2>1 DEF P!ReviewConflict, ConfigInv, LoadsTyped
  <2>2. CASE draft.source \in ConfigProfiles /\ P!AdoptProfile(draft.source, TRUE, gen + 1, draft)
    BY <2>2, Adopted DEF P!ReviewConflict, ConfigInv
  <2> QED BY <2>1, <2>2 DEF P!ReviewConflict
<1>3. BackendTyped'
  BY OutcomeTypes DEF P!ReviewConflict, P!AdoptProfile, ConfigInv, BackendTyped, Challenges,
     Outcomes
<1>4. CallTyped'
  BY DEF P!ReviewConflict, P!AdoptProfile, ConfigInv, CallTyped, Aims
<1>5. OutcomeApart' /\ LoadsFresh' /\ LoadsAlone'
  <2>1. CASE outcome' = P!NoOutcome /\ UNCHANGED P!Loading
    BY <2>1 DEF P!ReviewConflict, P!NoOutcome, ConfigInv, BackendTyped, OutcomeApart, LoadsFresh,
       LoadsAlone
  <2>2. CASE draft.source \in ConfigProfiles /\ P!AdoptProfile(draft.source, TRUE, gen + 1, draft) /\ UNCHANGED outcome
    <3>1. LoadsFresh' /\ sourceLoading' = TRUE /\ inFlight' = FALSE
      BY <2>2, Adopted DEF P!ReviewConflict, P!AdoptProfile, ConfigInv
    <3> QED BY <2>2, <3>1 DEF P!ReviewConflict, ConfigInv, OutcomeApart, LoadsAlone
  <2> QED BY <2>1, <2>2 DEF P!ReviewConflict
<1>6. LoadsShow' /\ P!KeysOwned'
  BY SMTT(20) DEF P!ReviewConflict, P!AdoptProfile, ConfigInv, DraftTyped, LoadsTyped,
     BackendTyped, CallTyped, OutcomeApart, LoadsFresh, LoadsShow, LoadsAlone, RequestHeld, TokenShown, UnknownHolds, P!KeysOwned, P!RetainNonKeyChanges, P!Staged, P!Unstaged, P!Request, P!IsDirty, P!CleanDraft, P!NoOutcome, Requested, Shows, Items, Sources, Challenges, Drafts, Outcomes, Reloads, Adoptions, Aims
<1>7. RequestHeld' /\ TokenShown' /\ UnknownHolds'
  BY SMTT(20) DEF P!ReviewConflict, P!AdoptProfile, ConfigInv, DraftTyped, LoadsTyped,
     BackendTyped, CallTyped, OutcomeApart, LoadsFresh, LoadsShow, LoadsAlone, RequestHeld, TokenShown, UnknownHolds, P!KeysOwned, P!RetainNonKeyChanges, P!Staged, P!Unstaged, P!Request, P!IsDirty, P!CleanDraft, P!NoOutcome, Requested, Shows, Items, Sources, Challenges, Drafts, Outcomes, Reloads, Adoptions, Aims
<1> QED BY <1>1, <1>2, <1>3, <1>4, <1>5, <1>6, <1>7 DEF ConfigInv

LEMMA CancelFailsKeeps ==
  ASSUME ConfigInv, P!CancelFails
  PROVE  ConfigInv'
<1>1. DraftTyped'
  BY DraftTypes DEF P!CancelFails, ConfigInv, DraftTyped, LoadsTyped, BackendTyped, Sources,
     Reloads, Adoptions
<1>2. LoadsTyped'
  BY DEF P!CancelFails, ConfigInv, LoadsTyped, DraftTyped, Drafts, Reloads, Adoptions
<1>3. BackendTyped'
  BY OutcomeTypes, UsedUp DEF P!CancelFails, ConfigInv, BackendTyped, Challenges, Outcomes
<1>4. CallTyped'
  BY DEF P!CancelFails, ConfigInv, CallTyped, Aims
<1>5. OutcomeApart' /\ LoadsFresh' /\ LoadsAlone'
  BY SMTT(20) DEF P!CancelFails, ConfigInv, DraftTyped, LoadsTyped, BackendTyped, CallTyped,
     OutcomeApart, LoadsFresh, LoadsShow, LoadsAlone, RequestHeld, TokenShown, UnknownHolds, P!KeysOwned, P!RetainNonKeyChanges, P!Staged, P!Unstaged, P!Request, P!IsDirty, P!CleanDraft, P!NoOutcome, Requested, Shows, Items, Sources, Challenges, Drafts, Outcomes, Reloads, Adoptions, Aims
<1>6. LoadsShow' /\ P!KeysOwned'
  BY SMTT(20) DEF P!CancelFails, ConfigInv, DraftTyped, LoadsTyped, BackendTyped, CallTyped,
     OutcomeApart, LoadsFresh, LoadsShow, LoadsAlone, RequestHeld, TokenShown, UnknownHolds, P!KeysOwned, P!RetainNonKeyChanges, P!Staged, P!Unstaged, P!Request, P!IsDirty, P!CleanDraft, P!NoOutcome, Requested, Shows, Items, Sources, Challenges, Drafts, Outcomes, Reloads, Adoptions, Aims
<1>7. RequestHeld' /\ TokenShown' /\ UnknownHolds'
  BY UsedUp, SMTT(20) DEF P!CancelFails, ConfigInv, DraftTyped, LoadsTyped, BackendTyped, CallTyped,
     OutcomeApart, LoadsFresh, LoadsShow, LoadsAlone, RequestHeld, TokenShown, UnknownHolds, P!KeysOwned, P!RetainNonKeyChanges, P!Staged, P!Unstaged, P!Request, P!IsDirty, P!CleanDraft, P!NoOutcome, Requested, Shows, Items, Sources, Challenges, Drafts, Outcomes, Reloads, Adoptions, Aims
<1> QED BY <1>1, <1>2, <1>3, <1>4, <1>5, <1>6, <1>7 DEF ConfigInv

LEMMA LostTokenGoneKeeps ==
  ASSUME ConfigInv, P!LostTokenGone
  PROVE  ConfigInv'
<1>1. DraftTyped' /\ LoadsTyped' /\ BackendTyped' /\ CallTyped'
  BY DEF P!LostTokenGone, ConfigInv, DraftTyped, LoadsTyped, BackendTyped, CallTyped
<1>2. OutcomeApart' /\ LoadsFresh' /\ LoadsShow' /\ LoadsAlone'
  BY DEF P!LostTokenGone, ConfigInv, OutcomeApart, LoadsFresh, LoadsShow, LoadsAlone
<1>3. RequestHeld' /\ TokenShown' /\ UnknownHolds' /\ P!KeysOwned'
  BY DEF P!LostTokenGone, ConfigInv, RequestHeld, Requested, TokenShown, UnknownHolds, P!KeysOwned
<1> QED BY <1>1, <1>2, <1>3 DEF ConfigInv

LEMMA ExpireKeeps ==
  ASSUME ConfigInv, P!Expire
  PROVE  ConfigInv'
<1>1. DraftTyped'
  BY DraftTypes DEF P!Expire, P!Settle, ConfigInv, DraftTyped, LoadsTyped, BackendTyped, Sources,
     Reloads, Adoptions
<1>2. LoadsTyped'
  BY Settles DEF P!Expire, ConfigInv
<1>3. BackendTyped'
  BY OutcomeTypes, UsedUp DEF P!Expire, P!Settle, ConfigInv, BackendTyped, Challenges, Outcomes
<1>4. CallTyped'
  BY DEF P!Expire, P!Settle, ConfigInv, CallTyped, Aims
<1>5. OutcomeApart' /\ LoadsFresh' /\ LoadsAlone'
  BY SMTT(20) DEF P!Expire, P!Settle, ConfigInv, DraftTyped, LoadsTyped, BackendTyped, CallTyped,
     OutcomeApart, LoadsFresh, LoadsShow, LoadsAlone, RequestHeld, TokenShown, UnknownHolds, P!KeysOwned, P!RetainNonKeyChanges, P!Staged, P!Unstaged, P!Request, P!IsDirty, P!CleanDraft, P!NoOutcome, Requested, Shows, Items, Sources, Challenges, Drafts, Outcomes, Reloads, Adoptions, Aims
<1>6. LoadsShow' /\ P!KeysOwned'
  BY SMTT(20) DEF P!Expire, P!Settle, ConfigInv, DraftTyped, LoadsTyped, BackendTyped, CallTyped,
     OutcomeApart, LoadsFresh, LoadsShow, LoadsAlone, RequestHeld, TokenShown, UnknownHolds, P!KeysOwned, P!RetainNonKeyChanges, P!Staged, P!Unstaged, P!Request, P!IsDirty, P!CleanDraft, P!NoOutcome, Requested, Shows, Items, Sources, Challenges, Drafts, Outcomes, Reloads, Adoptions, Aims
<1>7. RequestHeld' /\ TokenShown' /\ UnknownHolds'
  BY UsedUp, SMTT(20) DEF P!Expire, P!Settle, ConfigInv, DraftTyped, LoadsTyped, BackendTyped, CallTyped,
     OutcomeApart, LoadsFresh, LoadsShow, LoadsAlone, RequestHeld, TokenShown, UnknownHolds, P!KeysOwned, P!RetainNonKeyChanges, P!Staged, P!Unstaged, P!Request, P!IsDirty, P!CleanDraft, P!NoOutcome, Requested, Shows, Items, Sources, Challenges, Drafts, Outcomes, Reloads, Adoptions, Aims
<1> QED BY <1>1, <1>2, <1>3, <1>4, <1>5, <1>6, <1>7 DEF ConfigInv

LEMMA ApproveDestinationsKeeps ==
  ASSUME ConfigInv, P!ApproveDestinations
  PROVE  ConfigInv'
<1>1. DraftTyped'
  BY DraftTypes DEF P!ApproveDestinations, P!CanCheck, ConfigInv, DraftTyped, LoadsTyped,
     BackendTyped, Sources, Reloads, Adoptions
<1>2. LoadsTyped'
  BY DEF P!ApproveDestinations, P!CanCheck, ConfigInv, LoadsTyped, DraftTyped, Drafts, Reloads,
     Adoptions
<1>3. BackendTyped'
  BY OutcomeTypes DEF P!ApproveDestinations, P!CanCheck, ConfigInv, BackendTyped, Challenges,
     Outcomes
<1>4. CallTyped'
  BY DEF P!ApproveDestinations, P!CanCheck, ConfigInv, CallTyped, Aims
<1>5. OutcomeApart' /\ LoadsFresh' /\ LoadsAlone'
  BY SMTT(20) DEF P!ApproveDestinations, P!CanCheck, ConfigInv, DraftTyped, LoadsTyped,
     BackendTyped, CallTyped, OutcomeApart, LoadsFresh, LoadsShow, LoadsAlone, RequestHeld, TokenShown, UnknownHolds, P!KeysOwned, P!RetainNonKeyChanges, P!Staged, P!Unstaged, P!Request, P!IsDirty, P!CleanDraft, P!NoOutcome, Requested, Shows, Items, Sources, Challenges, Drafts, Outcomes, Reloads, Adoptions, Aims
<1>6. LoadsShow' /\ P!KeysOwned'
  BY SMTT(20) DEF P!ApproveDestinations, P!CanCheck, ConfigInv, DraftTyped, LoadsTyped,
     BackendTyped, CallTyped, OutcomeApart, LoadsFresh, LoadsShow, LoadsAlone, RequestHeld, TokenShown, UnknownHolds, P!KeysOwned, P!RetainNonKeyChanges, P!Staged, P!Unstaged, P!Request, P!IsDirty, P!CleanDraft, P!NoOutcome, Requested, Shows, Items, Sources, Challenges, Drafts, Outcomes, Reloads, Adoptions, Aims
<1>7. RequestHeld' /\ TokenShown' /\ UnknownHolds'
  BY SMTT(20) DEF P!ApproveDestinations, P!CanCheck, ConfigInv, DraftTyped, LoadsTyped,
     BackendTyped, CallTyped, OutcomeApart, LoadsFresh, LoadsShow, LoadsAlone, RequestHeld, TokenShown, UnknownHolds, P!KeysOwned, P!RetainNonKeyChanges, P!Staged, P!Unstaged, P!Request, P!IsDirty, P!CleanDraft, P!NoOutcome, Requested, Shows, Items, Sources, Challenges, Drafts, Outcomes, Reloads, Adoptions, Aims
<1> QED BY <1>1, <1>2, <1>3, <1>4, <1>5, <1>6, <1>7 DEF ConfigInv

LEMMA ConfirmGrantsKeeps ==
  ASSUME ConfigInv, P!ConfirmGrants
  PROVE  ConfigInv'
<1>1. DraftTyped'
  BY DraftTypes DEF P!ConfirmGrants, ConfigInv, DraftTyped, LoadsTyped, BackendTyped, Sources,
     Reloads, Adoptions
<1>2. LoadsTyped'
  BY DEF P!ConfirmGrants, ConfigInv, LoadsTyped, DraftTyped, Drafts, Reloads, Adoptions
<1>3. BackendTyped'
  BY OutcomeTypes DEF P!ConfirmGrants, ConfigInv, BackendTyped, Challenges, Outcomes
<1>4. CallTyped'
  BY DEF P!ConfirmGrants, ConfigInv, CallTyped, Aims
<1>5. OutcomeApart' /\ LoadsFresh' /\ LoadsAlone'
  BY SMTT(20) DEF P!ConfirmGrants, ConfigInv, DraftTyped, LoadsTyped, BackendTyped, CallTyped,
     OutcomeApart, LoadsFresh, LoadsShow, LoadsAlone, RequestHeld, TokenShown, UnknownHolds, P!KeysOwned, P!RetainNonKeyChanges, P!Staged, P!Unstaged, P!Request, P!IsDirty, P!CleanDraft, P!NoOutcome, Requested, Shows, Items, Sources, Challenges, Drafts, Outcomes, Reloads, Adoptions, Aims
<1>6. LoadsShow' /\ P!KeysOwned'
  BY SMTT(20) DEF P!ConfirmGrants, ConfigInv, DraftTyped, LoadsTyped, BackendTyped, CallTyped,
     OutcomeApart, LoadsFresh, LoadsShow, LoadsAlone, RequestHeld, TokenShown, UnknownHolds, P!KeysOwned, P!RetainNonKeyChanges, P!Staged, P!Unstaged, P!Request, P!IsDirty, P!CleanDraft, P!NoOutcome, Requested, Shows, Items, Sources, Challenges, Drafts, Outcomes, Reloads, Adoptions, Aims
<1>7. RequestHeld' /\ TokenShown' /\ UnknownHolds'
  BY SMTT(20) DEF P!ConfirmGrants, ConfigInv, DraftTyped, LoadsTyped, BackendTyped, CallTyped,
     OutcomeApart, LoadsFresh, LoadsShow, LoadsAlone, RequestHeld, TokenShown, UnknownHolds, P!KeysOwned, P!RetainNonKeyChanges, P!Staged, P!Unstaged, P!Request, P!IsDirty, P!CleanDraft, P!NoOutcome, Requested, Shows, Items, Sources, Challenges, Drafts, Outcomes, Reloads, Adoptions, Aims
<1> QED BY <1>1, <1>2, <1>3, <1>4, <1>5, <1>6, <1>7 DEF ConfigInv

LEMMA GrantsAnsweredKeeps ==
  ASSUME ConfigInv, P!GrantsAnswered
  PROVE  ConfigInv'
<1>1. DraftTyped'
  BY DraftTypes DEF P!GrantsAnswered, P!Ends, ConfigInv, DraftTyped, LoadsTyped, BackendTyped,
     Sources, Reloads, Adoptions
<1>2. LoadsTyped'
  BY DEF P!GrantsAnswered, P!Ends, ConfigInv, LoadsTyped, DraftTyped, Drafts, Reloads, Adoptions
<1>3. BackendTyped'
  BY OutcomeTypes, UsedUp DEF P!GrantsAnswered, P!Ends, ConfigInv, BackendTyped, Challenges, Outcomes
<1>4. CallTyped'
  BY DEF P!GrantsAnswered, P!Ends, ConfigInv, CallTyped, Aims
<1>5. OutcomeApart' /\ LoadsFresh' /\ LoadsAlone'
  BY SMTT(20) DEF P!GrantsAnswered, P!Ends, ConfigInv, DraftTyped, LoadsTyped, BackendTyped,
     CallTyped, OutcomeApart, LoadsFresh, LoadsShow, LoadsAlone, RequestHeld, TokenShown, UnknownHolds, P!KeysOwned, P!RetainNonKeyChanges, P!Staged, P!Unstaged, P!Request, P!IsDirty, P!CleanDraft, P!NoOutcome, Requested, Shows, Items, Sources, Challenges, Drafts, Outcomes, Reloads, Adoptions, Aims
<1>6. LoadsShow' /\ P!KeysOwned'
  BY SMTT(20) DEF P!GrantsAnswered, P!Ends, ConfigInv, DraftTyped, LoadsTyped, BackendTyped,
     CallTyped, OutcomeApart, LoadsFresh, LoadsShow, LoadsAlone, RequestHeld, TokenShown, UnknownHolds, P!KeysOwned, P!RetainNonKeyChanges, P!Staged, P!Unstaged, P!Request, P!IsDirty, P!CleanDraft, P!NoOutcome, Requested, Shows, Items, Sources, Challenges, Drafts, Outcomes, Reloads, Adoptions, Aims
<1>7. RequestHeld' /\ TokenShown' /\ UnknownHolds'
  BY UsedUp, SMTT(20) DEF P!GrantsAnswered, P!Ends, ConfigInv, DraftTyped, LoadsTyped, BackendTyped,
     CallTyped, OutcomeApart, LoadsFresh, LoadsShow, LoadsAlone, RequestHeld, TokenShown, UnknownHolds, P!KeysOwned, P!RetainNonKeyChanges, P!Staged, P!Unstaged, P!Request, P!IsDirty, P!CleanDraft, P!NoOutcome, Requested, Shows, Items, Sources, Challenges, Drafts, Outcomes, Reloads, Adoptions, Aims
<1> QED BY <1>1, <1>2, <1>3, <1>4, <1>5, <1>6, <1>7 DEF ConfigInv

LEMMA GrantsRejectedKeeps ==
  ASSUME ConfigInv, P!GrantsRejected
  PROVE  ConfigInv'
<1>0. token' \subseteq {"lost"}
  BY DEF P!GrantsRejected, P!AfterLoss, P!Used
<1>1. DraftTyped'
  BY DraftTypes DEF P!GrantsRejected, P!Ends, ConfigInv, DraftTyped, LoadsTyped, BackendTyped,
     Sources, Reloads, Adoptions
<1>2. LoadsTyped'
  BY DEF P!GrantsRejected, P!Ends, ConfigInv, LoadsTyped, DraftTyped, Drafts, Reloads, Adoptions
<1>3. BackendTyped'
  BY <1>0, OutcomeTypes DEF P!GrantsRejected, P!Ends, ConfigInv, BackendTyped, Challenges, Outcomes
<1>4. CallTyped'
  BY DEF P!GrantsRejected, P!Ends, ConfigInv, CallTyped, Aims
<1>5. OutcomeApart' /\ LoadsFresh' /\ LoadsAlone'
  BY SMTT(20) DEF P!GrantsRejected, P!Ends, ConfigInv, DraftTyped, LoadsTyped, BackendTyped,
     CallTyped, OutcomeApart, LoadsFresh, LoadsShow, LoadsAlone, RequestHeld, TokenShown, UnknownHolds, P!KeysOwned, P!RetainNonKeyChanges, P!Staged, P!Unstaged, P!Request, P!IsDirty, P!CleanDraft, P!NoOutcome, Requested, Shows, Items, Sources, Challenges, Drafts, Outcomes, Reloads, Adoptions, Aims
<1>6. LoadsShow' /\ P!KeysOwned'
  BY SMTT(20) DEF P!GrantsRejected, P!Ends, ConfigInv, DraftTyped, LoadsTyped, BackendTyped,
     CallTyped, OutcomeApart, LoadsFresh, LoadsShow, LoadsAlone, RequestHeld, TokenShown, UnknownHolds, P!KeysOwned, P!RetainNonKeyChanges, P!Staged, P!Unstaged, P!Request, P!IsDirty, P!CleanDraft, P!NoOutcome, Requested, Shows, Items, Sources, Challenges, Drafts, Outcomes, Reloads, Adoptions, Aims
<1>7. RequestHeld' /\ TokenShown' /\ UnknownHolds'
  BY <1>0, SMTT(20) DEF P!GrantsRejected, P!Ends, ConfigInv, DraftTyped, LoadsTyped, BackendTyped,
     CallTyped, OutcomeApart, LoadsFresh, LoadsShow, LoadsAlone, RequestHeld, TokenShown, UnknownHolds, P!KeysOwned, P!RetainNonKeyChanges, P!Staged, P!Unstaged, P!Request, P!IsDirty, P!CleanDraft, P!NoOutcome, Requested, Shows, Items, Sources, Challenges, Drafts, Outcomes, Reloads, Adoptions, Aims
<1> QED BY <1>1, <1>2, <1>3, <1>4, <1>5, <1>6, <1>7 DEF ConfigInv

LEMMA DiskMovesKeeps ==
  ASSUME ConfigInv, P!DiskMoves
  PROVE  ConfigInv'
<1>1. DraftTyped'
  BY DraftTypes DEF P!DiskMoves, ConfigInv, DraftTyped, LoadsTyped, BackendTyped, Sources, Reloads,
     Adoptions
<1>2. LoadsTyped'
  BY DEF P!DiskMoves, ConfigInv, LoadsTyped, DraftTyped, Drafts, Reloads, Adoptions
<1>3. BackendTyped'
  BY OutcomeTypes DEF P!DiskMoves, ConfigInv, BackendTyped, Challenges, Outcomes
<1>4. CallTyped'
  BY DEF P!DiskMoves, ConfigInv, CallTyped, Aims
<1>5. OutcomeApart' /\ LoadsFresh' /\ LoadsAlone'
  BY SMTT(20) DEF P!DiskMoves, ConfigInv, DraftTyped, LoadsTyped, BackendTyped, CallTyped,
     OutcomeApart, LoadsFresh, LoadsShow, LoadsAlone, RequestHeld, TokenShown, UnknownHolds, P!KeysOwned, P!RetainNonKeyChanges, P!Staged, P!Unstaged, P!Request, P!IsDirty, P!CleanDraft, P!NoOutcome, Requested, Shows, Items, Sources, Challenges, Drafts, Outcomes, Reloads, Adoptions, Aims
<1>6. LoadsShow' /\ P!KeysOwned'
  BY SMTT(20) DEF P!DiskMoves, ConfigInv, DraftTyped, LoadsTyped, BackendTyped, CallTyped,
     OutcomeApart, LoadsFresh, LoadsShow, LoadsAlone, RequestHeld, TokenShown, UnknownHolds, P!KeysOwned, P!RetainNonKeyChanges, P!Staged, P!Unstaged, P!Request, P!IsDirty, P!CleanDraft, P!NoOutcome, Requested, Shows, Items, Sources, Challenges, Drafts, Outcomes, Reloads, Adoptions, Aims
<1>7. RequestHeld' /\ TokenShown' /\ UnknownHolds'
  BY SMTT(20) DEF P!DiskMoves, ConfigInv, DraftTyped, LoadsTyped, BackendTyped, CallTyped,
     OutcomeApart, LoadsFresh, LoadsShow, LoadsAlone, RequestHeld, TokenShown, UnknownHolds, P!KeysOwned, P!RetainNonKeyChanges, P!Staged, P!Unstaged, P!Request, P!IsDirty, P!CleanDraft, P!NoOutcome, Requested, Shows, Items, Sources, Challenges, Drafts, Outcomes, Reloads, Adoptions, Aims
<1> QED BY <1>1, <1>2, <1>3, <1>4, <1>5, <1>6, <1>7 DEF ConfigInv

LEMMA ConfigStart == ASSUME P!Init PROVE ConfigInv
<1>1. DraftTyped
  <2>1. P!CleanDraft(0) \in Drafts
    BY DEF P!CleanDraft, Drafts, Sources
  <2> QED BY <2>1 DEF P!Init, DraftTyped
<1>2. LoadsTyped
  <2>1. [gen |-> 1, kind |-> "reload", clears |-> FALSE] \in Reloads
    BY DEF Reloads
  <2> QED BY <2>1 DEF P!Init, LoadsTyped
<1>3. BackendTyped
  BY OutcomeTypes DEF P!Init, BackendTyped, Challenges
<1>4. CallTyped
  BY DEF P!Init, CallTyped, Aims
<1>5. OutcomeApart /\ LoadsAlone /\ RequestHeld /\ TokenShown /\ UnknownHolds
  BY DEF P!Init, P!NoOutcome, OutcomeApart, LoadsAlone, RequestHeld, Requested, TokenShown,
     UnknownHolds
<1>6. LoadsFresh /\ LoadsShow /\ P!KeysOwned
  BY DEF P!Init, P!CleanDraft, LoadsFresh, LoadsShow, Shows, P!KeysOwned
<1> QED BY <1>1, <1>2, <1>3, <1>4, <1>5, <1>6 DEF ConfigInv

LEMMA ConfigStep == ASSUME ConfigInv, P!Next PROVE ConfigInv'
  BY StageKeeps, UnstageKeeps, EditKeeps, ReloadedKeeps, ReloadFailsKeeps, LoadAgainKeeps,
     ProfileLoadedKeeps, ProfileFailsKeeps, QuitAbandonedKeeps, ApplyKeeps, ConfirmDestinationKeeps,
     RetryKeeps, AppliedKeeps, ConsentRequiredKeeps, DropConfirmationRequiredKeeps, BusyKeeps,
     RefusedKeeps, RejectedKeeps, ConflictKeeps, RestageDropsKeeps, ReviewConflictKeeps,
     CancelFailsKeeps, LostTokenGoneKeeps, ExpireKeeps, ApproveDestinationsKeeps, ConfirmGrantsKeeps,
     GrantsAnsweredKeeps, GrantsRejectedKeeps, DiskMovesKeeps, RefreshKeeps, SelectSourceKeeps,
     StartFromProfileKeeps, DiscardKeeps, AnswerPromptKeeps, RequestCloseKeeps,
     CancelDestinationKeeps, CancelledKeeps
  DEF P!Next, Sources

ConfigView == <<phase, draft, vault, preview, editors, outcome, pending, gen, loads, inFlight,
                sourceLoading, call, prompt, closing, disk, token, unsure>>

LEMMA ConfigRest == ASSUME ConfigInv, UNCHANGED ConfigView PROVE ConfigInv'
<1>1. DraftTyped' /\ LoadsTyped' /\ BackendTyped' /\ CallTyped'
  BY DEF ConfigView, ConfigInv, DraftTyped, LoadsTyped, BackendTyped, CallTyped
<1>2. OutcomeApart' /\ LoadsFresh' /\ LoadsShow' /\ LoadsAlone'
  BY DEF ConfigView, ConfigInv, OutcomeApart, LoadsFresh, LoadsShow, LoadsAlone
<1>3. RequestHeld' /\ TokenShown' /\ UnknownHolds' /\ P!KeysOwned'
  BY DEF ConfigView, ConfigInv, RequestHeld, Requested, TokenShown, UnknownHolds, P!KeysOwned
<1> QED BY <1>1, <1>2, <1>3 DEF ConfigInv

LEMMA ConfigHoldAlways == StoreSpec => []ConfigHold
<1>1. StoreInit => ConfigHold
  BY ConfigStart DEF StoreInit, ConfigHold
<1>2. ConfigHold /\ [StoreNext]_storeVars => ConfigHold'
  <2> SUFFICES ASSUME ConfigHold, [StoreNext]_storeVars, part' = "config" PROVE ConfigInv'
    BY DEF ConfigHold
  <2>1. CASE PStep
    BY <2>1, ConfigStep DEF PStep, ConfigHold
  <2>2. CASE UNCHANGED storeVars
    BY <2>2, ConfigRest DEF storeVars, ConfigHold, ConfigView
  <2>3. part' = part
    BY DEF StoreNext, RStep, FStep, PStep, LStep, RRest, FRest, PRest, LRest, storeVars
  <2> QED BY <2>1, <2>2, <2>3 DEF StoreNext, RStep, FStep, LStep
<1> QED BY <1>1, <1>2, PTL DEF StoreSpec

LEMMA ConfigEnough == ASSUME ConfigHold PROVE AppliesSound
<1> SUFFICES ASSUME ConfigInv
             PROVE  P!KeysOwned /\ P!TokenOwned /\ P!RequestIsShown /\ P!UnknownStops /\ P!SourceShown
  BY DEF ConfigHold, AppliesSound
<1>1. P!KeysOwned /\ P!TokenOwned /\ P!RequestIsShown
  BY DEF ConfigInv, TokenShown, P!TokenOwned, RequestHeld, Requested, P!RequestIsShown
<1>2. P!UnknownStops /\ P!SourceShown
  BY DEF ConfigInv, UnknownHolds, P!UnknownStops, LoadsShow, Shows, P!SourceShown,
     P!SourceAlwaysShown
<1> QED BY <1>1, <1>2

(*****************************************************************************)
(* Key entries and tokens belong to the apply that needs them, but for a     *)
(* challenge that a lost answer leaves to run out, what is sent is what is   *)
(* shown, and an apply of unknown outcome stops every other.                 *)
(*****************************************************************************)
THEOREM AppliesSoundAlways == StoreSpec => []AppliesSound
  BY ConfigHoldAlways, ConfigEnough, PTL

HIDE ConfigAssumed DEF P!ConfigAssumption, P!Has, P!Spend, P!Shown, P!Open, P!Alive, P!Idle,
  P!Locked, P!Send, P!Backend, P!Drafting, P!Loading, P!Writing, P!Sending, P!NoCall, P!NoRequest,
  P!NoPrompt

-----------------------------------------------------------------------------
(* The layout of the shell.                                                 *)

Size == Nat \cup {L!NoSize}

LayoutTyped(u) ==
  /\ u \in [sizes : [L!Handles -> Nat], collapsed : SUBSET (L!Panels \cup L!Sides),
            order : {"files-first", "golem-first"}, reveal : L!Panels, revision : Nat, view : Viewports,
            repo : Nat, window : {"closed", "opening", "ready"}, pending : BOOLEAN, asked : BOOLEAN]
  /\ ~(L!Panels \subseteq u.collapsed)
  /\ u.pending => u.window = "closed"

\* The gesture that the shell knows of: its live size, and the frozen peer of a side.
ActiveTyped(a) ==
  /\ a \in [panel : L!Handles \cup {""}, size : Size, peer : Size]
  /\ a.panel # "" => a.size \in Nat
  /\ a.panel = "" => a = L!NoActive

GestureTyped == [kind : {"none", "mouse", "keys"}, start : Size, max : Size, preview : Size]
HooksTyped(h) ==
  /\ h \in [L!Handles -> GestureTyped]
  /\ \A p \in L!Handles : h[p].kind # "none" => h[p].max \in Nat

\* What a side may at most be, whatever its own gesture has frozen.
SideReach(u, p) == L!SideMax(u, IF L!Peer(p) \in u.collapsed THEN 0 ELSE L!MinSide)

CastTyped == [drags : Nat, keys : Nat, windows : Nat, toggles : Nat, reveals : Nat, restores : Nat,
              docks : Nat, focus : Nat, overlap : BOOLEAN]

LEMMA HandleNames ==
  /\ L!Handles = {"left", "right", "golem", "bottom"} /\ L!Sides = {"left", "right"}
  /\ L!Panels = {"files", "golem"} /\ L!Sides \subseteq L!Handles
  /\ L!Peer("left") = "right" /\ L!Peer("right") = "left"
  /\ L!Peer("files") = "golem" /\ L!Peer("golem") = "files"
  /\ "left" # "right" /\ "golem" # "files" /\ "" \notin L!Handles
  BY DEF L!Handles, L!Sides, L!Panels, L!Peer

LEMMA NoSizeIs == L!NoSize \notin Nat /\ L!NoSize \in Int
  BY DEF L!NoSize
LEMMA ViewOf ==
  ASSUME NEW u, LayoutTyped(u)
  PROVE  /\ u.view.width \in Nat /\ u.view.height \in Nat /\ u.view.width >= 450
         /\ L!SideCap(u) \in Int /\ L!SideCap(u) >= 180 /\ L!SideCap(u) <= 600
<1>1. u.view.width \in Nat /\ u.view.height \in Nat /\ u.view.width >= 450
  BY LayoutAssumed DEF L!LayoutAssumption, LayoutTyped
<1>2. \A n \in Nat : n >= 900 => n \div 5 \in Int /\ n \div 5 >= 180
  OBVIOUS
<1>3. u.view.width * 2 \in Nat /\ u.view.width * 2 >= 900
  BY <1>1
<1>4. (u.view.width * 2) \div 5 \in Int /\ (u.view.width * 2) \div 5 >= 180
  BY <1>2, <1>3
<1> QED BY <1>1, <1>4 DEF L!SideCap, L!At, L!MaxPanel

LEMMA AskedIs ==
  ASSUME NEW u, LayoutTyped(u), NEW a, ActiveTyped(a), NEW p \in L!Sides
  PROVE  /\ p \in u.collapsed => L!SideAsked(u, a, p) = 0
         /\ p \notin u.collapsed => L!SideAsked(u, a, p) \in 180..L!SideCap(u)
<1>1. L!Requested(u, a)[p] \in Nat
  BY HandleNames DEF L!Requested, LayoutTyped, ActiveTyped
<1>2. L!Clamp(L!Requested(u, a)[p], 180, L!SideCap(u)) \in 180..L!SideCap(u)
  BY <1>1, ViewOf DEF L!Clamp, L!At, L!Least
<1> QED BY <1>2 DEF L!SideAsked, L!MinSide


LEMMA SidesAre ==
  ASSUME NEW u, LayoutTyped(u), NEW a, ActiveTyped(a), NEW w, w = L!SideWidths(u, a)
  PROVE  /\ w.left \in Nat /\ w.right \in Nat
         /\ "left" \in u.collapsed => w.left = 0
         /\ "left" \notin u.collapsed => w.left \in 180..SideReach(u, "left")
         /\ "right" \in u.collapsed => w.right = 0
         /\ "right" \notin u.collapsed => w.right \in 180..SideReach(u, "right")
<1> DEFINE x == L!SideAsked(u, a, "left")
           y == L!SideAsked(u, a, "right")
           room == u.view.width - L!HorizontalChrome - L!CenterReserve
           first == IF a.panel = "right" THEN "left" ELSE "right"
<1>1. /\ x \in Nat /\ x <= L!SideCap(u) /\ (x = 0 \/ x >= 180) /\ (x = 0 <=> "left" \in u.collapsed)
      /\ y \in Nat /\ y <= L!SideCap(u) /\ (y = 0 \/ y >= 180) /\ (y = 0 <=> "right" \in u.collapsed)
  BY AskedIs, ViewOf, HandleNames
<1>2. room \in Int /\ first \in L!Sides
  BY ViewOf, HandleNames DEF L!HorizontalChrome, L!CenterReserve
<1>3. w = L!Narrowed([left |-> x, right |-> y], first, L!Least(0, x + y - room))
  BY DEF L!SideWidths
<1> HIDE DEF x, y, room, first
<1>4. /\ w.left \in Int /\ w.right \in Int /\ w.left <= x /\ w.right <= y
      /\ IF x = 0 THEN w.left = 0 ELSE w.left >= 180
      /\ IF y = 0 THEN w.right = 0 ELSE w.right >= 180
      /\ w.left <= 180 \/ w.left <= room - w.right
      /\ w.right <= 180 \/ w.right <= room - w.left
  <2>0. x \in Nat /\ y \in Nat /\ (x = 0 \/ x >= 180) /\ (y = 0 \/ y >= 180)
    BY <1>1
  <2>1. CASE first = "left"
    BY <2>0, <2>1, <1>2, <1>3, HandleNames DEF L!Narrowed, L!GivesWay, L!At, L!Least, L!MinSide
  <2>2. CASE first = "right"
    BY <2>0, <2>2, <1>2, <1>3, HandleNames DEF L!Narrowed, L!GivesWay, L!At, L!Least, L!MinSide
  <2> QED BY <2>1, <2>2, <1>2 DEF L!Sides
<1>5. /\ SideReach(u, "left") = L!Least(180, L!At(L!SideCap(u), room - (IF "right" \in u.collapsed THEN 0 ELSE 180)))
      /\ SideReach(u, "right") = L!Least(180, L!At(L!SideCap(u), room - (IF "left" \in u.collapsed THEN 0 ELSE 180)))
  BY HandleNames DEF SideReach, L!SideMax, L!MinSide, room
<1>6. w.left \in Nat /\ w.right \in Nat
  BY <1>4
<1>7. x # 0 => w.left \in 180..SideReach(u, "left")
  BY <1>1, <1>2, <1>4, <1>5, ViewOf DEF L!Least, L!At
<1>8. y # 0 => w.right \in 180..SideReach(u, "right")
  BY <1>1, <1>2, <1>4, <1>5, ViewOf DEF L!Least, L!At
<1> QED BY <1>1, <1>4, <1>6, <1>7, <1>8

\* The ceiling of a side in its own gesture; the bottom and the seam.
LEMMA SideMaxIs ==
  ASSUME NEW u, LayoutTyped(u), NEW p \in L!Sides, NEW peer \in Size
  PROVE  /\ L!SideMax(u, peer) \in Nat /\ L!SideMax(u, peer) >= 180
         /\ SideReach(u, p) \in Nat /\ SideReach(u, p) >= 180
         /\ (peer \in Nat /\ (L!Peer(p) \notin u.collapsed => peer >= 180)) => L!SideMax(u, peer) <= SideReach(u, p)
  BY ViewOf DEF SideReach, L!SideMax, L!Least, L!At, L!MinSide, L!HorizontalChrome, L!CenterReserve, Size, L!NoSize

LEMMA BottomIs ==
  ASSUME NEW u, LayoutTyped(u)
  PROVE  L!BottomMax(u) \in Nat /\ L!BottomMax(u) >= 100
  BY ViewOf DEF L!BottomMax, L!Least, L!At, L!MinBottom, L!MaxPanel, L!VerticalChrome, L!MinEditor

LEMMA CeilingIs ==
  ASSUME NEW u, LayoutTyped(u), NEW w, w.left \in Nat, w.right \in Nat
  PROVE  /\ L!GolemCeiling(u, w) \in Int
         /\ L!GolemCeiling(u, w) + w.left + w.right + L!MinFiles + L!HorizontalChrome <= u.view.width
<1>1. u.view.width \div 2 \in Int
  BY ViewOf
<1> QED BY <1>1, ViewOf DEF L!GolemCeiling, L!At, L!MaxGolem, L!MinFiles, L!HorizontalChrome

Ceiling(u, a) == L!GolemCeiling(u, L!SideWidths(u, a))

\* Which of the pair is a rail.
LEMMA RailsAre ==
  ASSUME NEW u, LayoutTyped(u), NEW a, ActiveTyped(a), NEW r, r = L!Rails(u, Ceiling(u, a))
  PROVE  /\ r \subseteq L!Panels /\ r # L!Panels
         /\ L!Undocked(u) => r = {"golem"}
         /\ ~L!Undocked(u) /\ u.collapsed \cap L!Panels # {} => r = u.collapsed \cap L!Panels
         /\ ~L!Undocked(u) /\ u.collapsed \cap L!Panels = {} => r \in {{}, {L!Peer(u.reveal)}}
         /\ r = {} => ~L!Undocked(u) /\ u.collapsed \cap L!Panels = {} /\ Ceiling(u, a) >= L!MinGolem
<1>0. Ceiling(u, a) \in Int
  BY SidesAre, CeilingIs DEF Ceiling
<1>1. L!Peer(u.reveal) \in L!Panels /\ u.reveal \in L!Panels
  BY HandleNames DEF LayoutTyped
<1>2. u.collapsed \cap L!Panels # L!Panels
  BY DEF LayoutTyped
<1>3. CASE L!Undocked(u)
  BY <1>3, HandleNames DEF L!Rails
<1>4. CASE ~L!Undocked(u) /\ u.collapsed \cap L!Panels = {}
  <2>1. r = IF Ceiling(u, a) < L!MinGolem THEN {L!Peer(u.reveal)} ELSE {}
    BY <1>4 DEF L!Rails
  <2> QED BY <2>1, <1>0, <1>1, <1>4, HandleNames DEF L!MinGolem
<1>5. CASE ~L!Undocked(u) /\ u.collapsed \cap L!Panels # {}
  <2>1. r = u.collapsed \cap L!Panels
    BY <1>5 DEF L!Rails
  <2> QED BY <2>1, <1>2, <1>5
<1> QED BY <1>3, <1>4, <1>5

LEMMA LayoutHas ==
  ASSUME NEW u, LayoutTyped(u), NEW a, ActiveTyped(a), NEW e, e = L!Effective(u, a)
  PROVE  /\ Ceiling(u, a) \in Int /\ e.rails = L!Rails(u, Ceiling(u, a)) /\ e.seam = (e.rails = {})
         /\ e.size.left = L!SideWidths(u, a).left /\ e.size.right = L!SideWidths(u, a).right
         /\ e.size.bottom = L!Clamp(L!Requested(u, a).bottom, L!MinBottom, L!BottomMax(u))
         /\ e.size.golem = IF e.seam THEN L!At(Ceiling(u, a), L!Least(L!MinGolem, L!Requested(u, a).golem))
                           ELSE L!Requested(u, a).golem
         /\ DOMAIN e.size = L!Handles /\ DOMAIN e.max = L!Handles
         /\ e.max.left = L!SideMax(u, IF a.panel = "left" THEN a.peer ELSE L!SideWidths(u, a).right)
         /\ e.max.right = L!SideMax(u, IF a.panel = "right" THEN a.peer ELSE L!SideWidths(u, a).left)
         /\ e.max.golem = IF e.seam THEN Ceiling(u, a) ELSE 0
         /\ e.max.bottom = L!BottomMax(u)
<1>1. Ceiling(u, a) \in Int
  BY SidesAre, CeilingIs DEF Ceiling
<1>2. e = L!Budget(u, a, L!Requested(u, a), L!SideWidths(u, a), Ceiling(u, a), L!Rails(u, Ceiling(u, a)))
  BY DEF L!Effective, L!LayoutOf, L!CenterOf, Ceiling
<1> DEFINE b == L!Budget(u, a, L!Requested(u, a), L!SideWidths(u, a), Ceiling(u, a), L!Rails(u, Ceiling(u, a)))
           r == L!Rails(u, Ceiling(u, a))
<1>3. b.rails = r /\ b.seam = (r = {})
  BY DEF L!Budget
<1>4. /\ b.size.left = L!SideWidths(u, a).left /\ b.size.right = L!SideWidths(u, a).right
      /\ b.size.bottom = L!Clamp(L!Requested(u, a).bottom, L!MinBottom, L!BottomMax(u))
      /\ b.size.golem = IF r = {} THEN L!At(Ceiling(u, a), L!Least(L!MinGolem, L!Requested(u, a).golem))
                        ELSE L!Requested(u, a).golem
      /\ DOMAIN b.size = L!Handles
  BY HandleNames DEF L!Budget
<1>5. /\ b.max.left = L!SideMax(u, IF a.panel = "left" THEN a.peer ELSE L!SideWidths(u, a).right)
      /\ b.max.right = L!SideMax(u, IF a.panel = "right" THEN a.peer ELSE L!SideWidths(u, a).left)
      /\ b.max.golem = IF r = {} THEN Ceiling(u, a) ELSE 0
      /\ b.max.bottom = L!BottomMax(u)
      /\ DOMAIN b.max = L!Handles
  BY HandleNames DEF L!Budget
<1> HIDE DEF b, r
<1> QED BY <1>1, <1>2, <1>3, <1>4, <1>5 DEF b, r

\* The effective layout: what each panel has, and what its own gesture may give it.
LEMMA LayoutIs ==
  ASSUME NEW u, LayoutTyped(u), NEW a, ActiveTyped(a), NEW e, e = L!Effective(u, a)
  PROVE  /\ \A p \in L!Handles : e.size[p] \in Nat /\ e.max[p] \in Nat
         /\ \A p \in L!Sides : e.max[p] >= 180 /\ IF p \in u.collapsed THEN e.size[p] = 0
                                                  ELSE e.size[p] \in 180..SideReach(u, p)
         /\ \A p \in L!Sides :
              (a.panel = p => a.peer \in Nat /\ (L!Peer(p) \notin u.collapsed => a.peer >= 180))
                => e.max[p] <= SideReach(u, p)
         /\ e.size.bottom \in 100..L!BottomMax(u) /\ e.max.bottom = L!BottomMax(u) /\ e.max.bottom >= 100
         /\ e.seam => e.size.golem \in 320..e.max.golem /\ e.max.golem >= 320
<1> DEFINE w == L!SideWidths(u, a)
           c == Ceiling(u, a)
<1>1. /\ w.left \in Nat /\ w.right \in Nat
      /\ "left" \in u.collapsed => w.left = 0
      /\ "left" \notin u.collapsed => w.left \in 180..SideReach(u, "left")
      /\ "right" \in u.collapsed => w.right = 0
      /\ "right" \notin u.collapsed => w.right \in 180..SideReach(u, "right")
  BY SidesAre
<1>2. /\ c \in Int /\ e.rails = L!Rails(u, c) /\ e.seam = (e.rails = {})
      /\ e.size.left = w.left /\ e.size.right = w.right
      /\ e.size.bottom = L!Clamp(L!Requested(u, a).bottom, L!MinBottom, L!BottomMax(u))
      /\ e.size.golem = IF e.seam THEN L!At(c, L!Least(L!MinGolem, L!Requested(u, a).golem))
                        ELSE L!Requested(u, a).golem
      /\ e.max.left = L!SideMax(u, IF a.panel = "left" THEN a.peer ELSE w.right)
      /\ e.max.right = L!SideMax(u, IF a.panel = "right" THEN a.peer ELSE w.left)
      /\ e.max.golem = IF e.seam THEN c ELSE 0
      /\ e.max.bottom = L!BottomMax(u)
  BY LayoutHas
<1>3. e.seam => c >= 320
  BY <1>2, RailsAre DEF L!MinGolem
<1>4. \A p \in L!Handles : L!Requested(u, a)[p] \in Nat
  BY HandleNames DEF L!Requested, LayoutTyped, ActiveTyped
<1> HIDE DEF w, c
<1>5. /\ e.size.golem \in Nat /\ e.max.golem \in Nat
      /\ e.seam => e.size.golem \in 320..e.max.golem /\ e.max.golem >= 320
  BY <1>2, <1>3, <1>4, HandleNames DEF L!At, L!Least, L!MinGolem
<1>6. e.size.bottom \in 100..L!BottomMax(u) /\ L!BottomMax(u) \in Nat /\ L!BottomMax(u) >= 100
  BY <1>2, <1>4, BottomIs, HandleNames DEF L!Clamp, L!At, L!Least, L!MinBottom
<1>7. /\ e.size.left \in Nat /\ e.max.left \in Nat /\ e.max.left >= 180
      /\ IF "left" \in u.collapsed THEN e.size.left = 0 ELSE e.size.left \in 180..SideReach(u, "left")
      /\ (a.panel = "left" => a.peer \in Nat /\ ("right" \notin u.collapsed => a.peer >= 180))
           => e.max.left <= SideReach(u, "left")
  <2>1. (IF a.panel = "left" THEN a.peer ELSE w.right) \in Size
    BY <1>1 DEF ActiveTyped, Size
  <2> QED BY <1>1, <1>2, <2>1, SideMaxIs, HandleNames
<1>8. /\ e.size.right \in Nat /\ e.max.right \in Nat /\ e.max.right >= 180
      /\ IF "right" \in u.collapsed THEN e.size.right = 0 ELSE e.size.right \in 180..SideReach(u, "right")
      /\ (a.panel = "right" => a.peer \in Nat /\ ("left" \notin u.collapsed => a.peer >= 180))
           => e.max.right <= SideReach(u, "right")
  <2>1. (IF a.panel = "right" THEN a.peer ELSE w.left) \in Size
    BY <1>1 DEF ActiveTyped, Size
  <2> QED BY <1>1, <1>2, <2>1, SideMaxIs, HandleNames
<1> QED BY <1>2, <1>5, <1>6, <1>7, <1>8, HandleNames

ShellTyped ==
  /\ LayoutTyped(ui) /\ ActiveTyped(active) /\ HooksTyped(hook)
  /\ css \in [L!Handles -> Nat] /\ left \in CastTyped

\* What is shown is the budget of what is kept, and of every variable that no gesture owns it is
\* recorded that it was written.
Rendered ==
  /\ layout = L!Effective(ui, active)
  /\ \A p \in L!Handles : written[p] = IF active.panel = p THEN L!NoSize ELSE layout.size[p]

\* The gesture of the shell is one of the handle's, which can be used.
Owner == active.panel # "" => hook[active.panel].kind # "none" /\ L!Usable(active.panel)

\* What gestures that do not overlap have: one handle at most, which stays within its reach.
PeerFits(u, a, p) == a.peer \in Nat /\ (L!Peer(p) \notin u.collapsed => a.peer >= 180)
Granted(p, n) == n \in L!Floor(p)..L!Reach(p)
Owned ==
  \A p \in L!Handles :
    /\ hook[p].kind # "none" => active.panel = p
    /\ active.panel = p => Granted(p, css[p]) /\ Granted(p, hook[p].max) /\ (p \in L!Sides => PeerFits(ui, active, p))
    /\ active.panel # p => css[p] = layout.size[p]

\* The window that opens is announced, but not the one that was restored.
Announcing ==
  /\ latch \in BOOLEAN
  /\ ui.window = "closed" => latch = ui.pending
  /\ ui.window = "opening" => latch = ~ui.asked
  /\ ~L!Undocked(ui) => said # "undocked"

LayoutInv ==
  ShellTyped /\ Rendered /\ Owner /\ (~left.overlap => Owned) /\ Announcing /\ L!FocusShown
LayoutHold == part = "shell" => LayoutInv

-----------------------------------------------------------------------------
\* What a render leaves.
LEMMA RenderIs ==
  ASSUME NEW u, NEW h, NEW a, NEW c, NEW again, L!Render(u, h, a, c, again)
  PROVE  /\ ui' = u /\ active' = IF L!Revoked(u, h, a) # {} THEN L!NoActive ELSE a
         /\ layout' = L!Effective(u, active')
         /\ hook' = [p \in L!Handles |-> IF p \in L!Revoked(u, h, a) THEN L!NoGesture ELSE h[p]]
         /\ css' = [p \in L!Handles |->
                      IF active'.panel = p \/ L!Written(L!Revoked(u, h, a) # {}, again)[p] = layout'.size[p]
                      THEN c[p] ELSE layout'.size[p]]
         /\ written' = [p \in L!Handles |-> IF active'.panel = p THEN L!NoSize ELSE layout'.size[p]]
         /\ focus' = L!FocusAfter(layout', u) /\ L!Announced(u, L!LatchedAfter(u))
  BY DEF L!Render, L!RenderWith, L!RenderNow, L!Settle

LEMMA RenderTyped ==
  ASSUME NEW u, NEW h, NEW a, NEW c, NEW again, L!Render(u, h, a, c, again),
         LayoutTyped(u), HooksTyped(h), ActiveTyped(a), c \in [L!Handles -> Nat]
  PROVE  /\ LayoutTyped(ui') /\ ActiveTyped(active') /\ HooksTyped(hook') /\ css' \in [L!Handles -> Nat]
         /\ Rendered'
<1> DEFINE gone == L!Revoked(u, h, a)
<1>1. /\ ui' = u /\ active' = IF gone # {} THEN L!NoActive ELSE a
      /\ layout' = L!Effective(u, active')
      /\ hook' = [p \in L!Handles |-> IF p \in gone THEN L!NoGesture ELSE h[p]]
      /\ css' = [p \in L!Handles |->
                   IF active'.panel = p \/ L!Written(gone # {}, again)[p] = layout'.size[p]
                   THEN c[p] ELSE layout'.size[p]]
      /\ written' = [p \in L!Handles |-> IF active'.panel = p THEN L!NoSize ELSE layout'.size[p]]
  BY RenderIs
<1> HIDE DEF gone
<1>2. ActiveTyped(L!NoActive) /\ L!NoGesture \in GestureTyped /\ L!NoGesture.kind = "none"
  BY HandleNames DEF ActiveTyped, L!NoActive, GestureTyped, L!NoGesture, Size
<1>3. LayoutTyped(ui') /\ ActiveTyped(active')
  BY <1>1, <1>2
<1>4. HooksTyped(hook')
  BY <1>1, <1>2 DEF HooksTyped
<1>5. \A p \in L!Handles : layout'.size[p] \in Nat
  BY <1>1, <1>3, LayoutIs
<1>6. css' \in [L!Handles -> Nat]
  BY <1>1, <1>5
<1> QED BY <1>1, <1>3, <1>4, <1>6 DEF Rendered

\* The gesture survives a render only if its handle is still there.
LEMMA RenderOwner ==
  ASSUME ShellTyped, NEW u, NEW h, NEW a, NEW c, NEW again, L!Render(u, h, a, c, again),
         LayoutTyped(u), HooksTyped(h), ActiveTyped(a),
         a.panel # "" => h[a.panel].kind # "none", a.panel \in L!Sides => a.panel \notin ui.collapsed
  PROVE  Owner'
<1> DEFINE gone == L!Revoked(u, h, a)
<1>1. /\ ui' = u /\ active' = IF gone # {} THEN L!NoActive ELSE a
      /\ layout' = L!Effective(u, active')
      /\ hook' = [p \in L!Handles |-> IF p \in gone THEN L!NoGesture ELSE h[p]]
  BY ONLY RenderIs, L!Render(u, h, a, c, again)
<1> SUFFICES ASSUME active'.panel # "" PROVE hook'[active'.panel].kind # "none" /\ L!Usable(active.panel)'
  BY DEF Owner
<1>2. gone = {} /\ active' = a /\ a.panel \in L!Handles
  BY <1>1 DEF L!NoActive, ActiveTyped
<1>3. a.panel \notin gone /\ h[a.panel].kind # "none"
  BY <1>2
<1>4. u.collapsed = ui.collapsed /\ (a.panel = "golem" => L!Effective(u, a).seam)
  BY <1>2, <1>3 DEF L!Revoked, L!InvalidationKey, L!KeyOf
<1>5. a.panel # "golem" => a.panel \notin u.collapsed
  BY <1>2, <1>4, HandleNames DEF LayoutTyped, ShellTyped
<1> QED BY <1>1, <1>2, <1>3, <1>4, <1>5 DEF L!Usable

\* A gesture that does not concern the sides leaves the seam its reach.
LEMMA SeamStays ==
  ASSUME LayoutTyped(ui), ActiveTyped(active), Rendered, NEW u, LayoutTyped(u), NEW a, ActiveTyped(a),
         u.view = ui.view, u.collapsed = ui.collapsed, u.sizes.left = ui.sizes.left,
         u.sizes.right = ui.sizes.right, a.panel \notin L!Sides, active.panel \notin L!Sides,
         layout.seam, L!Effective(u, a).seam
  PROVE  L!Effective(u, a).max.golem = layout.max.golem
<1>1. L!Requested(u, a).left = L!Requested(ui, active).left /\ L!Requested(u, a).right = L!Requested(ui, active).right
  BY HandleNames DEF L!Requested
<1>2. /\ L!SideAsked(u, a, "left") = L!SideAsked(ui, active, "left")
      /\ L!SideAsked(u, a, "right") = L!SideAsked(ui, active, "right")
  BY <1>1, HandleNames DEF L!SideAsked, L!SideCap
<1>3. L!SideWidths(u, a) = L!SideWidths(ui, active)
  BY <1>2, HandleNames DEF L!SideWidths
<1>4. Ceiling(u, a) = Ceiling(ui, active)
  BY <1>3 DEF Ceiling, L!GolemCeiling
<1>5. L!Effective(u, a).max.golem = Ceiling(u, a)
  BY LayoutHas
<1>6. layout.max.golem = Ceiling(ui, active)
  BY LayoutHas DEF Rendered
<1> QED BY <1>4, <1>5, <1>6

LEMMA ReachIs ==
  /\ L!Reach("left") = SideReach(ui, "left") /\ L!Reach("right") = SideReach(ui, "right")
  /\ L!Reach("golem") = layout.max.golem /\ L!Reach("bottom") = L!BottomMax(ui)
  /\ L!Reach("left")' = SideReach(ui', "left") /\ L!Reach("right")' = SideReach(ui', "right")
  /\ L!Reach("golem")' = layout'.max.golem /\ L!Reach("bottom")' = L!BottomMax(ui')
  /\ L!Floor("left") = 180 /\ L!Floor("right") = 180 /\ L!Floor("golem") = 320 /\ L!Floor("bottom") = 100
<1>1. /\ L!Reach("left") = SideReach(ui, "left") /\ L!Reach("right") = SideReach(ui, "right")
      /\ L!Reach("left")' = SideReach(ui', "left") /\ L!Reach("right")' = SideReach(ui', "right")
  BY HandleNames DEF L!Reach, SideReach
<1>2. /\ L!Reach("golem") = layout.max.golem /\ L!Reach("bottom") = L!BottomMax(ui)
      /\ L!Reach("golem")' = layout'.max.golem /\ L!Reach("bottom")' = L!BottomMax(ui')
  BY HandleNames DEF L!Reach
<1>3. L!Floor("left") = 180 /\ L!Floor("right") = 180 /\ L!Floor("golem") = 320 /\ L!Floor("bottom") = 100
  BY HandleNames DEF L!Floor, L!MinSide, L!MinGolem, L!MinBottom
<1> QED BY <1>1, <1>2, <1>3

LEMMA LayoutNow ==
  ASSUME LayoutTyped(ui), ActiveTyped(active), Rendered
  PROVE  /\ Ceiling(ui, active) \in Int /\ layout.seam = (layout.rails = {})
         /\ layout.rails = L!Rails(ui, Ceiling(ui, active))
         /\ layout.max.golem = IF layout.seam THEN Ceiling(ui, active) ELSE 0
         /\ layout.size.left = L!SideWidths(ui, active).left /\ layout.size.right = L!SideWidths(ui, active).right
         /\ \A p \in L!Handles : layout.size[p] \in Nat /\ layout.max[p] \in Nat
  BY LayoutHas, LayoutIs DEF Rendered

\* Unless gestures overlap, a render leaves each variable at the size of the layout, but that of
\* the gesture, which stays within its reach.
LEMMA RenderOwned ==
  ASSUME ShellTyped, Rendered, Owner, Owned,
         NEW u, NEW h, NEW a, NEW c, NEW again, L!Render(u, h, a, c, again),
         LayoutTyped(u), HooksTyped(h), ActiveTyped(a), c \in [L!Handles -> Nat],
         a.panel # "" => h[a.panel].kind # "none",
         \A p \in L!Handles : /\ h[p].kind # "none" => a.panel = p
                              /\ a.panel # p => c[p] = css[p],
         a.panel # "" => /\ Granted(a.panel, c[a.panel]) /\ Granted(a.panel, h[a.panel].max)
                         /\ a.panel \in L!Sides => PeerFits(ui, a, a.panel),
         a.panel = "golem" => /\ active.panel \notin L!Sides
                              /\ L!KeyOf(u) = L!KeyOf(ui) => /\ u.sizes.left = ui.sizes.left
                                                             /\ u.sizes.right = ui.sizes.right
  PROVE  Owned'
<1> DEFINE gone == L!Revoked(u, h, a)
<1>1. /\ ui' = u /\ active' = IF gone # {} THEN L!NoActive ELSE a
      /\ layout' = L!Effective(u, active')
      /\ hook' = [p \in L!Handles |-> IF p \in gone THEN L!NoGesture ELSE h[p]]
      /\ css' = [p \in L!Handles |->
                   IF active'.panel = p \/ L!Written(gone # {}, again)[p] = layout'.size[p]
                   THEN c[p] ELSE layout'.size[p]]
  BY ONLY RenderIs, L!Render(u, h, a, c, again)
<1>2. LayoutTyped(ui') /\ ActiveTyped(active') /\ Rendered'
  BY ONLY RenderTyped, L!Render(u, h, a, c, again), LayoutTyped(u), HooksTyped(h), ActiveTyped(a),
          c \in [L!Handles -> Nat]
<1>3. \A p \in L!Handles : layout'.size[p] \in Nat
  BY <1>1, <1>2, LayoutIs
<1> SUFFICES ASSUME NEW p \in L!Handles
             PROVE  /\ hook'[p].kind # "none" => active'.panel = p
                    /\ active'.panel = p => /\ (Granted(p, css[p]) /\ Granted(p, hook[p].max))'
                                            /\ p \in L!Sides => PeerFits(ui, active, p)'
                    /\ active'.panel # p => css'[p] = layout'.size[p]
  BY DEF Owned
<1>4. ASSUME hook'[p].kind # "none" PROVE active'.panel = p
  <2>1. p \notin gone /\ h[p].kind # "none" /\ a.panel = p
    BY <1>1, <1>4 DEF L!NoGesture
  <2>2. gone = {}
    BY <2>1 DEF L!Revoked
  <2> QED BY <1>1, <2>1, <2>2
<1>5. ASSUME active'.panel = p
      PROVE  /\ (Granted(p, css[p]) /\ Granted(p, hook[p].max))'
             /\ p \in L!Sides => PeerFits(ui, active, p)'
  <2>1. gone = {} /\ active' = a /\ a.panel = p /\ p # ""
    BY <1>1, <1>5, HandleNames DEF L!NoActive
  <2>2. css'[p] = c[p] /\ hook'[p] = h[p] /\ h[p].kind # "none"
    BY <1>1, <2>1
  <2>3. L!KeyOf(u) = L!KeyOf(ui) /\ (p = "golem" => L!Effective(u, a).seam)
    BY <2>1, <2>2 DEF L!Revoked, L!InvalidationKey
  <2>4. u.view = ui.view /\ u.collapsed = ui.collapsed
    BY <2>3 DEF L!KeyOf
  <2>5. Granted(p, c[p]) /\ Granted(p, h[p].max) /\ (p \in L!Sides => PeerFits(ui, a, p))
    BY <2>1
  <2>6. L!Reach(p)' = L!Reach(p)
    <3>1. CASE p \in L!Sides
      <4>1. L!Reach(p) = SideReach(ui, p)
        BY ONLY <3>1, ReachIs, HandleNames
      <4>2. L!Reach(p)' = SideReach(ui', p)
        BY ONLY <3>1, ReachIs, HandleNames
      <4>3. SideReach(u, p) = SideReach(ui, p)
        BY <2>4 DEF SideReach, L!SideMax, L!SideCap
      <4> QED BY <1>1, <4>1, <4>2, <4>3
    <3>2. CASE p = "bottom"
      BY <3>2, <1>1, <2>4, HandleNames DEF L!Reach, L!BottomMax
    <3>3. CASE p = "golem"
      <4>1. layout.max.golem >= 320 /\ L!Reach(p) = layout.max.golem
        <5>1. L!Reach(p) = layout.max.golem /\ L!Floor(p) = 320
          BY ONLY <3>3, ReachIs
        <5>2. layout.max.golem \in Nat
          BY ONLY ShellTyped, Rendered, LayoutNow, HandleNames DEF ShellTyped
        <5>3. c[p] \in 320..layout.max.golem
          BY ONLY <2>5, <5>1 DEF Granted
        <5> QED BY ONLY <5>1, <5>2, <5>3
      <4>2. layout.seam
        <5>1. layout.max.golem = IF layout.seam THEN Ceiling(ui, active) ELSE 0
          BY ONLY ShellTyped, Rendered, LayoutNow DEF ShellTyped
        <5> QED BY ONLY <4>1, <5>1
      <4>3. L!Effective(u, a).max.golem = layout.max.golem
        <5>1. a.panel \notin L!Sides /\ active.panel \notin L!Sides
          BY <2>1, <3>3, HandleNames
        <5>2. u.sizes.left = ui.sizes.left /\ u.sizes.right = ui.sizes.right
          BY <2>1, <2>3, <3>3
        <5> QED BY <5>1, <5>2, <4>2, <2>3, <2>4, <3>3, SeamStays DEF ShellTyped
      <4>4. L!Reach(p)' = layout'.max.golem
        BY ONLY <3>3, ReachIs
      <4> QED BY ONLY <1>1, <2>1, <4>1, <4>3, <4>4
    <3> QED BY <3>1, <3>2, <3>3, HandleNames
  <2> QED BY <1>1, <2>1, <2>2, <2>4, <2>5, <2>6 DEF Granted, PeerFits
<1>6. ASSUME active'.panel # p PROVE css'[p] = layout'.size[p]
  <2> SUFFICES ASSUME L!Written(gone # {}, again)[p] = layout'.size[p] PROVE c[p] = layout'.size[p]
    BY <1>1, <1>6
  <2>1. L!NoSize \notin Nat
    BY ONLY NoSizeIs
  <2>2. gone = {} /\ written[p] = layout'.size[p]
    BY <1>3, <2>1 DEF L!Written
  <2>3. active.panel # p /\ layout.size[p] = layout'.size[p]
    BY ONLY <1>3, <2>1, <2>2, Rendered, p \in L!Handles DEF Rendered
  <2>4. css[p] = layout.size[p]
    BY <2>3 DEF Owned
  <2>5. a.panel # p
    BY <1>1, <1>6, <2>2
  <2> QED BY <2>3, <2>4, <2>5
<1> QED BY <1>4, <1>5, <1>6

\* A render leaves the focus on the screen, and drops it only with another layout or the window.
LEMMA RenderFocus ==
  ASSUME LayoutTyped(ui), ActiveTyped(active), Rendered, L!FocusShown,
         NEW u, NEW h, NEW a, NEW c, NEW again, L!Render(u, h, a, c, again),
         LayoutTyped(u), ActiveTyped(a)
  PROVE  /\ L!FocusShown'
         /\ focus \in L!Panels /\ focus' = "none" =>
              u.revision # ui.revision \/ L!Undocked(u) # L!Undocked(ui)
<1> DEFINE e == layout'
           base == IF L!Shown(focus, e, u) THEN focus ELSE "none"
           given == L!HandsToRail("files", base, e, u)
           files == L!ComesBack("files", given, e, u)
           taken == L!HandsToRail("golem", files, e, u)
           final == L!ComesBack("golem", taken, e, u)
<1>1. /\ ui' = u /\ active' \in {L!NoActive, a} /\ e = L!Effective(u, active')
      /\ focus' = IF u.revision # ui.revision \/ L!Undocked(u) # L!Undocked(ui) THEN base ELSE final
  BY ONLY RenderIs, L!Render(u, h, a, c, again) DEF L!FocusAfter, e, base, given, files, taken, final
<1>2. ActiveTyped(active')
  <2>1. ActiveTyped(L!NoActive)
    BY ONLY HandleNames DEF ActiveTyped, L!NoActive, Size
  <2> QED BY ONLY <1>1, <2>1, ActiveTyped(a)
<1>3. e.rails \subseteq L!Panels /\ (L!Undocked(u) => e.rails = {"golem"})
  <2>1. e.rails = L!Rails(u, Ceiling(u, active'))
    BY ONLY LayoutHas, LayoutTyped(u), <1>1, <1>2
  <2> QED BY ONLY RailsAre, LayoutTyped(u), <1>2, <2>1
<1>4. L!Undocked(ui) => layout.rails = {"golem"}
  BY ONLY RailsAre, LayoutNow, LayoutTyped(ui), ActiveTyped(active), Rendered
<1>5. L!FocusShown = L!Shown(focus, layout, ui) /\ L!FocusShown' = L!Shown(focus', e, ui')
  BY ONLY TRUE DEF L!FocusShown
<1>6. L!Shown("none", e, u) /\ L!Shown(base, e, u)
  BY ONLY HandleNames DEF L!Shown, base
<1> HIDE DEF e, base, given, files, taken, final
<1>7. ASSUME L!Undocked(u) = L!Undocked(ui) PROVE L!Shown(final, e, u)
  <2>1. L!Shown(given, e, u)
    BY ONLY <1>6, HandleNames DEF given, L!HandsToRail, L!Rail, L!Shown
  <2>2. L!Shown(files, e, u)
    BY ONLY <2>1, HandleNames DEF files, L!ComesBack, L!Shown
  <2>3. "golem" \in e.rails \ layout.rails => ~L!Undocked(u)
    BY ONLY <1>3, <1>4, <1>7
  <2>4. L!Shown(taken, e, u)
    BY ONLY <2>2, <2>3, HandleNames DEF taken, L!HandsToRail, L!Rail, L!Shown
  <2> QED BY ONLY <2>4, HandleNames DEF final, L!ComesBack, L!Shown
<1>8. L!FocusShown'
  BY ONLY <1>1, <1>5, <1>6, <1>7
<1>9. ASSUME focus \in L!Panels PROVE final # "none"
  <2>1. focus \notin layout.rails
    <3>1. L!Shown(focus, layout, ui)
      BY ONLY L!FocusShown DEF L!FocusShown
    <3> QED BY ONLY <1>9, <3>1, HandleNames DEF L!Shown
  <2>2. CASE base # "none"
    BY ONLY <2>2, HandleNames DEF final, taken, files, given, L!ComesBack, L!HandsToRail, L!Rail
  <2>3. CASE base = "none"
    <3>1. focus \in e.rails
      BY ONLY <2>3, <1>9, HandleNames DEF base, L!Shown
    <3>2. CASE focus = "files"
      BY ONLY <3>2, <3>1, <2>1, HandleNames DEF final, taken, files, given, L!ComesBack, L!HandsToRail, L!Rail
    <3>3. CASE focus = "golem"
      BY ONLY <3>3, <3>1, <2>1, HandleNames DEF final, taken, L!ComesBack, L!HandsToRail, L!Rail
    <3> QED BY ONLY <3>2, <3>3, <1>9, HandleNames
  <2> QED BY ONLY <2>2, <2>3
<1> QED BY ONLY <1>1, <1>8, <1>9

\* What a render announces: a window that the user opened, and only that.
LEMMA RenderAnnounces ==
  ASSUME Announcing, LayoutTyped(ui), NEW u, NEW h, NEW a, NEW c, NEW again, L!Render(u, h, a, c, again),
         LayoutTyped(u),
         \/ u.window = ui.window /\ u.pending = ui.pending /\ u.asked = ui.asked
         \/ ui.window = "closed" /\ u.window = "closed" /\ u.pending
         \/ ui.window = "closed" /\ u.window = "opening" /\ ~u.pending /\ u.asked = ~ui.pending
         \/ ui.window = "opening" /\ u.window \in {"ready", "closed"} /\ ~u.pending
         \/ ui.window = "ready" /\ u.window = "closed" /\ ~u.pending
  PROVE  Announcing' /\ (~L!Undocked(ui) /\ L!Undocked(ui') => (ui.asked <=> said' = "undocked"))
<1>1. ui' = u /\ L!Announced(u, L!LatchedAfter(u))
  BY ONLY RenderIs, L!Render(u, h, a, c, again)
<1>2. /\ ui.window \in {"closed", "opening", "ready"} /\ ui.pending \in BOOLEAN /\ ui.asked \in BOOLEAN
      /\ (ui.pending => ui.window = "closed")
      /\ u.window \in {"closed", "opening", "ready"} /\ u.pending \in BOOLEAN /\ u.asked \in BOOLEAN
      /\ (u.pending => u.window = "closed")
  BY ONLY LayoutTyped(ui), LayoutTyped(u) DEF LayoutTyped
<1>3. /\ latch \in BOOLEAN /\ (ui.window = "closed" => latch = ui.pending)
      /\ (ui.window = "opening" => latch = ~ui.asked) /\ (ui.window # "ready" => said # "undocked")
  BY ONLY Announcing DEF Announcing, L!Undocked
<1>4. L!LatchedAfter(u) = IF u.pending THEN TRUE ELSE IF u.window = "closed" THEN FALSE ELSE latch
  BY ONLY TRUE DEF L!LatchedAfter, L!LatchAfter
<1>5. IF (u.window = "ready") # (ui.window = "ready")
      THEN latch' = FALSE /\ said' = IF u.window = "ready" /\ L!LatchedAfter(u) THEN said
                                     ELSE IF u.window = "ready" THEN "undocked" ELSE "docked"
      ELSE latch' = L!LatchedAfter(u) /\ said' = said
  BY ONLY <1>1 DEF L!Announced, L!Undocked
<1>6. CASE u.window = ui.window /\ u.pending = ui.pending /\ u.asked = ui.asked
  <2>1. latch' = L!LatchedAfter(u) /\ said' = said /\ L!Undocked(ui') = L!Undocked(ui)
    BY ONLY <1>1, <1>5, <1>6 DEF L!Undocked
  <2>2. /\ ui'.window = "closed" => latch' = ui'.pending
        /\ ui'.window = "opening" => latch' = latch
        /\ latch' \in BOOLEAN
    BY ONLY <1>1, <1>2, <1>3, <1>4, <2>1
  <2> QED BY ONLY <1>1, <1>3, <1>6, <2>1, <2>2 DEF Announcing, L!Undocked
<1>7. CASE ui.window = "closed" /\ u.window = "closed" /\ u.pending
  BY ONLY <1>1, <1>2, <1>3, <1>4, <1>5, <1>7 DEF Announcing, L!Undocked
<1>8. CASE ui.window = "closed" /\ u.window = "opening" /\ ~u.pending /\ u.asked = ~ui.pending
  BY ONLY <1>1, <1>2, <1>3, <1>4, <1>5, <1>8 DEF Announcing, L!Undocked
<1>9. CASE ui.window = "opening" /\ u.window \in {"ready", "closed"} /\ ~u.pending
  BY ONLY <1>1, <1>2, <1>3, <1>4, <1>5, <1>9 DEF Announcing, L!Undocked
<1>10. CASE ui.window = "ready" /\ u.window = "closed" /\ ~u.pending
  BY ONLY <1>1, <1>2, <1>3, <1>4, <1>5, <1>10 DEF Announcing, L!Undocked
<1> QED BY <1>6, <1>7, <1>8, <1>9, <1>10

\* What RenderOwned asks of what is rendered.
Owning(u, h, a, c) ==
  /\ \A p \in L!Handles : /\ h[p].kind # "none" => a.panel = p
                          /\ a.panel # p => c[p] = css[p]
  /\ a.panel # "" => /\ Granted(a.panel, c[a.panel]) /\ Granted(a.panel, h[a.panel].max)
                     /\ a.panel \in L!Sides => PeerFits(ui, a, a.panel)
  /\ a.panel = "golem" => /\ active.panel \notin L!Sides
                          /\ L!KeyOf(u) = L!KeyOf(ui) => /\ u.sizes.left = ui.sizes.left
                                                         /\ u.sizes.right = ui.sizes.right
\* What a step leaves besides the invariant.
FocusHeld ==
  /\ focus \in L!Panels /\ focus' = "none" =>
       \/ ui'.revision # ui.revision \/ L!Undocked(ui') # L!Undocked(ui)
       \/ left'.focus # left.focus
  /\ ~L!Undocked(ui) /\ L!Undocked(ui') => (ui.asked <=> said' = "undocked")

\* A render keeps the invariant.
LEMMA Rendering ==
  ASSUME LayoutInv, NEW u, NEW h, NEW a, NEW c, NEW again, L!Render(u, h, a, c, again),
         LayoutTyped(u), HooksTyped(h), ActiveTyped(a), c \in [L!Handles -> Nat],
         a.panel # "" => h[a.panel].kind # "none",
         a.panel \in L!Sides => a.panel \notin ui.collapsed,
         left' \in CastTyped, left'.overlap = left.overlap,
         ~left.overlap => Owning(u, h, a, c),
         \/ u.window = ui.window /\ u.pending = ui.pending /\ u.asked = ui.asked
         \/ ui.window = "closed" /\ u.window = "closed" /\ u.pending
         \/ ui.window = "closed" /\ u.window = "opening" /\ ~u.pending /\ u.asked = ~ui.pending
         \/ ui.window = "opening" /\ u.window \in {"ready", "closed"} /\ ~u.pending
         \/ ui.window = "ready" /\ u.window = "closed" /\ ~u.pending
  PROVE  LayoutInv' /\ FocusHeld
<1>1. /\ ShellTyped /\ Rendered /\ Owner /\ (~left.overlap => Owned) /\ Announcing /\ L!FocusShown
      /\ LayoutTyped(ui) /\ ActiveTyped(active) /\ ui' = u
  <2>1. ui' = u
    BY ONLY RenderIs, L!Render(u, h, a, c, again)
  <2> QED BY ONLY <2>1, LayoutInv DEF LayoutInv, ShellTyped
<1>2. /\ LayoutTyped(ui') /\ ActiveTyped(active') /\ HooksTyped(hook') /\ css' \in [L!Handles -> Nat]
      /\ Rendered'
  BY ONLY RenderTyped, L!Render(u, h, a, c, again), LayoutTyped(u), HooksTyped(h), ActiveTyped(a),
          c \in [L!Handles -> Nat]
<1>3. ShellTyped'
  BY ONLY <1>2, left' \in CastTyped DEF ShellTyped
<1>4. Owner'
  BY ONLY RenderOwner, <1>1, L!Render(u, h, a, c, again), LayoutTyped(u), HooksTyped(h), ActiveTyped(a),
          a.panel # "" => h[a.panel].kind # "none", a.panel \in L!Sides => a.panel \notin ui.collapsed
<1>5. ASSUME ~left.overlap PROVE Owned'
  <2>1. Owning(u, h, a, c) /\ Owned
    BY ONLY <1>1, <1>5, ~left.overlap => Owning(u, h, a, c)
  <2>2. /\ \A p \in L!Handles : /\ h[p].kind # "none" => a.panel = p
                                /\ a.panel # p => c[p] = css[p]
        /\ a.panel # "" => /\ Granted(a.panel, c[a.panel]) /\ Granted(a.panel, h[a.panel].max)
                           /\ a.panel \in L!Sides => PeerFits(ui, a, a.panel)
        /\ a.panel = "golem" => /\ active.panel \notin L!Sides
                                /\ L!KeyOf(u) = L!KeyOf(ui) => /\ u.sizes.left = ui.sizes.left
                                                               /\ u.sizes.right = ui.sizes.right
    BY ONLY <2>1 DEF Owning
  <2> QED BY ONLY RenderOwned, <1>1, <2>1, <2>2, L!Render(u, h, a, c, again), LayoutTyped(u), HooksTyped(h),
             ActiveTyped(a), c \in [L!Handles -> Nat], a.panel # "" => h[a.panel].kind # "none"
<1>6. /\ L!FocusShown'
      /\ focus \in L!Panels /\ focus' = "none" =>
              ui'.revision # ui.revision \/ L!Undocked(ui') # L!Undocked(ui)
  BY ONLY RenderFocus, <1>1, L!Render(u, h, a, c, again), LayoutTyped(u), ActiveTyped(a)
<1>7. Announcing' /\ (~L!Undocked(ui) /\ L!Undocked(ui') => (ui.asked <=> said' = "undocked"))
  <2> HIDE <1>2, <1>3, <1>4, <1>5, <1>6
  <2> QED BY RenderAnnounces, <1>1
<1>8. Owned' \/ left.overlap
  BY ONLY <1>5
<1> QED BY ONLY <1>2, <1>3, <1>4, <1>6, <1>7, <1>8, left'.overlap = left.overlap DEF LayoutInv, FocusHeld

\* So does one that leaves the gestures alone.
LEMMA Changing ==
  ASSUME LayoutInv, NEW u, L!Render(u, hook, active, css, FALSE), LayoutTyped(u),
         left' \in CastTyped, left'.overlap = left.overlap,
         L!KeyOf(u) = L!KeyOf(ui) => u.sizes.left = ui.sizes.left /\ u.sizes.right = ui.sizes.right,
         \/ u.window = ui.window /\ u.pending = ui.pending /\ u.asked = ui.asked
         \/ ui.window = "closed" /\ u.window = "closed" /\ u.pending
         \/ ui.window = "closed" /\ u.window = "opening" /\ ~u.pending /\ u.asked = ~ui.pending
         \/ ui.window = "opening" /\ u.window \in {"ready", "closed"} /\ ~u.pending
         \/ ui.window = "ready" /\ u.window = "closed" /\ ~u.pending
  PROVE  LayoutInv' /\ FocusHeld
<1>1. /\ HooksTyped(hook) /\ ActiveTyped(active) /\ css \in [L!Handles -> Nat] /\ Owner
      /\ (~left.overlap => Owned)
  BY ONLY LayoutInv DEF LayoutInv, ShellTyped
<1>2. active.panel # "" => hook[active.panel].kind # "none" /\ L!Usable(active.panel)
  BY ONLY <1>1 DEF Owner
<1>3. active.panel \in L!Sides => active.panel \notin ui.collapsed
  BY ONLY <1>2, HandleNames DEF L!Usable
<1>4. ASSUME ~left.overlap PROVE Owning(u, hook, active, css)
  <2>1. active.panel # "" => active.panel \in L!Handles
    BY ONLY <1>1 DEF ActiveTyped
  <2>2. Owned
    BY ONLY <1>1, <1>4
  <2> QED BY ONLY <2>1, <2>2, HandleNames,
          L!KeyOf(u) = L!KeyOf(ui) => u.sizes.left = ui.sizes.left /\ u.sizes.right = ui.sizes.right
          DEF Owning, Owned
<1>5. (active.panel # "" => hook[active.panel].kind # "none") /\ (~left.overlap => Owning(u, hook, active, css))
  BY ONLY <1>2, <1>4
<1> QED BY Rendering, <1>1, <1>3, <1>5

\* What the cast has left.
LEMMA Spends ==
  ASSUME LayoutInv, NEW what, what \in {"drags", "keys", "windows", "toggles", "reveals", "restores", "docks", "focus"},
         L!Spend(what)
  PROVE  left' \in CastTyped /\ left'.overlap = left.overlap
<1>1. left \in CastTyped /\ left' = [left EXCEPT ![what] = @ - 1] /\ left[what] > 0
  BY ONLY LayoutInv, L!Spend(what) DEF LayoutInv, ShellTyped, L!Spend
<1> QED BY ONLY <1>1, what \in {"drags", "keys", "windows", "toggles", "reveals", "restores", "docks", "focus"}
        DEF CastTyped

LEMMA Repainted ==
  ASSUME LayoutInv, NEW u, L!Changes(u)
  PROVE  L!Render(u, hook, active, css, FALSE) /\ LayoutTyped(ui)
  BY DEF L!Changes, LayoutInv, ShellTyped

-----------------------------------------------------------------------------
(* The changes of the preferences, the window and the focus.               *)

LEMMA ResizedKeeps ==
  ASSUME LayoutInv, L!Resized
  PROVE  LayoutInv' /\ FocusHeld
<1>1. PICK view \in Viewports \ {ui.view} : L!Changes([ui EXCEPT !.view = view])
  BY DEF L!Resized
<1>2. left' \in CastTyped /\ left'.overlap = left.overlap
  BY Spends DEF L!Resized
<1> DEFINE u == [ui EXCEPT !.view = view]
<1>3. L!Render(u, hook, active, css, FALSE) /\ LayoutTyped(ui)
  BY ONLY <1>1, Repainted, LayoutInv
<1>4. LayoutTyped(u) /\ u.window = ui.window /\ u.pending = ui.pending /\ u.asked = ui.asked
  BY ONLY <1>1, <1>3 DEF LayoutTyped
<1>5. u.sizes = ui.sizes
  BY ONLY <1>3 DEF LayoutTyped
<1> HIDE DEF u
<1> QED BY ONLY Changing, LayoutInv, <1>2, <1>3, <1>4, <1>5

LEMMA ToggleKeeps ==
  ASSUME LayoutInv, L!Toggle
  PROVE  LayoutInv' /\ FocusHeld
<1>1. PICK p \in L!Panels \cup L!Sides :
        L!Changes([ui EXCEPT !.collapsed = IF p \in @ THEN @ \ {p} ELSE L!Collapsed(@, p)])
  BY DEF L!Toggle
<1>2. left' \in CastTyped /\ left'.overlap = left.overlap
  BY Spends DEF L!Toggle
<1> DEFINE d == IF p \in ui.collapsed THEN ui.collapsed \ {p} ELSE L!Collapsed(ui.collapsed, p)
           u == [ui EXCEPT !.collapsed = d]
<1>3. L!Render(u, hook, active, css, FALSE) /\ LayoutTyped(ui)
  BY ONLY <1>1, Repainted, LayoutInv
<1>4. d \in SUBSET (L!Panels \cup L!Sides) /\ ~(L!Panels \subseteq d)
  <2>1. ui.collapsed \in SUBSET (L!Panels \cup L!Sides) /\ ~(L!Panels \subseteq ui.collapsed)
    BY ONLY <1>3 DEF LayoutTyped
  <2> QED BY ONLY <2>1, p \in L!Panels \cup L!Sides, HandleNames DEF L!Collapsed
<1>5. u.sizes = ui.sizes /\ u.window = ui.window /\ u.pending = ui.pending /\ u.asked = ui.asked
  BY ONLY <1>3 DEF LayoutTyped
<1>6. LayoutTyped(u)
  <2> HIDE DEF d
  <2> QED BY ONLY <1>3, <1>4 DEF LayoutTyped, u
<1> HIDE DEF u
<1> QED BY ONLY Changing, LayoutInv, <1>2, <1>3, <1>5, <1>6

LEMMA ReorderKeeps ==
  ASSUME LayoutInv, L!Reorder
  PROVE  LayoutInv' /\ FocusHeld
<1>1. PICK order \in {"files-first", "golem-first"} \ {ui.order} : L!Changes([ui EXCEPT !.order = order])
  BY DEF L!Reorder
<1>2. left' \in CastTyped /\ left'.overlap = left.overlap
  BY Spends DEF L!Reorder
<1> DEFINE u == [ui EXCEPT !.order = order]
<1>3. L!Render(u, hook, active, css, FALSE) /\ LayoutTyped(ui)
  BY ONLY <1>1, Repainted, LayoutInv
<1>4. LayoutTyped(u) /\ u.window = ui.window /\ u.pending = ui.pending /\ u.asked = ui.asked
  BY ONLY <1>1, <1>3 DEF LayoutTyped
<1>5. u.sizes = ui.sizes
  BY ONLY <1>3 DEF LayoutTyped
<1> HIDE DEF u
<1> QED BY ONLY Changing, LayoutInv, <1>2, <1>3, <1>4, <1>5

\* What was asked for is revealed, and none is collapsed that was not.
LEMMA RevealedIs ==
  ASSUME LayoutTyped(ui), NEW p \in L!Panels
  PROVE  /\ LayoutTyped(L!Revealed(ui, p)) /\ L!Revealed(ui, p).sizes = ui.sizes
         /\ L!Revealed(ui, p).window = ui.window /\ L!Revealed(ui, p).pending = ui.pending
         /\ L!Revealed(ui, p).asked = ui.asked
         /\ L!Revealed(ui, p).reveal = p /\ L!Revealed(ui, p).collapsed = ui.collapsed \ {p}
         /\ L!Revealed(ui, p).revision = ui.revision
  BY DEF L!Revealed, LayoutTyped
LEMMA HiddenIs ==
  ASSUME LayoutTyped(ui), NEW p \in L!Panels, NEW u, u = [ui EXCEPT !.collapsed = L!Collapsed(@, p)]
  PROVE  /\ LayoutTyped(u) /\ u.sizes = ui.sizes /\ u.window = ui.window /\ u.pending = ui.pending
         /\ u.asked = ui.asked /\ u.collapsed = L!Collapsed(ui.collapsed, p)
<1>1. L!Collapsed(ui.collapsed, p) \in SUBSET (L!Panels \cup L!Sides) /\ ~(L!Panels \subseteq L!Collapsed(ui.collapsed, p))
  BY HandleNames DEF LayoutTyped, L!Collapsed
<1> QED BY <1>1 DEF LayoutTyped

LEMMA RevealKeeps ==
  ASSUME LayoutInv, L!Reveal
  PROVE  LayoutInv' /\ FocusHeld
<1>1. PICK p \in L!Panels : L!Changes(L!Revealed(ui, p))
  BY DEF L!Reveal
<1>2. left' \in CastTyped /\ left'.overlap = left.overlap
  BY Spends DEF L!Reveal
<1>3. L!Render(L!Revealed(ui, p), hook, active, css, FALSE) /\ LayoutTyped(ui)
  BY ONLY <1>1, Repainted, LayoutInv
<1> QED BY ONLY Changing, RevealedIs, LayoutInv, <1>2, <1>3, p \in L!Panels

\* The command changes what is seen of Golem, whatever is saved of it.
LEMMA TogglePanelKeeps ==
  ASSUME LayoutInv, L!ToggleGolemPanel
  PROVE  LayoutInv' /\ FocusHeld /\ ("golem" \in layout'.rails) # ("golem" \in layout.rails)
<1> DEFINE hidden == [ui EXCEPT !.collapsed = L!Collapsed(@, "golem")]
           u == IF L!GolemVisible THEN hidden ELSE L!Revealed(ui, "golem")
<1>1. L!Changes(u) /\ ui.window = "closed"
  BY DEF L!ToggleGolemPanel
<1>2. left' \in CastTyped /\ left'.overlap = left.overlap
  BY Spends DEF L!ToggleGolemPanel
<1>3. L!Render(u, hook, active, css, FALSE) /\ LayoutTyped(ui)
  BY ONLY <1>1, Repainted, LayoutInv
<1>4. /\ LayoutTyped(u) /\ u.sizes = ui.sizes /\ u.window = ui.window /\ u.pending = ui.pending
      /\ u.asked = ui.asked
  BY ONLY RevealedIs, HiddenIs, <1>3, HandleNames
<1>5. u.collapsed = IF L!GolemVisible THEN L!Collapsed(ui.collapsed, "golem") ELSE ui.collapsed \ {"golem"}
  BY ONLY RevealedIs, HiddenIs, <1>3, HandleNames
<1>6. ~L!GolemVisible => u.reveal = "golem"
  BY ONLY RevealedIs, <1>3, HandleNames
<1> HIDE DEF u
<1>7. LayoutInv' /\ FocusHeld
  BY ONLY Changing, LayoutInv, <1>2, <1>3, <1>4
<1>8. LayoutInv' /\ layout'.rails = L!Rails(u, Ceiling(u, active')) /\ ActiveTyped(active')
  <2>1. ui' = u /\ layout' = L!Effective(u, active')
    BY ONLY RenderIs, <1>3
  <2>2. ActiveTyped(active')
    BY ONLY <1>7 DEF LayoutInv, ShellTyped
  <2> QED BY ONLY LayoutHas, <1>4, <1>7, <2>1, <2>2
<1>9. ~L!Undocked(u) /\ LayoutTyped(u)
  BY ONLY <1>1, <1>4 DEF L!Undocked
<1>10. CASE L!GolemVisible
  <2>1. "golem" \in u.collapsed \cap L!Panels
    BY ONLY <1>5, <1>10, HandleNames DEF L!Collapsed
  <2>2. "golem" \in layout'.rails
    BY ONLY RailsAre, <1>8, <1>9, <2>1
  <2> QED BY ONLY <1>7, <1>10, <2>2 DEF L!GolemVisible
<1>11. CASE ~L!GolemVisible
  <2>1. "golem" \notin u.collapsed /\ L!Peer(u.reveal) = "files"
    BY ONLY <1>5, <1>6, <1>11, HandleNames
  <2>2. "golem" \notin layout'.rails
    BY ONLY RailsAre, <1>8, <1>9, <2>1, HandleNames
  <2> QED BY ONLY <1>7, <1>11, <2>2 DEF L!GolemVisible
<1> QED BY <1>10, <1>11

LEMMA SwitchKeeps ==
  ASSUME LayoutInv, L!SwitchWorkspace
  PROVE  LayoutInv' /\ FocusHeld
<1> DEFINE u == [L!DefaultUi(ui.view, ui.repo + 1, ui) EXCEPT !.revision = ui.revision + 1]
<1>1. left' \in CastTyped /\ left'.overlap = left.overlap
  BY Spends DEF L!SwitchWorkspace
<1>2. L!Render(u, hook, active, css, FALSE) /\ LayoutTyped(ui)
  BY ONLY L!SwitchWorkspace, Repainted, LayoutInv DEF L!SwitchWorkspace
<1>3. ui.view \in Viewports /\ ui.repo \in Nat /\ ui.revision \in Nat
      /\ ui.window \in {"closed", "opening", "ready"} /\ ui.pending \in BOOLEAN /\ ui.asked \in BOOLEAN
      /\ (ui.pending => ui.window = "closed")
  BY ONLY <1>2 DEF LayoutTyped
<1>4. u = [sizes |-> L!DefaultSizes, collapsed |-> {"golem"}, order |-> "files-first", reveal |-> "files",
           revision |-> ui.revision + 1, view |-> ui.view, repo |-> ui.repo + 1, window |-> ui.window,
           pending |-> ui.pending, asked |-> ui.asked]
  BY DEF L!DefaultUi
<1> HIDE DEF u
<1>5. L!DefaultSizes \in [L!Handles -> Nat]
  BY HandleNames DEF L!DefaultSizes
<1>6. LayoutTyped(u)
  BY ONLY <1>3, <1>4, <1>5, HandleNames DEF LayoutTyped
<1>7. u.window = ui.window /\ u.pending = ui.pending /\ u.asked = ui.asked /\ u.repo # ui.repo
  BY ONLY <1>3, <1>4
<1>8. L!KeyOf(u) # L!KeyOf(ui)
  BY ONLY <1>7 DEF L!KeyOf
<1> QED BY ONLY Changing, LayoutInv, <1>1, <1>2, <1>6, <1>7, <1>8

LEMMA RestoreKeeps ==
  ASSUME LayoutInv, L!Restore
  PROVE  LayoutInv' /\ FocusHeld
<1>1. PICK c \in SUBSET L!Panels, n \in Pointers :
        LET kept == IF c = L!Panels THEN {"golem"} ELSE c IN
        L!Changes([ui EXCEPT !.collapsed = (@ \ L!Panels) \cup kept,
                             !.sizes.golem = L!Clamp(n, L!MinGolem, L!MaxGolem),
                             !.reveal = IF kept = {"files"} THEN "golem" ELSE "files",
                             !.revision = @ + 1])
  BY DEF L!Restore
<1> DEFINE kept == IF c = L!Panels THEN {"golem"} ELSE c
           size == L!Clamp(n, L!MinGolem, L!MaxGolem)
           shown == IF kept = {"files"} THEN "golem" ELSE "files"
           d == (ui.collapsed \ L!Panels) \cup kept
           u == [ui EXCEPT !.collapsed = d, !.sizes.golem = size, !.reveal = shown, !.revision = @ + 1]
<1>2. left' \in CastTyped /\ left'.overlap = left.overlap
  BY Spends DEF L!Restore
<1>3. L!Render(u, hook, active, css, FALSE) /\ LayoutTyped(ui)
  BY ONLY <1>1, Repainted, LayoutInv
<1>4. size \in Nat
  BY LayoutAssumed DEF L!LayoutAssumption, L!Clamp, L!At, L!Least, L!MinGolem, L!MaxGolem
<1>5. d \in SUBSET (L!Panels \cup L!Sides) /\ ~(L!Panels \subseteq d)
  <2>1. kept \subseteq L!Panels /\ ~(L!Panels \subseteq kept)
    BY ONLY c \in SUBSET L!Panels, HandleNames
  <2>2. ui.collapsed \in SUBSET (L!Panels \cup L!Sides)
    BY ONLY <1>3 DEF LayoutTyped
  <2> HIDE DEF kept
  <2> QED BY ONLY <2>1, <2>2
<1>6. shown \in L!Panels
  BY ONLY HandleNames
<1> HIDE DEF size, d, shown
<1>7. u.sizes = [ui.sizes EXCEPT !.golem = size] /\ ui.sizes \in [L!Handles -> Nat]
  BY ONLY <1>3 DEF LayoutTyped
<1>8. u.sizes \in [L!Handles -> Nat] /\ u.sizes.left = ui.sizes.left /\ u.sizes.right = ui.sizes.right
  BY ONLY <1>4, <1>7, HandleNames
<1>9. u.window = ui.window /\ u.pending = ui.pending /\ u.asked = ui.asked
  BY ONLY <1>3 DEF LayoutTyped
<1>10. LayoutTyped(u)
  <2> DEFINE z == [ui.sizes EXCEPT !.golem = size]
  <2>1. z \in [L!Handles -> Nat]
    BY ONLY <1>7, <1>8
  <2>2. u = [ui EXCEPT !.collapsed = d, !.sizes = z, !.reveal = shown, !.revision = ui.revision + 1]
    BY ONLY <1>3 DEF LayoutTyped
  <2> HIDE DEF u, z
  <2> DEFINE first == [ui EXCEPT !.collapsed = d]
             second == [first EXCEPT !.sizes = z]
             third == [second EXCEPT !.reveal = shown]
  <2>3. LayoutTyped(first)
    BY ONLY <1>3, <1>5 DEF LayoutTyped
  <2> HIDE DEF first
  <2>4. LayoutTyped(second)
    BY ONLY <2>1, <2>3 DEF LayoutTyped
  <2> HIDE DEF second
  <2>5. LayoutTyped(third) /\ third.revision = ui.revision
    BY ONLY <1>3, <1>6, <2>4 DEF LayoutTyped, first, second
  <2> HIDE DEF third
  <2>6. u = [third EXCEPT !.revision = @ + 1]
    BY ONLY <1>3, <2>2, <2>5 DEF LayoutTyped, first, second, third
  <2> QED BY ONLY <2>5, <2>6 DEF LayoutTyped
<1> HIDE DEF u
<1> QED BY ONLY Changing, LayoutInv, <1>2, <1>3, <1>8, <1>9, <1>10

LEMMA WindowKeeps ==
  ASSUME LayoutInv, L!WindowMoves
  PROVE  LayoutInv' /\ FocusHeld
<1>1. PICK w \in {"closed", "opening", "ready"}, pending_ \in BOOLEAN :
        /\ \/ ui.window = "closed" /\ w = "closed" /\ pending_ /\ ~ui.pending
           \/ ui.window = "closed" /\ w = "opening" /\ ~pending_
           \/ ui.window = "opening" /\ w \in {"ready", "closed"} /\ ~pending_
           \/ ui.window = "ready" /\ w = "closed" /\ ~pending_
        /\ L!Changes([ui EXCEPT !.window = w, !.pending = pending_,
                                !.asked = IF ui.window = "closed" THEN ~ui.pending ELSE @])
  BY DEF L!WindowMoves
<1> DEFINE asks == IF ui.window = "closed" THEN ~ui.pending ELSE ui.asked
           u == [ui EXCEPT !.window = w, !.pending = pending_, !.asked = asks]
<1>2. left' \in CastTyped /\ left'.overlap = left.overlap
  BY Spends DEF L!WindowMoves
<1>3. L!Render(u, hook, active, css, FALSE) /\ LayoutTyped(ui)
  BY ONLY <1>1, Repainted, LayoutInv
<1>4. u.sizes = ui.sizes /\ u.window = w /\ u.pending = pending_ /\ u.asked = asks
  BY ONLY <1>3 DEF LayoutTyped
<1>5. asks \in BOOLEAN
  BY ONLY <1>3 DEF LayoutTyped
<1>6. pending_ => w = "closed"
  BY ONLY <1>1
<1>7. LayoutTyped(u)
  <2> HIDE DEF asks
  <2> QED BY ONLY <1>3, <1>5, <1>6, w \in {"closed", "opening", "ready"}, pending_ \in BOOLEAN DEF LayoutTyped, u
<1>8. \/ ui.window = "closed" /\ u.window = "closed" /\ u.pending
      \/ ui.window = "closed" /\ u.window = "opening" /\ ~u.pending /\ u.asked = ~ui.pending
      \/ ui.window = "opening" /\ u.window \in {"ready", "closed"} /\ ~u.pending
      \/ ui.window = "ready" /\ u.window = "closed" /\ ~u.pending
  <2> HIDE DEF u
  <2> QED BY ONLY <1>1, <1>4
<1> HIDE DEF u
<1> QED BY ONLY Changing, LayoutInv, <1>2, <1>3, <1>4, <1>7, <1>8

LEMMA DropKeeps ==
  ASSUME LayoutInv, L!Drop
  PROVE  LayoutInv' /\ FocusHeld
<1>1. PICK passed \in BOOLEAN :
        L!Render(IF passed /\ drag.repo = ui.repo THEN [ui EXCEPT !.order = L!DroppedOrder(drag)] ELSE ui,
                 hook, active, css, FALSE)
  BY DEF L!Drop
<1> DEFINE u == IF passed /\ drag.repo = ui.repo THEN [ui EXCEPT !.order = L!DroppedOrder(drag)] ELSE ui
<1>2. LayoutTyped(ui) /\ left' \in CastTyped /\ left'.overlap = left.overlap
  BY DEF L!Drop, LayoutInv, ShellTyped
<1>3. L!DroppedOrder(drag) \in {"files-first", "golem-first"}
  BY ONLY TRUE DEF L!DroppedOrder
<1>4. /\ LayoutTyped(u) /\ u.sizes = ui.sizes /\ u.window = ui.window /\ u.pending = ui.pending
      /\ u.asked = ui.asked
  BY ONLY <1>2, <1>3 DEF LayoutTyped
<1>5. L!Render(u, hook, active, css, FALSE)
  BY ONLY <1>1
<1> HIDE DEF u
<1> QED BY ONLY Changing, LayoutInv, <1>2, <1>4, <1>5

\* What stays as it is, but for the focus, keeps what is rendered.
LEMMA Unmoved ==
  ASSUME LayoutInv, UNCHANGED <<ui, layout, active, hook, css, written, latch, said>>,
         left' \in CastTyped, left'.overlap = left.overlap, L!FocusShown'
  PROVE  LayoutInv'
<1>1. Owned => Owned'
  BY DEF Owned, Granted, PeerFits, L!Reach, L!Peer
<1>2. Owner' = Owner
  BY DEF Owner, L!Usable
<1> QED BY <1>1, <1>2 DEF LayoutInv, ShellTyped, Rendered, Announcing, L!Undocked

LEMMA FocusKeeps ==
  ASSUME LayoutInv, L!Focus
  PROVE  LayoutInv' /\ FocusHeld
<1>1. left' \in CastTyped /\ left'.overlap = left.overlap
  BY Spends DEF L!Focus
<1>2. UNCHANGED <<ui, layout, active, hook, css, written, latch, said>>
  BY DEF L!Focus
<1>3. left'.focus # left.focus
  <2>1. left \in CastTyped /\ left' = [left EXCEPT !["focus"] = @ - 1]
    BY ONLY LayoutInv, L!Focus DEF LayoutInv, ShellTyped, L!Focus, L!Spend
  <2> QED BY ONLY <2>1 DEF CastTyped
<1>4. L!FocusShown'
  BY DEF L!Focus, L!FocusShown
<1> QED BY ONLY LayoutInv, <1>1, <1>2, <1>3, <1>4, Unmoved DEF FocusHeld, L!Undocked

LEMMA DragStartKeeps ==
  ASSUME LayoutInv, L!DragStart
  PROVE  LayoutInv' /\ FocusHeld
<1>1. left' \in CastTyped /\ left'.overlap = left.overlap
  BY Spends DEF L!DragStart
<1>2. UNCHANGED <<ui, layout, active, hook, css, written, latch, said>> /\ focus' = focus
  BY DEF L!DragStart
<1>3. L!FocusShown' /\ (focus \in L!Panels => focus # "none")
  BY ONLY LayoutInv, <1>2, HandleNames DEF L!FocusShown, LayoutInv
<1> QED BY ONLY LayoutInv, <1>1, <1>2, <1>3, Unmoved DEF FocusHeld, L!Undocked

-----------------------------------------------------------------------------
(* The gestures.                                                           *)

LEMMA ClampIs ==
  ASSUME NEW n \in Int, NEW low \in Nat, NEW high \in Nat
  PROVE  L!Clamp(n, low, high) \in Nat /\ (low <= high => L!Clamp(n, low, high) \in low..high)
  BY DEF L!Clamp, L!At, L!Least

LEMMA FloorIs == \A p \in L!Handles : L!Floor(p) \in Nat
  BY ReachIs, HandleNames

LEMMA ActiveIs ==
  ASSUME NEW p \in L!Handles, NEW n \in Nat, NEW m \in Size
  PROVE  ActiveTyped([panel |-> p, size |-> n, peer |-> m])
<1>1. p # "" /\ n \in Size
  BY HandleNames DEF Size
<1> QED BY <1>1 DEF ActiveTyped

\* What a gesture takes hold of.
LEMMA GrabIs ==
  ASSUME LayoutInv, NEW p \in L!Handles
  PROVE  /\ ActiveTyped(L!Grab(p)) /\ L!Grab(p).panel = p
         /\ p \in L!Sides => PeerFits(ui, L!Grab(p), p)
         /\ css[p] \in Nat /\ layout.max[p] \in Nat
<1>1. /\ LayoutTyped(ui) /\ ActiveTyped(active) /\ Rendered /\ css \in [L!Handles -> Nat]
      /\ layout = L!Effective(ui, active)
  BY ONLY LayoutInv DEF LayoutInv, ShellTyped, Rendered
<1>2. \A q \in L!Handles : layout.size[q] \in Nat /\ layout.max[q] \in Nat
  BY ONLY <1>1, LayoutNow
<1>3. \A q \in L!Sides : q \notin ui.collapsed => layout.size[q] >= 180
  <2> TAKE q \in L!Sides
  <2>1. IF q \in ui.collapsed THEN layout.size[q] = 0 ELSE layout.size[q] \in 180..SideReach(ui, q)
    BY ONLY <1>1, LayoutIs, q \in L!Sides
  <2>2. layout.size[q] \in Nat
    BY ONLY <1>2, q \in L!Sides, HandleNames
  <2>3. SideReach(ui, q) \in Nat
    BY ONLY <1>1, SideMaxIs, q \in L!Sides DEF Size
  <2> QED BY ONLY <2>1, <2>2, <2>3
<1>4. p \in L!Sides => L!Peer(p) \in L!Sides
  BY ONLY HandleNames
<1>5. L!Grab(p) = [panel |-> p, size |-> css[p], peer |-> IF p \in L!Sides THEN layout.size[L!Peer(p)] ELSE L!NoSize]
  BY ONLY TRUE DEF L!Grab
<1>6. css[p] \in Nat
  BY ONLY <1>1, p \in L!Handles
<1>7. (IF p \in L!Sides THEN layout.size[L!Peer(p)] ELSE L!NoSize) \in Size
  BY ONLY <1>2, <1>4, HandleNames DEF Size
<1>8. ActiveTyped(L!Grab(p)) /\ L!Grab(p).panel = p
  <2> DEFINE x == IF p \in L!Sides THEN layout.size[L!Peer(p)] ELSE L!NoSize
  <2>1. L!Grab(p) = [panel |-> p, size |-> css[p], peer |-> x] /\ x \in Size
    BY ONLY <1>5, <1>7
  <2> HIDE DEF x
  <2>2. ActiveTyped([panel |-> p, size |-> css[p], peer |-> x])
    BY ONLY ActiveIs, <1>6, <2>1, p \in L!Handles
  <2> QED BY ONLY <2>1, <2>2
<1>9. p \in L!Sides => PeerFits(ui, L!Grab(p), p)
  BY ONLY <1>2, <1>3, <1>4, <1>5, HandleNames DEF PeerFits
<1> QED BY ONLY <1>2, <1>6, <1>8, <1>9, p \in L!Handles

\* Unless gestures overlap, a handle that can be used stays within its reach.
LEMMA Grantable ==
  ASSUME LayoutInv, ~left.overlap, NEW p \in L!Handles, L!Usable(p), active.panel \in {"", p}
  PROVE  Granted(p, css[p]) /\ Granted(p, layout.max[p])
<1>1. /\ LayoutTyped(ui) /\ ActiveTyped(active) /\ Rendered /\ css \in [L!Handles -> Nat]
      /\ layout = L!Effective(ui, active)
  BY ONLY LayoutInv DEF LayoutInv, ShellTyped, Rendered
<1>2. /\ active.panel = p => Granted(p, css[p]) /\ (p \in L!Sides => PeerFits(ui, active, p))
      /\ active.panel # p => css[p] = layout.size[p]
  BY ONLY LayoutInv, ~left.overlap, p \in L!Handles DEF LayoutInv, Owned
<1>3. Granted(p, layout.size[p]) /\ Granted(p, layout.max[p])
  <2>1. CASE p \in L!Sides
    <3>1. p \notin ui.collapsed
      BY ONLY <2>1, L!Usable(p), HandleNames DEF L!Usable
    <3>2. active.panel = p => active.peer \in Nat /\ (L!Peer(p) \notin ui.collapsed => active.peer >= 180)
      BY ONLY <1>2, <2>1 DEF PeerFits
    <3>3. /\ layout.max[p] >= 180 /\ layout.max[p] <= SideReach(ui, p)
          /\ layout.size[p] \in 180..SideReach(ui, p)
      BY ONLY <1>1, <2>1, <3>1, <3>2, LayoutIs
    <3>4. layout.max[p] \in Nat /\ SideReach(ui, p) \in Nat
      BY ONLY <1>1, <2>1, LayoutNow, SideMaxIs, HandleNames DEF Size
    <3>5. L!Reach(p) = SideReach(ui, p) /\ L!Floor(p) = 180
      BY ONLY <2>1, ReachIs, HandleNames
    <3> QED BY ONLY <3>3, <3>4, <3>5 DEF Granted
  <2>2. CASE p = "golem"
    <3>1. layout.seam
      BY ONLY <2>2, L!Usable(p) DEF L!Usable
    <3>2. layout.size.golem \in 320..layout.max.golem /\ layout.max.golem >= 320
      BY ONLY <1>1, <3>1, LayoutIs
    <3>3. layout.max.golem \in Nat
      BY ONLY <1>1, LayoutNow, HandleNames
    <3> QED BY ONLY <2>2, <3>2, <3>3, ReachIs DEF Granted
  <2>3. CASE p = "bottom"
    <3>1. /\ layout.size.bottom \in 100..L!BottomMax(ui) /\ layout.max.bottom = L!BottomMax(ui)
          /\ layout.max.bottom >= 100
      BY ONLY <1>1, LayoutIs
    <3>2. layout.max.bottom \in Nat
      BY ONLY <1>1, LayoutNow, HandleNames
    <3> QED BY ONLY <2>3, <3>1, <3>2, ReachIs DEF Granted
  <2> QED BY ONLY <2>1, <2>2, <2>3, HandleNames, p \in L!Handles
<1> QED BY ONLY <1>2, <1>3

LEMMA HandsFree ==
  ASSUME LayoutInv, ~left.overlap, NEW p \in L!Handles, L!Alone(p)
  PROVE  active.panel \in {"", p} /\ \A q \in L!Handles : hook[q].kind # "none" => q = p
<1>1. active.panel # "" => hook[active.panel].kind # "none" /\ active.panel \in L!Handles
  BY ONLY LayoutInv DEF LayoutInv, Owner, ShellTyped, ActiveTyped
<1>2. \A q \in L!Handles \ {p} : hook[q].kind = "none"
  BY ONLY L!Alone(p), ~left.overlap DEF L!Alone
<1> QED BY ONLY <1>1, <1>2, p \in L!Handles

LEMMA MouseDownKeeps ==
  ASSUME LayoutInv, L!MouseDown
  PROVE  LayoutInv' /\ FocusHeld
<1>1. PICK p \in L!Handles :
        /\ L!Usable(p) /\ L!Alone(p)
        /\ L!Render(ui, [hook EXCEPT ![p] = [kind |-> "mouse", start |-> css[p], max |-> layout.max[p],
                                             preview |-> L!NoSize]],
                    L!Grab(p), css, hook[p].kind # "none")
  BY DEF L!MouseDown
<1>2. left' \in CastTyped /\ left'.overlap = left.overlap
  BY Spends DEF L!MouseDown
<1> DEFINE g == [kind |-> "mouse", start |-> css[p], max |-> layout.max[p], preview |-> L!NoSize]
           h == [hook EXCEPT ![p] = g]
           a == L!Grab(p)
<1>3. LayoutTyped(ui) /\ css \in [L!Handles -> Nat] /\ HooksTyped(hook)
  BY ONLY LayoutInv DEF LayoutInv, ShellTyped
<1>4. /\ ActiveTyped(a) /\ a.panel = p /\ (p \in L!Sides => PeerFits(ui, a, p))
      /\ css[p] \in Nat /\ layout.max[p] \in Nat
  BY ONLY LayoutInv, GrabIs, p \in L!Handles
<1>5. g \in GestureTyped /\ g.kind = "mouse" /\ g.max = layout.max[p]
  BY ONLY <1>4 DEF GestureTyped, Size
<1> HIDE DEF a, g
<1>6. HooksTyped(h) /\ h[p] = g /\ \A q \in L!Handles \ {p} : h[q] = hook[q]
  BY ONLY <1>3, <1>4, <1>5, p \in L!Handles DEF HooksTyped
<1>7. L!Render(ui, h, a, css, hook[p].kind # "none")
  BY ONLY <1>1 DEF a, g
<1> HIDE DEF h
<1>8. ASSUME ~left.overlap PROVE Owning(ui, h, a, css)
  <2>1. active.panel \in {"", p} /\ \A q \in L!Handles : hook[q].kind # "none" => q = p
    BY ONLY HandsFree, LayoutInv, <1>1, <1>8, p \in L!Handles
  <2>2. Granted(p, css[p]) /\ Granted(p, layout.max[p])
    BY ONLY Grantable, LayoutInv, <1>1, <1>8, <2>1, p \in L!Handles
  <2> QED BY ONLY <1>4, <1>5, <1>6, <2>1, <2>2, HandleNames DEF Owning
<1>9. /\ a.panel # "" => h[a.panel].kind # "none"
      /\ a.panel \in L!Sides => a.panel \notin ui.collapsed
  BY ONLY <1>1, <1>4, <1>5, <1>6, HandleNames DEF L!Usable
<1> QED BY ONLY Rendering, LayoutInv, <1>2, <1>3, <1>4, <1>6, <1>7, <1>8, <1>9

LEMMA MouseMoveKeeps ==
  ASSUME LayoutInv, L!MouseMove
  PROVE  LayoutInv' /\ FocusHeld
<1>1. PICK p \in L!Handles, n \in Pointers :
        /\ hook[p].kind = "mouse"
        /\ css' = [css EXCEPT ![p] = L!Clamp(n, L!Floor(p), hook[p].max)]
        /\ hook' = [hook EXCEPT ![p].preview = L!Clamp(n, L!Floor(p), hook[p].max)]
  BY DEF L!MouseMove
<1>2. left' \in CastTyped /\ left'.overlap = left.overlap
  BY Spends DEF L!MouseMove
<1>3. UNCHANGED <<ui, layout, active, written, focus, latch, said>>
  BY ONLY L!MouseMove DEF L!MouseMove
<1> DEFINE size == L!Clamp(n, L!Floor(p), hook[p].max)
<1>4. css \in [L!Handles -> Nat] /\ HooksTyped(hook)
  BY ONLY LayoutInv DEF LayoutInv, ShellTyped
<1>5. hook[p].max \in Nat /\ hook[p] \in GestureTyped
  BY ONLY <1>1, <1>4 DEF HooksTyped
<1>6. size \in Nat /\ (L!Floor(p) <= hook[p].max => size \in L!Floor(p)..hook[p].max)
  <2>1. n \in Int
    BY ONLY LayoutAssumed, n \in Pointers DEF L!LayoutAssumption
  <2>2. L!Floor(p) \in Nat
    BY ONLY FloorIs, p \in L!Handles
  <2> QED BY ONLY <2>1, <2>2, <1>5, ClampIs
<1> HIDE DEF size
<1>7. css' = [css EXCEPT ![p] = size] /\ hook' = [hook EXCEPT ![p].preview = size]
  BY ONLY <1>1 DEF size
<1>8. [hook[p] EXCEPT !.preview = size] \in GestureTyped
  BY ONLY <1>5, <1>6 DEF GestureTyped, Size
<1>9. /\ hook' = [hook EXCEPT ![p] = [hook[p] EXCEPT !.preview = size]]
      /\ [hook[p] EXCEPT !.preview = size].kind = hook[p].kind /\ [hook[p] EXCEPT !.preview = size].max = hook[p].max
  BY ONLY <1>5, <1>7 DEF GestureTyped
<1>10. HooksTyped(hook') /\ \A q \in L!Handles : hook'[q].kind = hook[q].kind /\ hook'[q].max = hook[q].max
  BY ONLY <1>4, <1>5, <1>8, <1>9, p \in L!Handles DEF HooksTyped
<1>11. css' \in [L!Handles -> Nat] /\ css'[p] = size /\ \A q \in L!Handles \ {p} : css'[q] = css[q]
  BY ONLY <1>4, <1>6, <1>7, p \in L!Handles
<1>12. Owner'
  <2>1. active.panel # "" => hook[active.panel].kind # "none" /\ L!Usable(active.panel) /\ active.panel \in L!Handles
    BY ONLY LayoutInv DEF LayoutInv, Owner, ShellTyped, ActiveTyped
  <2> QED BY ONLY <1>3, <1>10, <2>1 DEF Owner, L!Usable
<1>13. ASSUME ~left.overlap PROVE Owned'
  <2>1. Owned
    BY ONLY LayoutInv, <1>13 DEF LayoutInv
  <2>2. \A q \in L!Handles : L!Reach(q)' = L!Reach(q)
    BY ONLY ReachIs, HandleNames, <1>3
  <2>3. active.panel = p /\ Granted(p, hook[p].max)
    BY ONLY <1>1, <2>1 DEF Owned
  <2>4. Granted(p, size)
    <3>1. L!Floor(p) \in Nat
      BY ONLY FloorIs, p \in L!Handles
    <3>2. hook[p].max >= L!Floor(p) /\ hook[p].max <= L!Reach(p)
      BY ONLY <1>5, <3>1, <2>3 DEF Granted
    <3> HIDE <1>6
    <3>3. size \in L!Floor(p)..hook[p].max
      BY ONLY <1>5, <1>6, <3>1, <3>2
    <3>4. L!Reach(p) \in Int
      BY ONLY LayoutInv, p \in L!Handles, ReachIs, HandleNames, SideMaxIs, BottomIs, LayoutNow
           DEF LayoutInv, ShellTyped, Size
    <3> QED BY ONLY <1>5, <3>1, <3>2, <3>3, <3>4 DEF Granted
  <2> QED BY ONLY <1>3, <1>10, <1>11, <2>1, <2>2, <2>3, <2>4 DEF Owned, Granted, PeerFits
<1>14. ShellTyped' /\ Rendered' /\ Announcing' /\ L!FocusShown'
  BY ONLY LayoutInv, <1>2, <1>3, <1>10, <1>11
     DEF LayoutInv, ShellTyped, Rendered, Announcing, L!FocusShown, L!Undocked
<1>15. FocusHeld
  BY ONLY <1>3, HandleNames DEF FocusHeld, L!Undocked
<1> QED BY ONLY <1>2, <1>12, <1>13, <1>14, <1>15 DEF LayoutInv

LEMMA FrameKeeps ==
  ASSUME LayoutInv, L!Frame
  PROVE  LayoutInv' /\ FocusHeld
<1>1. PICK p \in L!Handles :
        /\ hook[p].preview # L!NoSize
        /\ L!Render(ui, [hook EXCEPT ![p].preview = L!NoSize], L!Previewed(p), css, FALSE)
  BY DEF L!Frame
<1> DEFINE h == [hook EXCEPT ![p].preview = L!NoSize]
           a == L!Previewed(p)
<1>2. /\ left' = left /\ left \in CastTyped /\ LayoutTyped(ui) /\ css \in [L!Handles -> Nat]
      /\ HooksTyped(hook) /\ ActiveTyped(active)
  BY ONLY LayoutInv, L!Frame DEF LayoutInv, ShellTyped, L!Frame
<1>3. hook[p] \in GestureTyped /\ hook[p].preview \in Nat
  BY ONLY <1>1, <1>2 DEF HooksTyped, GestureTyped, Size
<1>4. [hook[p] EXCEPT !.preview = L!NoSize] \in GestureTyped
  BY ONLY <1>3 DEF GestureTyped, Size
<1>5. /\ h = [hook EXCEPT ![p] = [hook[p] EXCEPT !.preview = L!NoSize]]
      /\ [hook[p] EXCEPT !.preview = L!NoSize].kind = hook[p].kind
      /\ [hook[p] EXCEPT !.preview = L!NoSize].max = hook[p].max
  BY ONLY <1>3 DEF GestureTyped
<1>6. L!Render(ui, h, a, css, FALSE)
  BY ONLY <1>1
<1> HIDE DEF h
<1>7. HooksTyped(h) /\ \A q \in L!Handles : h[q].kind = hook[q].kind /\ h[q].max = hook[q].max
  BY ONLY <1>2, <1>3, <1>4, <1>5, p \in L!Handles DEF HooksTyped
<1>8. ActiveTyped(a) /\ a.panel = active.panel /\ a.peer = active.peer
  <2>1. CASE active.panel = p
    <3>1. a = [active EXCEPT !.size = hook[p].preview] /\ p # ""
      BY ONLY <2>1, HandleNames, p \in L!Handles DEF L!Previewed
    <3> HIDE DEF a
    <3> QED BY ONLY <1>2, <1>3, <2>1, <3>1 DEF ActiveTyped, Size
  <2>2. CASE active.panel # p
    BY ONLY <1>2, <2>2 DEF L!Previewed
  <2> QED BY ONLY <2>1, <2>2
<1> HIDE DEF a
<1>9. active.panel # "" => hook[active.panel].kind # "none" /\ L!Usable(active.panel) /\ active.panel \in L!Handles
  BY ONLY LayoutInv DEF LayoutInv, Owner, ShellTyped, ActiveTyped
<1>10. /\ a.panel # "" => h[a.panel].kind # "none"
       /\ a.panel \in L!Sides => a.panel \notin ui.collapsed
  BY ONLY <1>7, <1>8, <1>9, HandleNames DEF L!Usable
<1>11. ASSUME ~left.overlap PROVE Owning(ui, h, a, css)
  <2>1. Owned
    BY ONLY LayoutInv, <1>11 DEF LayoutInv
  <2>2. \A q \in L!Handles : h[q].kind # "none" => a.panel = q
    BY ONLY <1>7, <1>8, <2>1 DEF Owned
  <2>3. a.panel # "" => /\ Granted(a.panel, css[a.panel]) /\ Granted(a.panel, h[a.panel].max)
                        /\ a.panel \in L!Sides => PeerFits(ui, active, a.panel)
    BY ONLY <1>7, <1>8, <1>9, <2>1 DEF Owned
  <2>4. \A q : PeerFits(ui, a, q) = PeerFits(ui, active, q)
    BY ONLY <1>8 DEF PeerFits
  <2> QED BY ONLY <1>8, <2>2, <2>3, <2>4, HandleNames DEF Owning
<1> QED BY ONLY Rendering, LayoutInv, <1>2, <1>6, <1>7, <1>8, <1>10, <1>11

\* The end of a gesture, by the mouse or by the pause after the last key.
LEMMA EndsKeeps ==
  ASSUME LayoutInv, NEW p \in L!Handles, hook[p].kind # "none", NEW size \in Nat, L!Ends(p, size, css),
         left' = left
  PROVE  LayoutInv' /\ FocusHeld
<1> DEFINE saved == L!Commits(p, size, hook[p].start)
           u == IF saved THEN [ui EXCEPT !.sizes[p] = size] ELSE ui
           h == [hook EXCEPT ![p] = L!NoGesture]
           a == L!NoActive
<1>1. L!Render(u, h, a, css, ~saved)
  BY ONLY L!Ends(p, size, css) DEF L!Ends
<1>2. left \in CastTyped /\ LayoutTyped(ui) /\ css \in [L!Handles -> Nat] /\ HooksTyped(hook)
  BY ONLY LayoutInv DEF LayoutInv, ShellTyped
<1>3. L!NoGesture \in GestureTyped /\ L!NoGesture.kind = "none" /\ ActiveTyped(a) /\ a.panel = ""
  BY ONLY HandleNames DEF L!NoGesture, GestureTyped, Size, L!NoActive, ActiveTyped
<1> HIDE DEF a
<1>4. HooksTyped(h) /\ \A q \in L!Handles : h[q].kind # "none" => q # p /\ hook[q].kind # "none"
  BY ONLY <1>2, <1>3, p \in L!Handles DEF HooksTyped
<1>5. LayoutTyped(u) /\ u.window = ui.window /\ u.pending = ui.pending /\ u.asked = ui.asked
  <2> DEFINE z == [ui.sizes EXCEPT ![p] = size]
             w == [ui EXCEPT !.sizes = z]
  <2>1. z \in [L!Handles -> Nat]
    BY ONLY <1>2, p \in L!Handles, size \in Nat DEF LayoutTyped
  <2>2. u \in {ui, w}
    BY ONLY <1>2 DEF LayoutTyped
  <2> HIDE DEF z
  <2>3. LayoutTyped(w) /\ w.window = ui.window /\ w.pending = ui.pending /\ w.asked = ui.asked
    BY ONLY <1>2, <2>1 DEF LayoutTyped
  <2> HIDE DEF u, w
  <2> QED BY ONLY <1>2, <2>2, <2>3
<1> HIDE DEF u, h, saved
<1>6. ASSUME ~left.overlap PROVE Owning(u, h, a, css)
  <2>1. \A q \in L!Handles : h[q].kind = "none"
    <3>1. Owned
      BY ONLY LayoutInv, <1>6 DEF LayoutInv
    <3> QED BY ONLY <3>1, <1>4, p \in L!Handles, hook[p].kind # "none" DEF Owned
  <2> QED BY ONLY <1>3, <2>1, HandleNames DEF Owning
<1> QED BY ONLY Rendering, LayoutInv, <1>1, <1>2, <1>3, <1>4, <1>5, <1>6, left' = left, HandleNames

LEMMA MouseUpKeeps ==
  ASSUME LayoutInv, L!MouseUp
  PROVE  LayoutInv' /\ FocusHeld
<1>1. PICK p \in L!Handles : hook[p].kind = "mouse" /\ L!Ends(p, css[p], css)
  BY DEF L!MouseUp
<1>2. left' = left
  BY DEF L!MouseUp
<1>3. css[p] \in Nat
  BY ONLY LayoutInv, GrabIs, p \in L!Handles
<1> QED BY ONLY EndsKeeps, LayoutInv, <1>1, <1>2, <1>3, p \in L!Handles

LEMMA KeysPauseKeeps ==
  ASSUME LayoutInv, L!KeysPause
  PROVE  LayoutInv' /\ FocusHeld
<1>1. PICK p \in L!Handles : hook[p].kind = "keys" /\ L!Ends(p, hook[p].max, css)
  BY DEF L!KeysPause
<1>2. left' = left
  BY DEF L!KeysPause
<1>3. hook[p].max \in Nat
  BY ONLY LayoutInv, <1>1, p \in L!Handles DEF LayoutInv, ShellTyped, HooksTyped
<1> QED BY ONLY EndsKeeps, LayoutInv, <1>1, <1>2, <1>3, p \in L!Handles

LEMMA KeyStepKeeps ==
  ASSUME LayoutInv, L!KeyStep
  PROVE  LayoutInv' /\ FocusHeld
<1>1. PICK p \in L!Handles, step \in {-20, 20} :
        LET size == L!Clamp(css[p] + step, L!Floor(p), layout.max[p])
            first == hook[p].kind = "none"
            start == IF first THEN css[p] ELSE hook[p].start
            h == [hook EXCEPT ![p] = [kind |-> "keys", start |-> start, max |-> size, preview |-> size]]
        IN /\ L!Usable(p) /\ hook[p].kind # "mouse" /\ (first => L!Alone(p))
           /\ L!Render(ui, h, IF first THEN L!Grab(p) ELSE active, [css EXCEPT ![p] = size], FALSE)
  BY DEF L!KeyStep
<1>2. left' \in CastTyped /\ left'.overlap = left.overlap
  BY Spends DEF L!KeyStep
<1> DEFINE size == L!Clamp(css[p] + step, L!Floor(p), layout.max[p])
           first == hook[p].kind = "none"
           start == IF first THEN css[p] ELSE hook[p].start
           g == [kind |-> "keys", start |-> start, max |-> size, preview |-> size]
           h == [hook EXCEPT ![p] = g]
           a == IF first THEN L!Grab(p) ELSE active
           c == [css EXCEPT ![p] = size]
<1>3. LayoutTyped(ui) /\ css \in [L!Handles -> Nat] /\ HooksTyped(hook) /\ ActiveTyped(active)
  BY ONLY LayoutInv DEF LayoutInv, ShellTyped
<1>4. L!Usable(p) /\ (first => L!Alone(p)) /\ L!Render(ui, h, a, c, FALSE)
  BY ONLY <1>1
<1>5. /\ ActiveTyped(L!Grab(p)) /\ L!Grab(p).panel = p
      /\ p \in L!Sides => PeerFits(ui, L!Grab(p), p)
      /\ css[p] \in Nat /\ layout.max[p] \in Nat /\ L!Floor(p) \in Nat
  BY ONLY LayoutInv, GrabIs, FloorIs, p \in L!Handles
<1>6. size \in Nat /\ (L!Floor(p) <= layout.max[p] => size \in L!Floor(p)..layout.max[p])
  <2>1. css[p] + step \in Int
    BY ONLY <1>5, step \in {-20, 20}
  <2> QED BY ONLY <1>5, <2>1, ClampIs
<1> HIDE DEF size
<1>7. g \in GestureTyped /\ g.kind = "keys" /\ g.max = size
  <2>1. start \in Size
    BY ONLY <1>3, <1>5, p \in L!Handles DEF HooksTyped, GestureTyped, Size
  <2> HIDE DEF start
  <2> QED BY ONLY <1>6, <2>1 DEF GestureTyped, Size
<1> HIDE DEF g
<1>8. HooksTyped(h) /\ h[p] = g /\ \A q \in L!Handles \ {p} : h[q] = hook[q]
  BY ONLY <1>3, <1>6, <1>7, p \in L!Handles DEF HooksTyped
<1>9. c \in [L!Handles -> Nat] /\ c[p] = size /\ \A q \in L!Handles \ {p} : c[q] = css[q]
  BY ONLY <1>3, <1>6, p \in L!Handles
<1>10. active.panel # "" => hook[active.panel].kind # "none" /\ L!Usable(active.panel) /\ active.panel \in L!Handles
  BY ONLY LayoutInv DEF LayoutInv, Owner, ShellTyped, ActiveTyped
<1>11. ActiveTyped(a) /\ (a.panel # "" => a.panel \in L!Handles /\ L!Usable(a.panel))
  BY ONLY <1>3, <1>4, <1>5, <1>10, p \in L!Handles
<1>12. a.panel # "" => h[a.panel].kind # "none"
  BY ONLY <1>5, <1>7, <1>8, <1>10
<1>13. a.panel \in L!Sides => a.panel \notin ui.collapsed
  BY ONLY <1>11, HandleNames DEF L!Usable
<1>14. ASSUME ~left.overlap
       PROVE  /\ a.panel = p /\ active.panel \in {"", p} /\ (p \in L!Sides => PeerFits(ui, a, p))
              /\ \A q \in L!Handles : hook[q].kind # "none" => q = p
  <2>1. CASE first
    BY ONLY <1>4, <1>5, <1>14, <2>1, HandsFree, LayoutInv, p \in L!Handles
  <2>2. CASE ~first
    <3>1. Owned /\ hook[p].kind # "none"
      BY ONLY LayoutInv, <1>14, <2>2 DEF LayoutInv
    <3> QED BY ONLY <2>2, <3>1, p \in L!Handles DEF Owned
  <2> QED BY ONLY <2>1, <2>2
<1> HIDE DEF h, a, c, first
<1>15. ASSUME ~left.overlap PROVE Owning(ui, h, a, c)
  <2>1. Granted(p, layout.max[p])
    BY ONLY Grantable, LayoutInv, <1>4, <1>14, <1>15, p \in L!Handles
  <2>2. L!Floor(p) <= layout.max[p] /\ layout.max[p] <= L!Reach(p)
    BY ONLY <1>5, <2>1 DEF Granted
  <2>3. L!Reach(p) \in Int
    BY ONLY LayoutInv, p \in L!Handles, ReachIs, HandleNames, SideMaxIs, BottomIs, LayoutNow
       DEF LayoutInv, ShellTyped, Size
  <2>4. size \in L!Floor(p)..layout.max[p]
    BY ONLY <1>6, <2>2
  <2>5. Granted(p, size)
    BY ONLY <1>5, <2>2, <2>3, <2>4 DEF Granted
  <2> QED BY ONLY <1>7, <1>8, <1>9, <1>14, <1>15, <2>5, HandleNames DEF Owning
<1> QED BY ONLY Rendering, LayoutInv, <1>2, <1>3, <1>4, <1>8, <1>9, <1>11, <1>12, <1>13, <1>15

-----------------------------------------------------------------------------
(* The layout of the shell, always.                                        *)

LayoutView == <<ui, layout, active, hook, css, written, focus, owner, drag, latch, said, left>>

LEMMA LayoutStart == ASSUME L!Init PROVE LayoutInv
<1>1. PICK view \in Viewports, open \in BOOLEAN :
        ui = [L!DefaultUi(view, 1, [window |-> "closed", pending |-> FALSE, asked |-> FALSE]) EXCEPT
                !.collapsed = IF open THEN {} ELSE {"golem"}]
  BY DEF L!Init
<1> DEFINE d == IF open THEN {} ELSE {"golem"}
<1>2. ui = [sizes |-> L!DefaultSizes, collapsed |-> d, order |-> "files-first", reveal |-> "files",
            revision |-> 0, view |-> view, repo |-> 1, window |-> "closed", pending |-> FALSE,
            asked |-> FALSE]
  BY <1>1 DEF L!DefaultUi
<1>3. d \in SUBSET (L!Panels \cup L!Sides) /\ ~(L!Panels \subseteq d)
  BY HandleNames
<1>4. L!DefaultSizes \in [L!Handles -> Nat]
  BY HandleNames DEF L!DefaultSizes
<1> HIDE DEF d
<1>5. LayoutTyped(ui)
  BY ONLY <1>2, <1>3, <1>4, HandleNames, view \in Viewports DEF LayoutTyped
<1>6. /\ active = L!NoActive /\ layout = L!Effective(ui, active) /\ hook = [p \in L!Handles |-> L!NoGesture]
      /\ css = layout.size /\ written = layout.size /\ focus = "outside" /\ latch = FALSE /\ said = ""
      /\ left \in LayoutCasts
  BY DEF L!Init
<1>7. L!NoGesture \in GestureTyped /\ L!NoGesture.kind = "none" /\ ActiveTyped(active) /\ active.panel = ""
  BY ONLY <1>6, HandleNames DEF L!NoGesture, GestureTyped, Size, L!NoActive, ActiveTyped
<1>8. HooksTyped(hook) /\ \A p \in L!Handles : hook[p].kind = "none"
  BY ONLY <1>6, <1>7 DEF HooksTyped
<1>9. left \in CastTyped
  BY ONLY <1>6, LayoutAssumed DEF L!LayoutAssumption, CastTyped
<1>10. css \in [L!Handles -> Nat]
  <2>1. layout.size = [p \in L!Handles |-> layout.size[p]]
    BY ONLY <1>6 DEF L!Effective, L!LayoutOf, L!CenterOf, L!Budget, L!Handles
  <2>2. \A p \in L!Handles : layout.size[p] \in Nat
    BY ONLY <1>5, <1>6, <1>7, LayoutIs
  <2> QED BY ONLY <1>6, <2>1, <2>2
<1>11. Rendered
  BY ONLY <1>6, <1>7, HandleNames DEF Rendered
<1>12. Owner /\ Owned
  BY ONLY <1>6, <1>7, <1>8, HandleNames DEF Owner, Owned
<1>13. ui.window = "closed" /\ ui.pending = FALSE
  BY ONLY <1>2
<1>14. Announcing
  BY ONLY <1>6, <1>13 DEF Announcing
<1>15. L!FocusShown
  BY ONLY <1>6, HandleNames DEF L!FocusShown, L!Shown
<1> QED BY ONLY <1>5, <1>7, <1>8, <1>9, <1>10, <1>11, <1>12, <1>14, <1>15 DEF LayoutInv, ShellTyped

LEMMA LayoutStep == ASSUME LayoutInv, L!Next PROVE LayoutInv' /\ L!FocusKept
<1>1. LayoutInv' /\ FocusHeld
  BY ONLY LayoutInv, L!Next, MouseDownKeeps, MouseMoveKeeps, FrameKeeps, MouseUpKeeps, KeyStepKeeps, KeysPauseKeeps,
     ResizedKeeps, ToggleKeeps, ReorderKeeps, RevealKeeps, TogglePanelKeeps, SwitchKeeps, RestoreKeeps,
     WindowKeeps, FocusKeeps, DragStartKeeps, DropKeeps DEF L!Next
<1>2. L!ToggleGolemPanel => ("golem" \in layout'.rails) # ("golem" \in layout.rails)
  BY ONLY LayoutInv, TogglePanelKeeps
<1> QED BY ONLY <1>1, <1>2 DEF FocusHeld, L!FocusKept

LEMMA LayoutRest == ASSUME LayoutInv, UNCHANGED LayoutView PROVE LayoutInv'
<1>1. UNCHANGED <<ui, layout, active, hook, css, written, latch, said>> /\ focus' = focus /\ left' = left
  BY DEF LayoutView
<1>2. left' \in CastTyped /\ L!FocusShown'
  BY <1>1 DEF LayoutInv, ShellTyped, L!FocusShown
<1> QED BY ONLY LayoutInv, Unmoved, <1>1, <1>2

LEMMA LayoutHoldAlways == StoreSpec => []LayoutHold
<1>1. StoreInit => LayoutHold
  BY LayoutStart DEF StoreInit, LayoutHold
<1>2. LayoutHold /\ [StoreNext]_storeVars => LayoutHold'
  <2> SUFFICES ASSUME LayoutHold, [StoreNext]_storeVars, part' = "shell" PROVE LayoutInv'
    BY DEF LayoutHold
  <2>1. CASE LStep
    BY <2>1, LayoutStep DEF LStep, LayoutHold
  <2>2. CASE UNCHANGED storeVars
    BY <2>2, LayoutRest DEF storeVars, LayoutHold, LayoutView
  <2>3. part' = part
    BY DEF StoreNext, RStep, FStep, PStep, LStep, RRest, FRest, PRest, LRest, storeVars
  <2> QED BY <2>1, <2>2, <2>3 DEF StoreNext, RStep, FStep, PStep
<1> QED BY <1>1, <1>2, PTL DEF StoreSpec

LEMMA LayoutEnough == ASSUME LayoutHold PROVE ShellSound
<1> SUFFICES ASSUME LayoutInv PROVE L!LayoutFits /\ L!GestureEnds /\ L!FocusShown
  BY DEF LayoutHold, ShellSound, L!ShellSound
<1>1. /\ LayoutTyped(ui) /\ ActiveTyped(active) /\ Rendered /\ layout = L!Effective(ui, active)
      /\ Owner /\ (~left.overlap => Owned) /\ L!FocusShown
  BY ONLY LayoutInv DEF LayoutInv, ShellTyped, Rendered
<1>2. /\ Ceiling(ui, active) \in Int /\ layout.seam = (layout.rails = {})
      /\ layout.rails = L!Rails(ui, Ceiling(ui, active))
      /\ layout.max.golem = IF layout.seam THEN Ceiling(ui, active) ELSE 0
      /\ layout.size.left = L!SideWidths(ui, active).left /\ layout.size.right = L!SideWidths(ui, active).right
      /\ layout.size.left \in Nat /\ layout.size.right \in Nat
  BY ONLY <1>1, LayoutNow, HandleNames
<1>3. /\ layout.rails # L!Panels
      /\ ~L!Undocked(ui) /\ ui.collapsed \cap L!Panels = {} => layout.rails \in {{}, {L!Peer(ui.reveal)}}
  BY ONLY <1>1, <1>2, RailsAre
<1>4. L!Peer(ui.reveal) # ui.reveal
  BY ONLY <1>1, HandleNames DEF LayoutTyped
<1>5. ASSUME layout.seam
      PROVE  /\ layout.size.golem >= L!MinGolem
             /\ layout.size.left + layout.size.right + layout.size.golem + L!MinFiles + L!HorizontalChrome
                  <= ui.view.width
  <2>1. layout.size.golem \in 320..layout.max.golem
    BY ONLY <1>1, <1>5, LayoutIs
  <2>2. layout.max.golem = Ceiling(ui, active)
    BY ONLY <1>2, <1>5
  <2> DEFINE w == L!SideWidths(ui, active)
  <2>3. Ceiling(ui, active) + w.left + w.right + L!MinFiles + L!HorizontalChrome <= ui.view.width
    BY ONLY <1>1, <1>2, CeilingIs DEF Ceiling
  <2>4. ui.view.width \in Nat
    BY ONLY <1>1, ViewOf
  <2> QED BY ONLY <1>2, <2>1, <2>2, <2>3, <2>4 DEF L!MinGolem, L!MinFiles, L!HorizontalChrome
<1>6. L!LayoutFits
  BY ONLY <1>1, <1>3, <1>4, <1>5 DEF L!LayoutFits, LayoutTyped
<1>7. active # L!NoActive => active.panel # "" /\ active.panel \in L!Handles
  BY ONLY <1>1 DEF ActiveTyped
<1>8. ASSUME ~left.overlap, NEW p \in L!Handles
      PROVE  IF active.panel = p THEN css[p] \in L!Floor(p)..L!Reach(p) ELSE css[p] = layout.size[p]
  BY ONLY <1>1, <1>8 DEF Owned, Granted
<1>9. L!GestureEnds
  BY ONLY <1>1, <1>7, <1>8 DEF L!GestureEnds, Owner
<1> QED BY ONLY <1>1, <1>6, <1>9

(*****************************************************************************)
(* The layout fits the window or has given way in order, the shell and the   *)
(* handles agree on the gesture under way, and the focus is on screen.       *)
(*****************************************************************************)
THEOREM ShellSoundAlways == StoreSpec => []ShellSound
  BY LayoutHoldAlways, LayoutEnough, PTL

-----------------------------------------------------------------------------
(* What was given is kept.                                                  *)

BufShape == DOMAIN buf = {"open", "text", "modified"}
BufHold == part = "saves" => BufShape

LEMMA Shaped ==
  ASSUME NEW b, DOMAIN b = {"open", "text", "modified"}, NEW t
  PROVE  /\ DOMAIN F!UpdateFileContent(b, t) = DOMAIN b /\ DOMAIN F!Reload(b, t) = DOMAIN b
         /\ DOMAIN [b EXCEPT !.modified = t] = DOMAIN b /\ DOMAIN F!Opened(t) = DOMAIN b
         /\ DOMAIN F!Closed = DOMAIN b
  BY DEF F!UpdateFileContent, F!Reload, F!Opened, F!Closed

LEMMA BufStep == ASSUME BufShape, F!Next PROVE BufShape'
<1>1. ASSUME F!Drain PROVE BufShape'
  <2>1. buf' \in {buf, F!UpdateFileContent(buf, edit.text)}
    BY <1>1 DEF F!Drain, F!Buffer
  <2> QED BY <2>1, Shaped DEF BufShape
<1>2. ASSUME NEW t, F!EditBuffer(t) \/ F!QueueWorkingTreeEdit(t) PROVE BufShape'
  <2>1. \E x : buf' \in {buf, F!UpdateFileContent(buf, t), [buf EXCEPT !.modified = x]}
    BY <1>2 DEF F!EditBuffer, F!QueueWorkingTreeEdit, F!Buffer
  <2> QED BY <2>1, Shaped DEF BufShape
<1>3. CASE F!DrainWorkingTreeEdit \/ F!EnsureEditorFileOpen \/ F!SaveOpenFileToDisk \/ F!FlushAllFileEdits
  BY <1>1, <1>3 DEF F!DrainWorkingTreeEdit, F!EnsureEditorFileOpen, F!SaveOpenFileToDisk,
                    F!FlushAllFileEdits, BufShape
<1>4. CASE F!Autosave \/ F!CloseFile \/ F!LockTaken \/ F!FlushBuffers \/ F!Settled \/ F!WriteFails
  <2>1. buf' \in {buf, F!Closed}
    BY <1>4 DEF F!Autosave, F!CloseFile, F!LockTaken, F!FlushBuffers, F!Settled,
         F!Ends, F!WriteFails
  <2> QED BY <2>1, Shaped DEF BufShape
<1>5. CASE F!ReadToOpen \/ F!OpenFile \/ F!FileChanged \/ F!Reloaded
  <2>1. \E t : buf' \in {buf, F!Reload(buf, t), F!Opened(t)}
    BY <1>5 DEF F!ReadToOpen, F!OpenFile, F!FileChanged, F!Reloaded, F!Buffer
  <2> QED BY <2>1, Shaped DEF BufShape
<1>6. CASE F!WriteSucceeds
  <2>1. \E t : buf' \in {buf, F!UpdateFileContent(buf, t), [buf EXCEPT !.modified = t]}
    BY <1>6 DEF F!WriteSucceeds, F!AutosaveWritten, F!DiffWritten, F!LockWritten, F!Cleaned,
       F!Buffer
  <2> QED BY <2>1, Shaped DEF BufShape
<1> QED BY <1>2, <1>3, <1>4, <1>5, <1>6 DEF F!Next

LEMMA BufHoldAlways == StoreSpec => []BufHold
<1>1. StoreInit => BufHold
  BY DEF StoreInit, F!Init, F!Closed, BufHold, BufShape
<1>2. BufHold /\ [StoreNext]_storeVars => BufHold'
  <2> SUFFICES ASSUME BufHold, [StoreNext]_storeVars, part' = "saves" PROVE BufShape'
    BY DEF BufHold
  <2>1. CASE FStep
    BY <2>1, BufStep DEF FStep, BufHold
  <2>2. CASE UNCHANGED storeVars
    BY <2>2 DEF storeVars, BufHold, BufShape
  <2>3. part' = part
    BY DEF StoreNext, RStep, FStep, PStep, LStep, RRest, FRest, PRest, LRest, storeVars
  <2> QED BY <2>1, <2>2, <2>3 DEF StoreNext, RStep, PStep, LStep
<1> QED BY <1>1, <1>2, PTL DEF StoreSpec

\* Only the write of the barrier resolves it, on a buffer that holds what was written.
LEMMA BarrierStep == ASSUME BufShape, F!Next PROVE F!BarrierWrote
<1> SUFFICES ASSUME barrier = "locked", barrier' = "resolved", buf'.open PROVE disk' = buf'.text
  BY DEF F!BarrierWrote
<1>1. F!WriteSucceeds
  BY DEF F!Next, F!EditBuffer, F!QueueWorkingTreeEdit, F!DrainWorkingTreeEdit, F!Autosave,
         F!CloseFile, F!EnsureEditorFileOpen, F!ReadToOpen, F!OpenFile, F!FileChanged, F!Reloaded,
         F!SaveOpenFileToDisk, F!LockTaken, F!FlushAllFileEdits, F!FlushBuffers, F!Settled,
         F!Ends, F!WriteFails
<1>2. disk' = Head(queue).text /\ F!LockWritten(Head(queue).text)
  BY <1>1 DEF F!WriteSucceeds, F!AutosaveWritten, F!DiffWritten
<1>3. /\ ~(buf.open /\ buf.text # disk') /\ buf' = IF buf.open THEN F!Cleaned ELSE buf
  BY <1>2 DEF F!LockWritten
<1>4. F!Cleaned.text = buf.text
  BY DEF F!Cleaned, BufShape
<1> QED BY <1>3, <1>4

(*****************************************************************************)
(* What was given is kept: output of a live run leaves the store with its    *)
(* workspace only, a save that others wait for resolves on what the disk     *)
(* holds, and the focus survives the panel that had it.                      *)
(*****************************************************************************)
THEOREM GivenKeptAlways == StoreSpec => GivenKept
<1>1. RunsHold /\ BufHold /\ LayoutHold /\ [StoreNext]_storeVars
        => [/\ part = "runs" => R!LiveStays
            /\ part = "saves" => F!BarrierWrote
            /\ part = "shell" => L!FocusKept]_storeVars
  <2> SUFFICES ASSUME RunsHold, BufHold, LayoutHold, StoreNext
               PROVE  /\ part = "runs" => R!LiveStays
                      /\ part = "saves" => F!BarrierWrote
                      /\ part = "shell" => L!FocusKept
    OBVIOUS
  <2>1. part = "runs" => R!LiveStays
    BY RunsStep DEF RunsHold, StoreNext, RStep, FStep, PStep, LStep
  <2>2. part = "saves" => F!BarrierWrote
    BY BarrierStep DEF BufHold, StoreNext, RStep, FStep, PStep, LStep
  <2>3. part = "shell" => L!FocusKept
    BY LayoutStep DEF LayoutHold, StoreNext, RStep, FStep, PStep, LStep
  <2> QED BY <2>1, <2>2, <2>3
<1> QED BY <1>1, RunsHoldAlways, BufHoldAlways, LayoutHoldAlways, PTL DEF StoreSpec, GivenKept
=============================================================================
