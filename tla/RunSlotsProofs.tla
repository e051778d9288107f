-------------------------- MODULE RunSlotsProofs --------------------------
(***************************************************************************)
(* Proofs about RunExecutor, continued: what is kept of a profile.  Two    *)
(* ordinary instances at most, although a slot is taken before the spawn   *)
(* and a replacement shares the slot of the run it replaces; no instance   *)
(* beside the step of a compound; the live run that Stop finds; the newest *)
(* two results; and the order of a compound's steps.                       *)
(***************************************************************************)
EXTENDS RunIsolationProofs

\* What is kept of a profile are results of its own earlier runs.
Retained ==
  /\ \A p \in Profiles : \A r \in terminalIds[p] : profileOf[r] = p /\ r <= nextRunSeq
  /\ RetentionSound

Indexed == activeByProfile \in [Profiles -> RunId \cup {NoRun}] /\ ActiveIndexSound

\* A step that is live or about to be has its profile for itself.
Exclusive ==
  \A s, r \in processes \cup reservations :
    parentOf[s] # NoRun /\ profileOf[r] = profileOf[s] => r = s

\* A restart is of a run of its profile.
Targeted ==
  \A t \in Callers : pc[t] = "r-reserve" =>
    /\ req[t].target \in RunId /\ req[t].target <= nextRunSeq
    /\ profileOf[req[t].target] = req[t].profile

\* A run is replaced once, and is out of the table before its replacement is
\* spawned.
Replaces ==
  /\ \A q, r \in reservations : replaces[q] = replaces[r] /\ replaces[q] # NoRun => q = r
  /\ \A t \in Threads : pc[t] \in {"check", "promote"} /\ replaces[req[t].run] # NoRun =>
       waiting[replaces[req[t].run]] /\ replaces[req[t].run] \notin processes

TwoSlots == \A p \in Profiles : Cardinality(Slots(p, NoRun)) <= 2

SlotInv == Retained /\ Indexed /\ Exclusive /\ Targeted /\ Replaces /\ TwoSlots

-----------------------------------------------------------------------------
(***************************************************************************)
(* Counting runs.                                                          *)
(***************************************************************************)
LEMMA RunsFinite ==
  ASSUME NEW S \in SUBSET RunId
  PROVE  IsFiniteSet(S) /\ Cardinality(S) \in Nat
<1>1. IsFiniteSet(1..MaxRuns)
  BY FS_Interval, ExecutorAssumption, 1 \in Int, MaxRuns \in Int
<1>2. IsFiniteSet(S)
  BY <1>1, FS_Subset DEF RunId
<1> QED BY <1>2, FS_CardinalityType

LEMMA CountAdd ==
  ASSUME NEW T \in SUBSET RunId, NEW x \in RunId
  PROVE  /\ Cardinality(T \cup {x}) \in Nat
         /\ x \in T => Cardinality(T \cup {x}) = Cardinality(T)
         /\ x \notin T => Cardinality(T \cup {x}) = Cardinality(T) + 1
<1>1. IsFiniteSet(T)
  BY RunsFinite
<1>2. Cardinality(T \cup {x}) = IF x \in T THEN Cardinality(T) ELSE Cardinality(T) + 1
  BY <1>1, FS_AddElement, Zenon
<1>3. T \cup {x} \in SUBSET RunId
  OBVIOUS
<1> QED BY <1>2, <1>3, RunsFinite

LEMMA CountSubset ==
  ASSUME NEW T \in SUBSET RunId, NEW S \in SUBSET T
  PROVE  Cardinality(S) <= Cardinality(T)
BY RunsFinite, FS_Subset

LEMMA CountOneMore ==
  ASSUME NEW T \in SUBSET RunId, NEW x \in RunId, NEW S \in SUBSET (T \cup {x}),
         ~(Cardinality(T) >= 2)
  PROVE  Cardinality(S) <= 2
<1>1. IsFiniteSet(T) /\ Cardinality(T) \in Nat /\ T \cup {x} \in SUBSET RunId
  BY RunsFinite
<1>2. Cardinality(T \cup {x}) <= Cardinality(T) + 1
  BY <1>1, CountAdd
<1>3. Cardinality(S) <= Cardinality(T \cup {x})
  BY <1>1, CountSubset
<1>4. Cardinality(S) \in Nat /\ Cardinality(T \cup {x}) \in Nat
  BY <1>1, RunsFinite
<1> QED BY <1>1, <1>2, <1>3, <1>4

LEMMA CountExchange ==
  ASSUME NEW T \in SUBSET RunId, NEW r \in T, NEW x \in RunId, NEW S \in SUBSET ((T \ {r}) \cup {x})
  PROVE  Cardinality(S) <= Cardinality(T)
<1> DEFINE U == T \ {r}
<1>1. IsFiniteSet(T) /\ IsFiniteSet(U) /\ U \in SUBSET RunId /\ U \cup {x} \in SUBSET RunId
  BY RunsFinite
<1>2. Cardinality(U) = Cardinality(T) - 1
  BY <1>1, FS_RemoveElement
<1>3. Cardinality(U \cup {x}) <= Cardinality(U) + 1
  BY <1>1, RunsFinite, CountAdd
<1>4. Cardinality(S) <= Cardinality(U \cup {x})
  BY <1>1, CountSubset
<1>5. /\ Cardinality(S) \in Nat /\ Cardinality(T) \in Nat /\ Cardinality(U) \in Nat
      /\ Cardinality(U \cup {x}) \in Nat
  BY <1>1, RunsFinite
<1> QED BY <1>2, <1>3, <1>4, <1>5

LEMMA CountPair ==
  ASSUME NEW S \in SUBSET RunId,
         \A a, b, c \in S : a = b \/ b = c \/ a = c
  PROVE  Cardinality(S) <= 2
<1>1. CASE S = {}
  BY <1>1, FS_EmptySet
<1>2. ASSUME NEW a \in S PROVE Cardinality(S) <= 2
  <2>1. CASE S \ {a} = {}
    <3>1. S = {a}
      BY <2>1
    <3> QED BY <3>1, FS_Singleton
  <2>2. ASSUME NEW b \in S \ {a} PROVE Cardinality(S) <= 2
    <3>1. S = {a} \cup {b}
      BY <2>2
    <3>2. IsFiniteSet({a}) /\ Cardinality({a}) = 1
      BY FS_Singleton
    <3>3. Cardinality({a} \cup {b}) <= 2
      BY <2>2, <3>2, CountAdd
    <3> QED BY <3>1, <3>3
  <2> QED BY <2>1, <2>2
<1> QED BY <1>1, <1>2

\* Of three runs the oldest is not kept.
LEMMA KeptTwo ==
  ASSUME NEW p \in Profiles, terminalIds[p] \subseteq RunId, NEW r \in RunId
  PROVE  Cardinality(Kept(p, r)) <= 2
<1> DEFINE ids == terminalIds[p] \cup {r}
           Above(x) == {y \in ids : y > x}
<1>1. ids \subseteq RunId /\ ids \subseteq Nat
  BY RunFacts
<1>2. ASSUME NEW x \in ids, NEW b \in ids, NEW c \in ids, b > x, c > x, b # c
      PROVE ~(Cardinality(Above(x)) < 2)
  <2>1. {b} \cup {c} \subseteq Above(x) /\ Above(x) \in SUBSET RunId
    BY <1>1, <1>2
  <2>2. IsFiniteSet({b}) /\ Cardinality({b}) = 1 /\ c \notin {b}
    BY <1>2, FS_Singleton
  <2>3. Cardinality({b} \cup {c}) = 2
    BY <1>1, <2>2, CountAdd
  <2>4. Cardinality({b} \cup {c}) <= Cardinality(Above(x))
    BY <2>1, CountSubset
  <2>5. Cardinality(Above(x)) \in Nat
    BY <2>1, RunsFinite
  <2> QED BY <2>3, <2>4, <2>5
<1>3. Kept(p, r) = {x \in ids : Cardinality(Above(x)) < 2}
  BY DEF Kept
<1>4. \A x \in Kept(p, r) : \A b, c \in ids : b > x /\ c > x => b = c
  BY <1>2, <1>3
<1>5. \A a, b, c \in Kept(p, r) : a = b \/ b = c \/ a = c
  <2> SUFFICES ASSUME NEW a \in Kept(p, r), NEW b \in Kept(p, r), NEW c \in Kept(p, r),
                      a # b, b # c, a # c
               PROVE  FALSE
    OBVIOUS
  <2>1. a \in Nat /\ b \in Nat /\ c \in Nat /\ a \in ids /\ b \in ids /\ c \in ids
    BY <1>1, <1>3
  <2> HIDE DEF ids
  <2>2. \/ (a > b /\ c > b) \/ (b > a /\ c > a) \/ (a > c /\ b > c)
    BY <2>1
  <2> QED BY <1>4, <2>1, <2>2
<1> QED BY <1>1, <1>3, <1>5, CountPair

-----------------------------------------------------------------------------
(***************************************************************************)
(* What a step does to the identities and to the slots.                    *)
(***************************************************************************)
\* An id that was handed out keeps its profile and its aggregate.
Ids ==
  /\ nextRunSeq <= nextRunSeq'
  /\ \A r \in RunId : r <= nextRunSeq => profileOf'[r] = profileOf[r] /\ parentOf'[r] = parentOf[r]

\* A fresh id reserves a slot of p, or shares the slot of x.
Fresh(p, x) ==
  LET r == nextRunSeq + 1
  IN /\ r \in RunId /\ nextRunSeq' = r
     /\ UNCHANGED <<processes, parentOf>>
     /\ reservations' = reservations \cup {r}
     /\ profileOf' = [profileOf EXCEPT ![r] = p]
     /\ replaces' = [replaces EXCEPT ![r] = x]
     /\ ~Conflict(r, p, NoRun, x)
     /\ x # NoRun => x \in processes /\ ~Irreplaceable(x) /\ profileOf[x] = p

\* The step r of a compound reserves.
Stepped(r) ==
  /\ r \in RunId /\ parentOf[r] # NoRun
  /\ UNCHANGED <<processes, parentOf, profileOf>>
  /\ reservations' = reservations \cup {r}
  /\ replaces' = [replaces EXCEPT ![r] = NoRun]
  /\ ~Conflict(r, profileOf[r], parentOf[r], NoRun)

Promoted(r) ==
  /\ r \in reservations /\ ~waiting[r]
  /\ replaces[r] # NoRun => replaces[r] \notin processes
  /\ processes' = processes \cup {r} /\ reservations' = reservations \ {r}
  /\ replaces' = replaces

Left(r) == processes' = processes \ {r} /\ UNCHANGED <<reservations, replaces>>

Dropped == UNCHANGED <<processes, replaces>> /\ reservations' \subseteq reservations

SlotChange ==
  \/ \E p \in Profiles, x \in RunId \cup {NoRun} : Fresh(p, x)
  \/ \E r \in RunId : Stepped(r) \/ Promoted(r) \/ Left(r)
  \/ Dropped

LEMMA IdsStable == ASSUME RunInv, Asked, Named, Quiet \/ Changes PROVE Ids
<1> USE DEF admission, tables, retention, identity, resVars, procVars, drainVars
<1>0. nextRunSeq \in Nat /\ nextRunSeq <= nextRunSeq
  BY RunsKnown
<1>1. ASSUME UNCHANGED <<nextRunSeq, profileOf, parentOf>> PROVE Ids
  BY <1>0, <1>1 DEF Ids
<1>2. ASSUME NEW t \in Threads, (ReserveReplacement(t) /\ t \in Callers) \/ ReserveFresh(t) PROVE Ids
  <2>1. /\ parentOf' = parentOf
        /\ nextRunSeq' = nextRunSeq \/ nextRunSeq' = nextRunSeq + 1
        /\ profileOf' = profileOf \/ \E p : profileOf' = [profileOf EXCEPT ![nextRunSeq + 1] = p]
    BY <1>2 DEF ReserveReplacement, ReserveFresh, AddReservation
  <2>2. \A r \in RunId : r <= nextRunSeq => r # nextRunSeq + 1
    BY <1>0, RunFacts
  <2> QED BY <1>0, <2>1, <2>2 DEF Ids, Named
<1>3. ASSUME NEW t \in Callers, StartCompound(t) PROVE Ids
  <2> DEFINE p == req[t].profile
             c == nextRunSeq + 1
             n == Len(Steps[p])
             plan == (c + 1)..(c + n)
  <2>1. /\ profileOf' = [r \in RunId |-> IF r = c THEN p
                        ELSE IF r \in plan THEN Steps[p][r - c] ELSE profileOf[r]]
        /\ parentOf' = [r \in RunId |-> IF r \in plan THEN c ELSE parentOf[r]]
        /\ nextRunSeq' = c + n
    BY <1>3 DEF StartCompound
  <2>2. n \in Nat /\ \A r \in RunId : r <= nextRunSeq => r # c /\ r \notin plan
    BY <1>3, StartOf
  <2>3. nextRunSeq <= nextRunSeq'
    <3> HIDE DEF n
    <3> QED BY <1>0, <2>1, <2>2
  <2> HIDE DEF c, plan
  <2> QED BY <2>1, <2>2, <2>3 DEF Ids
<1>4. ASSUME NEW t \in Threads, ReserveStep(t) PROVE Ids
  <2>1. UNCHANGED <<nextRunSeq, parentOf>>
    BY <1>4 DEF ReserveStep
  <2>2. profileOf' = profileOf
    BY <1>4 DEF ReserveStep, AddReservation, Named
  <2> QED BY <1>1, <2>1, <2>2
<1>5. ASSUME NEW t \in Threads,
             Spawn(t) \/ Promote(t) \/ FinishReservation(t) \/ EmitRunning(t) PROVE Ids
  BY <1>1, <1>5 DEF Spawn, Promote, FinishReservation, EmitRunning
<1>6. ASSUME NEW c \in RunId, CoordPublish(c) \/ CoordFinish(c) \/ CoordClose(c) PROVE Ids
  BY <1>1, <1>6 DEF CoordPublish, CoordFinish, CoordClose
<1>7. CASE Quiet
  BY <1>1, <1>7 DEF Quiet, Tables
<1> QED
  BY <1>1, <1>2, <1>3, <1>4, <1>5, <1>6, <1>7, OthersStill DEF Changes, Threads

LEMMA ReserveSlot ==
  ASSUME RunInv, Asked, Named, Targeted, NEW t \in Threads,
         (ReserveReplacement(t) /\ t \in Callers) \/ ReserveFresh(t) \/ ReserveStep(t)
  PROVE  SlotChange
<1> USE DEF admission, tables, retention, identity, resVars, procVars, drainVars
<1>1. nextRunSeq \in Nat /\ MaxRuns \in Nat
  BY RunsKnown, ExecutorAssumption
<1>2. nextRunSeq + 1 <= MaxRuns => nextRunSeq + 1 \in RunId
  BY <1>1 DEF RunId
<1>3. CASE UNCHANGED <<processes, replaces, reservations>>
  BY <1>3 DEF SlotChange, Dropped
<1>4. CASE ReserveReplacement(t) /\ t \in Callers /\ ~UNCHANGED <<processes, replaces, reservations>>
  <2> DEFINE p == req[t].profile
             x == req[t].target
             r == nextRunSeq + 1
  <2>1. /\ pc[t] = "r-reserve" /\ r <= MaxRuns /\ nextRunSeq' = r
        /\ x \in processes /\ ~Irreplaceable(x) /\ ~Conflict(r, p, NoRun, x)
        /\ AddReservation(r, p, req[t].epoch, x)
        /\ UNCHANGED <<processes, parentOf>>
    BY <1>4 DEF ReserveReplacement
  <2>2. p \in Profiles /\ x \in RunId /\ profileOf[x] = p
    BY <1>4, <2>1 DEF Asked, AskedBy, Targeted
  <2>3. Fresh(p, x)
    BY <1>2, <2>1, <2>2 DEF Fresh, AddReservation
  <2> QED BY <2>2, <2>3 DEF SlotChange
<1>5. CASE ReserveFresh(t) /\ ~UNCHANGED <<processes, replaces, reservations>>
  <2> DEFINE p == req[t].profile
             r == nextRunSeq + 1
  <2>1. /\ pc[t] = "reserve" /\ t \in Callers /\ r <= MaxRuns /\ nextRunSeq' = r
        /\ ~Conflict(r, p, NoRun, NoRun)
        /\ AddReservation(r, p, req[t].epoch, NoRun)
        /\ UNCHANGED <<processes, parentOf>>
    BY <1>5 DEF ReserveFresh
  <2>2. p \in Profiles
    BY <2>1 DEF Asked, AskedBy
  <2>3. Fresh(p, NoRun)
    BY <1>2, <2>1, <2>2 DEF Fresh, AddReservation
  <2> QED BY <2>2, <2>3 DEF SlotChange
<1>6. CASE ReserveStep(t) /\ ~UNCHANGED <<processes, replaces, reservations>>
  <2> DEFINE r == req[t].run
  <2>1. /\ pc[t] = "reserve" /\ t \in RunId
        /\ ~Conflict(r, profileOf[r], t, NoRun)
        /\ AddReservation(r, profileOf[r], req[t].epoch, NoRun)
        /\ UNCHANGED <<processes, parentOf>>
    BY <1>6 DEF ReserveStep
  <2>2. r \in RunId /\ parentOf[r] = t /\ t # NoRun
    BY <2>1, StepOf
  <2>3. profileOf' = profileOf
    BY <2>1 DEF AddReservation, Named
  <2>4. Stepped(r)
    BY <2>1, <2>2, <2>3 DEF Stepped, AddReservation
  <2> QED BY <2>2, <2>4 DEF SlotChange
<1> QED BY <1>3, <1>4, <1>5, <1>6

LEMMA SlotMoves ==
  ASSUME RunInv, Asked, Named, Targeted, Replaces, Quiet \/ Changes
  PROVE  SlotChange
<1> USE DEF admission, tables, retention, identity, resVars, procVars, drainVars
<1>1. ASSUME Dropped PROVE SlotChange
  BY <1>1 DEF SlotChange
<1>2. ASSUME NEW t \in Threads, Promote(t) PROVE SlotChange
  <2> DEFINE r == req[t].run
  <2>1. CASE UNCHANGED <<processes, reservations, replaces>>
    BY <1>1, <2>1 DEF Dropped
  <2>2. CASE ~UNCHANGED <<processes, reservations, replaces>>
    <3>1. /\ pc[t] = "promote" /\ r \in reservations
          /\ processes' = processes \cup {r} /\ reservations' = reservations \ {r}
          /\ replaces' = replaces
      BY <1>2, <2>2 DEF Promote, ReservationInvalid
    <3>2. r \in RunId
      BY <3>1, TablesOfRuns
    <3>3. replaces[r] # NoRun => replaces[r] \notin processes
      BY <3>1 DEF Replaces
    <3>4. Promoted(r)
      BY <3>1, <3>3 DEF Promoted, RunInv, Reaped
    <3> QED BY <3>2, <3>4 DEF SlotChange
  <2> QED BY <2>1, <2>2
<1>3. ASSUME NEW t \in Threads, Spawn(t) \/ FinishReservation(t) \/ EmitRunning(t)
      PROVE SlotChange
  BY <1>1, <1>3 DEF Spawn, FinishReservation, EmitRunning, Dropped
<1>4. ASSUME NEW t \in Callers, StartCompound(t) PROVE SlotChange
  BY <1>1, <1>4 DEF StartCompound, Dropped
<1>5. ASSUME NEW c \in RunId, CoordPublish(c) \/ CoordFinish(c) \/ CoordClose(c)
      PROVE SlotChange
  BY <1>1, <1>5 DEF CoordPublish, CoordFinish, CoordClose, Dropped
<1>6. ASSUME NEW r \in RunId, WaitProcess(r) PROVE SlotChange
  <2>1. Left(r)
    BY <1>6 DEF WaitProcess, Left
  <2> QED BY <2>1 DEF SlotChange
<1>7. ASSUME NEW r \in RunId, FinishWait(r) \/ Escalate(r) \/ Exit(r) PROVE SlotChange
  BY <1>1, <1>7 DEF FinishWait, Escalate, Exit, Dropped
<1>8. ASSUME NEW d \in Drainers, BeginDrain(d) \/ StopAll(d) \/ Drained(d) PROVE SlotChange
  BY <1>1, <1>8, OthersStill DEF Dropped
<1>9. CASE Quiet
  BY <1>1, <1>9 DEF Quiet, Tables, Dropped
<1> QED
  BY <1>2, <1>3, <1>4, <1>5, <1>6, <1>7, <1>8, <1>9, ReserveSlot DEF Changes, Process, Threads

-----------------------------------------------------------------------------
(***************************************************************************)
(* The slots of a profile.                                                 *)
(***************************************************************************)
\* Whatever changes, the runs in the tables keep their profile and aggregate.
LEMMA KnownStay ==
  ASSUME RunInv, Ids
  PROVE  \A q \in processes \cup reservations \cup compounds :
           q \in RunId /\ profileOf'[q] = profileOf[q] /\ parentOf'[q] = parentOf[q]
BY TablesOfRuns DEF Ids

LEMMA FreshIsNew ==
  ASSUME RunInv, Named, NEW p, NEW x, Fresh(p, x)
  PROVE  LET r == nextRunSeq + 1
         IN /\ r \in RunId /\ r \notin processes \cup reservations /\ parentOf[r] = NoRun
            /\ profileOf'[r] = p /\ replaces'[r] = x
            /\ \A q \in RunId : q # r => replaces'[q] = replaces[q]
<1> DEFINE r == nextRunSeq + 1
<1>1. nextRunSeq \in Nat /\ r \in RunId
  BY RunsKnown DEF Fresh
<1>2. r \notin processes \cup reservations /\ parentOf[r] = NoRun
  BY <1>1, TablesOfRuns DEF RunInv, Unused
<1>3. /\ profileOf' = [profileOf EXCEPT ![r] = p] /\ replaces' = [replaces EXCEPT ![r] = x]
      /\ profileOf \in [RunId -> Profiles \cup {NoRun}]
      /\ replaces \in [RunId -> RunId \cup {NoRun}]
  BY DEF Fresh, Named, RunInv, Shape
<1> HIDE DEF r
<1>4. /\ profileOf'[r] = p /\ replaces'[r] = x /\ \A q \in RunId : q # r => replaces'[q] = replaces[q]
  BY <1>1, <1>3
<1> QED BY <1>1, <1>2, <1>4 DEF r

LEMMA ExclusiveStep ==
  ASSUME RunInv, Named, Ids, Exclusive, SlotChange PROVE Exclusive'
<1> DEFINE Taken == processes \cup reservations
<1>0. \A q \in Taken : q \in RunId /\ profileOf'[q] = profileOf[q] /\ parentOf'[q] = parentOf[q]
  BY KnownStay
<1>1. ASSUME Taken' \subseteq Taken PROVE Exclusive'
  BY <1>0, <1>1 DEF Exclusive
<1>2. ASSUME NEW r, Taken' = Taken \cup {r},
             \A q \in Taken : profileOf[q] = profileOf'[r] => parentOf[q] = NoRun /\ parentOf'[r] = NoRun
      PROVE Exclusive'
  BY <1>0, <1>2 DEF Exclusive
<1>3. ASSUME NEW p \in Profiles, NEW x, Fresh(p, x) PROVE Exclusive'
  <2> DEFINE r == nextRunSeq + 1
  <2>1. /\ Taken' = Taken \cup {r} /\ parentOf' = parentOf
        /\ ~Conflict(r, p, NoRun, x)
        /\ x # NoRun => ~Irreplaceable(x)
    BY <1>3 DEF Fresh
  <2>2. parentOf[r] = NoRun /\ profileOf'[r] = p /\ r \in RunId
    BY <1>3, FreshIsNew
  <2>3. \A q \in Taken : profileOf[q] = p => parentOf[q] = NoRun
    BY <2>1, RunFacts, TablesOfRuns DEF Conflict, Irreplaceable
  <2> HIDE DEF r
  <2> QED BY <1>2, <2>1, <2>2, <2>3
<1>4. ASSUME NEW r \in RunId, Stepped(r) PROVE Exclusive'
  <2>1. Taken' = Taken \cup {r} /\ profileOf' = profileOf /\ parentOf[r] # NoRun
    BY <1>4 DEF Stepped
  <2>2. \A q \in Taken : profileOf[q] # profileOf[r]
    BY <1>4, RunFacts, TablesOfRuns DEF Stepped, Conflict
  <2> QED BY <1>2, <2>1, <2>2
<1> QED BY <1>1, <1>3, <1>4 DEF SlotChange, Promoted, Left, Dropped

\* Which runs take a slot of p.
LEMMA SlotsAre ==
  ASSUME RunInv, NEW p
  PROVE  /\ Slots(p, NoRun) \in SUBSET RunId
         /\ \A q : q \in Slots(p, NoRun) <=>
              \/ q \in processes /\ profileOf[q] = p
              \/ /\ q \in reservations /\ profileOf[q] = p
                 /\ ~(replaces[q] \in processes /\ profileOf[replaces[q]] = p)
<1>1. NoRun \notin processes
  BY TablesOfRuns, RunFacts
<1> QED BY <1>1, TablesOfRuns DEF Slots

LEMMA SlotsBecome ==
  ASSUME NEW p, NoRun \notin processes'
  PROVE  \A q : q \in Slots(p, NoRun)' <=>
           \/ q \in processes' /\ profileOf'[q] = p
           \/ /\ q \in reservations' /\ profileOf'[q] = p
              /\ ~(replaces'[q] \in processes' /\ profileOf'[replaces'[q]] = p)
BY DEF Slots

LEMMA TwoSlotsStep ==
  ASSUME RunInv, Named, Ids, Replaces, TwoSlots, SlotChange PROVE TwoSlots'
<1> SUFFICES ASSUME NEW p \in Profiles PROVE Cardinality(Slots(p, NoRun)') <= 2
  BY DEF TwoSlots
<1> DEFINE S == Slots(p, NoRun)
           T == Slots(p, NoRun)'
<1>0. /\ \A q \in processes \cup reservations :
           q \in RunId /\ profileOf'[q] = profileOf[q] /\ parentOf'[q] = parentOf[q]
      /\ NoRun \notin processes
      /\ replaces \in [RunId -> RunId \cup {NoRun}]
  BY KnownStay, TablesOfRuns, RunFacts DEF RunInv, Shape
<1>1. S \in SUBSET RunId /\ Cardinality(S) <= 2 /\ Cardinality(S) \in Nat
  BY SlotsAre, RunsFinite DEF TwoSlots
<1>2. \A q : q \in S <=> \/ q \in processes /\ profileOf[q] = p
                         \/ /\ q \in reservations /\ profileOf[q] = p
                            /\ ~(replaces[q] \in processes /\ profileOf[replaces[q]] = p)
  BY SlotsAre
<1> HIDE DEF S, T
<1>3. ASSUME NoRun \notin processes'
      PROVE  \A q : q \in T <=>
               \/ q \in processes' /\ profileOf'[q] = p
               \/ /\ q \in reservations' /\ profileOf'[q] = p
                  /\ ~(replaces'[q] \in processes' /\ profileOf'[replaces'[q]] = p)
  BY <1>3, SlotsBecome DEF T
<1>4. ASSUME T \in SUBSET S PROVE Cardinality(T) <= 2
  <2>1. Cardinality(T) <= Cardinality(S) /\ Cardinality(T) \in Nat
    BY <1>1, <1>4, CountSubset, RunsFinite
  <2> QED BY <1>1, <2>1
<1>5. ASSUME NEW o \in Profiles, NEW x \in RunId \cup {NoRun}, Fresh(o, x)
      PROVE Cardinality(T) <= 2
  <2> DEFINE r == nextRunSeq + 1
  <2>1. /\ r \in RunId /\ r \notin processes \cup reservations
        /\ profileOf'[r] = o /\ replaces'[r] = x
        /\ \A q \in RunId : q # r => replaces'[q] = replaces[q]
    BY <1>5, FreshIsNew
  <2>2. /\ processes' = processes /\ reservations' = reservations \cup {r}
        /\ ~Conflict(r, o, NoRun, x)
        /\ x # NoRun => x \in processes /\ profileOf[x] = o
    BY <1>5 DEF Fresh
  <2> HIDE DEF r
  <2>3. \A q : q \in T <=>
          \/ q \in processes /\ profileOf[q] = p
          \/ /\ q \in reservations \cup {r} /\ profileOf'[q] = p
             /\ ~(replaces'[q] \in processes /\ profileOf[replaces'[q]] = p)
    BY <1>0, <1>3, <2>2
  <2>4. \A q \in T : q # r => q \in S
    BY <1>0, <1>2, <2>1, <2>3
  <2>5. CASE r \notin T
    BY <1>4, <2>4, <2>5
  <2>6. CASE r \in T
    <3>1. o = p
      BY <2>1, <2>3, <2>6
    <3>2. x = NoRun
      BY <2>1, <2>2, <2>3, <2>6, <3>1
    <3>3. ~(Cardinality(S) >= 2)
      BY <2>2, <3>1, <3>2 DEF Conflict, S
    <3>4. T \in SUBSET (S \cup {r})
      BY <2>4
    <3> QED BY <1>1, <2>1, <3>3, <3>4, CountOneMore
  <2> QED BY <2>5, <2>6
<1>6. ASSUME NEW r \in RunId, Stepped(r) PROVE Cardinality(T) <= 2
  <2>1. /\ processes' = processes /\ reservations' = reservations \cup {r}
        /\ profileOf' = profileOf /\ replaces' = [replaces EXCEPT ![r] = NoRun]
        /\ parentOf[r] # NoRun /\ ~Conflict(r, profileOf[r], parentOf[r], NoRun)
    BY <1>6 DEF Stepped
  <2>2. /\ r \notin processes \cup reservations
        /\ \A q \in processes \cup reservations : profileOf[q] # profileOf[r]
    BY <1>0, <2>1 DEF Conflict
  <2>3. \A q \in T : q # r => q \in S
    BY <1>0, <1>2, <1>3, <2>1
  <2>4. CASE r \notin T
    BY <1>4, <2>3, <2>4
  <2>5. CASE r \in T
    <3>1. profileOf[r] = p
      BY <1>0, <1>3, <2>1, <2>5
    <3>2. T \subseteq {} \cup {r}
      BY <1>2, <2>2, <2>3, <3>1
    <3>3. Cardinality({}) = 0
      BY FS_EmptySet
    <3> QED BY <3>2, <3>3, CountOneMore
  <2> QED BY <2>4, <2>5
<1>7. ASSUME NEW r \in RunId, Promoted(r) PROVE Cardinality(T) <= 2
  <2>1. /\ r \in reservations
        /\ replaces[r] # NoRun => replaces[r] \notin processes
        /\ processes' = processes \cup {r} /\ reservations' = reservations \ {r}
        /\ replaces' = replaces
    BY <1>7 DEF Promoted
  <2>2. NoRun \notin processes'
    BY <1>0, <2>1, RunFacts
  <2>3. ASSUME NEW q \in T PROVE q \in S
    <3>1. CASE q = r
      <4>1. profileOf[r] = p
        BY <1>0, <1>3, <2>1, <2>2, <3>1
      <4>2. replaces[r] \notin processes
        BY <1>0, <2>1
      <4> QED BY <1>2, <2>1, <3>1, <4>1, <4>2
    <3>2. CASE q # r
      <4>1. \/ q \in processes /\ profileOf[q] = p
            \/ /\ q \in reservations /\ profileOf[q] = p
               /\ ~(replaces[q] \in processes /\ profileOf'[replaces[q]] = p)
        BY <1>0, <1>3, <2>1, <2>2, <3>2
      <4> QED BY <1>0, <1>2, <4>1
    <3> QED BY <3>1, <3>2
  <2>4. T \in SUBSET S
    BY <2>3
  <2> QED BY <1>4, <2>4
<1>8. ASSUME NEW r \in RunId, Left(r) PROVE Cardinality(T) <= 2
  <2>1. processes' = processes \ {r} /\ reservations' = reservations /\ replaces' = replaces
    BY <1>8 DEF Left
  <2>2. \A q : q \in T <=>
          \/ q \in processes \ {r} /\ profileOf[q] = p
          \/ /\ q \in reservations /\ profileOf[q] = p
             /\ ~(replaces[q] \in processes \ {r} /\ profileOf[replaces[q]] = p)
    BY <1>0, <1>3, <2>1
  <2>3. \A q \in T \ S : q \in reservations /\ replaces[q] = r /\ r \in processes /\ profileOf[r] = p
    BY <1>2, <2>2
  <2>4. CASE T \subseteq S
    BY <1>4, <2>4
  <2>5. ASSUME NEW x \in T \ S PROVE Cardinality(T) <= 2
    <3>1. r \in S /\ r \in RunId /\ x \in RunId
      BY <1>0, <1>2, <2>3, <2>5
    <3>2. \A q \in T \ S : q = x
      BY <2>3, <2>5, <1>0, RunFacts DEF Replaces
    <3>3. r \notin T \/ r \in reservations
      BY <2>2
    <3>4. r \notin reservations
      BY <2>3, <2>5 DEF RunInv, Disjoint
    <3>5. T \in SUBSET ((S \ {r}) \cup {x})
      BY <3>2, <3>3, <3>4
    <3>6. Cardinality(T) <= Cardinality(S) /\ Cardinality(T) \in Nat
      <4>1. T \in SUBSET RunId
        BY <1>1, <3>1, <3>5
      <4> QED BY <1>1, <3>1, <3>5, <4>1, CountExchange, RunsFinite
    <3> QED BY <1>1, <3>6
  <2> QED BY <2>4, <2>5
<1>9. ASSUME Dropped PROVE Cardinality(T) <= 2
  <2>1. processes' = processes /\ reservations' \subseteq reservations /\ replaces' = replaces
    BY <1>9 DEF Dropped
  <2>2. \A q \in T : q \in S
    BY <1>0, <1>2, <1>3, <2>1
  <2>3. T \in SUBSET S
    BY <2>2
  <2> QED BY <1>4, <2>3
<1> QED BY <1>5, <1>6, <1>7, <1>8, <1>9 DEF SlotChange, T

LEMMA SlotsBound ==
  ASSUME RunInv, TwoSlots PROVE CapacityBound
<1> SUFFICES ASSUME NEW p \in Profiles
             PROVE Cardinality({r \in processes : profileOf[r] = p /\ parentOf[r] = NoRun}) <= 2
  BY DEF CapacityBound
<1> DEFINE S == Slots(p, NoRun)
           L == {r \in processes : profileOf[r] = p /\ parentOf[r] = NoRun}
<1>1. S \in SUBSET RunId /\ L \in SUBSET S
  BY SlotsAre
<1>2. Cardinality(S) \in Nat /\ Cardinality(L) \in Nat
  BY <1>1, RunsFinite
<1>3. Cardinality(L) <= Cardinality(S) /\ Cardinality(S) <= 2
  BY <1>1, CountSubset DEF TwoSlots
<1> QED BY <1>2, <1>3

-----------------------------------------------------------------------------
(***************************************************************************)
(* How a thread comes to a restart's reservation, to the check and to the  *)
(* promotion.                                                              *)
(***************************************************************************)
LEMMA MovesAlone ==
  ASSUME RunInv, NEW t \in Threads, NEW l, Goto(t, l),
         UNCHANGED req \/ \E q : req' = [req EXCEPT ![t] = q]
  PROVE  Alone(t) /\ pc'[t] = l
BY DEF RunInv, Shape, Goto, Alone

LEMMA CallsAlone ==
  ASSUME RunInv, NEW t \in Callers, Call(t)
  PROVE  /\ Alone(t) /\ pc'[t] \notin {"check", "promote"}
         /\ pc'[t] = "r-reserve" => \E r \in RunId : CallRestartInstance(t, r)
<1>1. t \in Threads
  BY DEF Threads
<1>2. \E q : req' = [req EXCEPT ![t] = q]
  BY DEF Call, CallStart, CallRestart, CallStartCompound, CallRestartCompound, CallStop,
       CallRestartInstance, CallStopInstance
<1>3. ASSUME NEW p \in Profiles,
             CallStart(t, p) \/ CallStartCompound(t, p) \/ CallRestartCompound(t, p) \/ CallStop(t, p)
      PROVE \E l \in {"reserve", "c-start", "rc-check", "sc-lookup", "s-instance"} : Goto(t, l)
  BY <1>3 DEF CallStart, CallStartCompound, CallRestartCompound, CallStop
<1>4. ASSUME NEW p \in Ordinary, CallRestart(t, p)
      PROVE \E l \in {"r-lookup"} : Goto(t, l)
  BY <1>4 DEF CallRestart
<1>5. ASSUME NEW r \in RunId, CallRestartInstance(t, r)
      PROVE \E l \in {"r-reserve"} : Goto(t, l)
  BY <1>5 DEF CallRestartInstance
<1>6. ASSUME NEW r \in RunId, CallStopInstance(t, r) PROVE \E l \in {"s-signal"} : Goto(t, l)
  BY <1>6 DEF CallStopInstance
<1>7. Ordinary \subseteq Profiles /\ Compounds \subseteq Profiles
  BY RunFacts DEF Ordinary
<1>8. CASE \E p \in Profiles : \/ CallStart(t, p) \/ CallStartCompound(t, p)
                               \/ CallRestartCompound(t, p) \/ CallStop(t, p)
  BY <1>1, <1>2, <1>3, <1>8, MovesAlone
<1>9. CASE \E p \in Ordinary : CallRestart(t, p)
  BY <1>1, <1>2, <1>4, <1>9, MovesAlone
<1>10. CASE \E r \in RunId : CallRestartInstance(t, r)
  BY <1>1, <1>2, <1>5, <1>10, MovesAlone
<1>11. CASE \E r \in RunId : CallStopInstance(t, r)
  BY <1>1, <1>2, <1>6, <1>11, MovesAlone
<1> QED BY <1>7, <1>8, <1>9, <1>10, <1>11 DEF Call

LEMMA CallersAlone ==
  ASSUME RunInv, NEW t \in Callers, CallerStep(t), ~ReserveReplacement(t), ~StartCompound(t)
  PROVE  /\ Alone(t) /\ pc'[t] # "promote"
         /\ pc'[t] = "r-reserve" => RestartLookup(t)
         /\ pc'[t] = "check" => /\ StopInstance(t) \/ StopWait(t)
                                /\ req'[t] = req[t] /\ req[t].run # NoRun
<1>1. t \in Threads
  BY DEF Threads
<1>2. ASSUME Return(t) PROVE Alone(t) /\ pc'[t] = "idle"
  BY <1>1, <1>2, MovesAlone DEF Return
<1>3. CASE RestartUnprepared(t) \/ CompoundRejected(t)
  BY <1>2, <1>3 DEF RestartUnprepared, CompoundRejected
<1>4. ASSUME AfterStop(t), StopInstance(t) \/ StopWait(t)
      PROVE  /\ Alone(t) /\ pc'[t] \in {"idle", "check"}
             /\ pc'[t] = "check" => req'[t] = req[t] /\ req[t].run # NoRun
  <2>1. CASE req[t].run # NoRun
    <3>1. Goto(t, "check") /\ UNCHANGED req
      BY <1>4, <2>1 DEF AfterStop
    <3>2. Alone(t) /\ pc'[t] = "check"
      BY <1>1, <3>1, MovesAlone
    <3> QED BY <2>1, <3>1, <3>2
  <2>2. CASE req[t].run = NoRun
    <3>1. Return(t)
      BY <1>4, <2>2 DEF AfterStop
    <3> QED BY <1>2, <3>1
  <2> QED BY <2>1, <2>2
<1>5. CASE StopInstance(t)
  <2>1. AfterStop(t) \/ (Goto(t, "s-signal") /\ UNCHANGED req)
    BY <1>5 DEF StopInstance
  <2>2. CASE Goto(t, "s-signal") /\ UNCHANGED req
    BY <1>1, <2>2, MovesAlone
  <2> QED BY <1>4, <1>5, <2>1, <2>2
<1>6. CASE StopWait(t)
  <2>1. AfterStop(t)
    BY <1>6 DEF StopWait
  <2> QED BY <1>4, <1>6, <2>1
<1>7. CASE StopSignal(t)
  <2>1. Goto(t, "s-wait") /\ UNCHANGED req
    BY <1>7 DEF StopSignal
  <2> QED BY <1>1, <2>1, MovesAlone
<1>8. ASSUME AfterCompoundStop(t) PROVE Alone(t) /\ pc'[t] \in {"idle", "c-start"}
  <2>1. CASE Return(t)
    BY <1>2, <2>1
  <2>2. CASE Goto(t, "c-start") /\ UNCHANGED req
    BY <1>1, <2>2, MovesAlone
  <2> QED BY <1>8, <2>1, <2>2 DEF AfterCompoundStop
<1>9. CASE CompoundLookup(t)
  <2>1. \/ AfterCompoundStop(t)
        \/ (\E l \in {"sc-cancel"} : Goto(t, l)) /\ \E q : req' = [req EXCEPT ![t] = q]
    BY <1>9 DEF CompoundLookup
  <2>2. CASE (\E l \in {"sc-cancel"} : Goto(t, l)) /\ \E q : req' = [req EXCEPT ![t] = q]
    BY <1>1, <2>2, MovesAlone
  <2> QED BY <1>8, <2>1, <2>2
<1>10. CASE CompoundCancel(t) \/ CompoundSignal(t)
  <2>1. \E l \in {"sc-wait", "sc-signal"} : Goto(t, l) /\ UNCHANGED req
    BY <1>10 DEF CompoundCancel, CompoundSignal
  <2> QED BY <1>1, <2>1, MovesAlone
<1>11. CASE CompoundWait(t)
  BY <1>8, <1>11 DEF CompoundWait
<1>12. CASE RestartLookup(t)
  <2>1. \E l \in {"reserve", "r-reserve"} : Goto(t, l)
    BY <1>12 DEF RestartLookup
  <2>2. \E q : req' = [req EXCEPT ![t] = q]
    BY <1>12 DEF RestartLookup
  <2> QED BY <1>1, <1>12, <2>1, <2>2, MovesAlone
<1>13. CASE CompoundRestartCheck(t)
  <2>1. Return(t) \/ ((\E l \in {"rc-stop"} : Goto(t, l)) /\ UNCHANGED req)
    BY <1>13 DEF CompoundRestartCheck
  <2>2. CASE (\E l \in {"rc-stop"} : Goto(t, l)) /\ UNCHANGED req
    BY <1>1, <2>2, MovesAlone
  <2> QED BY <1>2, <2>1, <2>2
<1>14. CASE CompoundRestartStop(t)
  <2>1. \E l \in {"c-start", "sc-lookup"} : Goto(t, l)
    BY <1>14 DEF CompoundRestartStop
  <2>2. \E q : req' = [req EXCEPT ![t] = q]
    BY <1>14 DEF CompoundRestartStop
  <2> QED BY <1>1, <2>1, <2>2, MovesAlone
<1> QED
  BY <1>3, <1>5, <1>6, <1>7, <1>9, <1>10, <1>11, <1>12, <1>13, <1>14 DEF CallerStep

LEMMA CoordinatorAlone ==
  ASSUME RunInv, NEW c \in RunId, Coordinator(c)
  PROVE  Alone(c) /\ pc'[c] \notin {"r-reserve", "check", "promote"}
<1>1. c \in Threads /\ req = [req EXCEPT ![c] = req[c]]
  BY DEF Threads, RunInv, Shape
<1>2. CASE CoordPublish(c) \/ CoordFinish(c) \/ CoordClose(c)
  BY <1>2, CoordinatorsAlone
<1>3. CASE CoordStep(c) \/ CoordWait(c) \/ CoordRecord(c)
  <2>1. \E l \in {"c-finish", "reserve", "c-record", "c-loop"} : Goto(c, l)
    BY <1>3 DEF CoordStep, CoordWait, CoordRecord
  <2>2. UNCHANGED req \/ \E q : req' = [req EXCEPT ![c] = q]
    BY <1>3 DEF CoordStep, CoordWait, CoordRecord
  <2> QED BY <1>1, <2>1, <2>2, MovesAlone
<1> QED BY <1>2, <1>3 DEF Coordinator

\* The ways to the three places.
Arrives(t) ==
  \/ pc'[t] = pc[t] /\ req'[t] = req[t]
  \/ pc'[t] \notin {"r-reserve", "check", "promote"}
  \/ pc[t] = "check" /\ pc'[t] = "promote" /\ req'[t] = req[t]
  \/ pc'[t] = "check" /\ replaces'[req'[t].run] = NoRun
  \/ /\ t \in Callers
     /\ StopInstance(t) \/ StopWait(t)
     /\ pc'[t] = "check" /\ req'[t] = req[t] /\ req[t].run # NoRun
  \/ /\ t \in Callers
     /\ pc'[t] = "r-reserve"
     /\ RestartLookup(t) \/ \E r \in RunId : CallRestartInstance(t, r)

LEMMA Arrivals ==
  ASSUME RunInv, Asked, [Next]_vars, NEW t \in Threads PROVE Arrives(t)
<1>0. /\ Callers \subseteq Threads /\ RunId \subseteq Threads
      /\ t \in Callers \/ t \in RunId
      /\ Callers \cap RunId = {}
  BY RunFacts DEF Threads
<1>1. ASSUME NEW u \in Threads, Alone(u), u # t PROVE Arrives(t)
  BY <1>1 DEF Alone, Arrives
<1>2. ASSUME NEW u \in Callers, Call(u) PROVE Arrives(t)
  <2>1. Alone(u)
    BY <1>2, CallsAlone
  <2>2. CASE u = t
    BY <1>2, <2>2, CallsAlone DEF Arrives
  <2> QED BY <1>0, <1>1, <2>1, <2>2
<1>3. ASSUME NEW u \in Threads,
             (ReserveReplacement(u) /\ u \in Callers) \/ ReserveFresh(u) \/ ReserveStep(u)
      PROVE Arrives(t)
  <2>1. Alone(u)
    BY <1>3, ReservesAlone
  <2>2. CASE u = t
    BY <1>0, <1>3, <2>2, ReservesAlone DEF Arrives
  <2> QED BY <1>1, <2>1, <2>2
<1>4. ASSUME NEW u \in Callers, StartCompound(u) PROVE Arrives(t)
  <2>1. CASE t = u \/ t = nextRunSeq + 1
    BY <1>4, <2>1, StartAlone DEF Arrives
  <2>2. CASE t # u /\ t # nextRunSeq + 1
    BY <1>4, <2>2, StartAlone DEF Arrives
  <2> QED BY <2>1, <2>2
<1>5. ASSUME NEW u \in Callers, CallerStep(u) PROVE Arrives(t)
  <2>1. CASE ~ReserveReplacement(u) /\ ~StartCompound(u)
    <3>1. Alone(u)
      BY <1>5, <2>1, CallersAlone
    <3>2. CASE u = t
      BY <1>5, <2>1, <3>2, CallersAlone DEF Arrives
    <3> QED BY <1>0, <1>1, <3>1, <3>2
  <2> QED BY <1>0, <1>3, <1>4, <2>1
<1>6. ASSUME NEW u \in Threads,
             Spawn(u) \/ Promote(u) \/ FinishReservation(u) \/ EmitRunning(u)
      PROVE Arrives(t)
  <2>1. Alone(u)
    BY <1>6, LaunchesAlone
  <2>2. CASE u = t /\ Spawn(u)
    <3>1. pc[t] = "check" /\ req' = req
      BY <2>2 DEF Spawn, Abandon
    <3>2. \E l \in {"abandon", "promote"} : Goto(t, l)
      BY <2>2 DEF Spawn, Abandon
    <3>3. pc'[t] \in {"abandon", "promote"}
      BY <3>1, <3>2, MovesAlone
    <3> QED BY <3>1, <3>3 DEF Arrives
  <2>3. CASE u = t /\ Promote(u)
    <3>1. \E l \in {"abandon", "emit", "c-publish"} : Goto(t, l)
      BY <2>3 DEF Promote, Abandon
    <3>2. UNCHANGED req
      BY <2>3 DEF Promote, Abandon
    <3>3. pc'[t] \in {"abandon", "emit", "c-publish"}
      BY <3>1, <3>2, MovesAlone
    <3> QED BY <3>3 DEF Arrives
  <2>4. CASE u = t /\ FinishReservation(u)
    <3>1. \E why : LaunchFails(t, why)
      BY <2>4 DEF FinishReservation
    <3> QED BY <3>1, FailsAlone DEF Arrives
  <2>5. CASE u = t /\ EmitRunning(u)
    <3>1. pc'[t] = "idle"
      BY <2>5, MovesAlone DEF EmitRunning, Return
    <3> QED BY <3>1 DEF Arrives
  <2> QED BY <1>1, <1>6, <2>1, <2>2, <2>3, <2>4, <2>5
<1>7. ASSUME NEW u \in Threads, LaunchRejected(u) PROVE Arrives(t)
  <2>1. \E why : LaunchFails(u, why)
    BY <1>7 DEF LaunchRejected
  <2>2. Alone(u) /\ pc'[u] \in {"idle", "c-record"}
    BY <2>1, FailsAlone
  <2>3. CASE u = t
    BY <2>2, <2>3 DEF Arrives
  <2> QED BY <1>1, <2>2, <2>3
<1>8. ASSUME NEW c \in RunId, Coordinator(c) PROVE Arrives(t)
  <2>1. Alone(c) /\ pc'[c] \notin {"r-reserve", "check", "promote"}
    BY <1>8, CoordinatorAlone
  <2>2. CASE c = t
    BY <2>1, <2>2 DEF Arrives
  <2> QED BY <1>0, <1>1, <2>1, <2>2
<1>9. ASSUME UNCHANGED <<pc, req>> PROVE Arrives(t)
  BY <1>9 DEF Arrives
<1>10. CASE UNCHANGED vars
  BY <1>9, <1>10 DEF vars, threadVars
<1> QED
  BY <1>2, <1>3, <1>5, <1>6, <1>7, <1>8, <1>9, <1>10, OthersStill DEF Next, Launch

-----------------------------------------------------------------------------
(***************************************************************************)
(* A run is replaced once, after it has left the table.                    *)
(***************************************************************************)
LEMMA WaitingKeeps ==
  ASSUME RunInv, Quiet \/ Changes PROVE \A r \in RunId : waiting[r] => waiting'[r]
<1> USE DEF admission, tables, retention, identity, resVars, procVars, drainVars
<1>0. waiting \in [RunId -> BOOLEAN]
  BY DEF RunInv, Shape
<1>1. ASSUME UNCHANGED waiting \/ \E r : waiting' = [waiting EXCEPT ![r] = TRUE]
      PROVE \A r \in RunId : waiting[r] => waiting'[r]
  BY <1>0, <1>1
<1>2. ASSUME NEW t, ReserveReplacement(t) \/ StartCompound(t) \/ ReserveFresh(t) \/ ReserveStep(t)
      PROVE UNCHANGED waiting
  BY <1>2 DEF ReserveReplacement, StartCompound, ReserveFresh, ReserveStep
<1>3. ASSUME NEW t, Spawn(t) \/ Promote(t) \/ FinishReservation(t) PROVE UNCHANGED waiting
  BY <1>3 DEF Spawn, Promote, FinishReservation
<1>4. ASSUME NEW t, EmitRunning(t) \/ CoordPublish(t)
      PROVE \E r : waiting' = [waiting EXCEPT ![r] = TRUE]
  BY <1>4 DEF EmitRunning, CoordPublish
<1>5. ASSUME NEW r, CoordFinish(r) \/ CoordClose(r) \/ Process(r) \/ Exit(r)
      PROVE UNCHANGED waiting
  BY <1>5 DEF CoordFinish, CoordClose, Process, WaitProcess, FinishWait, Escalate, Exit
<1>6. CASE Quiet
  BY <1>6 DEF Quiet, Tables
<1> QED
  BY <1>1, <1>2, <1>3, <1>4, <1>5, <1>6, OthersStill DEF Changes

LEMMA ReplacesStep ==
  ASSUME RunInv, Asked, Named, Closed, Replaces, SlotChange, Ids, [Next]_vars, Quiet \/ Changes
  PROVE  Replaces'
<1>0. replaces \in [RunId -> RunId \cup {NoRun}] /\ nextRunSeq \in Nat
  BY RunsKnown DEF RunInv, Shape
<1>1. ASSUME NEW q \in reservations', NEW r \in reservations', replaces'[q] = replaces'[r],
             replaces'[q] # NoRun
      PROVE q = r
  <2>1. CASE reservations' \subseteq reservations /\ replaces' = replaces
    BY <1>1, <2>1 DEF Replaces
  <2>2. ASSUME NEW p \in Profiles, NEW x \in RunId \cup {NoRun}, Fresh(p, x) PROVE q = r
    <3> DEFINE f == nextRunSeq + 1
    <3>1. /\ f \in RunId /\ replaces'[f] = x /\ \A s \in RunId : s # f => replaces'[s] = replaces[s]
      BY <2>2, FreshIsNew
    <3>2. /\ reservations' = reservations \cup {f}
          /\ x # NoRun => \A s \in reservations : replaces[s] # x
      BY <2>2 DEF Fresh, Irreplaceable
    <3>3. reservations \subseteq RunId
      BY TablesOfRuns
    <3> HIDE DEF f
    <3> QED BY <1>1, <3>1, <3>2, <3>3 DEF Replaces
  <2>3. ASSUME NEW s \in RunId, Stepped(s) PROVE q = r
    <3>1. replaces' = [replaces EXCEPT ![s] = NoRun] /\ reservations' = reservations \cup {s}
      BY <2>3 DEF Stepped
    <3>2. reservations \subseteq RunId
      BY TablesOfRuns
    <3> QED BY <1>0, <1>1, <2>3, <3>1, <3>2 DEF Replaces
  <2> QED BY <2>1, <2>2, <2>3 DEF SlotChange, Promoted, Left, Dropped
<1>2. ASSUME NEW m \in RunId, waiting[m], m \notin processes
      PROVE  waiting'[m] /\ m \notin processes'
  <2>1. waiting'[m]
    BY <1>2, WaitingKeeps
  <2>2. m \notin processes'
    BY <1>2 DEF SlotChange, Fresh, Stepped, Promoted, Left, Dropped
  <2> QED BY <2>1, <2>2
<1>3. ASSUME NEW t \in Threads, pc'[t] \in {"check", "promote"}, replaces'[req'[t].run] # NoRun
      PROVE  waiting'[replaces'[req'[t].run]] /\ replaces'[req'[t].run] \notin processes'
  <2> DEFINE run == req[t].run
             m == replaces[run]
  <2>1. ASSUME req'[t] = req[t], run \in RunId, run <= nextRunSeq, m # NoRun => waiting[m] /\ m \notin processes
        PROVE  waiting'[replaces'[req'[t].run]] /\ replaces'[req'[t].run] \notin processes'
    <3>1. replaces'[run] = m
      <4>1. ASSUME NEW p \in Profiles, NEW x, Fresh(p, x) PROVE replaces'[run] = m
        <5>1. run # nextRunSeq + 1
          BY <1>0, <2>1, RunFacts
        <5> QED BY <2>1, <4>1, <5>1, FreshIsNew
      <4>2. ASSUME NEW s \in RunId, Stepped(s) PROVE replaces'[run] = m
        <5>1. replaces' = [replaces EXCEPT ![s] = NoRun]
          BY <4>2 DEF Stepped
        <5> QED BY <1>0, <1>3, <2>1, <5>1
      <4> QED BY <4>1, <4>2 DEF SlotChange, Promoted, Left, Dropped
    <3>2. m \in RunId /\ waiting[m] /\ m \notin processes
      BY <1>0, <1>3, <2>1, <3>1
    <3> QED BY <1>2, <2>1, <3>1, <3>2
  <2>2. run # NoRun => run \in RunId /\ run <= nextRunSeq
    BY RunsKnown
  <2>3. CASE pc[t] \in {"check", "promote"} /\ req'[t] = req[t]
    <3>1. run # NoRun
      BY <2>3 DEF RunInv, Owned, Launching
    <3> QED BY <2>1, <2>2, <2>3, <3>1 DEF Replaces
  <2>4. CASE t \in Callers /\ (StopInstance(t) \/ StopWait(t)) /\ pc'[t] = "check"
             /\ req'[t] = req[t] /\ run # NoRun
    <3>1. pc[t] \in Stopping /\ req[t].target \in RunId
          /\ m = req[t].target /\ (m \in processes \/ waiting[m])
      BY <2>4 DEF StopInstance, StopWait, Stopping, RunInv, Replaced
    <3>2. m \notin processes
      <4>1. CASE StopInstance(t)
        <5>1. pc' = [pc EXCEPT ![t] = "s-signal"] => pc'[t] = "s-signal"
          BY DEF RunInv, Shape
        <5> QED BY <2>4, <3>1, <4>1, <5>1 DEF StopInstance, Goto
      <4>2. CASE StopWait(t)
        BY <3>1, <4>2 DEF StopWait, Closed
      <4> QED BY <2>4, <4>1, <4>2
    <3> QED BY <2>1, <2>2, <2>4, <3>1, <3>2
  <2>5. Arrives(t)
    BY Arrivals
  <2> QED BY <1>3, <2>3, <2>4, <2>5 DEF Arrives
<1> QED BY <1>1, <1>3 DEF Replaces

LEMMA TargetedStep ==
  ASSUME RunInv, Asked, Named, Retained, Targeted, Ids, [Next]_vars PROVE Targeted'
<1> USE DEF admission, tables, retention, identity
<1>1. SUFFICES ASSUME NEW t \in Callers, pc'[t] = "r-reserve"
               PROVE  /\ req'[t].target \in RunId /\ req'[t].target <= nextRunSeq'
                      /\ profileOf'[req'[t].target] = req'[t].profile
  BY DEF Targeted
<1>2. t \in Threads /\ req \in [Threads -> Request] /\ nextRunSeq \in Nat
  BY RunsKnown DEF RunInv, Shape, Threads
<1>3. CASE pc'[t] = pc[t] /\ req'[t] = req[t]
  <2>1. /\ req[t].target \in RunId /\ req[t].target <= nextRunSeq
        /\ profileOf[req[t].target] = req[t].profile
    BY <1>1, <1>3 DEF Targeted
  <2>2. req[t].target \in Nat /\ nextRunSeq' \in Nat /\ nextRunSeq <= nextRunSeq'
    <3>1. nextRunSeq' \in Nat
      BY RunStep, RunsKnown, ExecutorAssumption DEF RunInv, Shape
    <3> QED BY <2>1, <3>1, RunFacts DEF Ids
  <2> QED BY <1>2, <1>3, <2>1, <2>2 DEF Ids
<1>4. ASSUME RestartLookup(t)
      PROVE  /\ req'[t].target \in RunId /\ req'[t].target <= nextRunSeq'
             /\ profileOf'[req'[t].target] = req'[t].profile
  <2> DEFINE p == req[t].profile
             live == LiveOf(p)
  <2>1. /\ UNCHANGED <<nextRunSeq, profileOf>>
        /\ req' = [req EXCEPT ![t].target = IF live = {} THEN NoRun ELSE Newest(live)]
        /\ Goto(t, IF live = {} THEN "reserve" ELSE "r-reserve")
    BY <1>4 DEF RestartLookup
  <2>2. live # {}
    BY <1>1, <1>2, <2>1 DEF Goto, RunInv, Shape
  <2>3. live \in SUBSET RunId /\ \A r \in live : r <= nextRunSeq /\ profileOf[r] = p
    BY TablesOfRuns DEF LiveOf
  <2>4. Newest(live) \in live
    BY <2>2, <2>3, NewestIn
  <2> HIDE DEF live
  <2>5. req'[t].target = Newest(live) /\ req'[t].profile = p
    BY <1>2, <2>1, <2>2 DEF Request
  <2> QED BY <2>1, <2>3, <2>4, <2>5
<1>5. ASSUME NEW r \in RunId, CallRestartInstance(t, r)
      PROVE  /\ req'[t].target \in RunId /\ req'[t].target <= nextRunSeq'
             /\ profileOf'[req'[t].target] = req'[t].profile
  <2>1. /\ UNCHANGED <<nextRunSeq, profileOf>> /\ Known(r)
        /\ req' = [req EXCEPT ![t] = [NoReq EXCEPT !.profile = profileOf[r],
               !.epoch = workspaceEpoch, !.target = r, !.exact = TRUE]]
    BY <1>5 DEF CallRestartInstance
  <2>2. r <= nextRunSeq
    <3>1. CASE r \in processes \cup reservations \cup compounds
      BY <3>1, TablesOfRuns
    <3>2. CASE r \in lastStatus
      BY <3>2 DEF Retained, RetentionSound
    <3> QED BY <2>1, <3>1, <3>2 DEF Known
  <2>3. req'[t].target = r /\ req'[t].profile = profileOf[r]
    BY <1>2, <2>1 DEF NoReq
  <2> QED BY <2>1, <2>2, <2>3
<1>6. Arrives(t)
  BY <1>2, Arrivals
<1> QED BY <1>1, <1>3, <1>4, <1>5, <1>6 DEF Arrives

-----------------------------------------------------------------------------
(***************************************************************************)
(* What is kept of a profile, and the index of the live runs.              *)
(***************************************************************************)
LEMMA RetentionMoves ==
  ASSUME RunInv, Coordinated, Quiet \/ Changes
  PROVE  \/ UNCHANGED retention
         \/ \E r \in processes \cup compounds : Retain(r)
         \/ lastStatus' = {} /\ terminalIds' = [p \in Profiles |-> {}]
<1> USE DEF admission, tables, identity, resVars, procVars, drainVars
<1>1. ASSUME NEW t, ReserveReplacement(t) \/ StartCompound(t) \/ ReserveFresh(t) \/ ReserveStep(t)
      PROVE UNCHANGED retention
  BY <1>1 DEF ReserveReplacement, StartCompound, ReserveFresh, ReserveStep
<1>2. ASSUME NEW t, Spawn(t) \/ Promote(t) \/ FinishReservation(t) \/ EmitRunning(t)
      PROVE UNCHANGED retention
  BY <1>2 DEF Spawn, Promote, FinishReservation, EmitRunning
<1>3. ASSUME NEW r, CoordPublish(r) \/ CoordClose(r) \/ FinishWait(r) \/ Escalate(r) \/ Exit(r)
      PROVE UNCHANGED retention
  BY <1>3 DEF CoordPublish, CoordClose, FinishWait, Escalate, Exit
<1>4. ASSUME NEW r \in RunId, CoordFinish(r) PROVE r \in compounds /\ Retain(r)
  BY <1>4 DEF CoordFinish, Coordinated
<1>5. ASSUME NEW r \in RunId, WaitProcess(r) PROVE UNCHANGED retention \/ (r \in processes /\ Retain(r))
  BY <1>5 DEF WaitProcess
<1>6. ASSUME NEW d, BeginDrain(d) \/ StopAll(d) \/ Reload(d) \/ EndDrain(d) \/ LoadFails(d)
      PROVE UNCHANGED retention
  BY <1>6 DEF BeginDrain, StopAll, StopAllCollect, StopAllSignal, StopAllHalfway,
       StopAllReturns, StopAllTimeout, Reload, EndDrain, LoadFails
<1>7. ASSUME NEW d, ClearTerminalStatuses(d)
      PROVE lastStatus' = {} /\ terminalIds' = [p \in Profiles |-> {}]
  BY <1>7 DEF ClearTerminalStatuses
<1>8. CASE Quiet
  BY <1>8 DEF Quiet, Tables, retention
<1> QED
  BY <1>1, <1>2, <1>3, <1>4, <1>5, <1>6, <1>7, <1>8 DEF Changes, Process, Drained

LEMMA RetainedStep ==
  ASSUME RunInv, Named, Coordinated, Ids, nextRunSeq' \in Nat, Retained, Quiet \/ Changes
  PROVE  Retained'
<1>0. /\ terminalIds \in [Profiles -> SUBSET RunId]
      /\ nextRunSeq \in Nat /\ RunId \subseteq Nat
      /\ nextRunSeq <= nextRunSeq'
  BY RunsKnown, RunFacts DEF Named, Ids
<1>1. ASSUME NEW p \in Profiles, NEW r \in terminalIds[p]
      PROVE  r \in RunId /\ profileOf[r] = p /\ profileOf'[r] = p /\ r <= nextRunSeq'
  <2>1. r \in RunId /\ profileOf[r] = p /\ r <= nextRunSeq
    BY <1>0 DEF Retained
  <2>2. r <= nextRunSeq'
    BY <1>0, <2>1
  <2> QED BY <2>1, <2>2 DEF Ids
<1>2. CASE UNCHANGED retention
  <2>1. terminalIds' = terminalIds /\ lastStatus' = lastStatus
    BY <1>2 DEF retention
  <2> QED BY <1>1, <2>1 DEF Retained, RetentionSound
<1>3. ASSUME NEW r \in processes \cup compounds, Retain(r) PROVE Retained'
  <2> DEFINE p == profileOf[r]
             K == Kept(p, r)
  <2>1. r \in RunId /\ p \in Profiles /\ profileOf'[r] = p /\ r <= nextRunSeq'
    <3>1. r \in RunId /\ r <= nextRunSeq
      BY TablesOfRuns
    <3>2. p \in Profiles /\ profileOf'[r] = p
      BY <3>1 DEF Named, Ids
    <3>3. r \in Nat /\ nextRunSeq' \in Nat
      BY <1>0, <3>1
    <3>4. r <= nextRunSeq'
      BY ONLY <1>0, <3>1, <3>3
    <3> QED BY <3>1, <3>2, <3>4
  <2>2. /\ terminalIds' = [terminalIds EXCEPT ![p] = K]
        /\ lastStatus' = (lastStatus \ terminalIds[p]) \cup K
    BY <1>3 DEF Retain
  <2>3. K \subseteq terminalIds[p] \cup {r} /\ Cardinality(K) <= 2
    BY <1>0, <2>1, KeptOf, KeptTwo
  <2> HIDE DEF p, K
  <2>4. terminalIds'[p] = K /\ \A o \in Profiles : o # p => terminalIds'[o] = terminalIds[o]
    BY <1>0, <2>1, <2>2
  <2>5. \A o \in Profiles : \A q \in terminalIds'[o] : profileOf'[q] = o /\ q <= nextRunSeq'
    BY <1>1, <2>1, <2>3, <2>4
  <2>6. \A o \in Profiles : Cardinality(terminalIds'[o]) <= 2
    BY <2>3, <2>4 DEF Retained, RetentionSound
  <2>7. lastStatus' = UNION {terminalIds'[o] : o \in Profiles}
    <3>1. ASSUME NEW x \in lastStatus' PROVE \E o \in Profiles : x \in terminalIds'[o]
      <4>1. CASE x \in K
        BY <2>1, <2>4, <4>1
      <4>2. CASE x \in lastStatus /\ x \notin terminalIds[p]
        <5>1. PICK o \in Profiles : x \in terminalIds[o]
          BY <4>2 DEF Retained, RetentionSound
        <5> QED BY <2>4, <4>2, <5>1
      <4> QED BY <2>2, <3>1, <4>1, <4>2
    <3>2. ASSUME NEW o \in Profiles, NEW x \in terminalIds'[o] PROVE x \in lastStatus'
      <4>1. CASE o = p
        BY <2>2, <2>4, <3>2, <4>1
      <4>2. CASE o # p
        <5>1. x \in terminalIds[o]
          BY <2>4, <3>2, <4>2
        <5>2. x \in lastStatus
          BY <5>1 DEF Retained, RetentionSound
        <5>3. x \notin terminalIds[p]
          BY <1>1, <2>1, <4>2, <5>1
        <5> QED BY <2>2, <5>2, <5>3
      <4> QED BY <4>1, <4>2
    <3> QED BY <3>1, <3>2
  <2> QED BY <2>5, <2>6, <2>7 DEF Retained, RetentionSound
<1>4. CASE lastStatus' = {} /\ terminalIds' = [p \in Profiles |-> {}]
  <2>1. Cardinality({}) = 0
    BY FS_EmptySet
  <2>2. \A p \in Profiles : terminalIds'[p] = {}
    BY <1>4
  <2> QED BY <1>4, <2>1, <2>2 DEF Retained, RetentionSound
<1> QED BY <1>2, <1>3, <1>4, RetentionMoves

\* refreshActiveProfileLocked finds a live run of the profile if there is one.
LEMMA RefreshedFinds ==
  ASSUME activeByProfile \in [Profiles -> RunId \cup {NoRun}], NEW p \in Profiles,
         NEW P \in SUBSET RunId, NEW C \in SUBSET RunId
  PROVE  LET live == {r \in P \cup C : profileOf[r] = p}
             f == Refreshed(p, P, C)
         IN /\ f \in [Profiles -> RunId \cup {NoRun}]
            /\ \A o \in Profiles : o # p => f[o] = activeByProfile[o]
            /\ IF live = {} THEN f[p] = NoRun ELSE f[p] \in live
<1> DEFINE live == {r \in P \cup C : profileOf[r] = p}
           f == Refreshed(p, P, C)
           n == IF live = {} THEN NoRun ELSE Newest(live)
<1>1. live \in SUBSET RunId /\ (live # {} => Newest(live) \in live)
  BY NewestIn
<1>2. f = [activeByProfile EXCEPT ![p] = n]
  BY DEF Refreshed
<1>3. n \in RunId \cup {NoRun} /\ IF live = {} THEN n = NoRun ELSE n \in live
  BY <1>1
<1> HIDE DEF live, n, f
<1>4. f \in [Profiles -> RunId \cup {NoRun}] /\ f[p] = n /\ \A o \in Profiles : o # p => f[o] = activeByProfile[o]
  BY <1>2, <1>3
<1> QED BY <1>3, <1>4 DEF live, f

\* A step leaves the live runs alone, but for one.
Still(o) == \A r : r \in LiveOf(o)' <=> r \in LiveOf(o)

LEMMA IndexKept ==
  ASSUME Indexed, NEW p \in Profiles, activeByProfile' \in [Profiles -> RunId \cup {NoRun}],
         \A o \in Profiles : o # p => activeByProfile'[o] = activeByProfile[o] /\ Still(o),
         IF LiveOf(p)' = {} THEN activeByProfile'[p] = NoRun ELSE activeByProfile'[p] \in LiveOf(p)'
  PROVE  Indexed'
<1>1. ASSUME NEW o \in Profiles, o # p
      PROVE  IF LiveOf(o)' = {} THEN activeByProfile'[o] = NoRun ELSE activeByProfile'[o] \in LiveOf(o)'
  <2>1. LiveOf(o)' = LiveOf(o)
    BY <1>1 DEF Still
  <2> HIDE DEF LiveOf
  <2> QED BY <1>1, <2>1 DEF Indexed, ActiveIndexSound
<1> QED BY <1>1 DEF Indexed, ActiveIndexSound

\* The runs that the lookups, and the ends of runs, leave live.
LEMMA IndexRefreshed ==
  ASSUME RunInv, Named, Ids, Indexed, NEW p \in Profiles,
         processes' \subseteq processes, compounds' \subseteq compounds,
         \A r \in processes \cup compounds :
           r \notin processes' \cup compounds' => profileOf[r] = p,
         activeByProfile' = Refreshed(p, processes', compounds')
  PROVE  Indexed'
<1>1. \A r \in processes \cup compounds : r \in RunId /\ profileOf'[r] = profileOf[r]
  BY KnownStay
<1>2. processes' \in SUBSET RunId /\ compounds' \in SUBSET RunId
  BY <1>1
<1>3. LiveOf(p)' = {r \in processes' \cup compounds' : profileOf[r] = p}
  BY <1>1 DEF LiveOf
<1>4. ASSUME NEW o \in Profiles, o # p PROVE Still(o)
  BY <1>1, <1>4 DEF Still, LiveOf
<1>5. /\ activeByProfile' \in [Profiles -> RunId \cup {NoRun}]
      /\ \A o \in Profiles : o # p => activeByProfile'[o] = activeByProfile[o]
      /\ IF LiveOf(p)' = {} THEN activeByProfile'[p] = NoRun ELSE activeByProfile'[p] \in LiveOf(p)'
  <2> DEFINE live == {r \in processes' \cup compounds' : profileOf[r] = p}
             f == Refreshed(p, processes', compounds')
  <2>1. /\ f \in [Profiles -> RunId \cup {NoRun}]
        /\ \A o \in Profiles : o # p => f[o] = activeByProfile[o]
        /\ IF live = {} THEN f[p] = NoRun ELSE f[p] \in live
    <3>1. activeByProfile \in [Profiles -> RunId \cup {NoRun}]
      BY DEF Indexed
    <3> QED BY <1>2, <3>1, RefreshedFinds
  <2>2. f = activeByProfile' /\ live = LiveOf(p)'
    BY <1>3
  <2> HIDE DEF f, live
  <2> QED BY <2>1, <2>2
<1> QED BY <1>4, <1>5, IndexKept

LEMMA IndexJoined ==
  ASSUME RunInv, Named, Ids, Indexed, NEW p \in Profiles, NEW x \in RunId,
         \A r : r \in processes' \cup compounds' <=> r \in processes \cup compounds \/ r = x,
         x \notin processes \cup compounds,
         profileOf'[x] = p, activeByProfile' = [activeByProfile EXCEPT ![p] = x]
  PROVE  Indexed'
<1>1. \A r \in processes \cup compounds : profileOf'[r] = profileOf[r]
  BY KnownStay
<1>2. ASSUME NEW o \in Profiles, o # p PROVE Still(o)
  BY <1>1, <1>2 DEF Still, LiveOf
<1>3. x \in LiveOf(p)'
  BY DEF LiveOf
<1>4. /\ activeByProfile' \in [Profiles -> RunId \cup {NoRun}] /\ activeByProfile'[p] = x
      /\ \A o \in Profiles : o # p => activeByProfile'[o] = activeByProfile[o]
  BY DEF Indexed
<1> QED BY <1>2, <1>3, <1>4, IndexKept

LEMMA IndexedStep ==
  ASSUME RunInv, Asked, Named, Coordinated, Ids, Indexed, [Next]_vars PROVE Indexed'
<1> USE DEF admission, tables, retention, identity, resVars, procVars, drainVars, threadVars
<1>0. /\ activeByProfile \in [Profiles -> RunId \cup {NoRun}]
      /\ \A r \in processes \cup compounds : profileOf'[r] = profileOf[r]
      /\ Compounds \subseteq Profiles /\ Ordinary \subseteq Profiles
  BY KnownStay, RunFacts DEF Indexed, Ordinary
<1>1. ASSUME UNCHANGED <<processes, compounds, activeByProfile>> PROVE Indexed'
  <2>1. \A p : LiveOf(p)' = LiveOf(p)
    BY <1>0, <1>1 DEF LiveOf
  <2> HIDE DEF LiveOf
  <2> QED BY <1>1, <2>1 DEF Indexed, ActiveIndexSound
<1>2. ASSUME NEW p \in Profiles, activeByProfile' = Refreshed(p, processes, compounds),
             UNCHANGED <<processes, compounds>>
      PROVE Indexed'
  BY <1>2, IndexRefreshed
<1>3. ASSUME NEW t \in Callers, Call(t) PROVE Indexed'
  <2>1. ASSUME NEW p \in Profiles, CallStop(t, p) PROVE Indexed'
    <3>1. /\ activeByProfile' = Refreshed(p, processes, compounds)
          /\ UNCHANGED <<processes, compounds>>
      BY <2>1 DEF CallStop
    <3> QED BY <1>2, <3>1
  <2>2. ASSUME NEW p, \/ CallStart(t, p) \/ CallStartCompound(t, p)
                      \/ CallRestart(t, p) \/ CallRestartCompound(t, p)
        PROVE Indexed'
    BY <1>1, <2>2 DEF CallStart, CallStartCompound, CallRestart, CallRestartCompound
  <2>3. ASSUME NEW r, CallRestartInstance(t, r) \/ CallStopInstance(t, r) PROVE Indexed'
    BY <1>1, <2>3 DEF CallRestartInstance, CallStopInstance
  <2> QED BY <1>0, <1>3, <2>1, <2>2, <2>3 DEF Call
<1>4. ASSUME NEW t \in Callers, StartCompound(t) PROVE Indexed'
  <2> DEFINE c == nextRunSeq + 1
             p == req[t].profile
  <2>1. /\ compounds' = compounds \cup {c} /\ processes' = processes
        /\ activeByProfile' = [activeByProfile EXCEPT ![p] = c]
        /\ profileOf' = [r \in RunId |-> IF r = c THEN p
             ELSE IF r \in (c + 1)..(c + Len(Steps[p])) THEN Steps[p][r - c] ELSE profileOf[r]]
    BY <1>4 DEF StartCompound
  <2>2. p \in Profiles /\ c \in RunId /\ nextRunSeq \in Nat
    BY <1>0, <1>4, StartOf, RunsKnown
  <2>3. c \notin processes \cup compounds
    BY <2>2, TablesOfRuns
  <2>4. profileOf'[c] = p
    BY <2>1, <2>2
  <2> HIDE DEF c, p
  <2> QED BY <2>1, <2>2, <2>3, <2>4, IndexJoined
<1>5. ASSUME NEW t \in Callers, CallerStep(t) PROVE Indexed'
  <2>1. CASE RestartLookup(t) \/ CompoundRestartStop(t)
    <3>1. req[t].profile \in Profiles
      BY <1>0, <2>1 DEF RestartLookup, CompoundRestartStop, Asked, AskedBy
    <3>2. /\ activeByProfile' = Refreshed(req[t].profile, processes, compounds)
          /\ UNCHANGED <<processes, compounds>>
      BY <2>1 DEF RestartLookup, CompoundRestartStop
    <3> QED BY <1>2, <3>1, <3>2
  <2>2. CASE ~StartCompound(t) /\ ~RestartLookup(t) /\ ~CompoundRestartStop(t)
    BY <1>1, <1>5, <2>2 DEF CallerStep, ReserveReplacement, RestartUnprepared, StopInstance,
         StopSignal, StopWait, CompoundLookup, CompoundCancel, CompoundSignal, CompoundWait,
         CompoundRestartCheck, CompoundRejected
  <2> QED BY <1>4, <2>1, <2>2
<1>6. ASSUME NEW t \in Threads, Promote(t) PROVE Indexed'
  <2> DEFINE r == req[t].run
  <2>1. CASE UNCHANGED <<processes, activeByProfile>>
    BY <1>1, <1>6, <2>1 DEF Promote
  <2>2. CASE ~UNCHANGED <<processes, activeByProfile>>
    <3>1. /\ r \in reservations /\ processes' = processes \cup {r} /\ compounds' = compounds
          /\ activeByProfile' = [activeByProfile EXCEPT ![profileOf[r]] = r]
          /\ profileOf' = profileOf
      BY <1>6, <2>2 DEF Promote, ReservationInvalid
    <3>2. r \in RunId /\ profileOf[r] \in Profiles /\ r \notin processes \cup compounds
      BY <3>1, TablesOfRuns DEF Named, RunInv, Disjoint
    <3> HIDE DEF r
    <3> QED BY <3>1, <3>2, IndexJoined
  <2> QED BY <2>1, <2>2
<1>7. ASSUME NEW t \in Threads, Launch(t) PROVE Indexed'
  <2>1. CASE ~Promote(t)
    BY <1>1, <1>7, <2>1 DEF Launch, LaunchRejected, ReserveFresh, ReserveStep, Spawn,
         FinishReservation, EmitRunning
  <2> QED BY <1>6, <2>1
<1>8. ASSUME NEW r \in RunId, WaitProcess(r) \/ CoordFinish(r) PROVE Indexed'
  <2>1. CASE WaitProcess(r)
    <3>1. /\ r \in processes /\ processes' = processes \ {r} /\ compounds' = compounds
          /\ activeByProfile' = Refreshed(profileOf[r], processes', compounds')
      BY <2>1 DEF WaitProcess
    <3>2. profileOf[r] \in Profiles
      BY <3>1 DEF Named
    <3> QED BY <3>1, <3>2, IndexRefreshed
  <2>2. CASE CoordFinish(r)
    <3>1. /\ pc[r] = "c-finish" /\ compounds' = compounds \ {r} /\ processes' = processes
          /\ activeByProfile' = Refreshed(profileOf[r], processes', compounds')
      BY <2>2 DEF CoordFinish
    <3>2. profileOf[r] \in Profiles
      BY <3>1 DEF Named, Coordinated
    <3> QED BY <3>1, <3>2, IndexRefreshed
  <2> QED BY <1>8, <2>1, <2>2
<1>9. ASSUME NEW r \in RunId, Coordinator(r) \/ Process(r) \/ Exit(r) PROVE Indexed'
  <2>1. CASE ~WaitProcess(r) /\ ~CoordFinish(r)
    BY <1>1, <1>9, <2>1 DEF Coordinator, CoordStep, CoordPublish, CoordWait, CoordRecord,
         CoordClose, Process, FinishWait, Escalate, Exit
  <2> QED BY <1>8, <2>1
<1>10. ASSUME NEW d \in Drainers, BeginDrain(d) \/ StopAll(d) \/ Drained(d) PROVE Indexed'
  BY <1>1, <1>10 DEF BeginDrain, StopAll, StopAllCollect, StopAllSignal, StopAllHalfway,
       StopAllReturns, StopAllTimeout, Drained, ClearTerminalStatuses, Reload, EndDrain, LoadFails
<1>11. CASE UNCHANGED vars
  BY <1>1, <1>11 DEF vars
<1> QED BY <1>3, <1>5, <1>7, <1>9, <1>10, <1>11 DEF Next

-----------------------------------------------------------------------------
(***************************************************************************)
(* The invariant and what follows from it.                                 *)
(***************************************************************************)
LEMMA SlotInit == Init => SlotInv
<1> SUFFICES ASSUME Init PROVE SlotInv
  OBVIOUS
<1>1. Cardinality({}) = 0
  BY FS_EmptySet
<1>2. Retained
  BY <1>1 DEF Init, Retained, RetentionSound
<1>3. Indexed
  BY DEF Init, Indexed, ActiveIndexSound, LiveOf
<1>4. Exclusive /\ Targeted /\ Replaces
  BY DEF Init, Exclusive, Targeted, Replaces, Threads
<1>5. TwoSlots
  <2>1. \A p : Slots(p, NoRun) = {}
    BY DEF Init, Slots
  <2> QED BY <1>1, <2>1 DEF TwoSlots
<1> QED BY <1>2, <1>3, <1>4, <1>5 DEF SlotInv

LEMMA SlotStep == RunInv /\ Asked /\ IsoInv /\ SlotInv /\ [Next]_vars => SlotInv'
<1> SUFFICES ASSUME RunInv, Asked, IsoInv, SlotInv, [Next]_vars PROVE SlotInv'
  OBVIOUS
<1> USE DEF SlotInv, IsoInv
<1>1. Quiet \/ Changes
  BY Splits
<1>2. Ids /\ SlotChange
  BY <1>1, IdsStable, SlotMoves
<1>3. nextRunSeq' \in Nat
  BY RunStep, ExecutorAssumption DEF RunInv, Shape
<1>4. Retained' /\ Indexed'
  BY <1>1, <1>2, <1>3, RetainedStep, IndexedStep
<1>5. Exclusive' /\ TwoSlots'
  BY <1>2, ExclusiveStep, TwoSlotsStep
<1>6. Replaces' /\ Targeted'
  BY <1>1, <1>2, ReplacesStep, TargetedStep
<1> QED BY <1>4, <1>5, <1>6

LEMMA SlotsAll ==
  Spec => [](RunInv /\ SlotInv)
<1>1. Init => RunInv /\ Asked /\ DrainFull /\ IsoInv /\ SlotInv
  BY AllInit, SlotInit
<1>2. (RunInv /\ Asked /\ DrainFull /\ IsoInv /\ SlotInv) /\ [Next]_vars
        => (RunInv /\ Asked /\ DrainFull /\ IsoInv /\ SlotInv)'
  BY RunStep, AskedStep, DrainStep, IsoStep, SlotStep
<1> QED BY <1>1, <1>2, PTL DEF Spec

(***************************************************************************)
(* A live step of a compound has its profile for itself, whichever calls,  *)
(* restarts and other compounds compete for the profile: what              *)
(* reserveProcessCapacityLocked answers under the lock stays true while    *)
(* the process is spawned, promoted and reaped without it.                 *)
(***************************************************************************)
THEOREM StepExclusiveAlways == Spec => []StepExclusive
<1>1. RunInv /\ SlotInv => StepExclusive
  BY DEF SlotInv, Exclusive, StepExclusive
<1> QED BY <1>1, SlotsAll, PTL

(***************************************************************************)
(* What is kept of a profile, for any number of calls, profiles, runs and  *)
(* workspaces: two ordinary instances at most although a replacement       *)
(* shares the slot of the run it replaces, an index that names a live run  *)
(* exactly when there is one, and the statuses of at most two that ended.  *)
(***************************************************************************)
THEOREM SlotsSoundAlways == Spec => []SlotsSound
<1>1. RunInv /\ SlotInv => SlotsSound
  BY SlotsBound DEF SlotInv, Retained, Indexed, SlotsSound
<1> QED BY <1>1, SlotsAll, PTL


-----------------------------------------------------------------------------
(* Compounds: their steps run one after the other, each after the success of *)
(* all the earlier ones, and the aggregate ends as they did, whatever stops  *)
(* it, drains it or keeps it from launching.                                 *)

\* Types of what the invariants below speak of.
CompoundTypes ==
  /\ state \in [RunId -> RunState]
  /\ result \in [Threads -> Result]
  /\ current \in [RunId -> Nat]

\* An aggregate is never spawned, and a planned step has a state.
Aggregates ==
  \A s \in RunId : parentOf[s] # NoRun =>
    /\ stepState[s] # "none" /\ parentOf[s] <= nextRunSeq
    /\ parentOf[parentOf[s]] = NoRun /\ os[parentOf[s]] = "none"
    /\ \A t \in Threads : req[t].run # parentOf[s]

\* Once a run has left the table its state is final.
Settled == {"success", "failed", "stopped"}
Ended == \A r \in RunId : waiting[r] /\ r \notin processes => state[r] \in Settled

\* A live step is its coordinator's.
LiveSteps ==
  \A s \in processes : parentOf[s] # NoRun =>
    pc[parentOf[s]] \in {"c-publish", "c-wait"} /\ req[parentOf[s]].run = s

\* A step that succeeded did, and one that was skipped was never spawned.
Told ==
  \A s \in RunId : parentOf[s] # NoRun =>
    /\ stepState[s] = "success" => state[s] = "success"
    /\ stepState[s] = "skipped" => os[s] = "none"

\* What is touched comes after what succeeded.
InOrder ==
  \A c \in RunId : \A s, u \in PlanOf(c) :
    s < u /\ stepState[u] \notin {"pending", "skipped"} => stepState[s] = "success"

\* Where a coordinator is, and what it knows of its steps.
Working == {"reserve", "check", "promote", "abandon", "c-publish", "c-wait", "c-record"}
All(c, S) == \A s \in PlanOf(c) : stepState[s] \in S
Succeeds(c) == All(c, {"success"})
SomeFailed(c) == \E s \in PlanOf(c) : stepState[s] = "failed"

AtStep(c) ==
  /\ current[c] = req[c].run /\ req[c].run \in PlanOf(c)
  /\ stepState[req[c].run] = "running"
  /\ \A s \in PlanOf(c) : s # req[c].run => stepState[s] \in {"success", "pending"}

Recorded(c) ==
  /\ result[c] \in Settled \cup {"invalidated", "setup"}
  /\ result[c] = "success" => state[req[c].run] = "success"

Decided(c) ==
  /\ All(c, Settled \cup {"pending"})
  /\ result[c] = "success" <=> Succeeds(c)
  /\ result[c] \in {"failed", "setup"} <=> SomeFailed(c)

Over(c) ==
  PlanOf(c) # {} =>
    /\ All(c, Settled \cup {"skipped"})
    /\ state[c] = "success" <=> Succeeds(c)
    /\ state[c] = "failed" <=> SomeFailed(c)

Coordinates(c) ==
  /\ pc[c] \notin {"idle", "c-close"} => state[c] = "running"
  /\ pc[c] = "c-loop" => All(c, {"success", "pending"})
  /\ pc[c] \in Working => AtStep(c)
  /\ pc[c] = "c-wait" => waiting[req[c].run]
  /\ pc[c] = "abandon" => result[c] \in {"invalidated", "setup"}
  /\ pc[c] = "c-record" => Recorded(c)
  /\ pc[c] = "c-finish" => Decided(c)
  /\ pc[c] \in {"idle", "c-close"} => Over(c)

StepInv == Aggregates /\ Ended /\ LiveSteps /\ Told /\ InOrder
CompoundInv == CompoundTypes /\ StepInv /\ \A c \in RunId : Coordinates(c)

-----------------------------------------------------------------------------
(***************************************************************************)
(* What a step does to the steps and the states of the runs.               *)
(***************************************************************************)
Planned == <<parentOf, stepState, current, state, processes, waiting>>

Moving ==
  \/ \E t \in Callers : StartCompound(t)
  \/ \E t \in Threads : Promote(t) \/ EmitRunning(t)
  \/ \E c \in RunId : CoordStep(c) \/ CoordPublish(c) \/ CoordRecord(c) \/ CoordFinish(c)
  \/ \E r \in RunId : WaitProcess(r)

LEMMA Effects == [Next]_vars => UNCHANGED Planned \/ Moving
<1> SUFFICES ASSUME [Next]_vars PROVE UNCHANGED Planned \/ Moving
  OBVIOUS
<1> USE DEF admission, tables, retention, identity, resVars, procVars, compVars, drainVars,
            threadVars, Planned
<1>1. ASSUME NEW t \in Callers, Call(t) PROVE UNCHANGED Planned
  <2>1. ASSUME NEW p, CallStart(t, p) \/ CallRestart(t, p) \/ CallStartCompound(t, p)
        PROVE UNCHANGED Planned
    BY <2>1 DEF CallStart, CallRestart, CallStartCompound
  <2>2. ASSUME NEW p, CallRestartCompound(t, p) \/ CallStop(t, p) PROVE UNCHANGED Planned
    BY <2>2 DEF CallRestartCompound, CallStop
  <2>3. ASSUME NEW r, CallRestartInstance(t, r) \/ CallStopInstance(t, r)
        PROVE UNCHANGED Planned
    BY <2>3 DEF CallRestartInstance, CallStopInstance
  <2> QED BY <1>1, <2>1, <2>2, <2>3 DEF Call
<1>2. ASSUME NEW t \in Callers, CallerStep(t), ~StartCompound(t) PROVE UNCHANGED Planned
  <2>1. CASE ReserveReplacement(t) \/ RestartUnprepared(t) \/ CompoundRejected(t)
    BY <2>1 DEF ReserveReplacement, RestartUnprepared, CompoundRejected
  <2>2. CASE StopInstance(t) \/ StopSignal(t) \/ StopWait(t)
    BY <2>2 DEF StopInstance, StopSignal, StopWait
  <2>3. CASE CompoundLookup(t) \/ CompoundCancel(t) \/ CompoundSignal(t) \/ CompoundWait(t)
    BY <2>3 DEF CompoundLookup, CompoundCancel, CompoundSignal, CompoundWait
  <2>4. CASE RestartLookup(t) \/ CompoundRestartCheck(t) \/ CompoundRestartStop(t)
    BY <2>4 DEF RestartLookup, CompoundRestartCheck, CompoundRestartStop
  <2> QED BY <1>2, <2>1, <2>2, <2>3, <2>4 DEF CallerStep
<1>3. ASSUME NEW t, LaunchRejected(t) \/ ReserveFresh(t) \/ ReserveStep(t) \/ Spawn(t)
      PROVE UNCHANGED Planned
  BY <1>3 DEF LaunchRejected, ReserveFresh, ReserveStep, Spawn
<1>4. ASSUME NEW t, FinishReservation(t) PROVE UNCHANGED Planned
  BY <1>4 DEF FinishReservation
<1>5. ASSUME NEW c, CoordWait(c) \/ CoordClose(c) PROVE UNCHANGED Planned
  BY <1>5 DEF CoordWait, CoordClose
<1>6. ASSUME NEW r, FinishWait(r) \/ Escalate(r) \/ Exit(r) PROVE UNCHANGED Planned
  BY <1>6 DEF FinishWait, Escalate, Exit
<1>7. ASSUME NEW d, BeginDrain(d) \/ StopAll(d) \/ Drained(d) PROVE UNCHANGED Planned
  <2>1. CASE BeginDrain(d) \/ StopAllCollect(d) \/ StopAllSignal(d)
    BY <2>1 DEF BeginDrain, StopAllCollect, StopAllSignal
  <2>2. CASE StopAllHalfway(d) \/ StopAllReturns(d) \/ StopAllTimeout(d)
    BY <2>2 DEF StopAllHalfway, StopAllReturns, StopAllTimeout
  <2>3. CASE Drained(d)
    BY <2>3 DEF Drained, ClearTerminalStatuses, Reload, EndDrain, LoadFails
  <2> QED BY <1>7, <2>1, <2>2, <2>3 DEF StopAll
<1>8. CASE UNCHANGED vars
  BY <1>8 DEF vars
<1> QED
  BY <1>1, <1>2, <1>3, <1>4, <1>5, <1>6, <1>7, <1>8
     DEF Next, Moving, Launch, Coordinator, Process

-----------------------------------------------------------------------------
(***************************************************************************)
(* What a step does to the threads: one moves, and its result with it.     *)
(***************************************************************************)
Writes(t) == \E w \in Result : result' = [result EXCEPT ![t] = w]

LEMMA ResultStays ==
  ASSUME CompoundTypes, NEW t \in Threads, UNCHANGED result PROVE Writes(t)
<1>1. result[t] \in Result /\ result' = [result EXCEPT ![t] = result[t]]
  BY DEF CompoundTypes
<1> QED BY <1>1 DEF Writes

LEMMA ResultOfFail ==
  ASSUME CompoundTypes, NEW t \in Threads, NEW why \in Result, LaunchFails(t, why)
  PROVE  Writes(t) /\ (t \notin Callers => result'[t] = why)
BY DEF CompoundTypes, LaunchFails, Return, Result, Writes

LEMMA ResultOfCaller ==
  ASSUME CompoundTypes, NEW t \in Callers, Call(t) \/ CallerStep(t) PROVE Writes(t)
<1>1. t \in Threads
  BY DEF Threads
<1>2. ASSUME Return(t) PROVE Writes(t)
  BY <1>2 DEF Return, Result, Writes
<1>3. ASSUME Call(t) PROVE UNCHANGED result
  BY <1>3 DEF Call, CallStart, CallRestart, CallStartCompound, CallRestartCompound, CallStop,
       CallRestartInstance, CallStopInstance
<1>4. CASE ReserveReplacement(t) \/ RestartUnprepared(t) \/ CompoundRejected(t)
  <2>1. Return(t) \/ UNCHANGED result
    BY <1>4 DEF ReserveReplacement, RestartUnprepared, CompoundRejected
  <2> QED BY <1>1, <1>2, <2>1, ResultStays
<1>5. CASE StopInstance(t) \/ StopSignal(t) \/ StopWait(t)
  <2>1. Return(t) \/ UNCHANGED result
    BY <1>5 DEF StopInstance, StopSignal, StopWait, AfterStop
  <2> QED BY <1>1, <1>2, <2>1, ResultStays
<1>6. CASE CompoundLookup(t) \/ CompoundCancel(t) \/ CompoundSignal(t) \/ CompoundWait(t)
  <2>1. Return(t) \/ UNCHANGED result
    BY <1>6 DEF CompoundLookup, CompoundCancel, CompoundSignal, CompoundWait, AfterCompoundStop
  <2> QED BY <1>1, <1>2, <2>1, ResultStays
<1>7. CASE StartCompound(t)
  <2>1. UNCHANGED result
    BY <1>7 DEF StartCompound
  <2> QED BY <1>1, <2>1, ResultStays
<1>8. CASE RestartLookup(t) \/ CompoundRestartCheck(t) \/ CompoundRestartStop(t)
  <2>1. Return(t) \/ UNCHANGED result
    BY <1>8 DEF RestartLookup, CompoundRestartCheck, CompoundRestartStop
  <2> QED BY <1>1, <1>2, <2>1, ResultStays
<1> QED BY <1>1, <1>3, <1>4, <1>5, <1>6, <1>7, <1>8, ResultStays DEF CallerStep

LEMMA ResultOfLaunch ==
  ASSUME CompoundTypes, NEW t \in Threads, Launch(t) PROVE Writes(t)
<1> USE DEF Result
<1>1. CASE LaunchRejected(t) \/ ReserveFresh(t) \/ ReserveStep(t)
  <2>1. LaunchFails(t, "invalidated") \/ LaunchFails(t, "setup") \/ UNCHANGED result
    BY <1>1 DEF LaunchRejected, ReserveFresh, ReserveStep
  <2> QED BY <2>1, ResultOfFail, ResultStays
<1>2. CASE Spawn(t) \/ Promote(t)
  <2>1. Abandon(t, "invalidated") \/ Abandon(t, "setup") \/ UNCHANGED result
    BY <1>2 DEF Spawn, Promote
  <2> QED BY <2>1, ResultStays DEF Abandon, Writes
<1>3. CASE FinishReservation(t)
  <2>1. LaunchFails(t, result[t]) /\ result[t] \in Result
    BY <1>3 DEF FinishReservation, CompoundTypes
  <2> QED BY <2>1, ResultOfFail
<1>4. CASE EmitRunning(t)
  BY <1>4 DEF EmitRunning, Return, Writes
<1> QED BY <1>1, <1>2, <1>3, <1>4 DEF Launch

\* The state of a run whose step has been waited for is final.
LEMMA WaitedFor ==
  ASSUME RunInv, Closed, CompoundInv, NEW c \in RunId, CoordWait(c)
  PROVE  state[req[c].run] \in Settled /\ req[c].run \in RunId /\ req[c].run \notin processes
<1>1. pc[c] = "c-wait" /\ done[req[c].run] /\ c \in Threads
  BY DEF CoordWait, Threads
<1>2. waiting[req[c].run] /\ stepState[req[c].run] = "running"
  BY <1>1 DEF CompoundInv, Coordinates, AtStep, Working
<1>4. req[c].run \in RunId
  BY <1>1 DEF CompoundInv, Coordinates, AtStep, Working, PlanOf
<1> QED BY <1>1, <1>2, <1>4 DEF Closed, CompoundInv, StepInv, Ended

LEMMA ResultOfCoordinator ==
  ASSUME RunInv, Closed, CompoundInv, NEW c \in RunId, Coordinator(c) PROVE Writes(c)
<1>0. c \in Threads /\ CompoundTypes
  BY DEF Threads, CompoundInv
<1>1. CASE CoordStep(c)
  <2>1. UNCHANGED result \/ \E w \in {"success", "cancelled"} : result' = [result EXCEPT ![c] = w]
    BY <1>1 DEF CoordStep
  <2> QED BY <1>0, <2>1, ResultStays DEF Writes, Result
<1>2. CASE CoordPublish(c) \/ CoordFinish(c)
  <2>1. UNCHANGED result
    BY <1>2 DEF CoordPublish, CoordFinish, threadVars
  <2> QED BY <1>0, <2>1, ResultStays
<1>3. CASE CoordWait(c)
  <2>1. result' = [result EXCEPT ![c] = state[req[c].run]]
    BY <1>3 DEF CoordWait
  <2> QED BY <1>3, <2>1, WaitedFor DEF Writes, Result, Settled
<1>4. CASE CoordRecord(c)
  <2>1. UNCHANGED result \/ result' = [result EXCEPT ![c] = "none"]
    BY <1>4 DEF CoordRecord
  <2> QED BY <1>0, <2>1, ResultStays DEF Writes, Result
<1>5. CASE CoordClose(c)
  BY <1>5 DEF CoordClose, Return, Writes, Result
<1> QED BY <1>1, <1>2, <1>3, <1>4, <1>5 DEF Coordinator

\* A thread that does not move keeps its place, its run and its result.
Rests(t) == pc'[t] = pc[t] /\ req'[t].run = req[t].run /\ result'[t] = result[t]

LEMMA OneMoves ==
  ASSUME RunInv, Asked, Closed, CompoundInv, [Next]_vars, NEW c \in RunId
  PROVE  \/ Rests(c) \/ Coordinator(c) \/ Launch(c)
         \/ \E t \in Callers : StartCompound(t) /\ c = nextRunSeq + 1
<1>0. /\ Callers \subseteq Threads /\ RunId \subseteq Threads /\ Callers \cap RunId = {}
      /\ result \in [Threads -> Result] /\ CompoundTypes
  BY RunFacts DEF Threads, CompoundInv, CompoundTypes
<1>1. ASSUME NEW u \in Threads, u # c, Alone(u), Writes(u) PROVE Rests(c)
  BY <1>0, <1>1 DEF Alone, Writes, Rests
<1>2. ASSUME NEW u \in Callers, Call(u) PROVE Rests(c)
  BY <1>0, <1>1, <1>2, CallsAlone, ResultOfCaller
<1>3. ASSUME NEW u \in Callers, CallerStep(u), ~StartCompound(u) PROVE Rests(c)
  <2>1. Alone(u)
    BY <1>0, <1>3, CallersAlone, ReservesAlone
  <2> QED BY <1>0, <1>1, <1>3, <2>1, ResultOfCaller
<1>4. ASSUME NEW u \in Callers, StartCompound(u), c # nextRunSeq + 1 PROVE Rests(c)
  <2>1. result' = result
    BY <1>4 DEF StartCompound
  <2> QED BY <1>0, <1>4, <2>1, StartAlone DEF Rests
<1>5. ASSUME NEW u \in Threads, Launch(u), u # c PROVE Rests(c)
  <2>1. ASSUME LaunchRejected(u) PROVE Alone(u)
    BY <2>1, FailsAlone DEF LaunchRejected
  <2>2. Alone(u)
    BY <1>5, <2>1, ReservesAlone, LaunchesAlone DEF Launch
  <2> QED BY <1>0, <1>1, <1>5, <2>2, ResultOfLaunch
<1>6. ASSUME NEW u \in RunId, Coordinator(u), u # c PROVE Rests(c)
  BY <1>0, <1>1, <1>6, CoordinatorAlone, ResultOfCoordinator
<1>7. ASSUME UNCHANGED threadVars PROVE Rests(c)
  BY <1>7 DEF threadVars, Rests
<1>8. ASSUME NEW r \in RunId, Process(r) \/ Exit(r) PROVE Rests(c)
  BY <1>7, <1>8 DEF Process, WaitProcess, FinishWait, Escalate, Exit
<1>9. ASSUME NEW d \in Drainers, BeginDrain(d) \/ StopAll(d) \/ Drained(d) PROVE Rests(c)
  BY <1>7, <1>9 DEF BeginDrain, StopAll, StopAllCollect, StopAllSignal, StopAllHalfway,
     StopAllReturns, StopAllTimeout, Drained, ClearTerminalStatuses, Reload, EndDrain, LoadFails
<1>10. CASE UNCHANGED vars
  BY <1>7, <1>10 DEF vars
<1> QED
  BY <1>0, <1>2, <1>3, <1>4, <1>5, <1>6, <1>8, <1>9, <1>10 DEF Next

\* The result of every thread has its type.
LEMMA ResultsTyped ==
  ASSUME RunInv, Asked, Closed, CompoundInv, [Next]_vars PROVE result' \in [Threads -> Result]
<1>0. /\ Callers \subseteq Threads /\ RunId \subseteq Threads
      /\ result \in [Threads -> Result] /\ CompoundTypes
  BY DEF Threads, CompoundInv, CompoundTypes
<1>1. ASSUME NEW u, Writes(u) PROVE result' \in [Threads -> Result]
  BY <1>0, <1>1 DEF Writes
<1>2. ASSUME UNCHANGED threadVars PROVE result' \in [Threads -> Result]
  BY <1>0, <1>2 DEF threadVars
<1>3. ASSUME NEW r \in RunId, Process(r) \/ Exit(r) PROVE result' \in [Threads -> Result]
  BY <1>2, <1>3 DEF Process, WaitProcess, FinishWait, Escalate, Exit
<1>4. ASSUME NEW d \in Drainers, BeginDrain(d) \/ StopAll(d) \/ Drained(d)
      PROVE result' \in [Threads -> Result]
  BY <1>2, <1>4 DEF BeginDrain, StopAll, StopAllCollect, StopAllSignal, StopAllHalfway,
     StopAllReturns, StopAllTimeout, Drained, ClearTerminalStatuses, Reload, EndDrain, LoadFails
<1>5. CASE UNCHANGED vars
  BY <1>2, <1>5 DEF vars
<1> QED
  BY <1>0, <1>1, <1>3, <1>4, <1>5, ResultOfCaller, ResultOfLaunch, ResultOfCoordinator DEF Next

-----------------------------------------------------------------------------
(***************************************************************************)
(* The states of the runs, and the aggregates that are never spawned.      *)
(***************************************************************************)
\* What may become of the state of a run.
Becomes(r) ==
  \/ state'[r] = state[r]
  \/ r \in processes /\ r \notin processes' /\ state'[r] \in Settled
  \/ \E t \in Threads : Promote(t) /\ req[t].run = r /\ r \in processes'
  \/ CoordFinish(r) /\ state'[r] \in Settled
  \/ \E t \in Callers : StartCompound(t) /\ r = nextRunSeq + 1

LEMMA StateMoves ==
  ASSUME CompoundInv, [Next]_vars
  PROVE  state' \in [RunId -> RunState] /\ \A r \in RunId : Becomes(r)
<1> USE DEF RunState, Settled, Becomes
<1>0. state \in [RunId -> RunState]
  BY DEF CompoundInv, CompoundTypes
<1>1. ASSUME UNCHANGED state PROVE state' \in [RunId -> RunState] /\ \A r \in RunId : Becomes(r)
  BY <1>0, <1>1
<1>2. CASE UNCHANGED Planned
  BY <1>1, <1>2 DEF Planned
<1>3. ASSUME NEW t \in Callers, StartCompound(t)
      PROVE state' \in [RunId -> RunState] /\ \A r \in RunId : Becomes(r)
  <2>1. state' = [state EXCEPT ![nextRunSeq + 1] = "running"]
    BY <1>3 DEF StartCompound
  <2> QED BY <1>0, <1>3, <2>1
<1>4. ASSUME NEW t \in Threads, Promote(t)
      PROVE state' \in [RunId -> RunState] /\ \A r \in RunId : Becomes(r)
  <2>1. \/ UNCHANGED state
        \/ /\ state' = [state EXCEPT ![req[t].run] = "running"]
           /\ processes' = processes \cup {req[t].run}
    BY <1>4 DEF Promote
  <2>2. CASE state' = [state EXCEPT ![req[t].run] = "running"]
             /\ processes' = processes \cup {req[t].run}
    BY <1>0, <1>4, <2>2
  <2> QED BY <1>1, <2>1, <2>2
<1>5. ASSUME NEW t, EmitRunning(t) \/ CoordStep(t) \/ CoordPublish(t) \/ CoordRecord(t)
      PROVE UNCHANGED state
  BY <1>5 DEF EmitRunning, CoordStep, CoordPublish, CoordRecord
<1>6. ASSUME NEW c \in RunId, CoordFinish(c)
      PROVE state' \in [RunId -> RunState] /\ \A r \in RunId : Becomes(r)
  <2>1. state' = [state EXCEPT ![c] = AggregateState(result[c])]
    BY <1>6 DEF CoordFinish
  <2>2. AggregateState(result[c]) \in Settled
    BY DEF AggregateState
  <2> QED BY <1>0, <1>6, <2>1, <2>2
<1>7. ASSUME NEW r \in RunId, WaitProcess(r)
      PROVE state' \in [RunId -> RunState] /\ \A x \in RunId : Becomes(x)
  <2>1. /\ r \in processes /\ processes' = processes \ {r}
        /\ \E x \in Settled : state' = [state EXCEPT ![r] = x]
    BY <1>7 DEF WaitProcess, TerminalStates
  <2> QED BY <1>0, <2>1
<1> QED BY <1>1, <1>2, <1>3, <1>4, <1>5, <1>6, <1>7, Effects DEF Moving

LEMMA TypesStep ==
  ASSUME RunInv, Asked, Closed, CompoundInv, [Next]_vars PROVE CompoundTypes'
<1>1. current' \in [RunId -> Nat]
  <2>0. current \in [RunId -> Nat] /\ nextRunSeq \in Nat
    BY RunsKnown DEF CompoundInv, CompoundTypes
  <2>1. ASSUME UNCHANGED current PROVE current' \in [RunId -> Nat]
    BY <2>0, <2>1
  <2>2. CASE UNCHANGED Planned
    BY <2>1, <2>2 DEF Planned
  <2>3. ASSUME NEW t \in Callers, StartCompound(t) PROVE current' \in [RunId -> Nat]
    <3>1. current' = [current EXCEPT ![nextRunSeq + 1] = nextRunSeq + 1 + 1]
      BY <2>3 DEF StartCompound
    <3>2. nextRunSeq + 1 + 1 \in Nat
      BY <2>0
    <3> QED BY <2>0, <3>1, <3>2
  <2>4. ASSUME NEW t, Promote(t) \/ EmitRunning(t) \/ CoordPublish(t) \/ CoordRecord(t)
                      \/ CoordFinish(t) \/ WaitProcess(t)
        PROVE UNCHANGED current
    BY <2>4 DEF Promote, EmitRunning, CoordPublish, CoordRecord, CoordFinish, WaitProcess,
         compVars
  <2>5. ASSUME NEW c \in RunId, CoordStep(c) PROVE current' \in [RunId -> Nat]
    <3>1. UNCHANGED current \/ \E x \in PendingSteps(c) : current' = [current EXCEPT ![c] = x]
      <4>1. PendingSteps(c) \subseteq RunId
        BY DEF PendingSteps, PlanOf
      <4> QED BY <2>5, <4>1, OldestIn DEF CoordStep
    <3>2. PendingSteps(c) \subseteq Nat
      BY RunFacts DEF PendingSteps, PlanOf
    <3> QED BY <2>0, <3>1, <3>2
  <2> QED BY <2>1, <2>2, <2>3, <2>4, <2>5, Effects DEF Moving
<1> QED BY <1>1, StateMoves, ResultsTyped DEF CompoundTypes

-----------------------------------------------------------------------------
(***************************************************************************)
(* Aggregates are never spawned.                                           *)
(***************************************************************************)
\* The plans stay, or an aggregate is added with its steps.
LEMMA PlansKept ==
  ASSUME [Next]_vars PROVE parentOf' = parentOf \/ \E t \in Callers : StartCompound(t)
<1>1. ASSUME NEW t, Promote(t) \/ EmitRunning(t) \/ CoordStep(t) \/ CoordPublish(t)
                    \/ CoordRecord(t) \/ CoordFinish(t) \/ WaitProcess(t)
      PROVE UNCHANGED parentOf
  BY <1>1 DEF Promote, EmitRunning, CoordStep, CoordPublish, CoordRecord, CoordFinish,
       WaitProcess, identity
<1> QED BY <1>1, Effects DEF Moving, Planned

\* What may become of the state of a step.
Advances(s) ==
  \/ stepState'[s] = stepState[s]
  \/ \E c \in RunId :
       /\ parentOf[s] = c
       /\ \/ /\ CoordStep(c) /\ stepState[s] = "pending" /\ stepState'[s] = "running"
             /\ \A x \in PendingSteps(c) : s <= x
          \/ CoordRecord(c) /\ s = current[c] /\ stepState'[s] = StepOutcome(result[c])
          \/ CoordFinish(c) /\ stepState[s] = "pending" /\ stepState'[s] = "skipped"
  \/ \E t \in Callers : StartCompound(t) /\ s > nextRunSeq /\ stepState'[s] = "pending"

LEMMA StepMoves ==
  ASSUME RunInv, Asked, CompoundInv, [Next]_vars PROVE \A s \in RunId : Advances(s)
<1> USE DEF Advances
<1>0. stepState \in [RunId -> StepState] /\ nextRunSeq \in Nat
  BY RunsKnown DEF RunInv, Shape
<1>1. ASSUME UNCHANGED stepState PROVE \A s \in RunId : Advances(s)
  BY <1>1
<1>2. ASSUME NEW t, Promote(t) \/ EmitRunning(t) \/ CoordPublish(t) \/ WaitProcess(t)
      PROVE UNCHANGED stepState
  BY <1>2 DEF Promote, EmitRunning, CoordPublish, WaitProcess, compVars
<1>3. ASSUME NEW t \in Callers, StartCompound(t) PROVE \A s \in RunId : Advances(s)
  <2> DEFINE plan == (nextRunSeq + 1 + 1)..(nextRunSeq + 1 + Len(Steps[req[t].profile]))
  <2>1. stepState' = [r \in RunId |-> IF r \in plan THEN "pending" ELSE stepState[r]]
    BY <1>3 DEF StartCompound
  <2>2. \A r \in RunId : r \in plan => r > nextRunSeq
    BY <1>0, <1>3, StartOf, RunFacts
  <2> HIDE DEF plan
  <2> QED BY <1>3, <2>1, <2>2
<1>4. ASSUME NEW c \in RunId, CoordStep(c) PROVE \A s \in RunId : Advances(s)
  <2>1. PendingSteps(c) \in SUBSET RunId
    BY DEF PendingSteps, PlanOf
  <2>2. \/ UNCHANGED stepState
        \/ \E x \in PendingSteps(c) : /\ stepState' = [stepState EXCEPT ![x] = "running"]
                                      /\ \A y \in PendingSteps(c) : x <= y
    BY <1>4, <2>1, OldestIn DEF CoordStep
  <2>3. ASSUME NEW x \in PendingSteps(c), stepState' = [stepState EXCEPT ![x] = "running"],
               \A y \in PendingSteps(c) : x <= y
        PROVE \A s \in RunId : Advances(s)
    BY <1>0, <1>4, <2>3 DEF PendingSteps, PlanOf
  <2> QED BY <1>1, <2>2, <2>3
<1>5. ASSUME NEW c \in RunId, CoordRecord(c) PROVE \A s \in RunId : Advances(s)
  <2>1. /\ stepState' = [stepState EXCEPT ![current[c]] = StepOutcome(result[c])]
        /\ pc[c] = "c-record"
    BY <1>5 DEF CoordRecord
  <2>2. parentOf[current[c]] = c
    BY <2>1 DEF CompoundInv, Coordinates, Working, AtStep, PlanOf
  <2> QED BY <1>0, <1>5, <2>1, <2>2
<1>6. ASSUME NEW c \in RunId, CoordFinish(c) PROVE \A s \in RunId : Advances(s)
  <2>1. stepState' = [s \in RunId |-> IF s \in PendingSteps(c) THEN "skipped" ELSE stepState[s]]
    BY <1>6 DEF CoordFinish
  <2> QED BY <1>6, <2>1 DEF PendingSteps, PlanOf
<1> QED BY <1>1, <1>2, <1>3, <1>4, <1>5, <1>6, Effects DEF Moving, Planned

\* Only a launch spawns.
LEMMA Spawning ==
  ASSUME RunInv, [Next]_vars, NEW r \in RunId, os[r] = "none", os'[r] # "none"
  PROVE  \E t \in Threads : Spawn(t) /\ req[t].run = r
<1> USE DEF admission, tables, retention, identity, resVars, procVars, compVars, drainVars,
            threadVars
<1>0. os \in [RunId -> {"none", "running", "exited"}] /\ os' # os
  BY DEF RunInv, Shape
<1>1. ASSUME Quiet PROVE FALSE
  BY <1>0, <1>1 DEF Quiet, Tables
<1>2. ASSUME NEW t, ReserveReplacement(t) \/ StartCompound(t) \/ ReserveFresh(t)
                    \/ ReserveStep(t) \/ Promote(t) \/ FinishReservation(t) \/ EmitRunning(t)
      PROVE UNCHANGED os
  BY <1>2 DEF ReserveReplacement, StartCompound, ReserveFresh, ReserveStep, Promote,
       FinishReservation, EmitRunning
<1>3. ASSUME NEW c, CoordPublish(c) \/ CoordFinish(c) \/ CoordClose(c) PROVE UNCHANGED os
  BY <1>3 DEF CoordPublish, CoordFinish, CoordClose
<1>4. ASSUME NEW x, Process(x) PROVE UNCHANGED os
  BY <1>4 DEF Process, WaitProcess, FinishWait, Escalate
<1>5. ASSUME NEW x \in RunId, Exit(x) PROVE FALSE
  BY <1>0, <1>5 DEF Exit
<1>6. \E t \in Threads : Spawn(t)
  BY <1>0, <1>1, <1>2, <1>3, <1>4, <1>5, Splits, OthersStill DEF Changes
<1> QED BY <1>0, <1>6 DEF Spawn

\* A bound call keeps its run, drops it, or takes a fresh id.
LEMMA CallerRuns ==
  ASSUME RunInv, Asked, [Next]_vars, NEW t \in Callers
  PROVE  req'[t].run \in {req[t].run, NoRun, nextRunSeq + 1}
<1>0. /\ t \in Threads /\ t \notin RunId /\ RunId \subseteq Threads /\ Callers \subseteq Threads
      /\ req \in [Threads -> Request] /\ pc \in [Threads -> PC]
  BY RunFacts DEF Threads, RunInv, Shape
<1>1. ASSUME Return(t) PROVE req'[t].run = NoRun
  BY <1>0, <1>1 DEF Return, NoReq
<1>2. ASSUME Call(t) PROVE req'[t].run = NoRun
  <2> DEFINE Blank == \E q : q.run = NoRun /\ req' = [req EXCEPT ![t] = q]
  <2>1. ASSUME NEW p, CallStart(t, p) \/ CallStartCompound(t, p) PROVE Blank
    BY <2>1 DEF CallStart, CallStartCompound, NoReq
  <2>2. ASSUME NEW p, CallRestart(t, p) PROVE Blank
    BY <2>2 DEF CallRestart, NoReq
  <2>3. ASSUME NEW p, CallRestartCompound(t, p) PROVE Blank
    BY <2>3 DEF CallRestartCompound, NoReq
  <2>4. ASSUME NEW p, CallStop(t, p) PROVE Blank
    BY <2>4 DEF CallStop, NoReq
  <2>5. ASSUME NEW r, CallRestartInstance(t, r) \/ CallStopInstance(t, r) PROVE Blank
    BY <2>5 DEF CallRestartInstance, CallStopInstance, NoReq
  <2>6. Blank
    BY <1>2, <2>1, <2>2, <2>3, <2>4, <2>5 DEF Call
  <2> QED BY <1>0, <2>6
<1>3. ASSUME CallerStep(t) PROVE req'[t].run \in {req[t].run, NoRun, nextRunSeq + 1}
  <2>1. CASE RestartUnprepared(t) \/ CompoundRejected(t)
    BY <1>1, <2>1 DEF RestartUnprepared, CompoundRejected
  <2>2. CASE StopInstance(t) \/ StopSignal(t) \/ StopWait(t)
    <3>1. Return(t) \/ UNCHANGED req
      BY <2>2 DEF StopInstance, StopSignal, StopWait, AfterStop
    <3> QED BY <1>1, <3>1
  <2>3. CASE CompoundLookup(t)
    <3>1. Return(t) \/ UNCHANGED req \/ \E x : req' = [req EXCEPT ![t].leaf = x]
      BY <2>3 DEF CompoundLookup, AfterCompoundStop
    <3>2. ASSUME NEW x, req' = [req EXCEPT ![t].leaf = x] PROVE req'[t].run = req[t].run
      BY <1>0, <3>2 DEF Request
    <3> QED BY <1>1, <3>1, <3>2
  <2>4. CASE CompoundCancel(t) \/ CompoundSignal(t) \/ CompoundWait(t)
    <3>1. Return(t) \/ UNCHANGED req
      BY <2>4 DEF CompoundCancel, CompoundSignal, CompoundWait, AfterCompoundStop
    <3> QED BY <1>1, <3>1
  <2>5. CASE ReserveReplacement(t)
    <3>1. Return(t) \/ UNCHANGED req \/ req' = [req EXCEPT ![t].run = nextRunSeq + 1]
      BY <2>5 DEF ReserveReplacement
    <3>2. ASSUME req' = [req EXCEPT ![t].run = nextRunSeq + 1]
          PROVE req'[t].run = nextRunSeq + 1
      BY <1>0, <3>2 DEF Request
    <3> QED BY <1>1, <3>1, <3>2
  <2>6. CASE StartCompound(t)
    BY <2>6, StartAlone
  <2>7. CASE RestartLookup(t) \/ CompoundRestartStop(t)
    <3>1. \E x : req' = [req EXCEPT ![t].target = x]
      BY <2>7 DEF RestartLookup, CompoundRestartStop
    <3>2. ASSUME NEW x, req' = [req EXCEPT ![t].target = x] PROVE req'[t].run = req[t].run
      BY <1>0, <3>2 DEF Request
    <3> QED BY <3>1, <3>2
  <2>8. CASE CompoundRestartCheck(t)
    <3>1. Return(t) \/ UNCHANGED req
      BY <2>8 DEF CompoundRestartCheck
    <3> QED BY <1>1, <3>1
  <2> QED BY <1>3, <2>1, <2>2, <2>3, <2>4, <2>5, <2>6, <2>7, <2>8 DEF CallerStep
<1>4. ASSUME Launch(t) PROVE req'[t].run \in {req[t].run, NoRun, nextRunSeq + 1}
  <2>1. ASSUME NEW why, LaunchFails(t, why) PROVE req'[t].run = NoRun
    BY <1>1, <2>1 DEF LaunchFails
  <2>2. CASE LaunchRejected(t) \/ FinishReservation(t)
    BY <2>1, <2>2 DEF LaunchRejected, FinishReservation
  <2>3. CASE ReserveFresh(t)
    <3>1. LaunchFails(t, "setup") \/ req' = [req EXCEPT ![t].run = nextRunSeq + 1]
      BY <2>3 DEF ReserveFresh
    <3>2. ASSUME req' = [req EXCEPT ![t].run = nextRunSeq + 1]
          PROVE req'[t].run = nextRunSeq + 1
      BY <1>0, <3>2 DEF Request
    <3> QED BY <2>1, <3>1, <3>2
  <2>4. CASE Spawn(t) \/ Promote(t)
    BY <2>4 DEF Spawn, Promote, Abandon
  <2>5. CASE EmitRunning(t)
    BY <1>1, <2>5 DEF EmitRunning
  <2>6. CASE ReserveStep(t)
    BY <1>0, <2>6 DEF ReserveStep
  <2> QED BY <1>4, <2>2, <2>3, <2>4, <2>5, <2>6 DEF Launch
<1>5. ASSUME NEW u \in Threads, Alone(u), u # t PROVE req'[t].run = req[t].run
  BY <1>0, <1>5 DEF Alone
<1>6. ASSUME NEW u \in Callers, u # t, Call(u) \/ CallerStep(u) PROVE req'[t].run = req[t].run
  <2>1. CASE StartCompound(u)
    <3>1. t # nextRunSeq + 1
      BY <1>0, <2>1, StartAlone
    <3> QED BY <1>0, <1>6, <2>1, <3>1, StartAlone
  <2>2. CASE ~StartCompound(u)
    BY <1>0, <1>5, <1>6, <2>2, CallsAlone, CallersAlone, ReservesAlone
  <2> QED BY <2>1, <2>2
<1>7. ASSUME NEW u \in Threads, u # t, Launch(u) PROVE req'[t].run = req[t].run
  <2>1. ASSUME LaunchRejected(u) PROVE Alone(u)
    BY <2>1, FailsAlone DEF LaunchRejected
  <2>2. Alone(u)
    BY <1>7, <2>1, ReservesAlone, LaunchesAlone DEF Launch
  <2> QED BY <1>5, <1>7, <2>2
<1>8. ASSUME NEW c \in RunId, Coordinator(c) PROVE req'[t].run = req[t].run
  BY <1>0, <1>5, <1>8, CoordinatorAlone
<1>9. CASE UNCHANGED vars
  BY <1>9 DEF vars, threadVars
<1> QED BY <1>0, <1>2, <1>3, <1>4, <1>6, <1>7, <1>8, <1>9, OthersStill DEF Next

LEMMA AggregatesStep ==
  ASSUME RunInv, Asked, IsoInv, CompoundInv, [Next]_vars PROVE Aggregates'
<1>0. /\ RunInv' /\ nextRunSeq \in Nat
      /\ parentOf \in [RunId -> RunId \cup {NoRun}] /\ os \in [RunId -> {"none", "running", "exited"}]
      /\ Aggregates
  BY RunStep, RunsKnown DEF RunInv, Shape, CompoundInv, StepInv
<1>1. nextRunSeq <= nextRunSeq' /\ nextRunSeq' \in Nat
  <2>1. nextRunSeq <= nextRunSeq'
    BY Splits, IdsStable DEF IsoInv, Ids
  <2> QED BY <1>0, <2>1, ExecutorAssumption DEF RunInv, Shape
\* An aggregate with steps keeps out of the requests.
<1>2. ASSUME NEW p \in RunId, p <= nextRunSeq, parentOf[p] = NoRun, parentOf'[p] = NoRun,
             os[p] = "none", \A t \in Threads : req[t].run # p
      PROVE  os'[p] = "none" /\ \A t \in Threads : req'[t].run # p
  <2>1. os'[p] = "none"
    BY <1>2, Spawning
  <2>2. ASSUME NEW t \in Callers PROVE req'[t].run # p
    <3>1. t \in Threads /\ p # nextRunSeq + 1 /\ p # NoRun
      BY <1>0, <1>2, RunFacts DEF Threads
    <3> QED BY <1>2, <3>1, CallerRuns
  <2>3. ASSUME NEW c \in RunId PROVE req'[c].run # p
    BY <1>0, <1>2, RunFacts DEF RunInv, Owned
  <2> QED BY <2>1, <2>2, <2>3 DEF Threads
<1>3. \A s \in RunId : stepState[s] # "none" => stepState'[s] # "none"
  BY StepMoves DEF Advances, StepOutcome
<1>4. CASE parentOf' = parentOf
  <2> SUFFICES ASSUME NEW s \in RunId, parentOf[s] # NoRun
               PROVE  /\ stepState'[s] # "none" /\ parentOf[s] <= nextRunSeq'
                      /\ parentOf[parentOf[s]] = NoRun /\ os'[parentOf[s]] = "none"
                      /\ \A t \in Threads : req'[t].run # parentOf[s]
    BY <1>4 DEF Aggregates
  <2>1. parentOf[s] \in RunId /\ parentOf[s] \in Nat /\ parentOf[s] <= nextRunSeq
    BY <1>0, RunFacts DEF Aggregates
  <2>2. parentOf[s] <= nextRunSeq'
    BY <1>0, <1>1, <2>1
  <2>3. /\ parentOf[parentOf[s]] = NoRun /\ os[parentOf[s]] = "none" /\ stepState[s] # "none"
        /\ \A t \in Threads : req[t].run # parentOf[s]
    BY <1>0 DEF Aggregates
  <2> QED BY <1>2, <1>3, <1>4, <2>1, <2>2, <2>3
<1>5. ASSUME NEW t \in Callers, StartCompound(t) PROVE Aggregates'
  <2> DEFINE c == nextRunSeq + 1
             n == Len(Steps[req[t].profile])
             plan == (c + 1)..(c + n)
  <2>1. /\ parentOf' = [r \in RunId |-> IF r \in plan THEN c ELSE parentOf[r]]
        /\ stepState' = [r \in RunId |-> IF r \in plan THEN "pending" ELSE stepState[r]]
        /\ os' = os
    BY <1>5 DEF StartCompound, procVars
  <2>2. /\ c \in RunId /\ c \notin plan /\ nextRunSeq' = c + n /\ n \in Nat
        /\ \A r \in RunId : r <= nextRunSeq => r # c /\ r \notin plan
    BY <1>5, StartOf
  <2>3. c <= nextRunSeq' /\ c > nextRunSeq
    <3> HIDE DEF n
    <3> QED BY <1>0, <2>2
  <2>4. parentOf'[c] = NoRun /\ os'[c] = "none"
    BY <1>0, <2>1, <2>2, <2>3 DEF RunInv, Unused
  <2>5. \A u \in Threads : req'[u].run # c
    <3>1. \A u \in Threads : req[u].run # c
      BY <1>0, <2>3, RunsKnown
    <3>2. NoRun # c
      BY <2>2, RunFacts
    <3>3. \A u \in Threads : req'[u].run \in {req[u].run, NoRun}
      BY <1>5, StartAlone
    <3> QED BY <3>1, <3>2, <3>3
  <2> HIDE DEF c, plan
  <2> SUFFICES ASSUME NEW s \in RunId, parentOf'[s] # NoRun
               PROVE  /\ stepState'[s] # "none" /\ parentOf'[s] <= nextRunSeq'
                      /\ parentOf'[parentOf'[s]] = NoRun /\ os'[parentOf'[s]] = "none"
                      /\ \A u \in Threads : req'[u].run # parentOf'[s]
    BY DEF Aggregates
  <2>6. CASE s \in plan
    BY <2>1, <2>3, <2>4, <2>5, <2>6
  <2>7. CASE s \notin plan
    <3>1. parentOf'[s] = parentOf[s] /\ parentOf[s] # NoRun
      BY <2>1, <2>7
    <3>2. parentOf[s] \in RunId /\ parentOf[s] \in Nat /\ parentOf[s] <= nextRunSeq
      BY <1>0, <3>1, RunFacts DEF Aggregates
    <3>3. /\ parentOf[parentOf[s]] = NoRun /\ os[parentOf[s]] = "none" /\ stepState[s] # "none"
          /\ \A u \in Threads : req[u].run # parentOf[s]
      BY <1>0, <3>1 DEF Aggregates
    <3>4. parentOf'[parentOf[s]] = NoRun
      BY <2>1, <2>2, <3>2, <3>3
    <3>5. parentOf[s] <= nextRunSeq'
      BY <1>0, <1>1, <3>2
    <3> QED BY <1>2, <1>3, <3>1, <3>2, <3>3, <3>4, <3>5
  <2> QED BY <2>6, <2>7
<1> QED BY <1>4, <1>5, PlansKept

-----------------------------------------------------------------------------
(***************************************************************************)
(* The steps: their processes, what is told of them, and their order.      *)
(***************************************************************************)
\* A run enters the table by a promotion.
LEMMA Entering ==
  ASSUME RunInv, Asked, IsoInv, [Next]_vars, NEW r \in processes', r \notin processes
  PROVE  \E t \in Threads : Promote(t) /\ req[t].run = r /\ pc[t] = "promote"
<1>1. ASSUME NEW t, EmitRunning(t) \/ CoordStep(t) \/ CoordPublish(t) \/ CoordRecord(t)
                    \/ CoordFinish(t) \/ StartCompound(t) \/ WaitProcess(t)
      PROVE processes' \subseteq processes
  BY <1>1 DEF EmitRunning, CoordStep, CoordPublish, CoordRecord, CoordFinish, StartCompound,
       WaitProcess, tables, procVars
<1>2. \E t \in Threads : Promote(t)
  BY <1>1, Effects DEF Moving, Planned
<1> QED BY <1>2 DEF Promote

LEMMA EndedStep ==
  ASSUME RunInv, Asked, IsoInv, CompoundInv, [Next]_vars PROVE Ended'
<1> SUFFICES ASSUME NEW r \in RunId, waiting'[r], r \notin processes'
             PROVE  state'[r] \in Settled
  BY DEF Ended
<1>0. waiting \in [RunId -> BOOLEAN] /\ Ended /\ nextRunSeq \in Nat
  BY RunsKnown DEF RunInv, Shape, CompoundInv, StepInv
\* Who waits for a run has just promoted it.
<1>1. CASE ~waiting[r]
  <2>1. \E t \in Threads : \/ EmitRunning(t) /\ r = req[t].run
                           \/ CoordPublish(t) /\ r = req[t].run
    <3>1. ASSUME NEW t, Promote(t) \/ CoordStep(t) \/ CoordRecord(t)
                        \/ CoordFinish(t) \/ StartCompound(t) \/ WaitProcess(t)
          PROVE UNCHANGED waiting
      BY <3>1 DEF Promote, CoordStep, CoordRecord, CoordFinish, StartCompound, WaitProcess,
           procVars
    <3>2. \E t \in Threads : EmitRunning(t) \/ CoordPublish(t)
      BY <1>1, <3>1, Effects DEF Moving, Planned, Threads
    <3> QED BY <1>0, <1>1, <3>2 DEF EmitRunning, CoordPublish
  <2>2. PICK t \in Threads : (EmitRunning(t) \/ CoordPublish(t)) /\ r = req[t].run
    BY <2>1
  <2>3. r \in processes
    BY <2>2 DEF EmitRunning, CoordPublish, RunInv, Reaped
  <2>4. processes' = processes
    BY <2>2 DEF EmitRunning, CoordPublish, tables
  <2> QED BY <2>3, <2>4
<1>2. CASE waiting[r] /\ r \notin processes
  <2>1. state[r] \in Settled
    BY <1>0, <1>2 DEF Ended
  <2>2. CASE \E t \in Callers : StartCompound(t) /\ r = nextRunSeq + 1
    BY <1>0, <1>2, <2>2 DEF RunInv, Unused
  <2>3. CASE \E t \in Threads : Promote(t) /\ req[t].run = r /\ r \in processes'
    BY <2>3
  <2> QED BY <1>2, <2>1, <2>2, <2>3, StateMoves DEF Becomes
<1>3. CASE waiting[r] /\ r \in processes
  <2>1. \/ r \in processes' \/ state'[r] \in Settled
    <3>1. ASSUME NEW t, EmitRunning(t) \/ CoordStep(t) \/ CoordPublish(t) \/ CoordRecord(t)
                        \/ CoordFinish(t) \/ StartCompound(t) \/ Promote(t)
          PROVE processes \subseteq processes'
      BY <3>1 DEF EmitRunning, CoordStep, CoordPublish, CoordRecord, CoordFinish, StartCompound,
           Promote, tables, procVars
    <3>2. PICK x \in RunId : WaitProcess(x)
      BY <1>3, <3>1, Effects DEF Moving, Planned
    <3>3. r = x /\ \E y \in Settled : state' = [state EXCEPT ![x] = y]
      BY <1>3, <3>2 DEF WaitProcess, TerminalStates, Settled
    <3> QED BY <3>3 DEF CompoundInv, CompoundTypes
  <2> QED BY <2>1
<1> QED BY <1>1, <1>2, <1>3

\* The coordinator of a live step publishes it and waits for it.
LEMMA LiveStepsStep ==
  ASSUME RunInv, Asked, IsoInv, CompoundInv, [Next]_vars PROVE LiveSteps'
<1> SUFFICES ASSUME NEW s \in processes', parentOf'[s] # NoRun
             PROVE  /\ pc'[parentOf'[s]] \in {"c-publish", "c-wait"}
                    /\ req'[parentOf'[s]].run = s
  BY DEF LiveSteps
<1>0. /\ RunInv' /\ nextRunSeq \in Nat /\ pc \in [Threads -> PC] /\ req \in [Threads -> Request]
      /\ parentOf \in [RunId -> RunId \cup {NoRun}]
      /\ RunId \subseteq Threads /\ Callers \cap RunId = {}
      /\ processes \subseteq RunId /\ \A r \in processes : r <= nextRunSeq
  BY RunStep, RunsKnown, TablesOfRuns, RunFacts DEF RunInv, Shape, Threads
<1>1. s \in RunId /\ s <= nextRunSeq
  <2>1. CASE s \in processes
    BY <1>0, <2>1
  <2>2. CASE s \notin processes
    <3>1. PICK t \in Threads : Promote(t) /\ req[t].run = s /\ pc[t] = "promote"
      BY <2>2, Entering
    <3> QED BY <3>1, RunsKnown DEF RunInv, Owned, Launching
  <2> QED BY <2>1, <2>2
<1>2. parentOf'[s] = parentOf[s] /\ parentOf[s] \in RunId /\ parentOf[s] <= nextRunSeq
  <2>1. parentOf'[s] = parentOf[s]
    BY <1>1, Splits, IdsStable DEF IsoInv, Ids
  <2>2. parentOf[s] # NoRun /\ parentOf[s] \in RunId
    BY <1>0, <1>1, <2>1
  <2> QED BY <1>1, <2>1, <2>2 DEF CompoundInv, StepInv, Aggregates
<1> DEFINE c == parentOf[s]
<1>3. CASE s \notin processes
  <2>1. PICK t \in Threads : Promote(t) /\ req[t].run = s /\ pc[t] = "promote"
    BY <1>3, Entering
  <2>2. t = c /\ t \notin Callers
    <3>1. t \notin Callers
      <4>1. s # NoRun /\ parentOf[s] # NoRun /\ req[t].run = s
        BY <1>1, <1>2, <2>1, RunFacts
      <4> QED BY <4>1 DEF RunInv, Owned
    <3>2. t \in RunId
      BY <3>1 DEF Threads
    <3>3. parentOf[req[t].run] = t
      BY <1>1, <2>1, <3>2, RunFacts DEF RunInv, Owned
    <3> QED BY <2>1, <3>1, <3>3
  <2>3. pc'[t] = "c-publish" /\ req' = req
    BY <1>0, <1>3, <2>1, <2>2 DEF Promote, Goto
  <2> QED BY <1>2, <2>1, <2>2, <2>3
<1>4. CASE s \in processes
  <2>1. pc[c] \in {"c-publish", "c-wait"} /\ req[c].run = s
    BY <1>2, <1>4, RunFacts DEF CompoundInv, StepInv, LiveSteps
  <2>2. CASE Rests(c)
    BY <1>2, <2>1, <2>2 DEF Rests
  <2>3. CASE Coordinator(c)
    <3>1. ~CoordWait(c)
      BY <1>2, <1>4, <2>1, WaitedFor DEF IsoInv
    <3>2. CoordPublish(c)
      BY <2>1, <2>3, <3>1 DEF Coordinator, CoordStep, CoordRecord, CoordFinish, CoordClose
    <3>3. pc'[c] = "c-wait" /\ req' = req
      BY <1>2, <3>2, CoordinatorsAlone DEF CoordPublish
    <3> QED BY <1>2, <2>1, <3>3
  <2>4. CASE Launch(c)
    BY <2>1, <2>4 DEF Launch, LaunchRejected, ReserveFresh, ReserveStep, Spawn, Promote,
       FinishReservation, EmitRunning
  <2>5. c # nextRunSeq + 1
    BY <1>0, <1>2, RunFacts
  <2>6. Rests(c) \/ Coordinator(c) \/ Launch(c)
    BY <1>2, <2>5, OneMoves DEF IsoInv
  <2> QED BY <2>2, <2>3, <2>4, <2>6
<1> QED BY <1>3, <1>4

\* A run that becomes a step in this step of the program is pending.
LEMMA NewSteps ==
  ASSUME [Next]_vars, NEW s \in RunId, parentOf[s] = NoRun, parentOf'[s] # NoRun
  PROVE  stepState'[s] = "pending"
<1>1. PICK t \in Callers : StartCompound(t)
  BY PlansKept
<1> DEFINE plan == (nextRunSeq + 1 + 1)..(nextRunSeq + 1 + Len(Steps[req[t].profile]))
<1>2. /\ parentOf' = [r \in RunId |-> IF r \in plan THEN nextRunSeq + 1 ELSE parentOf[r]]
      /\ stepState' = [r \in RunId |-> IF r \in plan THEN "pending" ELSE stepState[r]]
  BY <1>1 DEF StartCompound
<1> HIDE DEF plan
<1> QED BY <1>2

\* The step that a coordinator is at is the only one that its launch touches.
LEMMA Launched ==
  ASSUME RunInv, CompoundInv, NEW t \in Threads, pc[t] \in {"check", "promote"},
         NEW s \in RunId, parentOf[s] # NoRun, req[t].run = s
  PROVE  t = parentOf[s] /\ t \in RunId /\ stepState[s] = "running"
<1>1. s # NoRun /\ t \notin Callers
  BY RunFacts DEF RunInv, Owned
<1>2. t \in RunId
  BY <1>1 DEF Threads
<1>3. parentOf[s] = t
  BY <1>1, <1>2 DEF RunInv, Owned
<1> QED BY <1>2, <1>3 DEF CompoundInv, Coordinates, Working, AtStep

\* The state of a step that is not its coordinator's current one is final.
LEMMA StateStays ==
  ASSUME RunInv, Asked, CompoundInv, [Next]_vars, NEW s \in RunId, parentOf[s] # NoRun,
         s \in processes => pc[parentOf[s]] \notin {"c-publish", "c-wait"},
         \A t \in Threads : req[t].run = s => pc[t] # "promote"
  PROVE  state'[s] = state[s]
<1>1. s \notin processes
  BY DEF CompoundInv, StepInv, LiveSteps
<1>2. ~CoordFinish(s)
  BY DEF RunInv, SpawnedOnce, CoordFinish
<1>3. ~ \E t \in Threads : Promote(t) /\ req[t].run = s
  BY DEF Promote
<1>4. s # nextRunSeq + 1
  BY RunsKnown DEF RunInv, Unused
<1> QED BY <1>1, <1>2, <1>3, <1>4, StateMoves DEF Becomes

LEMMA ToldStep ==
  ASSUME RunInv, Asked, IsoInv, CompoundInv, [Next]_vars PROVE Told'
<1> SUFFICES ASSUME NEW s \in RunId, parentOf'[s] # NoRun
             PROVE  /\ stepState'[s] = "success" => state'[s] = "success"
                    /\ stepState'[s] = "skipped" => os'[s] = "none"
  BY DEF Told
<1>0. nextRunSeq \in Nat /\ s \in Nat /\ Advances(s)
  BY RunsKnown, RunFacts, StepMoves
<1>1. CASE s > nextRunSeq
  <2>1. parentOf[s] = NoRun
    BY <1>1 DEF RunInv, Unused
  <2>2. stepState'[s] = "pending"
    BY <1>0, <2>1, NewSteps
  <2> QED BY <2>2
<1>2. CASE s <= nextRunSeq
  <2>1. parentOf[s] = parentOf'[s] /\ ~(s > nextRunSeq)
    BY <1>0, <1>2, Splits, IdsStable DEF IsoInv, Ids
  <2>2. ASSUME stepState[s] = "success" PROVE state'[s] = "success"
    <3>1. state[s] = "success"
      BY <2>1, <2>2 DEF CompoundInv, StepInv, Told
    <3>2. s \in processes => pc[parentOf[s]] \notin {"c-publish", "c-wait"}
      <4>1. parentOf[s] \in RunId
        BY <2>1 DEF RunInv, Shape
      <4> QED BY <2>1, <2>2, <4>1 DEF CompoundInv, StepInv, LiveSteps, Coordinates, Working, AtStep
    <3>3. \A t \in Threads : req[t].run = s => pc[t] # "promote"
      BY <2>1, <2>2, Launched
    <3> QED BY <2>1, <3>1, <3>2, <3>3, StateStays
  <2>3. ASSUME stepState[s] = "skipped" PROVE os'[s] = "none"
    <3>1. os[s] = "none"
      BY <2>1, <2>3 DEF CompoundInv, StepInv, Told
    <3>2. \A t \in Threads : req[t].run = s => pc[t] # "check"
      BY <2>1, <2>3, Launched
    <3> QED BY <3>1, <3>2, Spawning DEF Spawn
  <2>4. ASSUME NEW c \in RunId, CoordRecord(c), s = current[c],
               stepState'[s] = StepOutcome(result[c])
        PROVE  /\ stepState'[s] = "success" => state'[s] = "success"
               /\ stepState'[s] # "skipped"
    <3>1. Recorded(c) /\ s = req[c].run /\ state' = state
      BY <2>4 DEF CoordRecord, CompoundInv, Coordinates, Working, AtStep
    <3> QED BY <2>4, <3>1 DEF Recorded, StepOutcome
  <2>5. ASSUME NEW c \in RunId, CoordFinish(c), stepState[s] = "pending" PROVE os'[s] = "none"
    BY <2>5 DEF CoordFinish, RunInv, SpawnedOnce, procVars
  <2> QED BY <1>0, <2>1, <2>2, <2>3, <2>4, <2>5 DEF Advances
<1> QED BY <1>0, <1>1, <1>2

\* A step that succeeded is not touched again.
LEMMA SuccessStays ==
  ASSUME RunInv, Asked, CompoundInv, [Next]_vars, NEW s \in RunId, parentOf[s] # NoRun,
         stepState[s] \in {"success", "skipped"}
  PROVE  stepState'[s] = stepState[s]
<1>1. ASSUME NEW c \in RunId, CoordRecord(c) PROVE s # current[c]
  BY <1>1 DEF CoordRecord, CompoundInv, Coordinates, Working, AtStep
<1>2. ~(s > nextRunSeq)
  BY DEF RunInv, Unused
<1> QED BY <1>1, <1>2, StepMoves DEF Advances

LEMMA InOrderStep ==
  ASSUME RunInv, Asked, IsoInv, CompoundInv, [Next]_vars PROVE InOrder'
<1> SUFFICES ASSUME NEW c \in RunId, NEW s \in RunId, NEW u \in RunId,
                    parentOf'[s] = c, parentOf'[u] = c, s < u,
                    stepState'[u] \notin {"pending", "skipped"}
             PROVE  stepState'[s] = "success"
  BY DEF InOrder, PlanOf
<1>0. /\ nextRunSeq \in Nat /\ s \in Nat /\ u \in Nat /\ c # NoRun
      /\ Advances(u) /\ Advances(s)
  BY RunsKnown, RunFacts, StepMoves
<1>1. u <= nextRunSeq
  <2> SUFFICES ASSUME u > nextRunSeq PROVE FALSE
    BY <1>0
  <2>1. parentOf[u] = NoRun
    BY DEF RunInv, Unused
  <2> QED BY <1>0, <2>1, NewSteps
<1>2. s <= nextRunSeq /\ ~(u > nextRunSeq)
  BY <1>0, <1>1
<1>3. parentOf[s] = c /\ parentOf[u] = c
  BY <1>1, <1>2, Splits, IdsStable DEF IsoInv, Ids
<1>4. CASE stepState[u] \notin {"pending", "skipped"}
  <2>1. stepState[s] = "success"
    BY <1>3, <1>4 DEF CompoundInv, StepInv, InOrder, PlanOf
  <2> QED BY <1>0, <1>3, <2>1, SuccessStays
<1>5. CASE stepState[u] = "skipped"
  BY <1>0, <1>3, <1>5, SuccessStays
<1>6. CASE stepState[u] = "pending"
  <2>1. ~(\E x \in RunId : CoordRecord(x) /\ u = current[x])
    BY <1>6 DEF CoordRecord, CompoundInv, Coordinates, Working, AtStep
  <2>2. CoordStep(c) /\ \A x \in PendingSteps(c) : u <= x
    BY <1>0, <1>2, <1>3, <1>6, <2>1 DEF Advances
  <2>3. stepState[s] # "pending"
    BY <1>0, <1>3, <2>2 DEF PendingSteps, PlanOf
  <2>4. pc[c] = "c-loop"
    BY <2>2 DEF CoordStep
  <2>5. stepState[s] = "success"
    BY <1>3, <2>3, <2>4 DEF CompoundInv, Coordinates, All, PlanOf
  <2> QED BY <1>0, <1>3, <2>5, SuccessStays
<1> QED BY <1>4, <1>5, <1>6

-----------------------------------------------------------------------------
(***************************************************************************)
(* The coordinators: one that rests keeps what it knows of its steps, and  *)
(* so does each of its moves.                                              *)
(***************************************************************************)
\* The plan of an aggregate and the states of its steps stay.
StepsStay(c) ==
  /\ \A s \in RunId : parentOf'[s] = c <=> parentOf[s] = c
  /\ \A s \in PlanOf(c) : stepState'[s] = stepState[s]

LEMMA PlanStays ==
  ASSUME RunInv, Asked, [Next]_vars, NEW c \in RunId,
         ~ \E t \in Callers : StartCompound(t) /\ c = nextRunSeq + 1
  PROVE  \A s \in RunId : parentOf'[s] = c <=> parentOf[s] = c
<1>1. CASE parentOf' = parentOf
  BY <1>1
<1>2. ASSUME NEW t \in Callers, StartCompound(t)
      PROVE \A s \in RunId : parentOf'[s] = c <=> parentOf[s] = c
  <2> DEFINE plan == (nextRunSeq + 1 + 1)..(nextRunSeq + 1 + Len(Steps[req[t].profile]))
  <2>1. parentOf' = [r \in RunId |-> IF r \in plan THEN nextRunSeq + 1 ELSE parentOf[r]]
    BY <1>2 DEF StartCompound
  <2>2. \A s \in RunId : s \in plan => s > nextRunSeq
    BY <1>2, StartOf, RunsKnown, RunFacts
  <2>3. \A s \in plan \cap RunId : parentOf[s] = NoRun
    BY <2>2 DEF RunInv, Unused
  <2>4. c # nextRunSeq + 1 /\ c # NoRun
    BY <1>2, RunFacts
  <2> HIDE DEF plan
  <2> QED BY <2>1, <2>3, <2>4
<1> QED BY <1>1, <1>2, PlansKept

LEMMA NotStarted ==
  ASSUME RunInv, Asked, NEW c \in RunId, Rests(c) \/ pc[c] # "idle"
  PROVE  ~ \E t \in Callers : StartCompound(t) /\ c = nextRunSeq + 1
<1>1. ASSUME NEW t \in Callers, StartCompound(t), c = nextRunSeq + 1 PROVE FALSE
  BY <1>1, StartAlone DEF Rests
<1> QED BY <1>1

LEMMA RestingSteps ==
  ASSUME RunInv, Asked, CompoundInv, [Next]_vars, NEW c \in RunId, Rests(c)
  PROVE  StepsStay(c)
<1>0. pc \in [Threads -> PC] /\ c \in Threads /\ c # NoRun
  BY RunFacts DEF RunInv, Shape, Threads
<1>1. ~CoordStep(c) /\ ~CoordRecord(c) /\ ~CoordFinish(c)
  BY <1>0 DEF CoordStep, CoordRecord, CoordFinish, Goto, Rests
<1>2. \A s \in PlanOf(c) : ~(s > nextRunSeq)
  BY <1>0 DEF RunInv, Unused, PlanOf
<1>3. \A s \in PlanOf(c) : stepState'[s] = stepState[s]
  BY <1>1, <1>2, StepMoves DEF Advances, PlanOf
<1> QED BY <1>3, NotStarted, PlanStays DEF StepsStay

LEMMA CurrentStays ==
  ASSUME CompoundInv, RunInv, Asked, [Next]_vars, NEW c \in RunId, Rests(c)
  PROVE  current'[c] = current[c]
<1>0. pc \in [Threads -> PC] /\ c \in Threads /\ current \in [RunId -> Nat]
  BY DEF RunInv, Shape, Threads, CompoundInv, CompoundTypes
<1>1. ~CoordStep(c)
  BY <1>0 DEF CoordStep, Goto, Rests
<1>2. ASSUME NEW t \in Callers, StartCompound(t) PROVE current'[c] = current[c]
  <2>1. current' = [current EXCEPT ![nextRunSeq + 1] = nextRunSeq + 1 + 1]
    BY <1>2 DEF StartCompound
  <2>2. c # nextRunSeq + 1
    BY <1>2, NotStarted
  <2> QED BY <1>0, <2>1, <2>2
<1>3. ASSUME NEW t, Promote(t) \/ EmitRunning(t) \/ CoordPublish(t) \/ CoordRecord(t)
                    \/ CoordFinish(t) \/ WaitProcess(t)
      PROVE UNCHANGED current
  BY <1>3 DEF Promote, EmitRunning, CoordPublish, CoordRecord, CoordFinish, WaitProcess, compVars
<1>4. ASSUME NEW x \in RunId, CoordStep(x) PROVE current'[c] = current[c]
  <2>1. UNCHANGED current \/ \E y : current' = [current EXCEPT ![x] = y]
    BY <1>4 DEF CoordStep
  <2>2. x # c
    BY <1>1, <1>4
  <2> QED BY <1>0, <2>1, <2>2
<1> QED BY <1>2, <1>3, <1>4, Effects DEF Moving, Planned

\* An aggregate that is running, or that had steps, keeps its state.
LEMMA AggregateStays ==
  ASSUME RunInv, Asked, CompoundInv, [Next]_vars, NEW c \in RunId, ~CoordFinish(c),
         ~ \E t \in Callers : StartCompound(t) /\ c = nextRunSeq + 1,
         pc[c] # "idle" \/ PlanOf(c) # {}
  PROVE  state'[c] = state[c]
<1>1. os[c] = "none"
  <2>1. CASE pc[c] # "idle"
    BY <2>1 DEF RunInv, SpawnedOnce
  <2>2. CASE PlanOf(c) # {}
    BY <2>2, RunFacts DEF CompoundInv, StepInv, Aggregates, PlanOf
  <2> QED BY <2>1, <2>2
<1>2. c \notin processes
  BY <1>1 DEF RunInv, Reaped
<1>3. ASSUME NEW t \in Threads, Promote(t), req[t].run = c PROVE FALSE
  BY <1>1, <1>3 DEF Promote, RunInv, Reaped
<1> QED BY <1>2, <1>3, StateMoves DEF Becomes

\* What is known of the steps stays with them.
LEMMA StepsKnown ==
  ASSUME NEW c \in RunId, StepsStay(c)
  PROVE  /\ PlanOf(c)' = PlanOf(c)
         /\ \A S : All(c, S)' <=> All(c, S)
         /\ Succeeds(c)' <=> Succeeds(c)
         /\ SomeFailed(c)' <=> SomeFailed(c)
<1>1. PlanOf(c)' = PlanOf(c)
  BY DEF StepsStay, PlanOf
<1>2. \A S : (All(c, S)' <=> All(c, S))
  BY <1>1 DEF StepsStay, All
<1>3. SomeFailed(c)' <=> SomeFailed(c)
  BY <1>1 DEF StepsStay, SomeFailed
<1>4. Succeeds(c)' <=> Succeeds(c)
  BY <1>1 DEF Succeeds, All, StepsStay
<1> QED BY <1>1, <1>2, <1>3, <1>4

LEMMA RestingCoordinates ==
  ASSUME RunInv, Asked, IsoInv, CompoundInv, [Next]_vars, NEW c \in RunId, Rests(c)
  PROVE  Coordinates(c)'
<1>0. Coordinates(c) /\ pc'[c] = pc[c] /\ req'[c].run = req[c].run /\ result'[c] = result[c]
  BY DEF CompoundInv, Rests
<1>1. StepsStay(c)
  BY RestingSteps
<1>2. ~CoordFinish(c)
  BY DEF CoordFinish, Goto, Rests, RunInv, Shape, Threads
<1>3. pc[c] # "idle" \/ PlanOf(c) # {} => state'[c] = state[c]
  BY <1>2, AggregateStays, NotStarted
<1>4. pc'[c] \notin {"idle", "c-close"} => state'[c] = "running"
  BY <1>0, <1>3 DEF Coordinates
<1>5. pc'[c] = "c-loop" => All(c, {"success", "pending"})'
  BY <1>0, <1>1 DEF Coordinates, All, StepsStay, PlanOf
<1>6. pc'[c] \in Working => AtStep(c)'
  BY <1>0, <1>1, CurrentStays DEF Coordinates, AtStep, StepsStay, PlanOf
<1>7. pc'[c] = "c-wait" => waiting'[req'[c].run]
  <2>1. pc[c] = "c-wait" => req[c].run \in RunId /\ waiting[req[c].run]
    BY <1>0 DEF Coordinates, AtStep, Working, PlanOf
  <2> QED BY <1>0, <2>1, Splits, WaitingKeeps
<1>8. pc'[c] = "c-record" => Recorded(c)'
  <2> SUFFICES ASSUME pc[c] = "c-record" PROVE Recorded(c)'
    BY <1>0
  <2> DEFINE r == req[c].run
  <2>1. Recorded(c) /\ r \in RunId /\ parentOf[r] = c /\ c # NoRun /\ c \in Threads
    BY <1>0, RunFacts DEF Coordinates, AtStep, Working, PlanOf, Threads
  <2>2. \A t \in Threads : req[t].run = r => pc[t] # "promote"
    BY <2>1, Launched
  <2>3. state'[r] = state[r]
    BY <2>1, <2>2, StateStays
  <2> QED BY <1>0, <2>1, <2>3 DEF Recorded
<1>9. pc'[c] = "c-finish" => Decided(c)'
  BY <1>0, <1>1, StepsKnown DEF Coordinates, Decided
<1>10. pc'[c] \in {"idle", "c-close"} => Over(c)'
  BY <1>0, <1>1, <1>3, StepsKnown DEF Coordinates, Over
<1>11. pc'[c] = "abandon" => result'[c] \in {"invalidated", "setup"}
  BY <1>0 DEF Coordinates
<1> QED BY <1>4, <1>5, <1>6, <1>7, <1>8, <1>9, <1>10, <1>11 DEF Coordinates

\* A coordinator that works at its step moves on without touching the steps.
LEMMA WorksOn ==
  ASSUME CompoundInv, NEW c \in RunId, pc[c] \in Working,
         UNCHANGED <<parentOf, stepState, current>>, state'[c] = state[c],
         req'[c].run = req[c].run, pc'[c] \in Working,
         pc'[c] = "c-wait" => waiting'[req[c].run],
         pc'[c] = "abandon" => result'[c] \in {"invalidated", "setup"},
         pc'[c] = "c-record" => Recorded(c)'
  PROVE  Coordinates(c)'
<1>1. AtStep(c)'
  BY DEF CompoundInv, Coordinates, AtStep, PlanOf
<1>2. state'[c] = "running"
  BY DEF CompoundInv, Coordinates, Working
<1> QED BY <1>1, <1>2 DEF Coordinates, Working

LEMMA FailedLaunch ==
  ASSUME RunInv, CompoundInv, NEW c \in RunId, pc[c] \in Working,
         NEW why \in {"invalidated", "setup"}, LaunchFails(c, why),
         UNCHANGED <<parentOf, stepState, current, state>>
  PROVE  Coordinates(c)'
<1>1. c \in Threads /\ c \notin Callers /\ result \in [Threads -> Result]
  BY RunFacts DEF Threads, CompoundInv, CompoundTypes
<1>2. pc'[c] = "c-record" /\ result'[c] = why /\ req' = req
  BY <1>1 DEF LaunchFails, Goto, RunInv, Shape
<1>3. Recorded(c)'
  BY <1>2 DEF Recorded
<1> QED BY <1>2, <1>3, WorksOn DEF Working

LEMMA LaunchCoordinates ==
  ASSUME RunInv, IsoInv, CompoundInv, NEW c \in RunId, Launch(c)
  PROVE  Coordinates(c)'
<1>0. /\ c \in Threads /\ c \notin Callers /\ pc \in [Threads -> PC]
      /\ result \in [Threads -> Result] /\ state \in [RunId -> RunState]
  BY RunFacts DEF Threads, RunInv, Shape, CompoundInv, CompoundTypes
<1> USE DEF compVars, procVars, identity
<1>1. ASSUME NEW why \in {"invalidated", "setup"}, Abandon(c, why), pc[c] \in Working,
             UNCHANGED <<parentOf, stepState, current, state>>
      PROVE  Coordinates(c)'
  <2>1. pc'[c] = "abandon" /\ result'[c] = why /\ req' = req
    BY <1>0, <1>1 DEF Abandon, Goto
  <2> QED BY <1>1, <2>1, WorksOn DEF Working
<1>2. CASE LaunchRejected(c)
  <2>1. /\ pc[c] \in Working /\ UNCHANGED <<parentOf, stepState, current, state>>
        /\ LaunchFails(c, "invalidated") \/ LaunchFails(c, "setup")
    BY <1>2 DEF LaunchRejected, Working
  <2> QED BY <2>1, FailedLaunch
<1>3. CASE ReserveStep(c)
  <2>1. /\ pc[c] \in Working /\ UNCHANGED <<stepState, current, state>>
        /\ LaunchFails(c, "setup") \/ (Goto(c, "check") /\ UNCHANGED req)
        /\ UNCHANGED parentOf
    BY <1>3 DEF ReserveStep, Working
  <2>2. CASE Goto(c, "check") /\ UNCHANGED req
    <3>1. pc'[c] = "check"
      BY <1>0, <2>2 DEF Goto
    <3> QED BY <2>1, <2>2, <3>1, WorksOn DEF Working
  <2> QED BY <2>1, <2>2, FailedLaunch
<1>4. CASE Spawn(c)
  <2>1. /\ pc[c] \in Working /\ UNCHANGED <<parentOf, stepState, current, state>>
        /\ \/ Abandon(c, "invalidated") \/ Abandon(c, "setup")
           \/ Goto(c, "promote") /\ UNCHANGED req
    BY <1>4 DEF Spawn, Working
  <2>2. CASE Goto(c, "promote") /\ UNCHANGED req
    <3>1. pc'[c] = "promote"
      BY <1>0, <2>2 DEF Goto
    <3> QED BY <2>1, <2>2, <3>1, WorksOn DEF Working
  <2> QED BY <1>1, <2>1, <2>2
<1>5. CASE Promote(c)
  <2>1. /\ pc[c] \in Working /\ UNCHANGED <<parentOf, stepState, current>>
        /\ \/ Abandon(c, "invalidated") /\ UNCHANGED state
           \/ /\ Goto(c, "c-publish") /\ UNCHANGED req
              /\ state' = [state EXCEPT ![req[c].run] = "running"]
    BY <1>0, <1>5 DEF Promote, Working
  <2>2. CASE /\ Goto(c, "c-publish") /\ UNCHANGED req
             /\ state' = [state EXCEPT ![req[c].run] = "running"]
    <3>1. pc'[c] = "c-publish"
      BY <1>0, <2>2 DEF Goto
    <3>2. req[c].run # c
      BY <1>0, <2>1 DEF RunInv, SpawnedOnce, Working
    <3>3. state'[c] = state[c]
      BY <1>0, <2>2, <3>2
    <3> QED BY <2>1, <2>2, <3>1, <3>3, WorksOn DEF Working
  <2> QED BY <1>1, <2>1, <2>2
<1>6. CASE FinishReservation(c)
  <2>1. /\ pc[c] = "abandon" /\ UNCHANGED <<parentOf, stepState, current, state>>
        /\ LaunchFails(c, result[c])
    BY <1>6 DEF FinishReservation
  <2>2. result[c] \in {"invalidated", "setup"}
    BY <2>1 DEF CompoundInv, Coordinates
  <2> QED BY <2>1, <2>2, FailedLaunch DEF Working
<1>7. ~EmitRunning(c) /\ ~ReserveFresh(c)
  BY <1>0 DEF EmitRunning, ReserveFresh, IsoInv, Coordinated
<1> QED BY <1>2, <1>3, <1>4, <1>5, <1>6, <1>7 DEF Launch

\* The loop of runCompound: all steps have succeeded, a cancel is seen, or the
\* next step is taken.
LEMMA LoopCoordinates ==
  ASSUME RunInv, CompoundInv, NEW c \in RunId, CoordStep(c) PROVE Coordinates(c)'
<1>0. /\ c \in Threads /\ pc \in [Threads -> PC] /\ req \in [Threads -> Request]
      /\ result \in [Threads -> Result] /\ stepState \in [RunId -> StepState]
      /\ current \in [RunId -> Nat]
      /\ PendingSteps(c) \in SUBSET RunId
  BY DEF Threads, RunInv, Shape, CompoundInv, CompoundTypes, PendingSteps, PlanOf
<1>1. /\ pc[c] = "c-loop" /\ state[c] = "running" /\ All(c, {"success", "pending"})
      /\ UNCHANGED <<parentOf, state>>
  BY DEF CompoundInv, Coordinates, CoordStep, identity
<1>2. CASE PendingSteps(c) = {} /\ Goto(c, "c-finish") /\ UNCHANGED stepState
           /\ result' = [result EXCEPT ![c] = "success"]
  <2>1. pc'[c] = "c-finish" /\ result'[c] = "success"
    BY <1>0, <1>2 DEF Goto
  <2>2. \A s \in PlanOf(c) : stepState[s] = "success"
    BY <1>1, <1>2 DEF All, PendingSteps
  <2>3. Decided(c)'
    BY <1>1, <1>2, <2>1, <2>2 DEF Decided, All, Succeeds, SomeFailed, PlanOf, Settled
  <2> QED BY <1>1, <2>1, <2>3 DEF Coordinates, Working
<1>3. CASE PendingSteps(c) # {} /\ Goto(c, "c-finish") /\ UNCHANGED stepState
           /\ result' = [result EXCEPT ![c] = "cancelled"]
  <2>1. pc'[c] = "c-finish" /\ result'[c] = "cancelled"
    BY <1>0, <1>3 DEF Goto
  <2>2. /\ \E s \in PlanOf(c) : stepState[s] = "pending"
        /\ \A s \in PlanOf(c) : stepState[s] \in {"success", "pending"}
    BY <1>1, <1>3 DEF All, PendingSteps
  <2>3. Decided(c)'
    BY <1>1, <1>3, <2>1, <2>2 DEF Decided, All, Succeeds, SomeFailed, PlanOf, Settled
  <2> QED BY <1>1, <2>1, <2>3 DEF Coordinates, Working
<1>4. ASSUME NEW s \in PendingSteps(c), Goto(c, "reserve"),
             current' = [current EXCEPT ![c] = s],
             stepState' = [stepState EXCEPT ![s] = "running"],
             req' = [req EXCEPT ![c].run = s]
      PROVE  Coordinates(c)'
  <2>1. pc'[c] = "reserve" /\ current'[c] = s
    BY <1>0, <1>4 DEF Goto
  <2>2. req'[c].run = s
    BY <1>0, <1>4 DEF Request
  <2>3. s \in RunId /\ s \in PlanOf(c)
    BY <1>0, <1>4 DEF PendingSteps
  <2>4. stepState'[s] = "running" /\ \A x \in RunId : x # s => stepState'[x] = stepState[x]
    BY <1>0, <1>4, <2>3
  <2>5. AtStep(c)'
    BY <1>1, <2>1, <2>2, <2>3, <2>4 DEF AtStep, All, PlanOf
  <2> QED BY <1>1, <2>1, <2>5 DEF Coordinates
<1> QED BY <1>0, <1>2, <1>3, <1>4, OldestIn DEF CoordStep

\* The end of a step is recorded: the loop goes on only after a success.
LEMMA RecordCoordinates ==
  ASSUME RunInv, CompoundInv, NEW c \in RunId, CoordRecord(c) PROVE Coordinates(c)'
<1> DEFINE r == req[c].run
<1>0. /\ c \in Threads /\ pc \in [Threads -> PC] /\ result \in [Threads -> Result]
      /\ stepState \in [RunId -> StepState]
  BY DEF Threads, RunInv, Shape, CompoundInv, CompoundTypes
<1>1. /\ pc[c] = "c-record" /\ state[c] = "running" /\ Recorded(c)
      /\ current[c] = r /\ r \in PlanOf(c) /\ r \in RunId
      /\ \A s \in PlanOf(c) : s # r => stepState[s] \in {"success", "pending"}
      /\ UNCHANGED <<parentOf, state>>
  BY DEF CompoundInv, Coordinates, Working, AtStep, CoordRecord, identity, PlanOf
<1>2. /\ stepState'[r] = StepOutcome(result[c])
      /\ \A x \in RunId : x # r => stepState'[x] = stepState[x]
  BY <1>0, <1>1 DEF CoordRecord
<1>3. PlanOf(c)' = PlanOf(c)
  BY <1>1 DEF PlanOf
<1>4. \A s \in PlanOf(c) : s # r => stepState'[s] \in {"success", "pending"}
  BY <1>1, <1>2 DEF PlanOf
<1>5. CASE result[c] = "success"
  <2>1. pc'[c] = "c-loop"
    BY <1>0, <1>5 DEF CoordRecord, Goto
  <2>2. stepState'[r] = "success"
    BY <1>2, <1>5 DEF StepOutcome
  <2>3. All(c, {"success", "pending"})'
    BY <1>3, <1>4, <2>2 DEF All
  <2> QED BY <1>1, <2>1, <2>3 DEF Coordinates, Working
<1>6. CASE result[c] # "success"
  <2>1. pc'[c] = "c-finish" /\ result'[c] = result[c]
    BY <1>0, <1>6 DEF CoordRecord, Goto
  <2>2. result[c] \in {"failed", "stopped", "invalidated", "setup"}
    BY <1>1, <1>6 DEF Recorded, Settled
  <2>3. /\ stepState'[r] \in {"failed", "stopped"}
        /\ stepState'[r] = "failed" <=> result[c] \in {"failed", "setup"}
    BY <1>2, <2>2 DEF StepOutcome
  <2>4. Decided(c)'
    BY <1>1, <1>3, <1>4, <2>1, <2>2, <2>3 DEF Decided, All, Succeeds, SomeFailed, Settled
  <2> QED BY <1>1, <2>1, <2>4 DEF Coordinates, Working
<1> QED BY <1>5, <1>6

\* finishCompound: what is pending is skipped.
LEMMA FinishCoordinates ==
  ASSUME RunInv, CompoundInv, NEW c \in RunId, CoordFinish(c) PROVE Coordinates(c)'
<1>0. c \in Threads /\ pc \in [Threads -> PC] /\ state \in [RunId -> RunState]
  BY DEF Threads, RunInv, Shape, CompoundInv, CompoundTypes
<1>1. /\ pc[c] = "c-finish" /\ Decided(c) /\ parentOf' = parentOf
      /\ pc'[c] = "c-close" /\ state'[c] = AggregateState(result[c])
      /\ stepState' = [s \in RunId |-> IF s \in PendingSteps(c) THEN "skipped" ELSE stepState[s]]
  BY <1>0 DEF CompoundInv, Coordinates, CoordFinish, identity, Goto
<1>2. PlanOf(c)' = PlanOf(c)
  BY <1>1 DEF PlanOf
<1>3. \A s \in PlanOf(c) : stepState'[s] = IF stepState[s] = "pending" THEN "skipped" ELSE stepState[s]
  BY <1>1 DEF PendingSteps, PlanOf
<1>4. All(c, Settled \cup {"skipped"})'
  BY <1>1, <1>2, <1>3 DEF Decided, All
<1>5. Succeeds(c)' <=> Succeeds(c)
  BY <1>2, <1>3 DEF Succeeds, All
<1>6. SomeFailed(c)' <=> SomeFailed(c)
  BY <1>2, <1>3 DEF SomeFailed
<1>7. /\ state'[c] = "success" <=> result[c] = "success"
      /\ state'[c] = "failed" <=> result[c] \in {"failed", "setup"}
  BY <1>1 DEF AggregateState
<1>8. Over(c)'
  BY <1>1, <1>4, <1>5, <1>6, <1>7 DEF Over, Decided
<1> QED BY <1>1, <1>8 DEF Coordinates, Working

LEMMA CoordinatorCoordinates ==
  ASSUME RunInv, Asked, IsoInv, CompoundInv, [Next]_vars, NEW c \in RunId, Coordinator(c)
  PROVE  Coordinates(c)'
<1>0. /\ c \in Threads /\ pc \in [Threads -> PC] /\ result \in [Threads -> Result]
      /\ waiting \in [RunId -> BOOLEAN]
  BY DEF Threads, RunInv, Shape, CompoundInv, CompoundTypes
<1> USE DEF identity, compVars
<1>1. CASE CoordPublish(c)
  <2>1. /\ pc[c] = "c-publish" /\ pc'[c] = "c-wait"
        /\ UNCHANGED <<parentOf, stepState, current, state, req>>
        /\ waiting' = [waiting EXCEPT ![req[c].run] = TRUE]
    BY <1>0, <1>1 DEF CoordPublish, Goto
  <2>2. req[c].run \in RunId
    BY <2>1 DEF CompoundInv, Coordinates, Working, AtStep, PlanOf
  <2> QED BY <1>0, <2>1, <2>2, WorksOn DEF Working
<1>2. CASE CoordWait(c)
  <2>1. /\ pc[c] = "c-wait" /\ pc'[c] = "c-record"
        /\ UNCHANGED <<parentOf, stepState, current, state, req>>
        /\ result'[c] = state[req[c].run]
    BY <1>0, <1>2 DEF CoordWait, Goto
  <2>2. Recorded(c)'
    BY <1>2, <2>1, WaitedFor DEF IsoInv, Recorded
  <2> QED BY <2>1, <2>2, WorksOn DEF Working
<1>3. CASE CoordClose(c)
  <2>1. /\ pc[c] = "c-close" /\ pc'[c] = "idle"
        /\ UNCHANGED <<parentOf, stepState, state>>
    BY <1>0, <1>3 DEF CoordClose, Return, Goto
  <2>2. StepsStay(c) /\ Over(c)
    BY <2>1 DEF StepsStay, CompoundInv, Coordinates
  <2>3. Over(c)'
    BY <2>1, <2>2, StepsKnown DEF Over
  <2> QED BY <2>1, <2>3 DEF Coordinates, Working
<1> QED
  BY <1>1, <1>2, <1>3, LoopCoordinates, RecordCoordinates, FinishCoordinates DEF Coordinator

LEMMA StartCoordinates ==
  ASSUME RunInv, Asked, CompoundInv, NEW t \in Callers, StartCompound(t),
         NEW c \in RunId, c = nextRunSeq + 1
  PROVE  Coordinates(c)'
<1> DEFINE plan == (c + 1)..(c + Len(Steps[req[t].profile]))
<1>1. /\ parentOf' = [r \in RunId |-> IF r \in plan THEN c ELSE parentOf[r]]
      /\ stepState' = [r \in RunId |-> IF r \in plan THEN "pending" ELSE stepState[r]]
      /\ state' = [state EXCEPT ![c] = "running"]
  BY DEF StartCompound
<1>2. pc'[c] = "c-loop"
  BY StartAlone
<1>3. \A r \in RunId : parentOf[r] # c
  <2>1. \A r \in RunId : parentOf[r] # NoRun => parentOf[r] <= nextRunSeq /\ parentOf[r] \in Nat
    BY RunFacts DEF CompoundInv, StepInv, Aggregates, RunInv, Shape
  <2> QED BY <1>2, <2>1, RunsKnown, RunFacts
<1> HIDE DEF plan
<1>4. state'[c] = "running"
  BY <1>1, <1>2 DEF CompoundInv, CompoundTypes
<1>5. All(c, {"success", "pending"})'
  BY <1>1, <1>3 DEF All, PlanOf
<1> QED BY <1>2, <1>4, <1>5 DEF Coordinates, Working

-----------------------------------------------------------------------------
(***************************************************************************)
(* The invariant and what follows from it.                                 *)
(***************************************************************************)
LEMMA CompoundInit == Init => CompoundInv
<1> SUFFICES ASSUME Init PROVE CompoundInv
  OBVIOUS
<1>1. CompoundTypes
  BY DEF Init, CompoundTypes, RunState, Result, NoRun
<1>2. \A r \in RunId : parentOf[r] = NoRun /\ ~waiting[r] /\ r \in Threads /\ pc[r] = "idle"
  BY DEF Init, Threads
<1>3. StepInv
  <2>1. \A c \in RunId : PlanOf(c) = {}
    BY <1>2, RunFacts DEF PlanOf
  <2> QED BY <1>2, <2>1 DEF Init, StepInv, Aggregates, Ended, LiveSteps, Told, InOrder
<1>4. \A c \in RunId : Coordinates(c)
  <2>1. \A c \in RunId : PlanOf(c) = {}
    BY <1>2, RunFacts DEF PlanOf
  <2> QED BY <1>2, <2>1 DEF Coordinates, Working, Over
<1> QED BY <1>1, <1>3, <1>4 DEF CompoundInv

LEMMA CompoundStep ==
  RunInv /\ Asked /\ IsoInv /\ CompoundInv /\ [Next]_vars => CompoundInv'
<1> SUFFICES ASSUME RunInv, Asked, IsoInv, CompoundInv, [Next]_vars PROVE CompoundInv'
  OBVIOUS
<1>1. CompoundTypes'
  BY TypesStep DEF IsoInv
<1>2. StepInv'
  BY AggregatesStep, EndedStep, LiveStepsStep, ToldStep, InOrderStep DEF StepInv
<1>3. ASSUME NEW c \in RunId PROVE Coordinates(c)'
  <2>1. CASE Rests(c)
    BY <2>1, RestingCoordinates
  <2>2. CASE Coordinator(c) \/ Launch(c)
    BY <2>2, CoordinatorCoordinates, LaunchCoordinates
  <2>3. CASE \E t \in Callers : StartCompound(t) /\ c = nextRunSeq + 1
    BY <2>3, StartCoordinates
  <2> QED BY <2>1, <2>2, <2>3, OneMoves DEF IsoInv
<1> QED BY <1>1, <1>2, <1>3 DEF CompoundInv

LEMMA CompoundFollows == RunInv /\ CompoundInv => CompoundSound
<1> SUFFICES ASSUME RunInv, CompoundInv PROVE CompoundSound
  OBVIOUS
<1>1. StepsInOrder
  <2> SUFFICES ASSUME NEW c \in RunId, NEW s \in PlanOf(c), NEW u \in PlanOf(c),
                      s < u, os[u] # "none"
               PROVE  stepState[s] = "success" /\ state[s] = "success"
    BY DEF StepsInOrder
  <2>1. parentOf[s] # NoRun /\ parentOf[u] # NoRun
    BY RunFacts DEF PlanOf
  <2>2. stepState[u] \notin {"pending", "skipped"}
    BY <2>1 DEF RunInv, SpawnedOnce, CompoundInv, StepInv, Told, PlanOf
  <2>3. stepState[s] = "success"
    BY <2>2 DEF CompoundInv, StepInv, InOrder
  <2> QED BY <2>1, <2>3 DEF CompoundInv, StepInv, Told, PlanOf
<1>2. AggregateSound
  <2> SUFFICES ASSUME NEW c \in RunId, PlanOf(c) # {}, state[c] \notin {"idle", "running"}
               PROVE  /\ \A s \in PlanOf(c) : /\ stepState[s] \notin {"pending", "running"}
                                             /\ s \notin processes
                      /\ (state[c] = "success") <=> (\A s \in PlanOf(c) : stepState[s] = "success")
                      /\ (state[c] = "failed") <=> (\E s \in PlanOf(c) : stepState[s] = "failed")
    BY DEF AggregateSound
  <2>1. pc[c] \in {"idle", "c-close"} /\ Over(c)
    BY DEF CompoundInv, Coordinates
  <2>2. \A s \in PlanOf(c) : stepState[s] \notin {"pending", "running"}
    BY <2>1 DEF Over, All, Settled
  <2>3. \A s \in PlanOf(c) : s \notin processes
    BY <2>1, RunFacts DEF CompoundInv, StepInv, LiveSteps, PlanOf
  <2> QED BY <2>1, <2>2, <2>3 DEF Over, Succeeds, All, SomeFailed
<1> QED BY <1>1, <1>2 DEF CompoundSound

(***************************************************************************)
(* A compound's steps run one after the other, each after the success of   *)
(* all the earlier ones, and its aggregate ends as they did: for any       *)
(* number of compounds and steps, whether the coordinator ran to the end,  *)
(* lost a reservation to a drain or to a competing run, was cancelled      *)
(* between two steps, or had its step stopped under it.                    *)
(***************************************************************************)
THEOREM CompoundSoundAlways == Spec => []CompoundSound
<1>1. Init => RunInv /\ Asked /\ DrainFull /\ IsoInv /\ CompoundInv
  BY AllInit, CompoundInit
<1>2. (RunInv /\ Asked /\ DrainFull /\ IsoInv /\ CompoundInv) /\ [Next]_vars
        => (RunInv /\ Asked /\ DrainFull /\ IsoInv /\ CompoundInv)'
  BY RunStep, AskedStep, DrainStep, IsoStep, CompoundStep
<1> QED BY <1>1, <1>2, CompoundFollows, PTL DEF Spec

=============================================================================
