------------------------ MODULE RunIsolationProofs ------------------------
(***************************************************************************)
(* Proofs about RunExecutor, continued: a drain that StopAll finishes      *)
(* leaves an empty executor, whatever the launches, restarts and           *)
(* coordinators in flight were doing, and nothing older than the load of   *)
(* the root that is open is left while admission is open.                  *)
(***************************************************************************)
EXTENDS RunExecutorProofs

\* What a run's profile and a profile's kept results are.
Named ==
  /\ profileOf \in [RunId -> Profiles \cup {NoRun}]
  /\ terminalIds \in [Profiles -> SUBSET RunId] /\ lastStatus \subseteq RunId
  /\ reason \in [RunId -> BOOLEAN]
  /\ killed \in [RunId -> BOOLEAN]
  /\ \A r \in processes \cup reservations \cup compounds : profileOf[r] \in Profiles
  /\ \A r \in RunId : parentOf[r] # NoRun => profileOf[r] \in Profiles

\* An aggregate is live while its coordinator runs, and no coordinator emits for
\* a bound call.
Coordinated ==
  \A c \in RunId : (c \in compounds <=> pc[c] \notin {"idle", "c-close"}) /\ pc[c] # "emit"

\* Between the spawn and the promotion the reservation is held.
Held == \A t \in Threads : pc[t] = "promote" => req[t].run \in reservations

\* Who is done is in no table, and will not be again.
Closed ==
  \A r \in RunId : done[r] =>
    /\ r \notin processes \cup compounds
    /\ waiting[r] \/ os[r] = "none"

\* A process that runs outside the table is about to be promoted, or was killed.
Doomed ==
  \A r \in RunId : os[r] = "running" =>
    \/ r \in processes \/ killed[r]
    \/ \E t \in Threads : pc[t] = "promote" /\ req[t].run = r

AllRuns == processes \cup compounds \cup reservations
Remembered == lastStatus \cup UNION {terminalIds[p] : p \in Profiles}

\* All that is known is of the root that is open, or is being left.
Isolated ==
  /\ rootEpoch \in 0..workspaceEpoch
  /\ \A r \in AllRuns \cup Remembered : epochOf[r] \in rootEpoch..workspaceEpoch

\* What is older than a drain is in StopAll's copies until its answer, and then
\* in no table: a load that binds its root finds nothing of the root before.
CoveredBy(l, q) ==
  /\ l \in {"collected", "waiting", "late"} =>
       /\ \A r \in processes : r \in q.procs \/ epochOf[r] >= q.epoch
       /\ \A r \in compounds : r \in q.comps \/ epochOf[r] >= q.epoch
       /\ \A r \in reservations : r \in q.resvs \/ epochOf[r] >= q.epoch
  /\ l \in {"stopped", "cleared"} => \A r \in AllRuns : epochOf[r] >= q.epoch
  /\ l = "cleared" => \A r \in Remembered : epochOf[r] >= q.epoch
Covered == \A d \in Drainers : CoveredBy(dpc[d], dreq[d])

\* Inside the newest drain nothing is added to what StopAll has copied.
Emptied == processes = {} /\ compounds = {} /\ reservations = {}
InDrain(d) == draining /\ dreq[d].epoch = workspaceEpoch
Collected ==
  \A d \in Drainers : InDrain(d) =>
    /\ dpc[d] \in {"collected", "waiting", "late"} =>
         /\ processes \subseteq dreq[d].procs
         /\ compounds \subseteq dreq[d].comps
         /\ reservations \subseteq dreq[d].resvs
    /\ dpc[d] \in {"stopped", "cleared"} => Emptied
    /\ dpc[d] = "cleared" => lastStatus = {} /\ \A p \in Profiles : terminalIds[p] = {}

-----------------------------------------------------------------------------
(***************************************************************************)
(* A step is quiet when it moves threads that are not about to promote and *)
(* changes none of the tables; the other actions are named.                *)
(***************************************************************************)
Tables == <<nextRunSeq, workspaceEpoch, draining, rootEpoch, processes, reservations, compounds,
            terminalIds, lastStatus, profileOf, parentOf, epochOf, replaces, reason, os, killed,
            waiting, done, dpc, dreq>>

Steady(t) ==
  \/ pc'[t] = pc[t] /\ req'[t].run = req[t].run
  \/ /\ pc[t] \notin {"promote", "emit"} /\ pc'[t] \notin {"promote", "emit"}
     /\ t \in RunId => pc[t] \notin {"idle", "c-close"} /\ pc'[t] \notin {"idle", "c-close"}

Quiet == UNCHANGED Tables /\ \A t \in Threads : Steady(t)

Changes ==
  \/ \E t \in Callers : ReserveReplacement(t) \/ StartCompound(t)
  \/ \E t \in Threads : \/ ReserveFresh(t) \/ ReserveStep(t) \/ Spawn(t) \/ Promote(t)
                        \/ FinishReservation(t) \/ EmitRunning(t)
  \/ \E r \in RunId : CoordPublish(r) \/ CoordFinish(r) \/ CoordClose(r) \/ Process(r) \/ Exit(r)
  \/ \E d \in Drainers : BeginDrain(d) \/ StopAll(d) \/ Drained(d)

LEMMA QuietMove ==
  ASSUME RunInv, NEW t \in Threads, NEW l, Goto(t, l), NEW q, req' = [req EXCEPT ![t] = q],
         pc[t] \notin {"promote", "emit"}, l \notin {"promote", "emit"},
         t \in RunId => pc[t] \notin {"idle", "c-close"} /\ l \notin {"idle", "c-close"}
  PROVE  \A u \in Threads : Steady(u)
BY DEF RunInv, Shape, Goto, Steady

LEMMA QuietFail ==
  ASSUME RunInv, NEW t \in Threads, NEW why, LaunchFails(t, why),
         pc[t] \notin {"promote", "emit", "idle", "c-close"}
  PROVE  \A u \in Threads : Steady(u)
<1>1. CASE t \in Callers
  BY <1>1, RunFacts, QuietMove DEF LaunchFails, Return
<1>2. CASE t \notin Callers
  <2>1. \E l \in {"c-record"} : Goto(t, l)
    BY <1>2 DEF LaunchFails
  <2>2. \E q : req' = [req EXCEPT ![t] = q]
    <3>1. req = [req EXCEPT ![t] = req[t]]
      BY DEF RunInv, Shape
    <3> QED BY <1>2, <3>1 DEF LaunchFails
  <2> QED BY <2>1, <2>2, QuietMove
<1> QED BY <1>1, <1>2

LEMMA CallsQuiet == ASSUME RunInv, NEW t \in Callers, Call(t) PROVE Quiet
<1> USE DEF admission, tables, retention, identity, resVars, procVars, drainVars
<1>1. t \in Threads /\ t \notin RunId
  BY RunFacts DEF Threads
<1>2. ASSUME NEW l \in {"reserve", "r-lookup", "r-reserve", "s-instance", "s-signal",
                         "c-start", "rc-check", "sc-lookup"},
             pc[t] = "idle", Goto(t, l), NEW q, req' = [req EXCEPT ![t] = q], UNCHANGED Tables
      PROVE Quiet
  BY <1>1, <1>2, QuietMove DEF Quiet
<1>3. ASSUME NEW p, CallStart(t, p) \/ CallRestart(t, p) PROVE Quiet
  <2>1. UNCHANGED Tables /\ pc[t] = "idle"
    BY <1>3 DEF CallStart, CallRestart, Tables
  <2>2. \E l \in {"reserve", "r-lookup"} : Goto(t, l)
    BY <1>3 DEF CallStart, CallRestart
  <2>3. \E q : req' = [req EXCEPT ![t] = q]
    BY <1>3 DEF CallStart, CallRestart
  <2> QED BY <2>1, <2>2, <2>3, <1>2
<1>4. ASSUME NEW p, CallStartCompound(t, p) \/ CallRestartCompound(t, p) PROVE Quiet
  <2>1. UNCHANGED Tables /\ pc[t] = "idle"
    BY <1>4 DEF CallStartCompound, CallRestartCompound, Tables
  <2>2. \E l \in {"c-start", "rc-check"} : Goto(t, l)
    BY <1>4 DEF CallStartCompound, CallRestartCompound
  <2>3. \E q : req' = [req EXCEPT ![t] = q]
    BY <1>4 DEF CallStartCompound, CallRestartCompound
  <2> QED BY <2>1, <2>2, <2>3, <1>2
<1>5. ASSUME NEW p, CallStop(t, p) PROVE Quiet
  <2>1. UNCHANGED Tables /\ pc[t] = "idle"
    BY <1>5 DEF CallStop, Tables
  <2>2. \E l \in {"sc-lookup", "s-instance"} : Goto(t, l)
    BY <1>5 DEF CallStop
  <2>3. \E q : req' = [req EXCEPT ![t] = q]
    BY <1>5 DEF CallStop
  <2> QED BY <2>1, <2>2, <2>3, <1>2
<1>6. ASSUME NEW r, CallRestartInstance(t, r) \/ CallStopInstance(t, r) PROVE Quiet
  <2>1. UNCHANGED Tables /\ pc[t] = "idle"
    BY <1>6 DEF CallRestartInstance, CallStopInstance, Tables
  <2>2. \E l \in {"r-reserve", "s-signal"} : Goto(t, l)
    BY <1>6 DEF CallRestartInstance, CallStopInstance
  <2>3. \E q : req' = [req EXCEPT ![t] = q]
    BY <1>6 DEF CallRestartInstance, CallStopInstance
  <2> QED BY <2>1, <2>2, <2>3, <1>2
<1> QED BY <1>3, <1>4, <1>5, <1>6 DEF Call

LEMMA CallersQuiet ==
  ASSUME RunInv, NEW t \in Callers, CallerStep(t)
  PROVE  Quiet \/ ReserveReplacement(t) \/ StartCompound(t)
<1> USE DEF admission, tables, retention, identity, resVars, procVars, drainVars
<1>1. t \in Threads /\ t \notin RunId
  BY RunFacts DEF Threads
<1>2. ASSUME UNCHANGED Tables, pc[t] \notin {"promote", "emit"},
             \E l : l \notin {"promote", "emit"} /\ Goto(t, l),
             UNCHANGED req \/ \E q : req' = [req EXCEPT ![t] = q]
      PROVE Quiet
  <2>1. \E q : req' = [req EXCEPT ![t] = q]
    <3>1. req = [req EXCEPT ![t] = req[t]]
      BY DEF RunInv, Shape
    <3> QED BY <1>2, <3>1
  <2>2. \A u \in Threads : Steady(u)
    BY <1>1, <1>2, <2>1, QuietMove
  <2> QED BY <1>2, <2>2 DEF Quiet
<1>3. CASE RestartUnprepared(t) \/ CompoundRejected(t)
  BY <1>2, <1>3 DEF RestartUnprepared, CompoundRejected, Return, Tables
<1>4. CASE StopInstance(t) \/ StopSignal(t) \/ StopWait(t)
  <2>1. UNCHANGED Tables /\ pc[t] \notin {"promote", "emit"}
    BY <1>4 DEF StopInstance, StopSignal, StopWait, Tables
  <2>2. /\ \E l : l \notin {"promote", "emit"} /\ Goto(t, l)
        /\ UNCHANGED req \/ \E q : req' = [req EXCEPT ![t] = q]
    BY <1>4 DEF StopInstance, StopSignal, StopWait, AfterStop, Return
  <2> QED BY <2>1, <2>2, <1>2
<1>5. CASE CompoundLookup(t)
  <2>1. UNCHANGED Tables /\ pc[t] \notin {"promote", "emit"}
    BY <1>5 DEF CompoundLookup, Tables
  <2>2. /\ \E l : l \notin {"promote", "emit"} /\ Goto(t, l)
        /\ UNCHANGED req \/ \E q : req' = [req EXCEPT ![t] = q]
    BY <1>5 DEF CompoundLookup, AfterCompoundStop, Return
  <2> QED BY <2>1, <2>2, <1>2
<1>6. CASE CompoundCancel(t) \/ CompoundSignal(t) \/ CompoundWait(t)
  <2>1. UNCHANGED Tables /\ pc[t] \notin {"promote", "emit"}
    BY <1>6 DEF CompoundCancel, CompoundSignal, CompoundWait, Tables
  <2>2. /\ \E l : l \notin {"promote", "emit"} /\ Goto(t, l)
        /\ UNCHANGED req \/ \E q : req' = [req EXCEPT ![t] = q]
    BY <1>6 DEF CompoundCancel, CompoundSignal, CompoundWait, AfterCompoundStop, Return
  <2> QED BY <2>1, <2>2, <1>2
<1>7. CASE RestartLookup(t) \/ CompoundRestartStop(t)
  <2>1. UNCHANGED Tables /\ pc[t] \notin {"promote", "emit"}
    BY <1>7 DEF RestartLookup, CompoundRestartStop, Tables
  <2>2. \E l : l \notin {"promote", "emit"} /\ Goto(t, l)
    <3>1. \E l \in {"reserve", "r-reserve", "c-start", "sc-lookup"} : Goto(t, l)
      BY <1>7 DEF RestartLookup, CompoundRestartStop
    <3> QED BY <3>1
  <2>3. \E q : req' = [req EXCEPT ![t] = q]
    BY <1>7 DEF RestartLookup, CompoundRestartStop
  <2> QED BY <2>1, <2>2, <2>3, <1>2
<1>8. CASE CompoundRestartCheck(t)
  BY <1>2, <1>8 DEF CompoundRestartCheck, Return, Tables
<1> QED BY <1>3, <1>4, <1>5, <1>6, <1>7, <1>8 DEF CallerStep

LEMMA CoordinatorsQuiet ==
  ASSUME RunInv, NEW c \in RunId, Coordinator(c)
  PROVE  Quiet \/ CoordPublish(c) \/ CoordFinish(c) \/ CoordClose(c)
<1> USE DEF admission, tables, retention, identity, resVars, procVars, drainVars
<1>1. c \in Threads /\ req[c] \in Request /\ req = [req EXCEPT ![c] = req[c]]
  BY DEF Threads, RunInv, Shape
<1>2. ASSUME UNCHANGED Tables, pc[c] \notin {"promote", "emit", "idle", "c-close"},
             \E l : l \notin {"promote", "emit", "idle", "c-close"} /\ Goto(c, l),
             \E q : req' = [req EXCEPT ![c] = q]
      PROVE Quiet
  <2>1. \A u \in Threads : Steady(u)
    BY <1>1, <1>2, QuietMove
  <2> QED BY <1>2, <2>1 DEF Quiet
<1>3. CASE CoordStep(c)
  <2>1. UNCHANGED Tables /\ pc[c] = "c-loop"
    BY <1>3 DEF CoordStep, Tables
  <2>2. \E l \in {"c-finish", "reserve"} : Goto(c, l)
    BY <1>3 DEF CoordStep
  <2>3. \E q : req' = [req EXCEPT ![c] = q]
    BY <1>1, <1>3 DEF CoordStep
  <2> QED BY <2>1, <2>2, <2>3, <1>2
<1>4. CASE CoordWait(c) \/ CoordRecord(c)
  <2>1. UNCHANGED Tables /\ pc[c] \in {"c-wait", "c-record"}
    BY <1>4 DEF CoordWait, CoordRecord, Tables
  <2>2. \E l \in {"c-record", "c-loop", "c-finish"} : Goto(c, l)
    BY <1>4 DEF CoordWait, CoordRecord
  <2>3. \E q : req' = [req EXCEPT ![c] = q]
    BY <1>1, <1>4 DEF CoordWait, CoordRecord
  <2> QED BY <2>1, <2>2, <2>3, <1>2
<1> QED BY <1>3, <1>4 DEF Coordinator

LEMMA Splits == RunInv /\ [Next]_vars => Quiet \/ Changes
<1> SUFFICES ASSUME RunInv, [Next]_vars PROVE Quiet \/ Changes
  OBVIOUS
<1>1. ASSUME NEW t \in Threads, LaunchRejected(t) PROVE Quiet
  <2>1. UNCHANGED Tables /\ pc[t] = "reserve" /\ \E why : LaunchFails(t, why)
    BY <1>1 DEF LaunchRejected, Tables, admission, tables, retention, identity, resVars,
         procVars, drainVars
  <2> QED BY <2>1, QuietFail DEF Quiet
<1>2. CASE UNCHANGED vars
  BY <1>2 DEF vars, Quiet, Tables, Steady, admission, tables, retention, identity, resVars,
       procVars, threadVars, drainVars
<1> QED
  BY <1>1, <1>2, CallsQuiet, CallersQuiet, CoordinatorsQuiet DEF Next, Launch, Changes

-----------------------------------------------------------------------------
(***************************************************************************)
(* Profiles, kept results and reasons.                                     *)
(***************************************************************************)
LEMMA IsoInit ==
  Init => Named /\ Coordinated /\ Held /\ Closed /\ Doomed /\ Isolated /\ Covered
          /\ Collected /\ DrainTagged
<1>1. Init => Named /\ Coordinated /\ Held /\ Closed /\ Doomed /\ Collected /\ DrainTagged
  BY RunFacts DEF Init, Named, Coordinated, Held, Closed, Doomed, Collected, InDrain,
       DrainTagged, Threads
<1>2. Init => Isolated
  BY DEF Init, Isolated, AllRuns, Remembered
<1>3. Init => Covered
  BY DEF Init, Covered, CoveredBy
<1> QED BY <1>1, <1>2, <1>3

LEMMA Marked ==
  ASSUME NEW f \in [RunId -> BOOLEAN], NEW S
  PROVE  Mark(f, S) \in [RunId -> BOOLEAN] /\ \A r \in RunId : Mark(f, S)[r] <=> f[r] \/ r \in S
BY DEF Mark

LEMMA TablesOfRuns ==
  ASSUME RunInv
  PROVE  /\ processes \subseteq RunId /\ reservations \subseteq RunId /\ compounds \subseteq RunId
         /\ \A r \in processes \cup reservations \cup compounds : r <= nextRunSeq
<1>1. \A r \in processes \cup reservations \cup compounds : r \in 1..nextRunSeq
  BY DEF RunInv, Shape
<1>2. nextRunSeq \in Nat /\ MaxRuns \in Nat /\ nextRunSeq <= MaxRuns
  BY RunsKnown, ExecutorAssumption
<1> QED BY <1>1, <1>2 DEF RunId

LEMMA KeptOf == \A p, r : Kept(p, r) \subseteq terminalIds[p] \cup {r}
BY DEF Kept

\* What StartCompound does to the tables.
LEMMA StartOf ==
  ASSUME RunInv, Asked, NEW t \in Callers, StartCompound(t)
  PROVE  LET p == req[t].profile
             c == nextRunSeq + 1
             n == Len(Steps[p])
             plan == (c + 1)..(c + n)
         IN /\ p \in Compounds /\ n \in Nat /\ c \in RunId /\ plan \subseteq RunId /\ c \notin plan
            /\ \A r \in RunId : r <= nextRunSeq => r # c /\ r \notin plan
            /\ nextRunSeq' = c + n
            /\ \A r \in plan : Steps[p][r - c] \in Ordinary
            /\ t \in Threads /\ c \in Threads /\ t # c
<1> DEFINE p == req[t].profile
           c == nextRunSeq + 1
           n == Len(Steps[p])
           plan == (c + 1)..(c + n)
<1>1. p \in Compounds
  BY DEF StartCompound, Asked, AskedBy
<1>2. Steps[p] \in Seq(Ordinary)
  BY <1>1, ExecutorAssumption DEF Ordinary
<1>3. n \in Nat
  BY <1>2
<1>4. nextRunSeq \in Nat /\ MaxRuns \in Nat /\ c + n <= MaxRuns /\ nextRunSeq' = c + n
  BY RunsKnown, ExecutorAssumption DEF StartCompound
<1>5. \A k \in 1..n : Steps[p][k] \in Ordinary
  BY <1>2
<1> HIDE DEF n
<1>6. \A r \in plan : Steps[p][r - c] \in Ordinary
  <2>1. \A r \in plan : r - c \in 1..n
    BY <1>3, <1>4
  <2> QED BY <2>1, <1>5
<1>7. c \in RunId /\ plan \subseteq RunId /\ c \notin plan
  BY <1>3, <1>4 DEF RunId
<1>8. \A r \in RunId : r <= nextRunSeq => r # c /\ r \notin plan
  BY <1>3, <1>4 DEF RunId
<1>9. t \in Threads /\ c \in Threads /\ t # c
  BY <1>7, RunFacts DEF Threads
<1> QED BY <1>1, <1>3, <1>4, <1>6, <1>7, <1>8, <1>9 DEF n

\* The step that a coordinator reserves.
LEMMA StepOf ==
  ASSUME RunInv, NEW t \in RunId, pc[t] = "reserve"
  PROVE  /\ req[t].run \in RunId /\ parentOf[req[t].run] = t /\ req[t].run \notin compounds
         /\ t # NoRun
<1>1. t \in Threads /\ t # NoRun
  BY RunFacts DEF Threads
<1>2. req[t].run # NoRun /\ parentOf[req[t].run] = t
  BY DEF RunInv, Owned
<1> QED BY <1>1, <1>2, RunsKnown DEF RunInv, Disjoint

LEMMA NamedStep == ASSUME RunInv, Asked, Named, Coordinated, Changes PROVE Named'
<1> USE DEF admission, tables, retention, identity, resVars, procVars, drainVars
<1> DEFINE Live == processes \cup reservations \cup compounds
<1>0. /\ Live \subseteq RunId
      /\ nextRunSeq \in Nat
  BY TablesOfRuns, RunsKnown
<1>1. ASSUME NEW t \in Callers, ReserveReplacement(t) \/ ReserveFresh(t) PROVE Named'
  <2> DEFINE r == nextRunSeq + 1
  <2>1. UNCHANGED <<retention, reason, killed, processes, compounds, parentOf>>
    BY <1>1 DEF ReserveReplacement, ReserveFresh
  <2>2. CASE UNCHANGED <<reservations, profileOf>>
    BY <2>1, <2>2 DEF Named
  <2>3. CASE r <= MaxRuns /\ \E e, x : AddReservation(r, req[t].profile, e, x)
    <3>1. req[t].profile \in Profiles /\ r \in RunId
      BY <1>0, <1>1, <2>3, ExecutorAssumption
         DEF ReserveReplacement, ReserveFresh, Asked, AskedBy, RunId
    <3> HIDE DEF r
    <3> QED BY <2>1, <2>3, <3>1, <1>0 DEF Named, AddReservation
  <2> QED BY <1>1, <2>2, <2>3 DEF ReserveReplacement, ReserveFresh
<1>2. ASSUME NEW t \in Callers, StartCompound(t) PROVE Named'
  <2> DEFINE p == req[t].profile
             c == nextRunSeq + 1
             n == Len(Steps[p])
             plan == (c + 1)..(c + n)
  <2>1. /\ profileOf' = [r \in RunId |-> IF r = c THEN p
                        ELSE IF r \in plan THEN Steps[p][r - c] ELSE profileOf[r]]
        /\ parentOf' = [r \in RunId |-> IF r \in plan THEN c ELSE parentOf[r]]
        /\ compounds' = compounds \cup {c}
        /\ UNCHANGED <<retention, reason, killed, processes, reservations>>
    BY <1>2 DEF StartCompound
  <2>2. /\ p \in Profiles /\ c \in RunId /\ \A r \in plan : Steps[p][r - c] \in Profiles
    BY <1>2, StartOf, RunFacts DEF Ordinary
  <2> HIDE DEF p, c, plan
  <2>3. /\ profileOf' \in [RunId -> Profiles \cup {NoRun}]
        /\ \A r \in RunId : profileOf[r] \in Profiles => profileOf'[r] \in Profiles
    BY <2>1, <2>2 DEF Named
  <2>4. \A r \in RunId : parentOf'[r] # NoRun => profileOf'[r] \in Profiles
    BY <2>1, <2>2 DEF Named
  <2>5. \A r \in (processes \cup reservations \cup compounds)' : profileOf'[r] \in Profiles
    <3>1. profileOf'[c] \in Profiles
      BY <2>1, <2>2
    <3> QED BY <2>1, <2>3, <3>1, <1>0 DEF Named
  <2> QED BY <2>1, <2>3, <2>4, <2>5 DEF Named
<1>3. ASSUME NEW t \in Threads, ReserveStep(t) PROVE Named'
  <2>1. UNCHANGED <<retention, reason, killed, processes, compounds, parentOf>>
    BY <1>3 DEF ReserveStep
  <2>2. CASE UNCHANGED <<reservations, profileOf>>
    BY <2>1, <2>2 DEF Named
  <2>3. CASE AddReservation(req[t].run, profileOf[req[t].run], req[t].epoch, NoRun)
    <3>1. profileOf[req[t].run] \in Profiles
      BY <1>3, StepOf DEF ReserveStep, Named
    <3>2. profileOf' = profileOf
      BY <2>3 DEF AddReservation, Named
    <3> QED BY <2>1, <2>3, <3>1, <3>2 DEF Named, AddReservation
  <2> QED BY <1>3, <2>2, <2>3 DEF ReserveStep
<1>4. ASSUME NEW t \in Threads, Promote(t) PROVE Named'
  <2>1. UNCHANGED <<retention, reason, profileOf, parentOf, compounds>>
    BY <1>4 DEF Promote
  <2>2. (processes' \cup reservations') \subseteq processes \cup reservations
    BY <1>4 DEF Promote, ReservationInvalid
  <2>3. killed' \in [RunId -> BOOLEAN]
    BY <1>4 DEF Promote, Named
  <2> QED BY <2>1, <2>2, <2>3 DEF Named
<1>5. ASSUME NEW t \in Threads, Spawn(t) \/ FinishReservation(t) \/ EmitRunning(t) PROVE Named'
  <2>1. UNCHANGED <<retention, reason, profileOf, parentOf, compounds, processes, killed>>
    BY <1>5 DEF Spawn, FinishReservation, EmitRunning
  <2>2. reservations' \subseteq reservations
    BY <1>5 DEF Spawn, FinishReservation, EmitRunning
  <2> QED BY <2>1, <2>2 DEF Named
<1>6. ASSUME NEW r \in processes \cup compounds, Retain(r) \/ UNCHANGED retention,
             processes' \subseteq processes, compounds' \subseteq compounds,
             UNCHANGED <<reservations, reason, profileOf, parentOf, killed>>
      PROVE Named'
  <2>1. terminalIds' \in [Profiles -> SUBSET RunId] /\ lastStatus' \subseteq RunId
    <3>1. CASE UNCHANGED retention
      BY <3>1 DEF Named
    <3>2. CASE Retain(r)
      <4>1. r \in RunId /\ profileOf[r] \in Profiles
        BY <1>0, <1>6 DEF Named
      <4>2. Kept(profileOf[r], r) \subseteq RunId
        BY <4>1, KeptOf DEF Named
      <4> QED BY <3>2, <4>2 DEF Retain, Named
    <3> QED BY <1>6, <3>1, <3>2
  <2> QED BY <1>6, <2>1 DEF Named
<1>7. ASSUME NEW r \in RunId, CoordFinish(r) PROVE Named'
  <2>1. r \in compounds
    BY <1>7 DEF CoordFinish, Coordinated
  <2> QED BY <1>6, <1>7, <2>1 DEF CoordFinish
<1>8. ASSUME NEW r \in RunId, WaitProcess(r) PROVE Named'
  BY <1>6, <1>8 DEF WaitProcess
<1>9. ASSUME NEW r \in RunId,
             CoordPublish(r) \/ CoordClose(r) \/ FinishWait(r) \/ Escalate(r) \/ Exit(r)
      PROVE Named'
  <2>1. UNCHANGED <<retention, reason, profileOf, parentOf, tables>>
    BY <1>9 DEF CoordPublish, CoordClose, FinishWait, Escalate, Exit
  <2>2. killed' \in [RunId -> BOOLEAN]
    BY <1>9 DEF CoordPublish, CoordClose, FinishWait, Escalate, Exit, Named
  <2> QED BY <2>1, <2>2 DEF Named
<1>10. ASSUME NEW d \in Drainers, BeginDrain(d) \/ StopAll(d) \/ Drained(d) PROVE Named'
  <2>1. UNCHANGED <<profileOf, parentOf, tables>>
    BY <1>10 DEF BeginDrain, StopAll, StopAllCollect, StopAllSignal, StopAllHalfway,
         StopAllReturns, StopAllTimeout, Drained, ClearTerminalStatuses, Reload, EndDrain, LoadFails
  <2>2. reason' = reason \/ \E S : reason' = Mark(reason, S)
    BY <1>10 DEF BeginDrain, StopAll, StopAllCollect, StopAllSignal, StopAllHalfway,
         StopAllReturns, StopAllTimeout, Drained, ClearTerminalStatuses, Reload, EndDrain, LoadFails
  <2>3. killed' = killed \/ \E S : killed' = Mark(killed, S)
    BY <1>10 DEF BeginDrain, StopAll, StopAllCollect, StopAllSignal, StopAllHalfway,
         StopAllReturns, StopAllTimeout, Drained, ClearTerminalStatuses, Reload, EndDrain, LoadFails
  <2>4. /\ terminalIds' = terminalIds \/ terminalIds' = [p \in Profiles |-> {}]
        /\ lastStatus' = lastStatus \/ lastStatus' = {}
    BY <1>10 DEF BeginDrain, StopAll, StopAllCollect, StopAllSignal, StopAllHalfway,
         StopAllReturns, StopAllTimeout, Drained, ClearTerminalStatuses, Reload, EndDrain, LoadFails
  <2> QED BY <2>1, <2>2, <2>3, <2>4, Marked DEF Named
<1> QED
  BY <1>1, <1>2, <1>3, <1>4, <1>5, <1>7, <1>8, <1>9, <1>10 DEF Changes, Process, ReserveFresh

-----------------------------------------------------------------------------
(***************************************************************************)
(* Coordinators, and what becomes of a process that is not promoted.       *)
(***************************************************************************)
Alone(t) == \A u \in Threads : u # t => pc'[u] = pc[u] /\ req'[u] = req[u]

LEMMA FailsAlone ==
  ASSUME RunInv, NEW t \in Threads, NEW why, LaunchFails(t, why)
  PROVE  Alone(t) /\ pc'[t] = IF t \in Callers THEN "idle" ELSE "c-record"
BY DEF RunInv, Shape, LaunchFails, Return, Goto, Alone

LEMMA ReservesAlone ==
  ASSUME RunInv, NEW t \in Threads,
         (ReserveReplacement(t) /\ t \in Callers) \/ ReserveFresh(t) \/ ReserveStep(t)
  PROVE  /\ Alone(t) /\ pc[t] \in {"reserve", "r-reserve"}
         /\ t \in RunId => pc'[t] \in {"check", "c-record"}
         /\ t \in Callers => pc'[t] \in {"check", "idle", "reserve", "s-instance"}
         /\ pc'[t] \in {"check", "s-instance"} => req'[t].run \in reservations'
         /\ pc'[t] = "check" => replaces'[req'[t].run] = NoRun
<1>0. /\ pc \in [Threads -> PC] /\ req \in [Threads -> Request]
      /\ replaces \in [RunId -> RunId \cup {NoRun}]
  BY DEF RunInv, Shape
<1>1. CASE ReserveReplacement(t) /\ t \in Callers
  <2>1. Alone(t)
    BY <1>0, <1>1 DEF ReserveReplacement, Return, Goto, Alone
  <2>2. /\ pc[t] = "r-reserve" /\ pc'[t] \in {"idle", "reserve", "s-instance"}
        /\ pc'[t] = "s-instance" => req'[t].run \in reservations'
    <3>1. pc[t] = "r-reserve"
      BY <1>1 DEF ReserveReplacement
    <3>2. \/ Goto(t, "idle") \/ Goto(t, "reserve")
          \/ /\ Goto(t, "s-instance") /\ req' = [req EXCEPT ![t].run = nextRunSeq + 1]
             /\ reservations' = reservations \cup {nextRunSeq + 1}
      BY <1>1 DEF ReserveReplacement, Return, AddReservation
    <3>3. CASE Goto(t, "idle") \/ Goto(t, "reserve")
      BY <1>0, <3>1, <3>3 DEF Goto
    <3>4. CASE /\ Goto(t, "s-instance") /\ req' = [req EXCEPT ![t].run = nextRunSeq + 1]
               /\ reservations' = reservations \cup {nextRunSeq + 1}
      <4>1. pc'[t] = "s-instance" /\ req'[t].run = nextRunSeq + 1
        BY <1>0, <3>4 DEF Goto, Request
      <4> QED BY <3>1, <3>4, <4>1
    <3> QED BY <3>2, <3>3, <3>4
  <2> QED BY <1>1, <2>1, <2>2, RunFacts
<1>2. CASE ReserveFresh(t)
  <2>1. pc[t] = "reserve" /\ t \in Callers /\ nextRunSeq + 1 <= MaxRuns
    BY <1>2 DEF ReserveFresh
  <2>2. CASE LaunchFails(t, "setup")
    BY <2>1, <2>2, FailsAlone, RunFacts
  <2>3. CASE /\ AddReservation(nextRunSeq + 1, req[t].profile, req[t].epoch, NoRun)
             /\ Goto(t, "check") /\ req' = [req EXCEPT ![t].run = nextRunSeq + 1]
    <3>1. nextRunSeq + 1 \in RunId
      BY <2>1, RunsKnown, ExecutorAssumption DEF RunId
    <3>2. Alone(t) /\ pc'[t] = "check" /\ req'[t].run = nextRunSeq + 1
      BY <1>0, <2>3 DEF Goto, Alone
    <3>3. replaces'[nextRunSeq + 1] = NoRun /\ nextRunSeq + 1 \in reservations'
      BY <1>0, <2>3, <3>1 DEF AddReservation
    <3> QED BY <2>1, <3>2, <3>3, RunFacts
  <2> QED BY <1>2, <2>2, <2>3 DEF ReserveFresh
<1>3. CASE ReserveStep(t)
  <2>1. pc[t] = "reserve" /\ t \in RunId /\ req[t].run \in RunId
    BY <1>3, StepOf DEF ReserveStep
  <2>2. CASE LaunchFails(t, "setup")
    BY <2>1, <2>2, FailsAlone, RunFacts
  <2>3. CASE /\ AddReservation(req[t].run, profileOf[req[t].run], req[t].epoch, NoRun)
             /\ Goto(t, "check") /\ UNCHANGED req
    <3>1. Alone(t) /\ pc'[t] = "check" /\ req'[t].run = req[t].run
      BY <1>0, <2>3 DEF Goto, Alone
    <3>2. replaces'[req[t].run] = NoRun /\ req[t].run \in reservations'
      BY <1>0, <2>1, <2>3 DEF AddReservation
    <3> QED BY <2>1, <3>1, <3>2, RunFacts
  <2> QED BY <1>3, <2>2, <2>3 DEF ReserveStep
<1> QED BY <1>1, <1>2, <1>3

LEMMA LaunchesAlone ==
  ASSUME RunInv, NEW t \in Threads,
         Spawn(t) \/ Promote(t) \/ FinishReservation(t) \/ EmitRunning(t)
  PROVE  /\ Alone(t) /\ pc[t] \in {"check", "promote", "abandon", "emit"}
         /\ t \in RunId /\ pc[t] # "emit" =>
              pc'[t] \in {"promote", "abandon", "c-publish", "c-record"}
         /\ t \in Callers => pc'[t] \in {"promote", "abandon", "emit", "idle"}
<1>0. pc \in [Threads -> PC] /\ req \in [Threads -> Request]
  BY DEF RunInv, Shape
<1>1. t \in Callers <=> t \notin RunId
  BY RunFacts DEF Threads
<1>2. CASE Spawn(t)
  BY <1>0, <1>2 DEF Spawn, Abandon, Goto, Alone
<1>3. CASE Promote(t)
  BY <1>0, <1>1, <1>3 DEF Promote, Abandon, Goto, Alone
<1>4. CASE FinishReservation(t)
  BY <1>1, <1>4, FailsAlone DEF FinishReservation
<1>5. CASE EmitRunning(t)
  BY <1>0, <1>5 DEF EmitRunning, Return, Goto, Alone
<1> QED BY <1>2, <1>3, <1>4, <1>5

LEMMA CoordinatorsAlone ==
  ASSUME RunInv, NEW c \in RunId, CoordPublish(c) \/ CoordFinish(c) \/ CoordClose(c)
  PROVE  /\ Alone(c)
         /\ CoordPublish(c) => pc[c] = "c-publish" /\ pc'[c] = "c-wait"
         /\ CoordFinish(c) => pc[c] = "c-finish" /\ pc'[c] = "c-close"
         /\ CoordClose(c) => pc[c] = "c-close" /\ pc'[c] = "idle"
<1>1. pc \in [Threads -> PC] /\ req \in [Threads -> Request] /\ c \in Threads
  BY DEF RunInv, Shape, Threads
<1> QED
  BY <1>1 DEF CoordPublish, CoordFinish, CoordClose, Return, Goto, Alone

LEMMA StartAlone ==
  ASSUME RunInv, Asked, NEW t \in Callers, StartCompound(t)
  PROVE  LET c == nextRunSeq + 1
         IN /\ \A u \in Threads \ {t, c} : pc'[u] = pc[u] /\ req'[u] = req[u]
            /\ t \in Threads /\ c \in RunId /\ c \in Threads /\ t # c
            /\ pc[t] = "c-start" /\ pc[c] = "idle" /\ pc'[t] = "idle" /\ pc'[c] = "c-loop"
            /\ req'[t].run = NoRun /\ req'[c].run = NoRun
<1> DEFINE c == nextRunSeq + 1
<1>1. t \in Threads /\ c \in RunId /\ c \in Threads /\ t # c
  BY StartOf
<1>2. pc[c] = "idle"
  BY <1>1, RunsKnown DEF RunInv, Unused
<1>3. /\ pc[t] = "c-start"
      /\ pc' = [pc EXCEPT ![t] = "idle", ![c] = "c-loop"]
      /\ req' = [req EXCEPT ![t] = NoReq,
                            ![c] = [NoReq EXCEPT !.profile = req[t].profile, !.epoch = req[t].epoch]]
  BY DEF StartCompound
<1> HIDE DEF c
<1>4. pc \in [Threads -> PC] /\ req \in [Threads -> Request]
  BY DEF RunInv, Shape
<1>5. /\ \A u \in Threads \ {t, c} : pc'[u] = pc[u] /\ req'[u] = req[u]
      /\ pc'[t] = "idle" /\ pc'[c] = "c-loop"
  BY <1>1, <1>3, <1>4
<1>6. req'[t].run = NoRun /\ req'[c].run = NoRun
  BY <1>1, <1>3, <1>4 DEF NoReq
<1> QED BY <1>1, <1>2, <1>3, <1>5, <1>6 DEF c

\* Processes and drains move no thread.
LEMMA OthersStill ==
  /\ \A r \in RunId : Process(r) \/ Exit(r) =>
       UNCHANGED <<pc, req, compounds, reservations, profileOf, parentOf, epochOf, replaces,
                   nextRunSeq, workspaceEpoch, draining, rootEpoch, reason, dpc, dreq>>
  /\ \A d \in Drainers : BeginDrain(d) \/ StopAll(d) \/ Drained(d) =>
       UNCHANGED <<pc, req, processes, compounds, reservations, profileOf, parentOf, epochOf,
                   replaces, nextRunSeq, os, waiting, done>>
<1> USE DEF admission, tables, retention, identity, resVars, procVars, drainVars, threadVars
<1>1. ASSUME NEW r \in RunId, Process(r) \/ Exit(r)
      PROVE UNCHANGED <<pc, req, compounds, reservations, profileOf, parentOf, epochOf, replaces,
                        nextRunSeq, workspaceEpoch, draining, rootEpoch, reason, dpc, dreq>>
  BY <1>1 DEF Process, WaitProcess, FinishWait, Escalate, Exit
<1>2. ASSUME NEW d \in Drainers, BeginDrain(d) \/ StopAll(d) \/ Drained(d)
      PROVE UNCHANGED <<pc, req, processes, compounds, reservations, profileOf, parentOf, epochOf,
                        replaces, nextRunSeq, os, waiting, done>>
  BY <1>2 DEF BeginDrain, StopAll, StopAllCollect, StopAllSignal, StopAllHalfway,
       StopAllReturns, StopAllTimeout, Drained, ClearTerminalStatuses, Reload, EndDrain, LoadFails
<1> QED BY <1>1, <1>2

LEMMA CoordinatedStep == ASSUME RunInv, Asked, Coordinated, Changes PROVE Coordinated'
<1> USE DEF admission, tables, retention, identity, resVars, procVars, drainVars
<1>0. RunId \subseteq Threads /\ Callers \subseteq Threads
  BY DEF Threads
<1>1. ASSUME NEW t \in Callers, ReserveReplacement(t) PROVE Coordinated'
  <2>1. compounds' = compounds /\ t \notin RunId
    BY <1>1, RunFacts DEF ReserveReplacement
  <2> QED BY <1>0, <1>1, <2>1, ReservesAlone DEF Coordinated, Alone
<1>2. ASSUME NEW t \in Callers, StartCompound(t) PROVE Coordinated'
  <2>1. compounds' = compounds \cup {nextRunSeq + 1} /\ t \notin RunId
    BY <1>2, RunFacts DEF StartCompound
  <2> QED BY <1>0, <1>2, <2>1, StartAlone DEF Coordinated
<1>3. ASSUME NEW t \in Threads, ReserveFresh(t) \/ ReserveStep(t) PROVE Coordinated'
  <2>1. compounds' = compounds
    BY <1>3 DEF ReserveFresh, ReserveStep
  <2> QED BY <1>0, <1>3, <2>1, ReservesAlone DEF Coordinated, Alone
<1>4. ASSUME NEW t \in Threads,
             Spawn(t) \/ Promote(t) \/ FinishReservation(t) \/ EmitRunning(t)
      PROVE Coordinated'
  <2>1. compounds' = compounds
    BY <1>4 DEF Spawn, Promote, FinishReservation, EmitRunning
  <2> QED BY <1>0, <1>4, <2>1, LaunchesAlone DEF Coordinated, Alone
<1>5. ASSUME NEW c \in RunId, CoordPublish(c) \/ CoordFinish(c) \/ CoordClose(c)
      PROVE Coordinated'
  <2>1. /\ CoordPublish(c) \/ CoordClose(c) => compounds' = compounds
        /\ CoordFinish(c) => compounds' = compounds \ {c}
    BY DEF CoordPublish, CoordFinish, CoordClose
  <2> QED BY <1>0, <1>5, <2>1, CoordinatorsAlone DEF Coordinated, Alone
<1>6. ASSUME UNCHANGED <<pc, compounds>> PROVE Coordinated'
  BY <1>6 DEF Coordinated
<1> QED BY <1>1, <1>2, <1>3, <1>4, <1>5, <1>6, OthersStill DEF Changes

LEMMA HeldStep == ASSUME RunInv, Asked, Held, Changes PROVE Held'
<1> USE DEF admission, tables, retention, identity, resVars, procVars, drainVars
<1>0. RunId \subseteq Threads /\ Callers \subseteq Threads
  BY DEF Threads
<1>1. ASSUME NEW t \in Threads,
             (ReserveReplacement(t) /\ t \in Callers) \/ ReserveFresh(t) \/ ReserveStep(t)
      PROVE Held'
  <2>1. reservations \subseteq reservations'
    BY <1>1 DEF ReserveReplacement, ReserveFresh, ReserveStep, AddReservation
  <2>2. pc'[t] # "promote"
    BY <1>1, ReservesAlone DEF Threads
  <2> QED BY <1>1, <2>1, <2>2, ReservesAlone DEF Held, Alone
<1>2. ASSUME NEW t \in Callers, StartCompound(t) PROVE Held'
  <2>1. reservations' = reservations
    BY <1>2 DEF StartCompound
  <2> QED BY <1>2, <2>1, StartAlone DEF Held
<1>3. ASSUME NEW t \in Threads, Spawn(t) PROVE Held'
  <2>1. reservations' = reservations /\ req' = req
    BY <1>3 DEF Spawn, Abandon
  <2>2. pc'[t] = "promote" => req[t].run \in reservations
    BY <1>3 DEF Spawn, Abandon, Goto, ReservationInvalid, RunInv, Shape
  <2> QED BY <1>3, <2>1, <2>2, LaunchesAlone DEF Held, Alone
<1>4. ASSUME NEW t \in Threads, Promote(t) \/ FinishReservation(t) PROVE Held'
  <2>1. reservations \ {req[t].run} \subseteq reservations'
    BY <1>4 DEF Promote, FinishReservation
  <2>2. pc'[t] # "promote"
    <3>1. CASE Promote(t)
      BY <3>1 DEF Promote, Abandon, Goto, RunInv, Shape
    <3>2. CASE FinishReservation(t)
      BY <3>2, FailsAlone DEF FinishReservation
    <3> QED BY <1>4, <3>1, <3>2
  <2>3. \A u \in Threads : u # t /\ pc[u] = "promote" => req[u].run # req[t].run
    BY DEF RunInv, Owned, Launching
  <2> QED BY <1>4, <2>1, <2>2, <2>3, LaunchesAlone DEF Held, Alone
<1>5. ASSUME NEW t \in Threads, EmitRunning(t) PROVE Held'
  <2>1. reservations' = reservations
    BY <1>5 DEF EmitRunning
  <2>2. pc'[t] # "promote"
    BY <1>5 DEF EmitRunning, Return, Goto, RunInv, Shape
  <2> QED BY <1>5, <2>1, <2>2, LaunchesAlone DEF Held, Alone
<1>6. ASSUME NEW c \in RunId, CoordPublish(c) \/ CoordFinish(c) \/ CoordClose(c) PROVE Held'
  <2>1. reservations' = reservations
    BY <1>6 DEF CoordPublish, CoordFinish, CoordClose
  <2> QED BY <1>0, <1>6, <2>1, CoordinatorsAlone DEF Held, Alone
<1>7. ASSUME UNCHANGED <<pc, req, reservations>> PROVE Held'
  BY <1>7 DEF Held
<1> QED BY <1>0, <1>1, <1>2, <1>3, <1>4, <1>5, <1>6, <1>7, OthersStill DEF Changes

\* A run leaves the tables before it is done, and who is done is not spawned again.
LEMMA ClosedStep ==
  ASSUME RunInv, Asked, Coordinated, Closed, Changes PROVE Closed'
<1> USE DEF admission, tables, retention, identity, resVars, procVars, drainVars
<1>0. /\ RunId \subseteq Threads /\ Callers \subseteq Threads
      /\ done \in [RunId -> BOOLEAN] /\ waiting \in [RunId -> BOOLEAN]
      /\ os \in [RunId -> {"none", "running", "exited"}]
  BY DEF Threads, RunInv, Shape
<1>1. ASSUME UNCHANGED <<done, os, waiting>>,
             processes' \subseteq processes, compounds' \subseteq compounds
      PROVE Closed'
  BY <1>1 DEF Closed
<1>2. ASSUME NEW t \in Threads,
             ReserveReplacement(t) \/ ReserveFresh(t) \/ ReserveStep(t) \/ FinishReservation(t)
      PROVE Closed'
  <2>1. UNCHANGED <<done, os, waiting, processes, compounds>>
    BY <1>2 DEF ReserveReplacement, ReserveFresh, ReserveStep, FinishReservation
  <2> QED BY <1>1, <2>1
<1>3. ASSUME NEW t \in Callers, StartCompound(t) PROVE Closed'
  <2>1. UNCHANGED <<done, os, waiting, processes>> /\ compounds' = compounds \cup {nextRunSeq + 1}
    BY <1>3 DEF StartCompound
  <2>2. nextRunSeq + 1 \in RunId /\ nextRunSeq \in Nat
    BY <1>3, StartOf, RunsKnown
  <2>3. ~done[nextRunSeq + 1]
    BY <2>2 DEF RunInv, Unused
  <2> QED BY <2>1, <2>3 DEF Closed
<1>4. ASSUME NEW t \in Threads, Spawn(t) PROVE Closed'
  <2>1. UNCHANGED <<done, waiting, processes, compounds>>
    BY <1>4 DEF Spawn
  <2>2. CASE UNCHANGED os
    BY <1>1, <2>1, <2>2
  <2>3. CASE os' = [os EXCEPT ![req[t].run] = "running"]
    <3>1. ~done[req[t].run]
      BY <1>4 DEF Spawn, RunInv, Owned, Launching, SpawnedOnce, Unspawned
    <3> QED BY <1>0, <2>1, <2>3, <3>1 DEF Closed
  <2> QED BY <1>4, <2>2, <2>3 DEF Spawn
<1>5. ASSUME NEW t \in Threads, Promote(t) PROVE Closed'
  <2>1. UNCHANGED <<done, os, waiting, compounds>>
    BY <1>5 DEF Promote
  <2>2. processes' \subseteq processes \cup {req[t].run}
    BY <1>5 DEF Promote
  <2>3. os[req[t].run] # "none" /\ ~waiting[req[t].run]
    BY <1>5 DEF Promote, RunInv, Reaped
  <2> QED BY <2>1, <2>2, <2>3 DEF Closed
<1>6. ASSUME NEW r, waiting' = [waiting EXCEPT ![r] = TRUE],
             UNCHANGED <<done, os, processes, compounds>>
      PROVE Closed'
  BY <1>0, <1>6 DEF Closed
<1>7. ASSUME NEW t \in Threads, EmitRunning(t) PROVE Closed'
  BY <1>6, <1>7 DEF EmitRunning
<1>8. ASSUME NEW c \in RunId, CoordPublish(c) PROVE Closed'
  BY <1>6, <1>8 DEF CoordPublish
<1>9. ASSUME NEW c \in RunId, CoordFinish(c) PROVE Closed'
  BY <1>1, <1>9 DEF CoordFinish
<1>10. ASSUME NEW c \in RunId, CoordClose(c) PROVE Closed'
  <2>1. /\ pc[c] = "c-close" /\ done' = [done EXCEPT ![c] = TRUE]
        /\ UNCHANGED <<os, waiting, processes, compounds>>
    BY <1>10 DEF CoordClose
  <2>2. c \notin compounds /\ os[c] = "none" /\ c \notin processes
    BY <2>1 DEF Coordinated, RunInv, SpawnedOnce, Reaped
  <2> QED BY <1>0, <2>1, <2>2 DEF Closed
<1>11. ASSUME NEW r \in RunId, WaitProcess(r) PROVE Closed'
  BY <1>1, <1>11 DEF WaitProcess
<1>12. ASSUME NEW r \in RunId, FinishWait(r) PROVE Closed'
  <2>1. /\ waiting[r] /\ r \notin processes /\ done' = [done EXCEPT ![r] = TRUE]
        /\ UNCHANGED <<os, waiting, processes, compounds>>
    BY <1>12 DEF FinishWait
  <2>2. r \notin compounds
    BY <2>1 DEF Coordinated, RunInv, SpawnedOnce, Reaped
  <2> QED BY <1>0, <2>1, <2>2 DEF Closed
<1>13. ASSUME NEW r \in RunId, Escalate(r) PROVE Closed'
  BY <1>1, <1>13 DEF Escalate
<1>14. ASSUME NEW r \in RunId, Exit(r) PROVE Closed'
  <2>1. /\ os[r] = "running" /\ os' = [os EXCEPT ![r] = "exited"]
        /\ UNCHANGED <<done, waiting, processes, compounds>>
    BY <1>14 DEF Exit
  <2> QED BY <1>0, <2>1 DEF Closed
<1>15. ASSUME NEW d \in Drainers, BeginDrain(d) \/ StopAll(d) \/ Drained(d) PROVE Closed'
  BY <1>1, <1>15, OthersStill
<1> QED
  BY <1>0, <1>2, <1>3, <1>4, <1>5, <1>7, <1>8, <1>9, <1>10, <1>11, <1>12, <1>13, <1>14, <1>15
     DEF Changes, Process

\* What runs outside the table is about to be promoted, or was killed.
LEMMA DoomedStep ==
  ASSUME RunInv, Asked, Named, Doomed, Changes PROVE Doomed'
<1> USE DEF admission, tables, retention, identity, resVars, procVars, drainVars
<1>0. /\ RunId \subseteq Threads /\ Callers \subseteq Threads
      /\ os \in [RunId -> {"none", "running", "exited"}]
      /\ killed \in [RunId -> BOOLEAN]
  BY DEF Threads, RunInv, Shape, Named
<1>1. ASSUME \A r \in RunId : os'[r] = "running" => os[r] = "running",
             processes \subseteq processes', \A r \in RunId : killed[r] => killed'[r],
             \A u \in Threads : pc[u] = "promote" => pc'[u] = pc[u] /\ req'[u].run = req[u].run
      PROVE Doomed'
  BY <1>1 DEF Doomed
<1>2. ASSUME NEW t \in Threads,
             (ReserveReplacement(t) /\ t \in Callers) \/ ReserveFresh(t) \/ ReserveStep(t)
      PROVE Doomed'
  <2>1. UNCHANGED <<os, processes, killed>>
    BY <1>2 DEF ReserveReplacement, ReserveFresh, ReserveStep
  <2> QED BY <1>1, <1>2, <2>1, ReservesAlone DEF Alone
<1>3. ASSUME NEW t \in Callers, StartCompound(t) PROVE Doomed'
  <2>1. UNCHANGED <<os, processes, killed>>
    BY <1>3 DEF StartCompound
  <2> QED BY <1>1, <1>3, <2>1, StartAlone
<1>4. ASSUME NEW t \in Threads, Spawn(t) PROVE Doomed'
  <2>1. UNCHANGED <<processes, killed, req>> /\ pc[t] = "check"
    BY <1>4 DEF Spawn, Abandon
  <2>2. \A u \in Threads : pc[u] = "promote" => pc'[u] = pc[u]
    BY <1>4, <2>1, LaunchesAlone DEF Alone
  <2>3. CASE UNCHANGED os
    BY <1>1, <2>1, <2>2, <2>3
  <2>4. CASE os' = [os EXCEPT ![req[t].run] = "running"] /\ Goto(t, "promote")
    <3>1. pc'[t] = "promote" /\ req'[t].run = req[t].run
      BY <2>1, <2>4 DEF Goto, RunInv, Shape
    <3> QED BY <1>0, <2>1, <2>2, <2>4, <3>1 DEF Doomed
  <2> QED BY <1>4, <2>3, <2>4 DEF Spawn
<1>5. ASSUME NEW t \in Threads, Promote(t) PROVE Doomed'
  <2>1. UNCHANGED <<os, req>> /\ pc[t] = "promote" /\ req[t].run \in RunId
    BY <1>5, RunsKnown DEF Promote, Abandon, RunInv, Owned, Launching
  <2>2. \A u \in Threads : u # t /\ pc[u] = "promote" => pc'[u] = pc[u]
    BY <1>5, LaunchesAlone DEF Alone
  <2>3. /\ processes \subseteq processes'
        /\ \A r \in RunId : r # req[t].run => killed'[r] = killed[r]
        /\ req[t].run \in processes' \/ (os[req[t].run] = "running" => killed'[req[t].run])
    BY <1>0, <1>5, <2>1 DEF Promote
  <2> QED BY <2>1, <2>2, <2>3 DEF Doomed
<1>6. ASSUME NEW t \in Threads, FinishReservation(t) \/ EmitRunning(t) PROVE Doomed'
  <2>1. UNCHANGED <<os, processes, killed>> /\ pc[t] # "promote"
    BY <1>6 DEF FinishReservation, EmitRunning
  <2> QED BY <1>1, <1>6, <2>1, LaunchesAlone DEF Alone
<1>7. ASSUME NEW c \in RunId, CoordPublish(c) \/ CoordFinish(c) \/ CoordClose(c) PROVE Doomed'
  <2>1. UNCHANGED <<os, processes, killed>>
    BY <1>7 DEF CoordPublish, CoordFinish, CoordClose
  <2> QED BY <1>1, <1>7, <2>1, CoordinatorsAlone DEF Alone
<1>8. ASSUME NEW r \in RunId, WaitProcess(r) PROVE Doomed'
  <2>1. /\ os[r] = "exited" /\ processes' = processes \ {r} /\ UNCHANGED <<os, killed, pc, req>>
    BY <1>8 DEF WaitProcess, threadVars
  <2> QED BY <2>1 DEF Doomed
<1>9. ASSUME NEW r \in RunId, FinishWait(r) \/ Escalate(r) PROVE Doomed'
  <2>1. UNCHANGED <<os, processes, pc, req>>
    BY <1>9 DEF FinishWait, Escalate, threadVars
  <2>2. \A x \in RunId : killed[x] => killed'[x]
    BY <1>0, <1>9 DEF FinishWait, Escalate
  <2> QED BY <1>1, <2>1, <2>2
<1>10. ASSUME NEW r \in RunId, Exit(r) PROVE Doomed'
  <2>1. /\ os' = [os EXCEPT ![r] = "exited"] /\ killed' = [killed EXCEPT ![r] = FALSE]
        /\ UNCHANGED <<processes, pc, req>>
    BY <1>10 DEF Exit, threadVars
  <2> QED BY <1>0, <2>1 DEF Doomed
<1>11. ASSUME NEW d \in Drainers, BeginDrain(d) \/ StopAll(d) \/ Drained(d) PROVE Doomed'
  <2>1. killed' = killed \/ \E S : killed' = Mark(killed, S)
    BY <1>11 DEF BeginDrain, StopAll, StopAllCollect, StopAllSignal, StopAllHalfway,
         StopAllReturns, StopAllTimeout, Drained, ClearTerminalStatuses, Reload, EndDrain, LoadFails
  <2>2. \A x \in RunId : killed[x] => killed'[x]
    BY <1>0, <2>1, Marked
  <2> QED BY <1>1, <1>11, <2>2, OthersStill
<1> QED
  BY <1>0, <1>2, <1>3, <1>4, <1>5, <1>6, <1>7, <1>8, <1>9, <1>10, <1>11 DEF Changes, Process

-----------------------------------------------------------------------------
(***************************************************************************)
(* What a step does to the tables: it adds runs of the open workspace,     *)
(* while admission is open, or it takes runs out, or it is a drain's.      *)
(***************************************************************************)
Grows ==
  /\ ~draining
  /\ UNCHANGED <<workspaceEpoch, draining, rootEpoch, dpc, dreq, reason, terminalIds, lastStatus>>
  /\ \A r \in RunId : epochOf'[r] \in {epochOf[r], workspaceEpoch}
  /\ AllRuns' \subseteq RunId
  /\ \A r \in processes' : r \in processes \/ epochOf'[r] = workspaceEpoch
  /\ \A r \in compounds' : r \in compounds \/ epochOf'[r] = workspaceEpoch
  /\ \A r \in reservations' : r \in reservations \/ epochOf'[r] = workspaceEpoch

Shrinks ==
  /\ UNCHANGED <<workspaceEpoch, draining, rootEpoch, dpc, dreq, reason, epochOf>>
  /\ processes' \subseteq processes /\ compounds' \subseteq compounds
  /\ reservations' \subseteq reservations
  /\ UNCHANGED retention \/ \E r \in processes \cup compounds : Retain(r)

LEMMA ReserveGrows ==
  ASSUME RunInv, NEW r \in RunId, NEW p, NEW e, NEW x, AddReservation(r, p, e, x),
         AdmissionOpen(e), UNCHANGED <<admission, retention, drainVars, reason, processes, compounds>>
  PROVE  Grows
<1> USE DEF admission, retention, drainVars
<1>1. epochOf' = [epochOf EXCEPT ![r] = workspaceEpoch] /\ ~draining
  BY DEF AddReservation, AdmissionOpen
<1>2. \A q \in RunId : epochOf'[q] \in {epochOf[q], workspaceEpoch}
  BY <1>1 DEF RunInv, Shape
<1>3. AllRuns' = AllRuns \cup {r} /\ AllRuns \subseteq RunId
  BY TablesOfRuns DEF AllRuns, AddReservation
<1>4. epochOf'[r] = workspaceEpoch
  BY <1>1 DEF RunInv, Shape
<1>5. reservations' = reservations \cup {r}
  BY DEF AddReservation
<1> QED BY <1>1, <1>2, <1>3, <1>4, <1>5 DEF Grows

LEMMA TableMoves ==
  ASSUME RunInv, Asked, Named, Coordinated, Quiet \/ Changes
  PROVE  \/ Grows \/ Shrinks
         \/ \E d \in Drainers : BeginDrain(d) \/ StopAll(d) \/ Drained(d)
<1> USE DEF admission, tables, retention, identity, resVars, procVars, drainVars
<1>0. nextRunSeq \in Nat /\ MaxRuns \in Nat
  BY RunsKnown, ExecutorAssumption
<1>1. CASE Quiet
  BY <1>1 DEF Quiet, Tables, Shrinks
<1>2. ASSUME NEW t \in Callers, ReserveReplacement(t) \/ ReserveFresh(t) PROVE Grows \/ Shrinks
  <2>1. UNCHANGED <<admission, retention, drainVars, reason, processes, compounds>>
    BY <1>2 DEF ReserveReplacement, ReserveFresh
  <2>2. CASE UNCHANGED <<reservations, epochOf>>
    BY <2>1, <2>2 DEF Shrinks
  <2>3. CASE /\ AdmissionOpen(req[t].epoch) /\ nextRunSeq + 1 <= MaxRuns
             /\ \E p, x : AddReservation(nextRunSeq + 1, p, req[t].epoch, x)
    <3>1. nextRunSeq + 1 \in RunId
      BY <1>0, <2>3 DEF RunId
    <3> QED BY <2>1, <2>3, <3>1, ReserveGrows
  <2> QED BY <1>2, <2>2, <2>3 DEF ReserveReplacement, ReserveFresh
<1>3. ASSUME NEW t \in Callers, StartCompound(t) PROVE Grows
  <2> DEFINE c == nextRunSeq + 1
             plan == (c + 1)..(c + Len(Steps[req[t].profile]))
  <2>1. /\ AdmissionOpen(req[t].epoch) /\ compounds' = compounds \cup {c}
        /\ epochOf' = [r \in RunId |-> IF r \in plan \cup {c} THEN req[t].epoch ELSE epochOf[r]]
        /\ UNCHANGED <<admission, retention, drainVars, reason, processes, reservations>>
    BY <1>3 DEF StartCompound
  <2>2. c \in RunId
    BY <1>3, StartOf
  <2> HIDE DEF c, plan
  <2>3. /\ \A q \in RunId : epochOf'[q] \in {epochOf[q], workspaceEpoch}
        /\ epochOf'[c] = workspaceEpoch
    BY <2>1, <2>2 DEF AdmissionOpen
  <2>4. AllRuns' = AllRuns \cup {c} /\ AllRuns \subseteq RunId
    BY <2>1, TablesOfRuns DEF AllRuns
  <2> QED BY <2>1, <2>2, <2>3, <2>4 DEF Grows, AdmissionOpen
<1>4. ASSUME NEW t \in Threads, ReserveStep(t) PROVE Grows \/ Shrinks
  <2>1. UNCHANGED <<admission, retention, drainVars, reason, processes, compounds>>
    BY <1>4 DEF ReserveStep
  <2>2. CASE UNCHANGED <<reservations, epochOf>>
    BY <2>1, <2>2 DEF Shrinks
  <2>3. CASE /\ AdmissionOpen(req[t].epoch)
             /\ \E p, x : AddReservation(req[t].run, p, req[t].epoch, x)
    <3>1. req[t].run \in RunId
      BY <1>4, StepOf DEF ReserveStep
    <3> QED BY <2>1, <2>3, <3>1, ReserveGrows
  <2> QED BY <1>4, <2>2, <2>3 DEF ReserveStep
<1>5. ASSUME NEW t \in Threads, Promote(t) PROVE Grows \/ Shrinks
  <2>1. UNCHANGED <<admission, retention, drainVars, reason, compounds, epochOf>>
    BY <1>5 DEF Promote
  <2>2. CASE UNCHANGED <<processes, reservations>>
    BY <2>1, <2>2 DEF Shrinks
  <2>3. CASE /\ ~ReservationInvalid(req[t].run)
             /\ processes' = processes \cup {req[t].run}
             /\ reservations' = reservations \ {req[t].run}
    <3>1. /\ req[t].run \in reservations /\ ~draining
          /\ epochOf[req[t].run] = workspaceEpoch
      BY <2>3 DEF ReservationInvalid, AdmissionOpen
    <3>2. AllRuns' = AllRuns /\ AllRuns \subseteq RunId
      BY <2>1, <2>3, <3>1, TablesOfRuns DEF AllRuns
    <3> QED BY <2>1, <2>3, <3>1, <3>2 DEF Grows
  <2> QED BY <1>5, <2>2, <2>3 DEF Promote
<1>6. ASSUME NEW t \in Threads, Spawn(t) \/ FinishReservation(t) \/ EmitRunning(t) PROVE Shrinks
  BY <1>6 DEF Spawn, FinishReservation, EmitRunning, Shrinks
<1>7. ASSUME NEW c \in RunId, CoordFinish(c) PROVE Shrinks
  <2>1. c \in compounds
    BY <1>7 DEF CoordFinish, Coordinated
  <2> QED BY <1>7, <2>1 DEF CoordFinish, Shrinks
<1>8. ASSUME NEW c \in RunId, CoordPublish(c) \/ CoordClose(c) PROVE Shrinks
  BY <1>8 DEF CoordPublish, CoordClose, Shrinks
<1>9. ASSUME NEW r \in RunId, WaitProcess(r) PROVE Shrinks
  BY <1>9 DEF WaitProcess, Shrinks
<1>10. ASSUME NEW r \in RunId, FinishWait(r) \/ Escalate(r) \/ Exit(r) PROVE Shrinks
  BY <1>10 DEF FinishWait, Escalate, Exit, Shrinks
<1> QED
  BY <1>1, <1>2, <1>3, <1>4, <1>5, <1>6, <1>7, <1>8, <1>9, <1>10
     DEF Changes, Process, ReserveFresh

\* What a drain's step does to the epoch and the gate.
LEMMA DrainMoves ==
  ASSUME NEW d \in Drainers, BeginDrain(d) \/ StopAll(d) \/ Drained(d)
  PROVE  /\ UNCHANGED <<processes, compounds, reservations, epochOf>>
         /\ ~BeginDrain(d) => UNCHANGED workspaceEpoch
         /\ ~BeginDrain(d) /\ ~EndDrain(d) => UNCHANGED draining
         /\ ~EndDrain(d) => UNCHANGED rootEpoch
         /\ ~ClearTerminalStatuses(d) => UNCHANGED retention
<1> USE DEF admission, tables, retention, identity
<1>1. UNCHANGED <<processes, compounds, reservations, epochOf>>
  BY DEF BeginDrain, StopAll, StopAllCollect, StopAllSignal, StopAllHalfway,
       StopAllReturns, StopAllTimeout, Drained, ClearTerminalStatuses, Reload, EndDrain, LoadFails
<1>2. ~BeginDrain(d) => UNCHANGED workspaceEpoch
  BY DEF StopAll, StopAllCollect, StopAllSignal, StopAllHalfway,
       StopAllReturns, StopAllTimeout, Drained, ClearTerminalStatuses, Reload, EndDrain, LoadFails
<1>3. ~BeginDrain(d) /\ ~EndDrain(d) => UNCHANGED draining
  BY DEF StopAll, StopAllCollect, StopAllSignal, StopAllHalfway,
       StopAllReturns, StopAllTimeout, Drained, ClearTerminalStatuses, Reload, LoadFails
<1>4. ~ClearTerminalStatuses(d) => UNCHANGED retention
  BY DEF BeginDrain, StopAll, StopAllCollect, StopAllSignal, StopAllHalfway,
       StopAllReturns, StopAllTimeout, Drained, Reload, EndDrain, LoadFails
<1>5. ~EndDrain(d) => UNCHANGED rootEpoch
  BY DEF BeginDrain, StopAll, StopAllCollect, StopAllSignal, StopAllHalfway,
       StopAllReturns, StopAllTimeout, Drained, ClearTerminalStatuses, Reload, LoadFails
<1> QED BY <1>1, <1>2, <1>3, <1>4, <1>5

LEMMA TaggedStep ==
  ASSUME RunInv, Named, DrainTagged,
         Grows \/ Shrinks \/ \E d \in Drainers : BeginDrain(d) \/ StopAll(d) \/ Drained(d)
  PROVE  DrainTagged'
<1>0. processes \cup compounds \subseteq RunId /\ reason \in [RunId -> BOOLEAN]
  BY TablesOfRuns DEF Named
<1>1. CASE Grows
  BY <1>1 DEF Grows, DrainTagged
<1>2. CASE Shrinks
  BY <1>2 DEF Shrinks, DrainTagged
<1>3. ASSUME NEW d \in Drainers, BeginDrain(d) PROVE DrainTagged'
  <2>1. reason' = Mark(reason, processes \cup compounds) /\ UNCHANGED <<processes, compounds>>
    BY <1>3, DrainMoves DEF BeginDrain
  <2> QED BY <1>0, <2>1, Marked DEF DrainTagged
<1>4. ASSUME NEW d \in Drainers, ~BeginDrain(d), StopAll(d) \/ Drained(d) PROVE DrainTagged'
  <2>1. draining' => draining
    <3>1. CASE EndDrain(d)
      BY <3>1 DEF EndDrain
    <3> QED BY <1>4, <3>1, DrainMoves
  <2>2. reason' = reason \/ \E S : reason' = Mark(reason, S)
    BY <1>4 DEF StopAll, StopAllCollect, StopAllSignal, StopAllHalfway, StopAllReturns,
         StopAllTimeout, Drained, ClearTerminalStatuses, Reload, EndDrain, LoadFails
  <2>3. UNCHANGED <<processes, compounds>>
    BY <1>4, DrainMoves
  <2> QED BY <1>0, <2>1, <2>2, <2>3, Marked DEF DrainTagged
<1> QED BY <1>1, <1>2, <1>3, <1>4

\* A run that ends is recorded only from the tables.
LEMMA RememberedFrom ==
  ASSUME Named, UNCHANGED retention \/ \E r \in processes \cup compounds : Retain(r)
  PROVE  Remembered' \subseteq Remembered \cup AllRuns
<1>1. CASE UNCHANGED retention
  BY <1>1 DEF retention, Remembered
<1>2. ASSUME NEW r \in processes \cup compounds, Retain(r)
      PROVE Remembered' \subseteq Remembered \cup AllRuns
  <2>1. profileOf[r] \in Profiles /\ r \in AllRuns
    BY DEF Named, AllRuns
  <2>2. Kept(profileOf[r], r) \subseteq terminalIds[profileOf[r]] \cup {r}
    BY KeptOf
  <2>3. lastStatus' \subseteq lastStatus \cup terminalIds[profileOf[r]] \cup {r}
    BY <1>2, <2>2 DEF Retain
  <2>4. \A p \in Profiles : terminalIds'[p] \subseteq terminalIds[p] \cup {r}
    BY <1>2, <2>1, <2>2 DEF Retain, Named
  <2> QED BY <2>1, <2>3, <2>4 DEF Remembered
<1> QED BY <1>1, <1>2

LEMMA Epochs ==
  ASSUME RunInv, Named, DrainFull
  PROVE  /\ workspaceEpoch \in Nat
         /\ \A d \in Drainers : dreq[d].epoch \in Nat /\ dreq[d].epoch <= workspaceEpoch
         /\ \A r \in RunId : epochOf[r] \in Nat
         /\ AllRuns \cup Remembered \subseteq RunId
<1>1. workspaceEpoch \in Nat /\ \A d \in Drainers : dreq[d].epoch \in 0..workspaceEpoch
  BY DEF DrainFull, DrainInv
<1>2. \A r \in RunId : epochOf[r] \in Nat
  BY ExecutorAssumption DEF RunInv, Shape, Epoch
<1>3. AllRuns \cup Remembered \subseteq RunId
  BY TablesOfRuns DEF AllRuns, Remembered, Named
<1> QED BY <1>1, <1>2, <1>3

LEMMA IsolatedStep ==
  ASSUME RunInv, Named, DrainFull, Isolated, Covered,
         Grows \/ Shrinks \/ \E d \in Drainers : BeginDrain(d) \/ StopAll(d) \/ Drained(d)
  PROVE  Isolated'
<1>0. /\ workspaceEpoch \in Nat /\ rootEpoch \in 0..workspaceEpoch
      /\ AllRuns \cup Remembered \subseteq RunId
      /\ \A r \in AllRuns \cup Remembered : epochOf[r] \in rootEpoch..workspaceEpoch
  BY Epochs DEF Isolated
<1>1. CASE Grows
  <2>1. UNCHANGED <<workspaceEpoch, rootEpoch>> /\ Remembered' = Remembered
    BY <1>1 DEF Grows, Remembered
  <2>2. \A r \in AllRuns' : r \in AllRuns \/ epochOf'[r] = workspaceEpoch
    BY <1>1 DEF Grows, AllRuns
  <2>3. \A r \in AllRuns \cup Remembered : epochOf'[r] \in {epochOf[r], workspaceEpoch}
    BY <1>0, <1>1 DEF Grows
  <2>4. \A r \in AllRuns' \cup Remembered : epochOf'[r] \in rootEpoch..workspaceEpoch
    BY <1>0, <2>2, <2>3
  <2> QED BY <1>0, <2>1, <2>4 DEF Isolated
<1>2. CASE Shrinks
  <2>1. UNCHANGED <<workspaceEpoch, rootEpoch, epochOf>> /\ AllRuns' \subseteq AllRuns
    BY <1>2 DEF Shrinks, AllRuns
  <2>2. Remembered' \subseteq Remembered \cup AllRuns
    BY <1>2, RememberedFrom DEF Shrinks
  <2> QED BY <1>0, <2>1, <2>2 DEF Isolated
<1>3. ASSUME NEW d \in Drainers, BeginDrain(d) PROVE Isolated'
  <2>1. /\ UNCHANGED <<rootEpoch, epochOf, processes, compounds, reservations, retention>>
        /\ workspaceEpoch' = workspaceEpoch + 1
    BY <1>3 DEF BeginDrain, tables, identity
  <2>2. AllRuns' = AllRuns /\ Remembered' = Remembered
    BY <2>1 DEF AllRuns, Remembered, retention
  <2> QED BY <1>0, <2>1, <2>2 DEF Isolated
<1>4. ASSUME NEW d \in Drainers, EndDrain(d) PROVE Isolated'
  <2>1. /\ UNCHANGED <<workspaceEpoch, processes, compounds, reservations, epochOf, retention>>
        /\ rootEpoch' = IF dpc[d] = "cleared" THEN dreq[d].epoch ELSE rootEpoch
    BY <1>4 DEF EndDrain, tables, identity
  <2>2. AllRuns' = AllRuns /\ Remembered' = Remembered
    BY <2>1 DEF AllRuns, Remembered, retention
  <2>3. CASE rootEpoch' = rootEpoch
    BY <1>0, <2>1, <2>2, <2>3 DEF Isolated
  <2>4. CASE dpc[d] = "cleared" /\ rootEpoch' = dreq[d].epoch
    <3>1. \A r \in AllRuns \cup Remembered : epochOf[r] >= dreq[d].epoch
      BY <2>4 DEF Covered, CoveredBy
    <3>2. rootEpoch' \in 0..workspaceEpoch
      BY <2>4, Epochs
    <3>3. \A r \in AllRuns \cup Remembered : epochOf[r] \in rootEpoch'..workspaceEpoch
      BY <1>0, <2>4, <3>1, <3>2
    <3> QED BY <2>1, <2>2, <3>2, <3>3 DEF Isolated
  <2> QED BY <2>1, <2>3, <2>4
<1>5. ASSUME NEW d \in Drainers, StopAll(d) \/ Drained(d), ~BeginDrain(d), ~EndDrain(d)
      PROVE Isolated'
  <2>1. UNCHANGED <<processes, compounds, reservations, epochOf, workspaceEpoch, rootEpoch>>
    BY <1>5, DrainMoves
  <2>2. AllRuns' = AllRuns /\ Remembered' \subseteq Remembered
    <3>1. CASE UNCHANGED retention
      BY <2>1, <3>1 DEF AllRuns, Remembered, retention
    <3>2. CASE ClearTerminalStatuses(d)
      BY <2>1, <3>2 DEF ClearTerminalStatuses, AllRuns, Remembered
    <3> QED BY <1>5, <3>1, <3>2, DrainMoves
  <2> QED BY <1>0, <2>1, <2>2 DEF Isolated
<1> QED BY <1>1, <1>2, <1>3, <1>4, <1>5

\* StopAll's copies cover the tables until its answer, and then there is nothing
\* left that could come back before the newest drain ends.
LEMMA CollectedStep ==
  ASSUME RunInv, Named, DrainFull, Closed, Collected,
         Grows \/ Shrinks \/ \E d \in Drainers : BeginDrain(d) \/ StopAll(d) \/ Drained(d)
  PROVE  Collected'
<1> USE DEF admission, tables, retention, identity, drainVars
<1>0. /\ dpc \in [Drainers -> DPC] /\ dreq = [d \in Drainers |-> dreq[d]]
      /\ workspaceEpoch \in Nat /\ \A d \in Drainers : dreq[d].epoch \in 0..workspaceEpoch
  BY DEF DrainFull, DrainInv
<1>1. CASE Grows
  BY <1>1 DEF Grows, Collected, InDrain
<1>2. CASE Shrinks
  <2> SUFFICES ASSUME NEW d \in Drainers, InDrain(d)
               PROVE /\ dpc[d] \in {"collected", "waiting", "late"} =>
                          /\ processes' \subseteq dreq[d].procs
                          /\ compounds' \subseteq dreq[d].comps
                          /\ reservations' \subseteq dreq[d].resvs
                     /\ dpc[d] \in {"stopped", "cleared"} => Emptied'
                     /\ dpc[d] = "cleared" =>
                          lastStatus' = {} /\ \A p \in Profiles : terminalIds'[p] = {}
    BY <1>2 DEF Shrinks, Collected, InDrain
  <2>1. CASE dpc[d] \in {"collected", "waiting", "late"}
    BY <1>2, <2>1 DEF Shrinks, Collected
  <2>2. CASE dpc[d] \in {"stopped", "cleared"}
    <3>1. Emptied
      BY <2>2 DEF Collected
    <3>2. Emptied' /\ UNCHANGED retention
      BY <1>2, <3>1 DEF Shrinks, Emptied
    <3> QED BY <2>2, <3>2 DEF Collected
  <2> QED BY <2>1, <2>2
<1>3. ASSUME NEW d \in Drainers, BeginDrain(d) PROVE Collected'
  <2>1. \A f \in Drainers : dreq[f].epoch # workspaceEpoch + 1
    BY <1>0
  <2> QED BY <1>0, <1>3, <2>1 DEF BeginDrain, Collected, InDrain
<1>4. ASSUME NEW d \in Drainers, NEW l \in DPC, dpc' = [dpc EXCEPT ![d] = l],
             \A f \in Drainers \ {d} : dreq'[f] = dreq[f],
             draining' => draining,
             UNCHANGED <<workspaceEpoch, processes, compounds, reservations>>,
             UNCHANGED retention \/ (lastStatus' = {} /\ \A p \in Profiles : terminalIds'[p] = {}),
             InDrain(d)' =>
               /\ l \in {"collected", "waiting", "late"} =>
                    /\ processes \subseteq dreq'[d].procs
                    /\ compounds \subseteq dreq'[d].comps
                    /\ reservations \subseteq dreq'[d].resvs
               /\ l \in {"stopped", "cleared"} => Emptied
               /\ l = "cleared" => lastStatus' = {} /\ \A p \in Profiles : terminalIds'[p] = {}
      PROVE Collected'
  <2>1. \A f \in Drainers \ {d} : dpc'[f] = dpc[f] /\ (InDrain(f)' => InDrain(f))
    BY <1>0, <1>4 DEF InDrain
  <2>2. dpc'[d] = l /\ Emptied' = Emptied
    BY <1>0, <1>4 DEF Emptied
  <2> SUFFICES ASSUME NEW f \in Drainers, InDrain(f)'
               PROVE /\ dpc'[f] \in {"collected", "waiting", "late"} =>
                          /\ processes' \subseteq dreq'[f].procs
                          /\ compounds' \subseteq dreq'[f].comps
                          /\ reservations' \subseteq dreq'[f].resvs
                     /\ dpc'[f] \in {"stopped", "cleared"} => Emptied'
                     /\ dpc'[f] = "cleared" =>
                          lastStatus' = {} /\ \A p \in Profiles : terminalIds'[p] = {}
    BY DEF Collected
  <2>3. CASE f = d
    BY <1>4, <2>2, <2>3
  <2>4. CASE f # d
    <3>1. InDrain(f) /\ dpc'[f] = dpc[f] /\ dreq'[f] = dreq[f]
      BY <1>4, <2>1, <2>4
    <3>2. dpc[f] = "cleared" =>
            lastStatus' = {} /\ \A p \in Profiles : terminalIds'[p] = {}
      <4>1. CASE UNCHANGED retention
        BY <3>1, <4>1 DEF Collected
      <4>2. CASE lastStatus' = {} /\ \A p \in Profiles : terminalIds'[p] = {}
        BY <4>2
      <4> QED BY <1>4, <4>1, <4>2
    <3>3. dpc[f] \in {"stopped", "cleared"} => Emptied'
      BY <2>2, <3>1 DEF Collected
    <3> QED BY <1>4, <3>1, <3>2, <3>3 DEF Collected
  <2> QED BY <2>3, <2>4
<1>5. DPC = {"idle", "begun", "collected", "waiting", "late", "stopped", "cleared", "reloading"}
  BY DEF DPC
<1>6. ASSUME NEW d \in Drainers, StopAllCollect(d) PROVE Collected'
  <2>1. /\ dpc[d] = "begun"
        /\ UNCHANGED <<draining, workspaceEpoch, processes, compounds, reservations, retention>>
    BY <1>6 DEF StopAllCollect
  <2>2. CASE /\ processes \cup compounds \cup reservations = {}
             /\ dpc' = [dpc EXCEPT ![d] = "stopped"] /\ UNCHANGED dreq
    BY <1>4, <1>5, <2>1, <2>2 DEF Emptied
  <2>3. CASE /\ dpc' = [dpc EXCEPT ![d] = "collected"]
             /\ dreq' = [dreq EXCEPT ![d] = [epoch |-> @.epoch, procs |-> processes,
                           comps |-> compounds, resvs |-> reservations]]
    <3>1. /\ \A f \in Drainers \ {d} : dreq'[f] = dreq[f]
          /\ dreq'[d].procs = processes /\ dreq'[d].comps = compounds
          /\ dreq'[d].resvs = reservations
      BY <1>0, <2>3
    <3> QED BY <1>4, <1>5, <2>1, <2>3, <3>1
  <2> QED BY <1>6, <2>2, <2>3 DEF StopAllCollect
<1>7. ASSUME NEW d \in Drainers, StopAllSignal(d) \/ StopAllHalfway(d) PROVE Collected'
  <2>1. /\ dpc[d] \in {"collected", "waiting"}
        /\ UNCHANGED <<draining, workspaceEpoch, processes, compounds, reservations, retention, dreq>>
    BY <1>7 DEF StopAllSignal, StopAllHalfway
  <2>2. \E l \in {"waiting", "late"} : dpc' = [dpc EXCEPT ![d] = l]
    BY <1>7 DEF StopAllSignal, StopAllHalfway
  <2>3. InDrain(d)' => /\ processes \subseteq dreq[d].procs
                       /\ compounds \subseteq dreq[d].comps
                       /\ reservations \subseteq dreq[d].resvs
    BY <2>1 DEF InDrain, Collected
  <2> QED BY <1>4, <1>5, <2>1, <2>2, <2>3
<1>8. ASSUME NEW d \in Drainers, StopAllReturns(d) PROVE Collected'
  <2>1. /\ dpc[d] \in {"waiting", "late"} /\ AllDone(d) /\ dpc' = [dpc EXCEPT ![d] = "stopped"]
        /\ UNCHANGED <<draining, workspaceEpoch, processes, compounds, reservations, retention, dreq>>
    BY <1>8 DEF StopAllReturns
  <2>2. InDrain(d)' => Emptied
    <3> SUFFICES ASSUME InDrain(d)' PROVE Emptied
      OBVIOUS
    <3>1. /\ processes \subseteq dreq[d].procs /\ compounds \subseteq dreq[d].comps
          /\ reservations \subseteq dreq[d].resvs
      BY <2>1 DEF InDrain, Collected
    <3>2. reservations = {}
      BY <2>1, <3>1 DEF AllDone
    <3>3. \A r \in processes \cup compounds : r \in RunId /\ done[r]
      BY <2>1, <3>1, TablesOfRuns DEF AllDone
    <3>4. processes = {} /\ compounds = {}
      BY <3>3 DEF Closed
    <3> QED BY <3>2, <3>4 DEF Emptied
  <2> QED BY <1>4, <1>5, <2>1, <2>2
<1>9. ASSUME NEW d \in Drainers, StopAllTimeout(d) \/ EndDrain(d) \/ LoadFails(d) PROVE Collected'
  <2>1. /\ dpc' = [dpc EXCEPT ![d] = "idle"] /\ dreq' = [dreq EXCEPT ![d] = NoDrain]
        /\ UNCHANGED <<workspaceEpoch, processes, compounds, reservations, retention>>
    BY <1>9 DEF StopAllTimeout, EndDrain, LoadFails
  <2>3. draining' => draining
    <3>1. CASE EndDrain(d)
      BY <3>1 DEF EndDrain
    <3>2. CASE ~EndDrain(d)
      BY <1>9, <3>2 DEF StopAllTimeout, LoadFails
    <3> QED BY <3>1, <3>2
  <2>2. \A f \in Drainers \ {d} : dreq'[f] = dreq[f]
    BY <1>0, <2>1
  <2> QED BY <1>4, <1>5, <2>1, <2>2, <2>3
<1>10. ASSUME NEW d \in Drainers, ClearTerminalStatuses(d) PROVE Collected'
  <2>1. /\ dpc[d] = "stopped" /\ dpc' = [dpc EXCEPT ![d] = "cleared"]
        /\ lastStatus' = {} /\ \A p \in Profiles : terminalIds'[p] = {}
        /\ UNCHANGED <<draining, workspaceEpoch, processes, compounds, reservations, dreq>>
    BY <1>10 DEF ClearTerminalStatuses
  <2>2. InDrain(d)' => Emptied
    BY <2>1 DEF InDrain, Collected
  <2> QED BY <1>4, <1>5, <2>1, <2>2
<1>11. ASSUME NEW d \in Drainers, Reload(d) PROVE Collected'
  <2>1. /\ dpc' = [dpc EXCEPT ![d] = "reloading"]
        /\ dreq' = [dreq EXCEPT ![d] = [NoDrain EXCEPT !.epoch = workspaceEpoch]]
        /\ UNCHANGED <<draining, workspaceEpoch, processes, compounds, reservations, retention>>
    BY <1>11 DEF Reload
  <2>2. \A f \in Drainers \ {d} : dreq'[f] = dreq[f]
    BY <1>0, <2>1
  <2> QED BY <1>4, <1>5, <2>1, <2>2
<1> QED
  BY <1>1, <1>2, <1>3, <1>6, <1>7, <1>8, <1>9, <1>10, <1>11 DEF StopAll, Drained

\* What is older than a drain stays in its copies, and leaves before its answer.
LEMMA CoveredStep ==
  ASSUME RunInv, Named, DrainFull, Closed, Covered,
         Grows \/ Shrinks \/ \E d \in Drainers : BeginDrain(d) \/ StopAll(d) \/ Drained(d)
  PROVE  Covered'
<1> USE DEF admission, tables, retention, identity, drainVars
<1>0. /\ dpc \in [Drainers -> DPC] /\ dreq = [d \in Drainers |-> dreq[d]]
      /\ workspaceEpoch \in Nat /\ AllRuns \cup Remembered \subseteq RunId
      /\ \A d \in Drainers : dreq[d].epoch \in Nat /\ dreq[d].epoch <= workspaceEpoch
      /\ \A r \in RunId : epochOf[r] \in Nat
  BY Epochs DEF DrainFull
<1>1. CASE Grows
  <2> SUFFICES ASSUME NEW d \in Drainers PROVE CoveredBy(dpc[d], dreq[d])'
    BY DEF Covered
  <2>1. CoveredBy(dpc[d], dreq[d]) /\ dpc'[d] = dpc[d] /\ dreq'[d] = dreq[d]
    BY <1>1 DEF Covered, Grows
  <2>2. \A r \in AllRuns \cup Remembered :
          epochOf[r] >= dreq[d].epoch => epochOf'[r] >= dreq[d].epoch
    BY <1>0, <1>1 DEF Grows
  <2>3. \A r : epochOf'[r] = workspaceEpoch => epochOf'[r] >= dreq[d].epoch
    BY <1>0
  <2>4. Remembered' = Remembered
    BY <1>1 DEF Grows, Remembered
  <2>5. /\ \A r \in processes' : r \in processes \/ epochOf'[r] = workspaceEpoch
        /\ \A r \in compounds' : r \in compounds \/ epochOf'[r] = workspaceEpoch
        /\ \A r \in reservations' : r \in reservations \/ epochOf'[r] = workspaceEpoch
    BY <1>1 DEF Grows
  <2> QED BY ONLY <2>1, <2>2, <2>3, <2>4, <2>5 DEF CoveredBy, AllRuns
<1>2. CASE Shrinks
  <2> SUFFICES ASSUME NEW d \in Drainers PROVE CoveredBy(dpc[d], dreq[d])'
    BY DEF Covered
  <2>1. CoveredBy(dpc[d], dreq[d]) /\ dpc'[d] = dpc[d] /\ dreq'[d] = dreq[d]
    BY <1>2 DEF Covered, Shrinks
  <2>2. Remembered' \subseteq Remembered \cup AllRuns
    BY <1>2, RememberedFrom DEF Shrinks
  <2>3. /\ processes' \subseteq processes /\ compounds' \subseteq compounds
        /\ reservations' \subseteq reservations /\ epochOf' = epochOf
    BY <1>2 DEF Shrinks
  <2> QED BY ONLY <2>1, <2>2, <2>3 DEF CoveredBy, AllRuns
<1>3. ASSUME NEW d \in Drainers, NEW l \in DPC, dpc' = [dpc EXCEPT ![d] = l],
             \A f \in Drainers \ {d} : dreq'[f] = dreq[f],
             UNCHANGED <<processes, compounds, reservations, epochOf>>,
             Remembered' \subseteq Remembered,
             CoveredBy(l, dreq'[d])
      PROVE Covered'
  <2> SUFFICES ASSUME NEW f \in Drainers PROVE CoveredBy(dpc[f], dreq[f])'
    BY DEF Covered
  <2>1. CASE f = d
    <3>1. dpc'[f] = l
      BY <1>0, <1>3, <2>1
    <3> QED BY <1>3, <2>1, <3>1 DEF CoveredBy, AllRuns
  <2>2. CASE f # d
    <3>1. dpc'[f] = dpc[f] /\ dreq'[f] = dreq[f] /\ CoveredBy(dpc[f], dreq[f])
      BY <1>0, <1>3, <2>2 DEF Covered
    <3> QED BY <1>3, <3>1 DEF CoveredBy, AllRuns
  <2> QED BY <2>1, <2>2
<1>4. DPC = {"idle", "begun", "collected", "waiting", "late", "stopped", "cleared", "reloading"}
  BY DEF DPC
<1>5. ASSUME NEW d \in Drainers, NEW l \in {"idle", "begun", "reloading"},
             dpc' = [dpc EXCEPT ![d] = l], NEW q, dreq' = [dreq EXCEPT ![d] = q],
             UNCHANGED <<processes, compounds, reservations, epochOf, retention>>
      PROVE Covered'
  <2>1. \A f \in Drainers \ {d} : dreq'[f] = dreq[f]
    BY <1>0, <1>5
  <2>2. CoveredBy(l, dreq'[d])
    BY <1>5 DEF CoveredBy
  <2>3. Remembered' = Remembered
    BY <1>5 DEF Remembered
  <2> QED BY <1>3, <1>4, <1>5, <2>1, <2>2, <2>3
<1>6. ASSUME NEW d \in Drainers,
             BeginDrain(d) \/ StopAllTimeout(d) \/ Reload(d) \/ EndDrain(d) \/ LoadFails(d)
      PROVE Covered'
  <2>1. UNCHANGED <<processes, compounds, reservations, epochOf, retention>>
    BY <1>6 DEF BeginDrain, StopAllTimeout, Reload, EndDrain, LoadFails
  <2>2. /\ \E l \in {"idle", "begun", "reloading"} : dpc' = [dpc EXCEPT ![d] = l]
        /\ \E q : dreq' = [dreq EXCEPT ![d] = q]
    BY <1>6 DEF BeginDrain, StopAllTimeout, Reload, EndDrain, LoadFails
  <2> QED BY <1>5, <2>1, <2>2
<1>7. ASSUME NEW d \in Drainers, NEW l \in DPC, dpc' = [dpc EXCEPT ![d] = l], UNCHANGED dreq,
             UNCHANGED <<processes, compounds, reservations, epochOf>>,
             Remembered' \subseteq Remembered, CoveredBy(l, dreq[d])
      PROVE Covered'
  BY <1>3, <1>7
<1>8. ASSUME NEW d \in Drainers, StopAllCollect(d) PROVE Covered'
  <2>1. UNCHANGED <<processes, compounds, reservations, epochOf>> /\ Remembered' = Remembered
    BY <1>8 DEF StopAllCollect, Remembered
  <2>2. CASE /\ processes \cup compounds \cup reservations = {}
             /\ dpc' = [dpc EXCEPT ![d] = "stopped"] /\ UNCHANGED dreq
    <3>1. CoveredBy("stopped", dreq[d])
      BY <2>2 DEF CoveredBy, AllRuns
    <3> QED BY <1>4, <1>7, <2>1, <2>2, <3>1
  <2>3. CASE /\ dpc' = [dpc EXCEPT ![d] = "collected"]
             /\ dreq' = [dreq EXCEPT ![d] = [epoch |-> @.epoch, procs |-> processes,
                           comps |-> compounds, resvs |-> reservations]]
    <3>1. /\ \A f \in Drainers \ {d} : dreq'[f] = dreq[f]
          /\ dreq'[d].procs = processes /\ dreq'[d].comps = compounds
          /\ dreq'[d].resvs = reservations
      BY <1>0, <2>3
    <3>2. CoveredBy("collected", dreq'[d])
      BY <3>1 DEF CoveredBy
    <3> QED BY <1>3, <1>4, <2>1, <2>3, <3>1, <3>2
  <2> QED BY <1>8, <2>2, <2>3 DEF StopAllCollect
<1>9. ASSUME NEW d \in Drainers, StopAllSignal(d) \/ StopAllHalfway(d) PROVE Covered'
  <2>1. /\ dpc[d] \in {"collected", "waiting"} /\ UNCHANGED dreq
        /\ UNCHANGED <<processes, compounds, reservations, epochOf>> /\ Remembered' = Remembered
    BY <1>9 DEF StopAllSignal, StopAllHalfway, Remembered
  <2>2. \E l \in {"waiting", "late"} : dpc' = [dpc EXCEPT ![d] = l]
    BY <1>9 DEF StopAllSignal, StopAllHalfway
  <2>3. CoveredBy(dpc[d], dreq[d])
    BY DEF Covered
  <2>4. \A l \in {"waiting", "late"} : CoveredBy(l, dreq[d])
    BY <2>1, <2>3 DEF CoveredBy
  <2> QED BY <1>4, <1>7, <2>1, <2>2, <2>4
<1>10. ASSUME NEW d \in Drainers, StopAllReturns(d) PROVE Covered'
  <2>1. /\ dpc[d] \in {"waiting", "late"} /\ AllDone(d) /\ dpc' = [dpc EXCEPT ![d] = "stopped"]
        /\ UNCHANGED <<processes, compounds, reservations, epochOf, dreq>> /\ Remembered' = Remembered
    BY <1>10 DEF StopAllReturns, Remembered
  <2>2. CoveredBy(dpc[d], dreq[d])
    BY DEF Covered
  <2>3. \A r \in processes \cup compounds : ~done[r]
    BY <1>0 DEF Closed, AllRuns
  <2>4. \A r \in AllRuns : epochOf[r] >= dreq[d].epoch
    BY <2>1, <2>2, <2>3 DEF CoveredBy, AllDone, AllRuns
  <2>5. CoveredBy("stopped", dreq[d])
    BY <2>4 DEF CoveredBy
  <2> QED BY <1>4, <1>7, <2>1, <2>5
<1>11. ASSUME NEW d \in Drainers, ClearTerminalStatuses(d) PROVE Covered'
  <2>1. /\ dpc[d] = "stopped" /\ dpc' = [dpc EXCEPT ![d] = "cleared"]
        /\ lastStatus' = {} /\ \A p \in Profiles : terminalIds'[p] = {}
        /\ UNCHANGED <<processes, compounds, reservations, epochOf, dreq>>
    BY <1>11 DEF ClearTerminalStatuses
  <2>2. Remembered' = {}
    BY <2>1 DEF Remembered
  <2>3. CoveredBy(dpc[d], dreq[d])
    BY DEF Covered
  <2>4. Covered'
    <3> SUFFICES ASSUME NEW f \in Drainers PROVE CoveredBy(dpc[f], dreq[f])'
      BY DEF Covered
    <3>1. CASE f = d
      <4>1. dpc'[f] = "cleared"
        BY <1>0, <2>1, <3>1
      <4> QED BY <2>1, <2>2, <2>3, <3>1, <4>1 DEF CoveredBy, AllRuns
    <3>2. CASE f # d
      <4>1. dpc'[f] = dpc[f] /\ dreq'[f] = dreq[f] /\ CoveredBy(dpc[f], dreq[f])
        BY <1>0, <2>1, <3>2 DEF Covered
      <4> QED BY <2>1, <2>2, <4>1 DEF CoveredBy, AllRuns
    <3> QED BY <3>1, <3>2
  <2> QED BY <2>4
<1> QED
  BY <1>1, <1>2, <1>6, <1>8, <1>9, <1>10, <1>11 DEF StopAll, Drained

IsoInv ==
  /\ Named /\ Coordinated /\ Held /\ Closed /\ Doomed
  /\ Isolated /\ Covered /\ Collected /\ DrainTagged

LEMMA QuietKeeps ==
  ASSUME Quiet, Named, Coordinated, Held, Closed, Doomed
  PROVE  Named' /\ Coordinated' /\ Held' /\ Closed' /\ Doomed'
<1>0. RunId \subseteq Threads
  BY DEF Threads
<1>1. Named' /\ Closed'
  BY DEF Quiet, Tables, Named, Closed
<1>2. Coordinated'
  BY <1>0 DEF Quiet, Tables, Steady, Coordinated
<1>3. Held'
  BY DEF Quiet, Tables, Steady, Held
<1>4. Doomed'
  BY DEF Quiet, Tables, Steady, Doomed
<1> QED BY <1>1, <1>2, <1>3, <1>4

LEMMA IsoStep == RunInv /\ Asked /\ DrainFull /\ IsoInv /\ [Next]_vars => IsoInv'
<1> SUFFICES ASSUME RunInv, Asked, DrainFull, IsoInv, [Next]_vars PROVE IsoInv'
  OBVIOUS
<1> USE DEF IsoInv
<1>1. Quiet \/ Changes
  BY Splits
<1>2. Grows \/ Shrinks \/ \E d \in Drainers : BeginDrain(d) \/ StopAll(d) \/ Drained(d)
  BY <1>1, TableMoves
<1>3. Isolated' /\ Covered' /\ Collected' /\ DrainTagged'
  BY <1>2, IsolatedStep, CoveredStep, CollectedStep, TaggedStep
<1>4. Named' /\ Coordinated' /\ Held' /\ Closed' /\ Doomed'
  BY <1>1, QuietKeeps, NamedStep, CoordinatedStep, HeldStep, ClosedStep, DoomedStep
<1> QED BY <1>3, <1>4

LEMMA IsoClears == RunInv /\ IsoInv => DrainClears
<1> SUFFICES ASSUME RunInv, IsoInv PROVE DrainClears
  OBVIOUS
<1> USE DEF IsoInv
<1>1. DrainComplete
  <2> SUFFICES ASSUME NEW d \in Drainers, dpc[d] \in {"stopped", "cleared"}, InDrain(d)
               PROVE /\ processes \cup compounds \cup reservations = {}
                     /\ \A r \in RunId : os[r] = "running" => killed[r]
    BY DEF DrainComplete, InDrain
  <2>1. Emptied
    BY DEF Collected
  <2>2. \A t \in Threads : pc[t] # "promote"
    BY <2>1 DEF Held, Emptied
  <2> QED BY <2>1, <2>2 DEF Emptied, Doomed
<1>2. WorkspaceIsolation
  BY DEF Isolated, AllRuns, Remembered, WorkspaceIsolation
<1> QED BY <1>1, <1>2 DEF DrainClears

LEMMA AllInit == Init => RunInv /\ Asked /\ DrainFull /\ IsoInv
BY RunsInit, AskedInit, DrainInit, IsoInit DEF IsoInv

(***************************************************************************)
(* StopAll and the epoch separate the workspaces, for any number of calls, *)
(* drains, profiles, runs and epochs: inside its own drain StopAll answers *)
(* true only for an empty executor whose processes have exited or were     *)
(* killed, the runs that it ends say why, and while admission is open      *)
(* nothing is left that is older than the load that opened the root: a     *)
(* reload after a switch that timed out reopens the gate beside live runs, *)
(* which are of that root too.                                             *)
(***************************************************************************)
THEOREM DrainClearsAlways == Spec => []DrainClears
<1>1. (RunInv /\ Asked /\ DrainFull /\ IsoInv) /\ [Next]_vars
        => (RunInv /\ Asked /\ DrainFull /\ IsoInv)'
  BY RunStep, AskedStep, DrainStep, IsoStep
<1>2. RunInv /\ Asked /\ DrainFull /\ IsoInv => DrainClears
  BY IsoClears
<1> QED BY <1>1, <1>2, AllInit, PTL DEF Spec

=============================================================================
