------------------------- MODULE RunExecutorProofs -------------------------
(***************************************************************************)
(* Proofs about RunExecutor: an old drain never reopens admission over a   *)
(* newer one; a run is spawned by one thread, once, and its replacement    *)
(* only after it has exited; and the executor implements the admission     *)
(* gate.                                                                   *)
(***************************************************************************)
EXTENDS RunExecutor, FiniteSetTheorems, WellFoundedInduction, TLAPS

(***************************************************************************)
(* A non-empty set of runs has a newest member: among the sets of runs     *)
(* above a member, the smallest is empty.                                  *)
(***************************************************************************)
LEMMA NewestIn ==
  ASSUME NEW S \in SUBSET RunId, S # {}
  PROVE  Newest(S) \in S /\ \A q \in S : q <= Newest(S)
<1> DEFINE Above(r) == {q \in S : q > r}
           T == {Above(r) : r \in S}
<1>1. IsFiniteSet(RunId) /\ IsFiniteSet(S)
  <2>1. IsFiniteSet(1..MaxRuns)
    BY FS_Interval, ExecutorAssumption, 1 \in Int, MaxRuns \in Int
  <2>2. S \subseteq 1..MaxRuns
    BY DEF RunId
  <2>3. IsFiniteSet(S)
    BY <2>1, <2>2, FS_Subset
  <2> QED BY <2>1, <2>3 DEF RunId
<1>2. T \subseteq FiniteSubsetsOf(S) /\ T # {}
  <2>1. FiniteSubsetsOf(S) = SUBSET S
    BY <1>1, FS_FiniteSubsetsOfFinite
  <2>2. T # {}
    <3>1. PICK r \in S : TRUE
      OBVIOUS
    <3>2. Above(r) \in T
      OBVIOUS
    <3> QED BY <3>2
  <2> QED BY <2>1, <2>2
<1>3. PICK A \in T : \A B \in T : ~(<<B, A>> \in StrictSubsetOrdering(S))
  BY <1>2, FS_StrictSubsetOrderingWellFounded, WFMin
<1>4. PICK r \in S : A = Above(r)
  OBVIOUS
<1>5. ASSUME NEW q \in S PROVE q <= r
  <2> SUFFICES ASSUME ~(q <= r) PROVE FALSE
    OBVIOUS
  <2>1. q \in Nat /\ r \in Nat /\ q > r
    BY ExecutorAssumption DEF RunId
  <2>2. Above(q) \subseteq Above(r) /\ q \in Above(r) /\ q \notin Above(q)
    <3>1. \A x \in S : x \in Nat
      BY ExecutorAssumption DEF RunId
    <3>2. \A x \in S : x > q => x > r
      BY <2>1, <3>1
    <3>3. q \in Above(r) /\ q \notin Above(q)
      BY <2>1
    <3> QED BY <3>2, <3>3
  <2>3. <<Above(q), Above(r)>> \in StrictSubsetOrdering(S)
    BY <2>2 DEF StrictSubsetOrdering
  <2> QED BY <2>3, <1>3, <1>4
<1> QED BY <1>5 DEF Newest

-----------------------------------------------------------------------------
(***************************************************************************)
(* Type correctness.  The retained tables are indexed by a run's profile,  *)
(* so TypeOK needs that every live run and every preassigned step has one, *)
(* and that the requests which will create runs carry one.                 *)
(***************************************************************************)
LEMMA RunFacts ==
  /\ RunId \subseteq Nat
  /\ NoRun \notin RunId
  /\ Callers \cap RunId = {}
  /\ 0 \in Epoch
  /\ Compounds \subseteq Profiles
BY ExecutorAssumption DEF RunId, NoRun, Epoch

LEMMA RefreshedType ==
  ASSUME TablesOK, NEW p, NEW procs \in SUBSET RunId, NEW comps \in SUBSET RunId
  PROVE  Refreshed(p, procs, comps) \in [Profiles -> RunId \cup {NoRun}]
<1> DEFINE live == {r \in procs \cup comps : profileOf[r] = p}
<1>1. live # {} => Newest(live) \in RunId
  BY NewestIn
<1> QED BY <1>1 DEF Refreshed, TablesOK

LEMMA RetainType ==
  ASSUME TablesOK, NEW r \in RunId, profileOf[r] \in Profiles, Retain(r)
  PROVE  terminalIds' \in [Profiles -> SUBSET RunId] /\ lastStatus' \subseteq RunId
BY DEF TablesOK, Retain, Kept

-----------------------------------------------------------------------------
(***************************************************************************)
(* The drain protocol.  Only the actions of a drainer change the epoch,    *)
(* the admission gate and the drainers' own state.                         *)
(***************************************************************************)
DrainState == <<workspaceEpoch, draining, dpc, dreq>>

\* The strengthened invariant, with what it needs to know of the functions.
DrainFull ==
  /\ dpc \in [Drainers -> DPC]
  /\ dreq = [d \in Drainers |-> dreq[d]]
  /\ DrainInv

LEMMA DrainInit == Init => DrainFull
<1> SUFFICES ASSUME Init PROVE DrainFull
  OBVIOUS
<1>1. dpc \in [Drainers -> DPC] /\ dreq = [d \in Drainers |-> dreq[d]]
  BY DEF Init, DPC
<1>2. \A d \in Drainers : dpc[d] = "idle" /\ dreq[d].epoch = 0
  BY DEF Init, NoDrain
<1> QED BY <1>1, <1>2 DEF Init, DrainFull, DrainInv, DrainOwned

LEMMA CallsDrainNothing ==
  ASSUME NEW t \in Callers, Call(t) PROVE UNCHANGED DrainState
<1>1. ASSUME NEW p \in Ordinary, CallStart(t, p) \/ CallRestart(t, p)
      PROVE UNCHANGED DrainState
  BY <1>1 DEF CallStart, CallRestart, DrainState, admission, drainVars
<1>2. ASSUME NEW p \in Compounds, CallStartCompound(t, p) \/ CallRestartCompound(t, p)
      PROVE UNCHANGED DrainState
  BY <1>2 DEF CallStartCompound, CallRestartCompound, DrainState, admission, drainVars
<1>3. ASSUME NEW p \in Profiles, CallStop(t, p) PROVE UNCHANGED DrainState
  BY <1>3 DEF CallStop, DrainState, admission, drainVars
<1>4. ASSUME NEW r \in RunId, CallRestartInstance(t, r) \/ CallStopInstance(t, r)
      PROVE UNCHANGED DrainState
  BY <1>4 DEF CallRestartInstance, CallStopInstance, DrainState, admission, drainVars
<1> QED BY <1>1, <1>2, <1>3, <1>4 DEF Call

LEMMA CallersDrainNothing ==
  ASSUME NEW t \in Callers, CallerStep(t) PROVE UNCHANGED DrainState
<1> USE DEF DrainState, admission, drainVars
<1>1. CASE RestartLookup(t) \/ ReserveReplacement(t) \/ RestartUnprepared(t)
  BY <1>1 DEF RestartLookup, ReserveReplacement, RestartUnprepared
<1>2. CASE StopInstance(t) \/ StopSignal(t) \/ StopWait(t)
  BY <1>2 DEF StopInstance, StopSignal, StopWait
<1>3. CASE CompoundLookup(t) \/ CompoundCancel(t) \/ CompoundSignal(t) \/ CompoundWait(t)
  BY <1>3 DEF CompoundLookup, CompoundCancel, CompoundSignal, CompoundWait
<1>4. CASE CompoundRestartCheck(t) \/ CompoundRestartStop(t)
  BY <1>4 DEF CompoundRestartCheck, CompoundRestartStop
<1>5. CASE CompoundRejected(t) \/ StartCompound(t)
  BY <1>5 DEF CompoundRejected, StartCompound
<1> QED BY <1>1, <1>2, <1>3, <1>4, <1>5 DEF CallerStep

LEMMA RunsDrainNothing ==
  /\ \A t \in Threads : Launch(t) => UNCHANGED DrainState
  /\ \A r \in RunId : Coordinator(r) \/ Process(r) \/ Exit(r) => UNCHANGED DrainState
<1> USE DEF DrainState, admission, drainVars
<1>1. ASSUME NEW t \in Threads, Launch(t) PROVE UNCHANGED DrainState
  BY <1>1 DEF Launch, LaunchRejected, ReserveFresh, ReserveStep, Spawn, Promote,
       FinishReservation, EmitRunning
<1>2. ASSUME NEW r \in RunId, Coordinator(r) PROVE UNCHANGED DrainState
  BY <1>2 DEF Coordinator, CoordStep, CoordPublish, CoordWait, CoordRecord,
       CoordFinish, CoordClose
<1>3. ASSUME NEW r \in RunId, Process(r) \/ Exit(r) PROVE UNCHANGED DrainState
  BY <1>3 DEF Process, WaitProcess, FinishWait, Escalate, Exit
<1> QED BY <1>1, <1>2, <1>3

\* What the steps of a drainer have in common: the others keep their state.
Others(d) == \A f \in Drainers : f # d => dpc'[f] = dpc[f] /\ dreq'[f] = dreq[f]

LEMMA BeginStep ==
  ASSUME DrainFull, NEW d \in Drainers, BeginDrain(d) PROVE DrainFull'
<1>1. /\ workspaceEpoch' = workspaceEpoch + 1 /\ draining'
      /\ dpc[d] = "idle" /\ dpc' = [dpc EXCEPT ![d] = "begun"]
      /\ dreq' = [dreq EXCEPT ![d] = [NoDrain EXCEPT !.epoch = workspaceEpoch + 1]]
  BY DEF BeginDrain
<1>2. [NoDrain EXCEPT !.epoch = workspaceEpoch + 1].epoch = workspaceEpoch + 1
  BY DEF NoDrain
<1>3. dreq'[d].epoch = workspaceEpoch + 1 /\ Others(d)
  BY <1>1, <1>2 DEF DrainFull, Others
<1>4. dpc' \in [Drainers -> DPC] /\ dreq' = [f \in Drainers |-> dreq'[f]]
  BY <1>1 DEF DrainFull, DPC
<1>5. \A f \in Drainers : f # d => dreq'[f].epoch < workspaceEpoch + 1
  BY <1>3 DEF DrainFull, DrainInv, Others
<1>6. DrainInv'
  BY <1>1, <1>3, <1>5 DEF DrainFull, DrainInv, DrainOwned, Others
<1> QED BY <1>4, <1>6 DEF DrainFull

\* A drain in progress keeps its epoch and the gate.
LEMMA ProgressStep ==
  ASSUME DrainFull, NEW d \in Drainers, dpc[d] # "idle",
         UNCHANGED <<workspaceEpoch, draining>>,
         NEW l \in DPC, dpc' = [dpc EXCEPT ![d] = l], dpc[d] # "reloading",
         dreq' = [f \in Drainers |-> dreq'[f]], Others(d),
         dreq'[d].epoch = dreq[d].epoch
  PROVE  DrainFull'
<1>1. dpc' \in [Drainers -> DPC] /\ \A f \in Drainers : dreq'[f].epoch = dreq[f].epoch
  BY DEF DrainFull, Others
<1>2. \A f \in Drainers : /\ dpc'[f] # "idle" => dpc[f] # "idle"
                          /\ dpc'[f] \notin {"idle", "reloading"} =>
                               dpc[f] \notin {"idle", "reloading"}
  BY DEF Others
<1>3. DrainInv'
  BY <1>1, <1>2 DEF DrainFull, DrainInv, DrainOwned
<1> QED BY <1>1, <1>3 DEF DrainFull

\* A drain that ends opens the gate only if no newer one has begun.
LEMMA EndStep ==
  ASSUME DrainFull, NEW d \in Drainers, dpc[d] # "idle",
         workspaceEpoch' = workspaceEpoch,
         draining' = draining
           \/ draining' = (draining /\ dreq[d].epoch # workspaceEpoch),
         dpc' = [dpc EXCEPT ![d] = "idle"], dreq' = [dreq EXCEPT ![d] = NoDrain]
  PROVE  DrainFull'
<1>1. dreq'[d].epoch = 0 /\ dpc'[d] = "idle" /\ Others(d)
  BY DEF DrainFull, Others, NoDrain
<1>2. dpc' \in [Drainers -> DPC] /\ dreq' = [f \in Drainers |-> dreq'[f]]
  BY DEF DrainFull, DPC
<1>3. \A f \in Drainers : dpc'[f] # "idle" => f # d /\ dpc[f] # "idle" /\ dreq'[f] = dreq[f]
  BY <1>1 DEF Others
<1>4. ASSUME NEW f \in Drainers, dpc'[f] \notin {"idle", "reloading"},
             dreq'[f].epoch = workspaceEpoch'
      PROVE  draining'
  <2>1. /\ f # d /\ dpc[f] \notin {"idle", "reloading"}
        /\ dreq[f].epoch = workspaceEpoch
    BY <1>1, <1>3, <1>4 DEF Others
  <2>2. draining /\ dreq[d].epoch # workspaceEpoch
    BY <2>1 DEF DrainFull, DrainInv, DrainOwned
  <2> QED BY <2>2
<1>5. DrainInv'
  BY <1>1, <1>3, <1>4 DEF DrainOwned, DrainFull, DrainInv, Others
<1> QED BY <1>2, <1>5 DEF DrainFull

\* A reload begins while no other load is under way.
LEMMA ReloadStep ==
  ASSUME DrainFull, NEW d \in Drainers, Reload(d) PROVE DrainFull'
<1>1. /\ UNCHANGED <<workspaceEpoch, draining>>
      /\ dpc' = [dpc EXCEPT ![d] = "reloading"]
      /\ dreq' = [dreq EXCEPT ![d] = [NoDrain EXCEPT !.epoch = workspaceEpoch]]
      /\ \A f \in Drainers : dpc[f] = "idle"
  BY DEF Reload, admission
<1>2. [NoDrain EXCEPT !.epoch = workspaceEpoch].epoch = workspaceEpoch
  BY DEF NoDrain
<1>3. dreq'[d].epoch = workspaceEpoch /\ Others(d) /\ dpc'[d] = "reloading"
  BY <1>1, <1>2 DEF DrainFull, Others
<1>4. dpc' \in [Drainers -> DPC] /\ dreq' = [f \in Drainers |-> dreq'[f]]
  BY <1>1 DEF DrainFull, DPC
<1>5. \A f \in Drainers : f # d => dpc'[f] = "idle"
  BY <1>1, <1>3 DEF Others
<1>6. DrainInv'
  BY <1>1, <1>3, <1>5 DEF DrainFull, DrainInv, DrainOwned, Others
<1> QED BY <1>4, <1>6 DEF DrainFull

LEMMA DrainStep == DrainFull /\ [Next]_vars => DrainFull'
<1> SUFFICES ASSUME DrainFull, [Next]_vars PROVE DrainFull'
  OBVIOUS
<1>1. CASE UNCHANGED DrainState
  BY <1>1 DEF DrainState, DrainFull, DrainInv, DrainOwned
<1>2. ASSUME NEW d \in Drainers, BeginDrain(d) PROVE DrainFull'
  BY <1>2, BeginStep
<1>3. ASSUME NEW d \in Drainers, StopAll(d) PROVE DrainFull'
  <2> DEFINE Progress == \E l \in DPC : dpc' = [dpc EXCEPT ![d] = l]
  <2>1. CASE StopAllCollect(d)
    <3>1. /\ dpc[d] \notin {"idle", "reloading"} /\ UNCHANGED <<workspaceEpoch, draining>>
          /\ Progress
      BY <2>1 DEF StopAllCollect, admission, DPC
    <3>2. /\ dreq' = [f \in Drainers |-> dreq'[f]] /\ Others(d)
          /\ dreq'[d].epoch = dreq[d].epoch
      BY <2>1 DEF StopAllCollect, DrainFull, Others
    <3> QED BY <3>1, <3>2, ProgressStep
  <2>2. CASE StopAllSignal(d) \/ StopAllHalfway(d) \/ StopAllReturns(d)
    <3>1. /\ dpc[d] \notin {"idle", "reloading"} /\ UNCHANGED <<workspaceEpoch, draining>>
          /\ Progress /\ dreq' = dreq
      BY <2>2 DEF StopAllSignal, StopAllHalfway, StopAllReturns, admission, DPC
    <3>2. dreq' = [f \in Drainers |-> dreq'[f]] /\ Others(d)
      BY <3>1 DEF DrainFull, Others
    <3> QED BY <3>1, <3>2, ProgressStep
  <2>3. CASE StopAllTimeout(d)
    BY <2>3, EndStep DEF StopAllTimeout, admission
  <2> QED BY <1>3, <2>1, <2>2, <2>3 DEF StopAll
<1>4. ASSUME NEW d \in Drainers, Drained(d) PROVE DrainFull'
  <2>1. CASE ClearTerminalStatuses(d)
    <3>1. /\ dpc[d] \notin {"idle", "reloading"}
          /\ UNCHANGED <<workspaceEpoch, draining, dreq>>
          /\ dpc' = [dpc EXCEPT ![d] = "cleared"] /\ "cleared" \in DPC
      BY <2>1 DEF ClearTerminalStatuses, admission, DPC
    <3>2. dreq' = [f \in Drainers |-> dreq'[f]] /\ Others(d)
      BY <3>1 DEF DrainFull, Others
    <3> QED BY <3>1, <3>2, ProgressStep
  <2>2. CASE EndDrain(d)
    <3>1. /\ dpc[d] # "idle" /\ workspaceEpoch' = workspaceEpoch
          /\ dpc' = [dpc EXCEPT ![d] = "idle"] /\ dreq' = [dreq EXCEPT ![d] = NoDrain]
          /\ draining' = (draining /\ dreq[d].epoch # workspaceEpoch)
      BY <2>2 DEF EndDrain
    <3> QED BY <3>1, EndStep
  <2>3. CASE LoadFails(d)
    BY <2>3, EndStep DEF LoadFails, admission
  <2>4. CASE Reload(d)
    BY <2>4, ReloadStep
  <2> QED BY <1>4, <2>1, <2>2, <2>3, <2>4 DEF Drained
<1>5. CASE UNCHANGED vars
  BY <1>1, <1>5 DEF vars, admission, drainVars, DrainState
<1> QED
  BY <1>1, <1>2, <1>3, <1>4, <1>5, CallsDrainNothing, CallersDrainNothing,
     RunsDrainNothing DEF Next

(***************************************************************************)
(* Admission stays closed until the newest drain has ended, for any number *)
(* of drainers, of runs and of epochs.                                     *)
(***************************************************************************)
THEOREM DrainOwnedAlways == Spec => []DrainOwned
<1>1. DrainFull => DrainOwned
  BY DEF DrainFull, DrainInv
<1> QED BY <1>1, DrainInit, DrainStep, PTL DEF Spec

-----------------------------------------------------------------------------
(***************************************************************************)
(* Ownership of the runs.  Between the critical sections of a launch, the  *)
(* goroutine that launches is the only one that knows the run; and a run   *)
(* that a restart replaces has been waited for.                            *)
(***************************************************************************)
\* Types of what the invariants below speak of.
Shape ==
  /\ nextRunSeq \in 0..MaxRuns
  /\ workspaceEpoch \in Epoch
  /\ processes \cup reservations \cup compounds \subseteq 1..nextRunSeq
  /\ parentOf \in [RunId -> RunId \cup {NoRun}]
  /\ epochOf \in [RunId -> Epoch]
  /\ replaces \in [RunId -> RunId \cup {NoRun}]
  /\ os \in [RunId -> {"none", "running", "exited"}]
  /\ waiting \in [RunId -> BOOLEAN]
  /\ done \in [RunId -> BOOLEAN]
  /\ stepState \in [RunId -> StepState]
  /\ pc \in [Threads -> PC]
  /\ req \in [Threads -> Request]

\* The three tables are disjoint, and an aggregate is no step.
Disjoint ==
  /\ reservations \cap (processes \cup compounds) = {}
  /\ processes \cap compounds = {}
  /\ \A c \in compounds : parentOf[c] = NoRun

\* An id that was not handed out belongs to nothing yet.
Unused ==
  /\ \A r \in RunId : r > nextRunSeq =>
       parentOf[r] = NoRun /\ os[r] = "none" /\ ~waiting[r] /\ ~done[r] /\ pc[r] = "idle"
  /\ \A t \in Threads : req[t].run <= nextRunSeq

\* The run that a thread launches is its own: a caller's is no step, a
\* coordinator's is a step of its aggregate that is no longer pending.
Launching == {"check", "promote", "emit", "c-publish"}
Owned ==
  /\ \A t \in Threads : pc[t] \in Launching => req[t].run # NoRun
  /\ \A t \in Callers : req[t].run # NoRun => parentOf[req[t].run] = NoRun
  /\ \A c \in RunId : pc[c] = "reserve" => req[c].run # NoRun
  /\ \A c \in RunId : req[c].run # NoRun =>
       parentOf[req[c].run] = c /\ stepState[req[c].run] # "pending"
  /\ \A t, u \in Threads : t # u /\ req[t].run # NoRun => req[t].run # req[u].run

\* A run is spawned once: neither an aggregate, nor a pending step, nor a run
\* that its thread has not spawned yet, has a process.
Stopping == {"s-instance", "s-signal", "s-wait"}
Unspawned(t) ==
  /\ req[t].run # NoRun
  /\ pc[t] \in Stopping \cup {"check"} \/ (pc[t] = "reserve" /\ t \in RunId)
SpawnedOnce ==
  /\ \A c \in RunId : pc[c] # "idle" =>
       parentOf[c] = NoRun /\ os[c] = "none" /\ \A t \in Threads : req[t].run # c
  /\ \A r \in RunId : stepState[r] = "pending" =>
       parentOf[r] # NoRun /\ os[r] = "none" /\ ~waiting[r] /\ ~done[r]
  /\ \A t \in Threads : Unspawned(t) =>
       os[req[t].run] = "none" /\ ~waiting[req[t].run] /\ ~done[req[t].run]

\* A spawned run is waited for once it is in the table, and has exited when it
\* leaves it.
Reaped ==
  /\ \A t \in Threads : pc[t] = "promote" => os[req[t].run] # "none" /\ ~waiting[req[t].run]
  /\ \A t \in Threads : pc[t] \in {"emit", "c-publish"} =>
       req[t].run \in processes /\ ~waiting[req[t].run]
  /\ \A r \in processes : os[r] # "none"
  /\ \A r \in RunId : waiting[r] => os[r] # "none" /\ (r \in processes \/ os[r] = "exited")
  /\ \A r \in RunId : done[r] => os[r] # "running"

\* A restart knows the run it replaces, and goes on when that one has exited.
Replaced ==
  /\ \A t \in Callers : pc[t] \in Stopping /\ req[t].run # NoRun =>
       /\ req[t].target \in RunId /\ replaces[req[t].run] = req[t].target
       /\ req[t].target \in processes \/ waiting[req[t].target]
  /\ \A t \in Threads : pc[t] = "check" /\ replaces[req[t].run] # NoRun =>
       os[replaces[req[t].run]] = "exited"
  /\ RestartExclusive

RunInv == Shape /\ Disjoint /\ Unused /\ Owned /\ SpawnedOnce /\ Reaped /\ Replaced

RunVars ==
  <<nextRunSeq, workspaceEpoch, processes, reservations, compounds, parentOf, epochOf,
    replaces, os, waiting, done, stepState, pc, req>>

LEMMA RunsInit == Init => RunInv
<1> SUFFICES ASSUME Init PROVE RunInv
  OBVIOUS
<1> USE RunFacts DEF Init, NoReq, NoRun
<1>1. NoReq \in Request
  BY ExecutorAssumption DEF Request, Epoch
<1>2. Shape
  BY <1>1, ExecutorAssumption DEF Shape, Epoch, StepState, PC, Threads
<1>3. Disjoint /\ Unused /\ Owned
  BY DEF Disjoint, Unused, Owned, Launching, Threads
<1>4. SpawnedOnce /\ Reaped /\ Replaced
  BY DEF SpawnedOnce, Unspawned, Stopping, Reaped, Replaced, RestartExclusive, Threads
<1> QED BY <1>2, <1>3, <1>4 DEF RunInv

\* A thread that neither takes nor spawns a run moves, and may let its run go.
LEMMA Moves ==
  ASSUME RunInv, NEW t \in Threads, NEW l \in PC, NEW q \in Request,
         pc' = [pc EXCEPT ![t] = l], req' = [req EXCEPT ![t] = q],
         l \notin Launching,
         t \in RunId => pc[t] # "idle" /\ l \notin Stopping \cup {"reserve"},
         \/ q.run = NoRun
         \/ q.run = req[t].run
              /\ (l \in Stopping => pc[t] \in Stopping /\ q.target = req[t].target),
         nextRunSeq' \in nextRunSeq..MaxRuns,
         reservations' \subseteq reservations, compounds' \subseteq compounds,
         stepState' \in [RunId -> StepState],
         \A r \in RunId : stepState'[r] = "pending" => stepState[r] = "pending",
         UNCHANGED <<workspaceEpoch, processes, parentOf, epochOf, replaces, os, waiting, done>>
  PROVE  RunInv'
<1> USE DEF RunInv
<1>1. /\ pc'[t] = l /\ req'[t] = q
      /\ \A u \in Threads : u # t => pc'[u] = pc[u] /\ req'[u] = req[u]
      /\ RunId \subseteq Threads /\ Callers \subseteq Threads
  BY DEF Shape, Threads
<1>2. Shape'
  BY ExecutorAssumption DEF Shape
<1>3. Disjoint'
  BY DEF Disjoint
<1>4. Unused'
  <2>1. /\ nextRunSeq \in Nat /\ nextRunSeq' \in Nat /\ nextRunSeq <= nextRunSeq'
        /\ \A u \in Threads : req[u].run \in Nat
        /\ q.run \in Nat
    BY ExecutorAssumption DEF Shape, RunId, NoRun, Request
  <2>2. \A r \in RunId : r > nextRunSeq' => r > nextRunSeq
    BY <2>1, RunFacts
  <2>3. \A r \in RunId : r > nextRunSeq => pc'[r] = "idle"
    BY <1>1 DEF Unused
  <2>4. \A u \in Threads : req'[u].run <= nextRunSeq'
    <3> TAKE u \in Threads
    <3>1. req[u].run <= nextRunSeq
      BY DEF Unused
    <3>2. req'[u].run = req[u].run \/ req'[u].run = 0
      BY <1>1 DEF NoRun
    <3> QED BY <3>1, <3>2, <2>1
  <2> QED BY <2>2, <2>3, <2>4 DEF Unused
<1>5. Owned'
  <2>1. \A u \in Threads : pc'[u] \in Launching => u # t
    BY <1>1
  <2>2. \A u \in Threads : req'[u].run # NoRun => req'[u].run = req[u].run /\ req[u].run \in RunId
    BY <1>1 DEF Shape, Request
  <2>3. \A c \in RunId : pc'[c] = "reserve" => c # t
    BY <1>1
  <2>4. \A c \in RunId : req'[c].run # NoRun =>
          parentOf[req'[c].run] = c /\ stepState'[req'[c].run] # "pending"
    BY <1>1, <2>2 DEF Owned
  <2>5. \A u \in Callers : req'[u].run # NoRun => parentOf[req'[u].run] = NoRun
    BY <1>1, <2>2 DEF Owned
  <2>6. \A u, v \in Threads : u # v /\ req'[u].run # NoRun => req'[u].run # req'[v].run
    BY <2>2 DEF Owned
  <2>7. \A u \in Threads : pc'[u] \in Launching => req'[u].run # NoRun
    BY <1>1, <2>1 DEF Owned
  <2>8. \A c \in RunId : pc'[c] = "reserve" => req'[c].run # NoRun
    BY <1>1, <2>3 DEF Owned
  <2> QED BY <2>4, <2>5, <2>6, <2>7, <2>8 DEF Owned
<1>6. SpawnedOnce'
  BY <1>1, RunFacts DEF SpawnedOnce, Unspawned, Stopping, Launching
<1>7. Reaped'
  BY <1>1 DEF Reaped, Launching
<1>8. Replaced'
  BY <1>1 DEF Replaced, RestartExclusive, Launching
<1> QED BY <1>2, <1>3, <1>4, <1>5, <1>6, <1>7, <1>8

\* What a step leaves alone when only one goroutine moves.
RunData ==
  <<nextRunSeq, workspaceEpoch, processes, reservations, compounds, parentOf, epochOf,
    replaces, os, waiting, done, stepState>>

\* The steps that touch neither a run nor a goroutine.
LEMMA Frames ==
  ASSUME RunInv, workspaceEpoch' \in Epoch,
         UNCHANGED <<nextRunSeq, processes, reservations, compounds, parentOf, epochOf,
                     replaces, os, waiting, done, stepState, pc, req>>
  PROVE  RunInv'
BY DEF RunInv, Shape, Disjoint, Unused, Owned, Launching, SpawnedOnce, Unspawned, Stopping,
       Reaped, Replaced, RestartExclusive

\* A caller sets out with a request that names no run yet.
LEMMA SetsOut ==
  ASSUME RunInv, UNCHANGED RunData, NEW t \in Callers,
         NEW l \in PC \ Launching, Goto(t, l),
         NEW q \in Request, q.run = NoRun, req' = [req EXCEPT ![t] = q]
  PROVE  RunInv'
<1>1. t \in Threads /\ t \notin RunId /\ nextRunSeq' \in nextRunSeq..MaxRuns
  BY RunFacts, ExecutorAssumption DEF Threads, RunInv, Shape, RunData
<1>2. stepState' \in [RunId -> StepState]
  BY DEF RunInv, Shape, RunData
<1> QED BY <1>1, <1>2, Moves DEF Goto, RunData

\* A goroutine goes on with the request it has.
LEMMA GoesOn ==
  ASSUME RunInv, UNCHANGED <<RunData, req>>, NEW t \in Threads,
         NEW l \in PC \ Launching, Goto(t, l),
         l \in Stopping => pc[t] \in Stopping,
         t \in RunId => pc[t] # "idle" /\ l \notin Stopping \cup {"reserve"}
  PROVE  RunInv'
<1>1. req' = [req EXCEPT ![t] = req[t]] /\ req[t] \in Request
  BY DEF RunInv, Shape
<1>2. nextRunSeq' \in nextRunSeq..MaxRuns /\ stepState' \in [RunId -> StepState]
  BY ExecutorAssumption DEF RunInv, Shape, RunData
<1> QED BY <1>1, <1>2, Moves DEF Goto, RunData

\* A call returns, and forgets its run.
LEMMA Returns ==
  ASSUME RunInv, UNCHANGED RunData, NEW t \in Threads, Return(t),
         t \in RunId => pc[t] # "idle"
  PROVE  RunInv'
<1>1. NoReq \in Request /\ NoReq.run = NoRun /\ "idle" \in PC
  BY ExecutorAssumption DEF NoReq, Request, NoRun, Epoch, PC
<1>2. nextRunSeq' \in nextRunSeq..MaxRuns /\ stepState' \in [RunId -> StepState]
  BY ExecutorAssumption DEF RunInv, Shape, RunData
<1>3. "idle" \notin Launching \cup Stopping \cup {"reserve"}
  BY DEF Launching, Stopping
<1> QED BY <1>1, <1>2, <1>3, Moves DEF Goto, Return, RunData

\* A launch gives up after its reservation.
LEMMA Fails ==
  ASSUME RunInv, NEW t \in Threads, NEW why, LaunchFails(t, why),
         t \in RunId => pc[t] # "idle",
         nextRunSeq' \in nextRunSeq..MaxRuns, reservations' \subseteq reservations,
         UNCHANGED <<workspaceEpoch, processes, compounds, parentOf, epochOf, replaces,
                     os, waiting, done, stepState>>
  PROVE  RunInv'
<1>1. NoReq \in Request /\ NoReq.run = NoRun /\ {"idle", "c-record"} \subseteq PC
  BY ExecutorAssumption DEF NoReq, Request, NoRun, Epoch, PC
<1>2. stepState' \in [RunId -> StepState]
  BY DEF RunInv, Shape
<1>3. {"idle", "c-record"} \cap (Launching \cup Stopping \cup {"reserve"}) = {}
  BY DEF Launching, Stopping
<1>4. CASE t \in Callers
  BY <1>1, <1>2, <1>3, <1>4, Moves DEF Goto, Return, LaunchFails
<1>5. CASE t \notin Callers
  <2>1. req' = [req EXCEPT ![t] = req[t]] /\ req[t] \in Request
    BY <1>5 DEF RunInv, Shape, LaunchFails
  <2> QED BY <2>1, <1>1, <1>2, <1>3, <1>5, Moves DEF Goto, LaunchFails
<1> QED BY <1>4, <1>5

\* A caller takes the next id for a run, which may replace a live one.
LEMMA Takes ==
  ASSUME RunInv, NEW t \in Callers, NEW l \in {"check", "s-instance"}, NEW e \in Epoch,
         NEW m \in RunId \cup {NoRun},
         \/ l = "check" /\ m = NoRun
         \/ l = "s-instance" /\ m = req[t].target /\ m \in processes,
         nextRunSeq + 1 <= MaxRuns, nextRunSeq' = nextRunSeq + 1,
         reservations' = reservations \cup {nextRunSeq + 1},
         epochOf' = [epochOf EXCEPT ![nextRunSeq + 1] = e],
         replaces' = [replaces EXCEPT ![nextRunSeq + 1] = m],
         Goto(t, l), req' = [req EXCEPT ![t].run = nextRunSeq + 1],
         UNCHANGED <<workspaceEpoch, processes, compounds, parentOf, os, waiting, done,
                     stepState>>
  PROVE  RunInv'
<1> DEFINE r == nextRunSeq + 1
<1> USE DEF RunInv
<1>1. /\ nextRunSeq \in Nat /\ r \in RunId /\ r # NoRun /\ r > nextRunSeq
      /\ processes \subseteq 1..nextRunSeq /\ reservations \subseteq 1..nextRunSeq
      /\ compounds \subseteq 1..nextRunSeq
      /\ r \notin 1..nextRunSeq /\ 1..nextRunSeq \subseteq 1..r /\ r \in 1..r
  BY ExecutorAssumption DEF Shape, RunId, NoRun
<1>2. /\ t \in Threads /\ t \notin RunId /\ Callers \subseteq Threads /\ RunId \subseteq Threads
      /\ \A c \in RunId : c # t
  BY RunFacts DEF Threads
<1>3. /\ pc'[t] = l /\ req'[t].run = r /\ req'[t].target = req[t].target
      /\ req'[t] \in Request
      /\ \A u \in Threads : u # t => pc'[u] = pc[u] /\ req'[u] = req[u]
  <2>1. req[t] \in Request /\ req'[t] = [req[t] EXCEPT !.run = r]
    BY <1>2 DEF Shape
  <2>2. req'[t] \in Request /\ req'[t].run = r /\ req'[t].target = req[t].target
    BY <2>1, <1>1 DEF Request
  <2> QED BY <2>2, <1>2 DEF Shape, Goto
<1>4. /\ parentOf[r] = NoRun /\ os[r] = "none" /\ ~waiting[r] /\ ~done[r] /\ pc[r] = "idle"
      /\ stepState[r] # "pending"
      /\ \A u \in Threads : req[u].run # r
  <2>1. \A u \in Threads : req[u].run <= nextRunSeq /\ req[u].run \in Nat
    BY RunFacts DEF Unused, Shape, Request, NoRun
  <2>2. \A u \in Threads : req[u].run # r
    BY <2>1, <1>1
  <2> QED BY <2>2, <1>1 DEF Unused, SpawnedOnce
<1>5. replaces'[r] = m /\ \A x \in RunId : x # r => replaces'[x] = replaces[x]
  BY <1>1 DEF Shape
<1>6. Shape'
  <2>1. {"check", "s-instance"} \subseteq PC
    BY DEF PC
  <2>2. /\ nextRunSeq' \in 0..MaxRuns
        /\ processes' \cup reservations' \cup compounds' \subseteq 1..nextRunSeq'
    BY <1>1, ExecutorAssumption
  <2>3. pc' \in [Threads -> PC] /\ req' \in [Threads -> Request]
    BY <1>2, <1>3, <2>1 DEF Shape, Goto
  <2>4. epochOf' \in [RunId -> Epoch] /\ replaces' \in [RunId -> RunId \cup {NoRun}]
    BY <1>1 DEF Shape
  <2> QED BY <2>2, <2>3, <2>4 DEF Shape
<1>7. Disjoint'
  BY <1>1 DEF Disjoint
<1>8. Unused'
  <2>1. \A x \in RunId : x > nextRunSeq' => x > nextRunSeq
    BY <1>1, RunFacts
  <2>2. \A u \in Threads : req'[u].run <= nextRunSeq'
    <3> TAKE u \in Threads
    <3>1. req[u].run <= nextRunSeq /\ req[u].run \in Nat
      BY RunFacts DEF Unused, Shape, Request, NoRun
    <3>2. req'[u].run = req[u].run \/ req'[u].run = r
      BY <1>3
    <3> QED BY <3>1, <3>2, <1>1
  <2> QED BY <2>1, <2>2, <1>2, <1>3 DEF Unused
<1>9. Owned'
  BY <1>1, <1>2, <1>3, <1>4 DEF Owned, Launching
<1>10. SpawnedOnce'
  BY <1>1, <1>2, <1>3, <1>4 DEF SpawnedOnce, Unspawned
<1>11. Reaped'
  BY <1>2, <1>3 DEF Reaped
<1>12. Replaced'
  <2>1. /\ \A u \in Callers : pc'[u] \in Stopping /\ req'[u].run # NoRun =>
             /\ req'[u].target \in RunId /\ replaces'[req'[u].run] = req'[u].target
             /\ req'[u].target \in processes \/ waiting[req'[u].target]
    <3> SUFFICES ASSUME NEW u \in Callers, pc'[u] \in Stopping, req'[u].run # NoRun
                 PROVE  /\ req'[u].target \in RunId /\ replaces'[req'[u].run] = req'[u].target
                        /\ req'[u].target \in processes \/ waiting[req'[u].target]
      OBVIOUS
    <3>1. CASE u = t
      <4>1. l = "s-instance" /\ m = req[t].target /\ m \in processes
        BY <3>1, <1>3 DEF Stopping
      <4>2. m # NoRun
        BY <4>1, <1>1, RunFacts DEF NoRun
      <4> QED BY <3>1, <4>1, <4>2, <1>3, <1>5
    <3>2. CASE u # t
      BY <3>2, <1>2, <1>3, <1>4, <1>5 DEF Replaced, Shape, Request
    <3> QED BY <3>1, <3>2
  <2>2. \A u \in Threads : pc'[u] = "check" /\ replaces'[req'[u].run] # NoRun =>
          os[replaces'[req'[u].run]] = "exited"
    BY <1>2, <1>3, <1>4, <1>5, <1>1 DEF Replaced, Owned, Launching, Shape, Request
  <2>3. RestartExclusive'
    BY <1>4, <1>5 DEF Replaced, RestartExclusive
  <2> QED BY <2>1, <2>2, <2>3 DEF Replaced
<1> QED BY <1>6, <1>7, <1>8, <1>9, <1>10, <1>11, <1>12

\* A coordinator reserves the step it holds.
LEMMA ReservesStep ==
  ASSUME RunInv, NEW t \in RunId, pc[t] = "reserve", NEW e \in Epoch,
         req[t].run \notin processes,
         reservations' = reservations \cup {req[t].run},
         epochOf' = [epochOf EXCEPT ![req[t].run] = e],
         replaces' = [replaces EXCEPT ![req[t].run] = NoRun],
         Goto(t, "check"),
         UNCHANGED <<nextRunSeq, workspaceEpoch, processes, compounds, parentOf, os,
                     waiting, done, stepState, req>>
  PROVE  RunInv'
<1> DEFINE r == req[t].run
<1> USE DEF RunInv
<1>1. /\ t \in Threads /\ Callers \subseteq Threads /\ RunId \subseteq Threads
      /\ t \notin Callers
  BY RunFacts DEF Threads
<1>2. r \in RunId /\ r # NoRun /\ parentOf[r] = t /\ stepState[r] # "pending" /\ t # NoRun
  BY <1>1, RunFacts DEF Owned, Shape, Request
<1>3. /\ pc'[t] = "check"
      /\ \A u \in Threads : u # t => pc'[u] = pc[u] /\ req[u].run # r
  BY <1>1, <1>2 DEF Shape, Goto, Owned
<1>4. os[r] = "none" /\ ~waiting[r] /\ ~done[r] /\ r \notin compounds
  BY <1>1, <1>2 DEF SpawnedOnce, Unspawned, Disjoint
<1>5. replaces'[r] = NoRun /\ \A x \in RunId : x # r => replaces'[x] = replaces[x]
  BY <1>2 DEF Shape
<1>6. Shape'
  <2>1. r <= nextRunSeq /\ r \in 1..nextRunSeq
    BY <1>1, <1>2, RunFacts, ExecutorAssumption DEF Unused, Shape, RunId
  <2>2. "check" \in PC
    BY DEF PC
  <2> QED BY <1>2, <2>1, <2>2, RunFacts DEF Shape, Goto
<1>7. Disjoint'
  BY <1>4 DEF Disjoint
<1>8. Unused'
  BY <1>1, <1>3 DEF Unused
<1>9. Owned'
  BY <1>1, <1>2, <1>3 DEF Owned, Launching
<1>10. SpawnedOnce'
  BY <1>1, <1>2, <1>3, <1>4 DEF SpawnedOnce, Unspawned, Stopping
<1>11. Reaped'
  BY <1>1, <1>3 DEF Reaped
<1>12. Replaced'
  <2>1. \A u \in Callers : pc'[u] = pc[u] /\ req[u].run # r
    BY <1>1, <1>3
  <2>2. \A u \in Threads : req[u].run \in RunId \cup {NoRun}
    BY DEF Shape, Request
  <2>3. RestartExclusive'
    BY <1>4, <1>5 DEF Replaced, RestartExclusive
  <2>4. \A u \in Threads : pc'[u] = "check" /\ replaces'[req[u].run] # NoRun =>
          os[replaces'[req[u].run]] = "exited"
    BY <1>1, <1>2, <1>3, <1>5, <2>2 DEF Replaced, Owned, Launching
  <2>5. \A u \in Callers : pc'[u] \in Stopping /\ req[u].run # NoRun =>
             replaces'[req[u].run] = replaces[req[u].run]
    BY <1>1, <1>5, <2>1, <2>2
  <2> QED BY <2>1, <2>3, <2>4, <2>5 DEF Replaced
<1> QED BY <1>6, <1>7, <1>8, <1>9, <1>10, <1>11, <1>12

\* A goroutine spawns the process of the run it holds.
LEMMA Spawns ==
  ASSUME RunInv, NEW t \in Threads, pc[t] = "check",
         os' = [os EXCEPT ![req[t].run] = "running"], Goto(t, "promote"),
         UNCHANGED <<nextRunSeq, workspaceEpoch, processes, reservations, compounds,
                     parentOf, epochOf, replaces, waiting, done, stepState, req>>
  PROVE  RunInv'
<1> DEFINE r == req[t].run
<1> USE DEF RunInv
<1>1. Callers \subseteq Threads /\ RunId \subseteq Threads /\ \A u \in Threads : u \in Callers \/ u \in RunId
  BY DEF Threads
<1>2. r \in RunId /\ r # NoRun
  BY DEF Owned, Launching, Shape, Request
<1>3. stepState[r] # "pending"
  BY <1>1, <1>2 DEF Owned, SpawnedOnce
<1>4. os[r] = "none" /\ ~waiting[r] /\ ~done[r]
  BY <1>2 DEF SpawnedOnce, Unspawned
<1>5. /\ pc'[t] = "promote"
      /\ \A u \in Threads : u # t => pc'[u] = pc[u] /\ req[u].run # r
  BY <1>2 DEF Shape, Goto, Owned
<1>6. os'[r] = "running" /\ \A x \in RunId : x # r => os'[x] = os[x]
  BY <1>2 DEF Shape
<1>7. Shape'
  <2>1. "promote" \in PC
    BY DEF PC
  <2> QED BY <1>2, <2>1 DEF Shape, Goto
<1>8. Disjoint'
  BY DEF Disjoint
<1>9. r <= nextRunSeq /\ r \in Nat /\ nextRunSeq \in Nat
  <2>1. r <= nextRunSeq
    BY DEF Unused
  <2>2. nextRunSeq \in Nat
    BY ExecutorAssumption DEF Shape
  <2> QED BY <1>2, <2>1, <2>2, RunFacts
<1>10. Unused'
  <2>1. \A x \in RunId : x > nextRunSeq => x # r
    BY <1>9
  <2>2. \A x \in RunId : x > nextRunSeq => pc'[x] = "idle"
    BY <1>1, <1>5 DEF Unused
  <2> QED BY <2>1, <2>2, <1>6 DEF Unused
<1>11. Owned'
  BY <1>1, <1>2, <1>5 DEF Owned, Launching
<1>12. SpawnedOnce'
  <2>1. \A c \in RunId : pc'[c] # "idle" => pc[c] # "idle" /\ c # r
    BY <1>1, <1>5 DEF SpawnedOnce
  <2>2. \A u \in Threads : Unspawned(u)' => u # t /\ Unspawned(u)
    BY <1>5 DEF Unspawned, Stopping
  <2>3. \A u \in Threads : Unspawned(u) => req[u].run \in RunId
    BY DEF Unspawned, Shape, Request
  <2>4. \A u \in Threads : Unspawned(u)' => os'[req[u].run] = "none"
    BY <2>2, <2>3, <1>5, <1>6 DEF SpawnedOnce
  <2> QED BY <2>1, <2>2, <2>4, <1>3, <1>6 DEF SpawnedOnce
<1>13. Reaped'
  <2>1. \A x \in RunId : os[x] # "none" => os'[x] # "none"
    BY <1>6
  <2>2. \A u \in Threads : pc'[u] = "promote" => os'[req[u].run] # "none" /\ ~waiting[req[u].run]
    <3> SUFFICES ASSUME NEW u \in Threads, pc'[u] = "promote"
                 PROVE  os'[req[u].run] # "none" /\ ~waiting[req[u].run]
      OBVIOUS
    <3>1. CASE u = t
      BY <3>1, <1>4, <1>6
    <3>2. CASE u # t
      BY <3>2, <1>5, <1>6, <2>1 DEF Reaped, Owned, Launching, Shape, Request
    <3> QED BY <3>1, <3>2
  <2>3. \A x \in processes : os'[x] # "none"
    BY <1>6 DEF Reaped
  <2>4. \A x \in RunId : waiting[x] => x # r
    BY <1>4
  <2>5. \A x \in RunId : done[x] => x # r
    BY <1>4
  <2>6. \A u \in Threads : pc'[u] \in {"emit", "c-publish"} => pc[u] = pc'[u]
    BY <1>5
  <2> QED BY <2>2, <2>3, <2>4, <2>5, <2>6, <1>6 DEF Reaped
<1>14. Replaced'
  <2>1. \A x \in RunId : os[x] = "exited" => os'[x] = "exited"
    BY <1>4, <1>6
  <2>2. \A u \in Threads : pc'[u] = "check" => pc[u] = "check"
    BY <1>5
  <2>3. \A u \in Callers : pc'[u] \in Stopping => pc[u] = pc'[u]
    BY <1>1, <1>5 DEF Stopping
  <2>4. \A u \in Threads : pc[u] = "check" => replaces[req[u].run] \in RunId \cup {NoRun}
    BY DEF Owned, Launching, Shape, Request
  <2>5. RestartExclusive'
    <3> SUFFICES ASSUME NEW x \in RunId, replaces[x] # NoRun, os'[x] # "none"
                 PROVE  os'[replaces[x]] = "exited"
      BY DEF RestartExclusive
    <3>1. replaces[x] \in RunId
      BY DEF Shape
    <3>2. CASE x = r
      BY <3>1, <3>2, <2>1 DEF Replaced
    <3>3. CASE x # r
      BY <3>1, <3>3, <1>6, <2>1 DEF Replaced, RestartExclusive
    <3> QED BY <3>2, <3>3
  <2> QED BY <2>1, <2>2, <2>3, <2>4, <2>5 DEF Replaced
<1> QED BY <1>7, <1>8, <1>10, <1>11, <1>12, <1>13, <1>14

\* A spawned run leaves its reservation for the table of processes.
LEMMA Promotes ==
  ASSUME RunInv, NEW t \in Threads, pc[t] = "promote", req[t].run \in reservations,
         NEW l \in {"emit", "c-publish"}, Goto(t, l),
         processes' = processes \cup {req[t].run},
         reservations' = reservations \ {req[t].run},
         UNCHANGED <<nextRunSeq, workspaceEpoch, compounds, parentOf, epochOf, replaces,
                     os, waiting, done, stepState, req>>
  PROVE  RunInv'
<1> DEFINE r == req[t].run
<1> USE DEF RunInv
<1>1. Callers \subseteq Threads /\ RunId \subseteq Threads
  BY DEF Threads
<1>2. r \in RunId /\ os[r] # "none" /\ ~waiting[r]
  BY DEF Owned, Launching, Shape, Request, Reaped
<1>3. pc'[t] = l /\ \A u \in Threads : u # t => pc'[u] = pc[u]
  BY DEF Shape, Goto
<1>4. Shape'
  <2>1. {"emit", "c-publish"} \subseteq PC
    BY DEF PC
  <2> QED BY <2>1 DEF Shape, Goto
<1>5. Disjoint'
  BY DEF Disjoint
<1>6. Unused'
  BY <1>1, <1>3 DEF Unused
<1>7. Owned'
  BY <1>1, <1>3 DEF Owned, Launching
<1>8. SpawnedOnce'
  BY <1>1, <1>3 DEF SpawnedOnce, Unspawned, Stopping
<1>9. Reaped'
  BY <1>2, <1>3 DEF Reaped
<1>10. Replaced'
  BY <1>1, <1>3 DEF Replaced, RestartExclusive, Stopping
<1> QED BY <1>4, <1>5, <1>6, <1>7, <1>8, <1>9, <1>10

\* A promoted run gets its waiting goroutine, and the launch is over.
LEMMA Publishes ==
  ASSUME RunInv, NEW t \in Threads, pc[t] \in {"emit", "c-publish"},
         waiting' = [waiting EXCEPT ![req[t].run] = TRUE],
         NEW l \in {"idle", "c-wait"}, Goto(t, l),
         NEW q \in Request, q = req[t] \/ q = NoReq, req' = [req EXCEPT ![t] = q],
         UNCHANGED <<nextRunSeq, workspaceEpoch, processes, reservations, compounds,
                     parentOf, epochOf, replaces, os, done, stepState>>
  PROVE  RunInv'
<1> DEFINE r == req[t].run
<1> USE DEF RunInv
<1>1. Callers \subseteq Threads /\ RunId \subseteq Threads
  BY DEF Threads
<1>2. r \in RunId /\ r # NoRun /\ r \in processes /\ os[r] # "none"
  BY DEF Owned, Launching, Shape, Request, Reaped
<1>3. /\ pc'[t] = l /\ req'[t] = q /\ (q.run = NoRun \/ q.run = r)
      /\ \A u \in Threads : u # t => pc'[u] = pc[u] /\ req'[u] = req[u] /\ req[u].run # r
  BY <1>2 DEF Shape, Goto, Owned, NoReq
<1>4. waiting'[r] /\ \A x \in RunId : x # r => waiting'[x] = waiting[x]
  BY <1>2 DEF Shape
<1>5. Shape'
  <2>1. {"idle", "c-wait"} \subseteq PC
    BY DEF PC
  <2> QED BY <2>1 DEF Shape, Goto
<1>6. Disjoint'
  BY DEF Disjoint
<1>7. Unused'
  <2>1. \A x \in RunId : x > nextRunSeq => x # r
    BY <1>2, RunFacts, ExecutorAssumption DEF Shape
  <2>2. \A x \in RunId : x > nextRunSeq => pc'[x] = "idle"
    BY <1>1, <1>3 DEF Unused
  <2>3. \A u \in Threads : req'[u].run <= nextRunSeq
    BY <1>3, ExecutorAssumption DEF Unused, Shape, NoRun
  <2> QED BY <2>1, <2>2, <2>3, <1>4 DEF Unused
<1>8. Owned'
  BY <1>1, <1>3 DEF Owned, Launching
<1>9. SpawnedOnce'
  <2>1. \A c \in RunId : pc'[c] # "idle" => pc[c] # "idle"
    BY <1>1, <1>3
  <2>2. \A u \in Threads : req'[u].run = req[u].run \/ req'[u].run = NoRun
    BY <1>3
  <2>3. \A c \in RunId : pc'[c] # "idle" =>
          parentOf[c] = NoRun /\ os[c] = "none" /\ \A u \in Threads : req'[u].run # c
    BY <2>1, <2>2, RunFacts DEF SpawnedOnce
  <2>4. \A x \in RunId : stepState[x] = "pending" => x # r
    BY <1>2 DEF SpawnedOnce
  <2>5. \A u \in Threads : Unspawned(u)' => u # t /\ Unspawned(u)
    BY <1>3 DEF Unspawned, Stopping
  <2>6. \A u \in Threads : Unspawned(u)' => ~waiting'[req'[u].run]
    BY <2>5, <1>3, <1>4 DEF SpawnedOnce, Unspawned, Shape, Request
  <2> QED BY <2>3, <2>4, <2>5, <2>6, <1>3, <1>4 DEF SpawnedOnce
<1>10. Reaped'
  <2>1. \A u \in Threads : pc'[u] \in {"promote", "emit", "c-publish"} =>
          u # t /\ req[u].run \in RunId
    BY <1>3 DEF Owned, Launching, Shape, Request
  <2>2. \A u \in Threads : pc'[u] \in {"promote", "emit", "c-publish"} =>
          pc[u] = pc'[u] /\ req'[u] = req[u] /\ waiting'[req[u].run] = waiting[req[u].run]
    BY <2>1, <1>3, <1>4
  <2>3. \A x \in RunId : waiting'[x] => os[x] # "none" /\ (x \in processes \/ os[x] = "exited")
    BY <1>2, <1>4 DEF Reaped
  <2>4. \A u \in Threads : pc'[u] = "promote" => os[req'[u].run] # "none" /\ ~waiting'[req'[u].run]
    <3> SUFFICES ASSUME NEW u \in Threads, pc'[u] = "promote"
                 PROVE  os[req'[u].run] # "none" /\ ~waiting'[req'[u].run]
      OBVIOUS
    <3>1. pc[u] = "promote" /\ req'[u] = req[u] /\ (waiting'[req[u].run] = waiting[req[u].run])
      BY <2>2
    <3> QED BY <3>1 DEF Reaped
  <2>5. \A u \in Threads : pc'[u] \in {"emit", "c-publish"} =>
          req'[u].run \in processes /\ ~waiting'[req'[u].run]
    BY <2>2 DEF Reaped
  <2> QED BY <2>3, <2>4, <2>5 DEF Reaped
<1>11. Replaced'
  <2>1. \A u \in Threads : pc'[u] \in Stopping \cup {"check"} =>
          u # t /\ pc'[u] = pc[u] /\ req'[u] = req[u]
    BY <1>3 DEF Stopping
  <2>2. \A x \in RunId : waiting[x] => waiting'[x]
    BY <1>4
  <2> QED BY <1>1, <2>1, <2>2 DEF Replaced, RestartExclusive
<1> QED BY <1>5, <1>6, <1>7, <1>8, <1>9, <1>10, <1>11

\* A restart goes on to its launch: the run that it replaces has exited.
LEMMA Relaunches ==
  ASSUME RunInv, NEW t \in Callers, pc[t] \in Stopping, req[t].run # NoRun,
         os[req[t].target] = "exited", Goto(t, "check"), UNCHANGED <<RunData, req>>
  PROVE  RunInv'
<1> USE DEF RunInv, RunData
<1>1. Callers \subseteq Threads /\ RunId \subseteq Threads /\ t \notin RunId
  BY RunFacts DEF Threads
<1>2. pc'[t] = "check" /\ \A u \in Threads : u # t => pc'[u] = pc[u]
  BY <1>1 DEF Shape, Goto
<1>3. Shape'
  <2>1. "check" \in PC
    BY DEF PC
  <2> QED BY <2>1 DEF Shape, Goto
<1>4. Disjoint'
  BY DEF Disjoint
<1>5. Unused'
  BY <1>1, <1>2 DEF Unused
<1>6. Owned'
  BY <1>1, <1>2 DEF Owned, Launching
<1>7. SpawnedOnce'
  BY <1>1, <1>2 DEF SpawnedOnce, Unspawned
<1>8. Reaped'
  BY <1>1, <1>2 DEF Reaped
<1>9. Replaced'
  BY <1>1, <1>2 DEF Replaced, RestartExclusive, Stopping
<1> QED BY <1>3, <1>4, <1>5, <1>6, <1>7, <1>8, <1>9

\* waitProcess takes an exited run out of the table.
LEMMA Leaves ==
  ASSUME RunInv, NEW r \in RunId, waiting[r], os[r] = "exited",
         processes' = processes \ {r},
         UNCHANGED <<nextRunSeq, workspaceEpoch, reservations, compounds, parentOf, epochOf,
                     replaces, os, waiting, done, stepState, pc, req>>
  PROVE  RunInv'
<1> USE DEF RunInv
<1>1. Shape' /\ Disjoint' /\ Unused' /\ Owned'
  BY DEF Shape, Disjoint, Unused, Owned, Launching
<1>2. SpawnedOnce' /\ Reaped'
  BY DEF SpawnedOnce, Unspawned, Stopping, Reaped
<1>3. Replaced'
  BY DEF Replaced, RestartExclusive, Stopping
<1> QED BY <1>1, <1>2, <1>3

\* The done channel of a reaped run is closed.
LEMMA Finishes ==
  ASSUME RunInv, NEW r \in RunId, waiting[r], r \notin processes,
         done' = [done EXCEPT ![r] = TRUE],
         UNCHANGED <<nextRunSeq, workspaceEpoch, processes, reservations, compounds,
                     parentOf, epochOf, replaces, os, waiting, stepState, pc, req>>
  PROVE  RunInv'
<1> USE DEF RunInv
<1>1. os[r] = "exited"
  BY DEF Reaped
<1>2. done'[r] /\ \A x \in RunId : x # r => done'[x] = done[x]
  BY DEF Shape
<1>3. Shape' /\ Disjoint' /\ Unused' /\ Owned'
  BY <1>1, <1>2 DEF Shape, Disjoint, Unused, Owned, Launching
<1>4. SpawnedOnce'
  BY <1>2 DEF SpawnedOnce, Unspawned, Stopping, Shape, Request
<1>5. Reaped' /\ Replaced'
  BY <1>1, <1>2 DEF Reaped, Replaced, RestartExclusive, Stopping
<1> QED BY <1>3, <1>4, <1>5

\* A process ends.
LEMMA Exits ==
  ASSUME RunInv, NEW r \in RunId, os[r] = "running", os' = [os EXCEPT ![r] = "exited"],
         UNCHANGED <<nextRunSeq, workspaceEpoch, processes, reservations, compounds,
                     parentOf, epochOf, replaces, waiting, done, stepState, pc, req>>
  PROVE  RunInv'
<1> USE DEF RunInv
<1>1. os'[r] = "exited" /\ \A x \in RunId : x # r => os'[x] = os[x]
  BY DEF Shape
<1>2. /\ \A x \in RunId : (os[x] = "none") <=> (os'[x] = "none")
      /\ \A x \in RunId : os[x] = "exited" => os'[x] = "exited"
  BY <1>1
<1>3. Shape' /\ Disjoint' /\ Unused' /\ Owned'
  BY <1>1, <1>2 DEF Shape, Disjoint, Unused, Owned, Launching
<1>4. SpawnedOnce'
  BY <1>2 DEF SpawnedOnce, Unspawned, Stopping, Shape, Request
<1>5. Reaped'
  BY <1>1, <1>2 DEF Reaped, Owned, Launching, Shape, Request
<1>6. Replaced'
  BY <1>1, <1>2 DEF Replaced, RestartExclusive, Owned, Launching, Stopping, Shape, Request
<1> QED BY <1>3, <1>4, <1>5, <1>6

\* The coordinator of an ended aggregate closes its done channel.
LEMMA Closes ==
  ASSUME RunInv, NEW c \in RunId, pc[c] # "idle",
         done' = [done EXCEPT ![c] = TRUE], Return(c),
         UNCHANGED <<nextRunSeq, workspaceEpoch, processes, reservations, compounds,
                     parentOf, epochOf, replaces, os, waiting, stepState>>
  PROVE  RunInv'
<1> USE DEF RunInv
<1>1. Callers \subseteq Threads /\ RunId \subseteq Threads
  BY DEF Threads
<1>2. /\ os[c] = "none" /\ parentOf[c] = NoRun /\ ~waiting[c]
      /\ \A u \in Threads : req[u].run # c
  BY DEF SpawnedOnce, Reaped
<1>3. /\ pc'[c] = "idle" /\ req'[c].run = NoRun /\ req' \in [Threads -> Request]
      /\ \A u \in Threads : u # c => pc'[u] = pc[u] /\ req'[u] = req[u]
  <2>1. NoReq \in Request /\ NoReq.run = NoRun
    BY ExecutorAssumption DEF NoReq, Request, NoRun, Epoch
  <2> QED BY <1>1, <2>1 DEF Shape, Goto, Return
<1>4. done'[c] /\ \A x \in RunId : x # c => done'[x] = done[x]
  BY DEF Shape
<1>5. Shape'
  <2>1. "idle" \in PC
    BY DEF PC
  <2> QED BY <1>3, <2>1 DEF Shape, Goto, Return
<1>6. Disjoint'
  BY DEF Disjoint
<1>7. Unused'
  <2>1. \A x \in RunId : x > nextRunSeq => x # c
    BY DEF Unused
  <2>2. \A u \in Threads : req'[u].run <= nextRunSeq
    <3> TAKE u \in Threads
    <3>1. CASE u = c
      BY <3>1, <1>3, ExecutorAssumption DEF Shape, NoRun
    <3>2. CASE u # c
      BY <3>2, <1>3 DEF Unused
    <3> QED BY <3>1, <3>2
  <2> QED BY <1>1, <1>3, <1>4, <2>1, <2>2 DEF Unused
<1>8. Owned'
  BY <1>1, <1>3 DEF Owned, Launching
<1>9. SpawnedOnce'
  <2>1. \A u \in Threads : Unspawned(u)' => u # c /\ Unspawned(u)
    BY <1>3 DEF Unspawned
  <2>2. \A u \in Threads : Unspawned(u) => req[u].run \in RunId /\ req[u].run # c
    BY <1>2 DEF Unspawned, Shape, Request
  <2>3. \A u \in Threads : Unspawned(u)' =>
          os[req'[u].run] = "none" /\ ~waiting[req'[u].run] /\ ~done'[req'[u].run]
    BY <2>1, <2>2, <1>3, <1>4 DEF SpawnedOnce
  <2>4. \A x \in RunId : stepState[x] = "pending" => x # c
    BY <1>2 DEF SpawnedOnce
  <2>5. \A x \in RunId : pc'[x] # "idle" => x # c /\ pc[x] # "idle"
    BY <1>1, <1>3
  <2>6. \A x \in RunId : \A u \in Threads : req'[u].run = x => req[u].run = x
    BY <1>3, RunFacts
  <2> QED BY <2>3, <2>4, <2>5, <2>6, <1>4 DEF SpawnedOnce
<1>10. Reaped'
  BY <1>2, <1>3, <1>4 DEF Reaped
<1>11. Replaced'
  <2>1. \A u \in Threads : pc'[u] \in Stopping \cup {"check"} =>
          pc'[u] = pc[u] /\ req'[u] = req[u]
    BY <1>3 DEF Stopping
  <2> QED BY <1>1, <2>1 DEF Replaced, RestartExclusive
<1> QED BY <1>5, <1>6, <1>7, <1>8, <1>9, <1>10, <1>11

\* The least member of a non-empty set of runs.
LEMMA OldestIn ==
  ASSUME NEW S \in SUBSET RunId, S # {}
  PROVE  LET s == CHOOSE x \in S : \A y \in S : x <= y
         IN s \in S /\ \A y \in S : s <= y
<1> DEFINE T == {x \in RunId : MaxRuns + 1 - x \in S}
<1>1. \A x \in RunId : /\ x \in Nat /\ MaxRuns + 1 - x \in RunId
                       /\ MaxRuns + 1 - (MaxRuns + 1 - x) = x
  BY ExecutorAssumption DEF RunId
<1>2. T \in SUBSET RunId /\ T # {}
  <2>1. PICK s \in S : TRUE
    OBVIOUS
  <2>2. MaxRuns + 1 - s \in T
    BY <1>1, <2>1
  <2> QED BY <2>2
<1>3. PICK x \in T : \A q \in T : q <= x
  BY <1>2, NewestIn
<1>4. MaxRuns + 1 - x \in S
  BY <1>3
<1>5. ASSUME NEW y \in S PROVE MaxRuns + 1 - x <= y
  <2>1. MaxRuns + 1 - y \in T
    BY <1>1
  <2>2. MaxRuns + 1 - y <= x /\ x \in Nat /\ y \in Nat
    BY <2>1, <1>3, <1>1
  <2> QED BY <2>2, ExecutorAssumption
<1> QED BY <1>4, <1>5

\* The coordinator of an aggregate takes its next pending step.
LEMMA HoldsStep ==
  ASSUME RunInv, NEW c \in RunId, pc[c] = "c-loop",
         NEW s \in PendingSteps(c),
         stepState' = [stepState EXCEPT ![s] = "running"],
         Goto(c, "reserve"), req' = [req EXCEPT ![c].run = s],
         UNCHANGED <<nextRunSeq, workspaceEpoch, processes, reservations, compounds,
                     parentOf, epochOf, replaces, os, waiting, done>>
  PROVE  RunInv'
<1> USE DEF RunInv
<1>1. /\ Callers \subseteq Threads /\ RunId \subseteq Threads /\ c \notin Callers
      /\ \A u \in Threads : u \in Callers \/ u \in RunId
  BY RunFacts DEF Threads
<1>2. /\ s \in RunId /\ s # NoRun /\ parentOf[s] = c /\ stepState[s] = "pending" /\ c # NoRun
      /\ os[s] = "none" /\ ~waiting[s] /\ ~done[s]
  BY RunFacts DEF PendingSteps, PlanOf, SpawnedOnce
<1>3. \A u \in Threads : u # c => req[u].run # s
  BY <1>1, <1>2 DEF Owned
<1>4. /\ pc'[c] = "reserve" /\ req'[c] \in Request /\ req'[c].run = s
      /\ \A u \in Threads : u # c => pc'[u] = pc[u] /\ req'[u] = req[u]
  <2>1. req[c] \in Request /\ req'[c] = [req[c] EXCEPT !.run = s]
    BY <1>1 DEF Shape
  <2>2. req'[c] \in Request /\ req'[c].run = s
    BY <2>1, <1>2 DEF Request
  <2> QED BY <2>2, <1>1 DEF Shape, Goto
<1>5. stepState'[s] = "running" /\ \A x \in RunId : x # s => stepState'[x] = stepState[x]
  BY <1>2 DEF Shape
<1>6. Shape'
  <2>1. "reserve" \in PC /\ "running" \in StepState
    BY DEF PC, StepState
  <2> QED BY <1>1, <1>4, <2>1 DEF Shape, Goto
<1>7. Disjoint'
  BY DEF Disjoint
<1>8. Unused'
  <2>1. s <= nextRunSeq
    BY <1>2, RunFacts, ExecutorAssumption DEF Unused, Shape
  <2>2. \A x \in RunId : x > nextRunSeq => x # c
    BY DEF Unused
  <2>3. \A u \in Threads : req'[u].run <= nextRunSeq
    BY <2>1, <1>4 DEF Unused
  <2> QED BY <2>2, <2>3, <1>1, <1>4 DEF Unused
<1>9. Owned'
  <2>1. \A u \in Threads : pc'[u] \in Launching => u # c
    BY <1>4 DEF Launching
  <2>2. \A u, v \in Threads : u # v /\ req'[u].run # NoRun => req'[u].run # req'[v].run
    BY <1>3, <1>4 DEF Owned
  <2>3. \A x \in RunId : req'[x].run # NoRun =>
          parentOf[req'[x].run] = x /\ stepState'[req'[x].run] # "pending"
    <3> TAKE x \in RunId
    <3>1. CASE x = c
      BY <3>1, <1>2, <1>4, <1>5
    <3>2. CASE x # c
      BY <3>2, <1>1, <1>3, <1>4, <1>5 DEF Owned, Shape, Request
    <3> QED BY <3>1, <3>2
  <2> QED BY <2>1, <2>2, <2>3, <1>1, <1>2, <1>4 DEF Owned
<1>10. SpawnedOnce'
  <2>1. \A x \in RunId : pc'[x] # "idle" => pc[x] # "idle" /\ x # s
    BY <1>1, <1>2, <1>4 DEF SpawnedOnce
  <2>2. \A u \in Threads : Unspawned(u)' => u = c \/ (req'[u] = req[u] /\ Unspawned(u))
    BY <1>4 DEF Unspawned
  <2>3. \A x \in RunId : stepState'[x] = "pending" => stepState[x] = "pending"
    BY <1>5
  <2>4. \A x \in RunId : pc'[x] # "idle" => \A u \in Threads : req'[u].run # x
    BY <2>1, <1>4 DEF SpawnedOnce
  <2> QED BY <2>1, <2>2, <2>3, <2>4, <1>2, <1>4 DEF SpawnedOnce
<1>11. Reaped'
  BY <1>4 DEF Reaped
<1>12. Replaced'
  BY <1>1, <1>4 DEF Replaced, RestartExclusive, Stopping
<1> QED BY <1>6, <1>7, <1>8, <1>9, <1>10, <1>11, <1>12

\* The runs of the requests are ids that were handed out.
LEMMA RunsKnown ==
  ASSUME RunInv
  PROVE  /\ nextRunSeq \in Nat /\ nextRunSeq <= MaxRuns
         /\ \A u \in Threads : /\ req[u].run \in RunId \cup {NoRun} /\ req[u].run \in Nat
                               /\ req[u].run <= nextRunSeq
<1>1. nextRunSeq \in Nat /\ nextRunSeq <= MaxRuns
  BY ExecutorAssumption DEF RunInv, Shape
<1>2. \A u \in Threads : req[u].run \in RunId \cup {NoRun} /\ req[u].run <= nextRunSeq
  BY DEF RunInv, Shape, Unused, Request
<1>3. RunId \cup {NoRun} \subseteq Nat
  BY RunFacts DEF NoRun
<1> QED BY <1>1, <1>2, <1>3

\* A call that launches asks for a profile, one that starts a compound for a
\* compound.
AskedBy(t) ==
  /\ pc[t] \in {"reserve", "r-lookup", "r-reserve"} => req[t].profile \in Profiles
  /\ pc[t] = "c-start" \/ req[t].again => req[t].profile \in Compounds
  /\ pc[t] \in {"rc-check", "rc-stop"} => req[t].again
  /\ pc[t] \in {"r-lookup", "rc-check", "rc-stop"} => req[t].run = NoRun
Asked == \A t \in Callers : AskedBy(t)

\* An aggregate and its steps take the next ids.
LEMMA Starts == ASSUME RunInv, Asked, NEW t \in Callers, StartCompound(t) PROVE RunInv'
<1> DEFINE p == req[t].profile
           c == nextRunSeq + 1
           n == Len(Steps[p])
           plan == (c + 1)..(c + n)
           q == [NoReq EXCEPT !.profile = p, !.epoch = req[t].epoch]
<1> USE DEF RunInv
<1>1. /\ c + n <= MaxRuns /\ nextRunSeq' = c + n
      /\ parentOf' = [r \in RunId |-> IF r \in plan THEN c ELSE parentOf[r]]
      /\ epochOf' = [r \in RunId |-> IF r \in plan \cup {c} THEN req[t].epoch ELSE epochOf[r]]
      /\ stepState' = [r \in RunId |-> IF r \in plan THEN "pending" ELSE stepState[r]]
      /\ compounds' = compounds \cup {c}
      /\ pc' = [pc EXCEPT ![t] = "idle", ![c] = "c-loop"]
      /\ req' = [req EXCEPT ![t] = NoReq, ![c] = q]
      /\ pc[t] = "c-start"
      /\ UNCHANGED <<workspaceEpoch, processes, reservations, replaces, os, waiting, done>>
  BY DEF StartCompound, admission, resVars, procVars
<1>2. n \in Nat
  <2>1. p \in Compounds
    BY <1>1 DEF Asked, AskedBy
  <2> QED BY <2>1, ExecutorAssumption
<1>3. /\ c \in RunId /\ c # NoRun /\ c > nextRunSeq /\ nextRunSeq \in Nat /\ c \in Nat
      /\ plan \subseteq RunId /\ c \notin plan
      /\ 1..nextRunSeq \subseteq 1..nextRunSeq' /\ c \in 1..nextRunSeq'
      /\ nextRunSeq' \in 0..MaxRuns
      /\ \A r \in plan : r > nextRunSeq
      /\ \A r \in RunId : r > nextRunSeq' => r > nextRunSeq /\ r \notin plan /\ r # c
  <2>1. nextRunSeq \in Nat /\ c \in Nat /\ nextRunSeq' = nextRunSeq + 1 + n /\ MaxRuns \in Nat
    BY <1>1, RunsKnown, ExecutorAssumption
  <2>2. c \in RunId /\ c # NoRun /\ c > nextRunSeq /\ plan \subseteq RunId /\ c \notin plan
    BY <2>1, <1>1, <1>2 DEF RunId, NoRun
  <2>3. /\ 1..nextRunSeq \subseteq 1..nextRunSeq' /\ c \in 1..nextRunSeq'
        /\ nextRunSeq' \in 0..MaxRuns /\ \A r \in plan : r > nextRunSeq
    BY <2>1, <1>1, <1>2
  <2>4. ASSUME NEW r \in Nat, r > nextRunSeq' PROVE r > nextRunSeq /\ r \notin plan /\ r # c
    <3>1. r > nextRunSeq + 1 + n
      BY <2>1, <2>4
    <3> HIDE DEF n
    <3> QED BY <3>1, <2>1, <1>2
  <2> QED BY <2>1, <2>2, <2>3, <2>4, RunFacts
<1>4. /\ t \in Threads /\ t # c /\ Callers \subseteq Threads /\ RunId \subseteq Threads
      /\ \A u \in Callers : u # c
      /\ \A u \in Threads : u \in Callers \/ u \in RunId
  BY <1>3, RunFacts DEF Threads
<1>5. q \in Request /\ q.run = NoRun /\ NoReq \in Request /\ NoReq.run = NoRun
  <2>1. p \in Profiles \cup {NoRun} /\ req[t].epoch \in Epoch
    BY <1>4 DEF Shape, Request
  <2> QED BY <2>1, RunFacts DEF NoReq, Request, NoRun
<1> HIDE DEF q
<1>6. /\ pc'[t] = "idle" /\ pc'[c] = "c-loop" /\ req'[t].run = NoRun /\ req'[c].run = NoRun
      /\ \A u \in Threads : u # t /\ u # c => pc'[u] = pc[u] /\ req'[u] = req[u]
      /\ req' \in [Threads -> Request]
  BY <1>1, <1>3, <1>4, <1>5 DEF Shape
<1>7. \A r \in plan \cup {c} :
        /\ parentOf[r] = NoRun /\ os[r] = "none" /\ ~waiting[r] /\ ~done[r] /\ pc[r] = "idle"
        /\ \A u \in Threads : req[u].run # r
  <2> SUFFICES ASSUME NEW r \in plan \cup {c}
               PROVE  /\ parentOf[r] = NoRun /\ os[r] = "none" /\ ~waiting[r] /\ ~done[r]
                      /\ pc[r] = "idle" /\ \A u \in Threads : req[u].run # r
    OBVIOUS
  <2>1. r \in RunId /\ r > nextRunSeq /\ r \in Nat
    BY <1>3, RunFacts
  <2>2. \A u \in Threads : req[u].run <= nextRunSeq /\ req[u].run \in Nat
    BY RunsKnown
  <2>3. \A u \in Threads : req[u].run # r
    BY <2>1, <2>2, <1>3
  <2> QED BY <2>1, <2>3 DEF Unused
<1> HIDE DEF plan, c, n
<1>8. /\ \A r \in plan : parentOf'[r] = c /\ stepState'[r] = "pending"
      /\ \A r \in RunId : r \notin plan => parentOf'[r] = parentOf[r] /\ stepState'[r] = stepState[r]
  BY <1>1, <1>3
<1>9. \A u \in Threads : /\ req'[u].run = req[u].run \/ req'[u].run = NoRun
                         /\ req'[u].run # NoRun => u # t /\ u # c /\ req'[u].run \in RunId \ plan
                         /\ req'[u].run # c
  <2> TAKE u \in Threads
  <2>1. CASE u = t \/ u = c
    <3>1. req'[u].run = NoRun
      BY <2>1, <1>6
    <3> QED BY <3>1, <1>3
  <2>2. CASE u # t /\ u # c
    <3>1. req'[u] = req[u] /\ req[u].run \in RunId \cup {NoRun}
      BY <2>2, <1>6, RunsKnown
    <3>2. req[u].run \notin plan \cup {c}
      BY <1>7
    <3> QED BY <2>2, <3>1, <3>2
  <2> QED BY <2>1, <2>2
<1>10. Shape'
  <2>1. {"idle", "c-loop"} \subseteq PC /\ "pending" \in StepState
    BY DEF PC, StepState
  <2>2. processes' \cup reservations' \cup compounds' \subseteq 1..nextRunSeq'
    BY <1>1, <1>3 DEF Shape
  <2>3. pc' \in [Threads -> PC]
    BY <1>1, <2>1 DEF Shape
  <2>4. /\ parentOf' \in [RunId -> RunId \cup {NoRun}] /\ epochOf' \in [RunId -> Epoch]
        /\ stepState' \in [RunId -> StepState]
    BY <1>1, <1>3, <1>4, <2>1 DEF Shape, Request
  <2> QED BY <1>1, <1>3, <1>6, <2>2, <2>3, <2>4 DEF Shape
<1>11. Disjoint'
  <2>1. c \notin processes \cup reservations
    BY <1>3 DEF Shape
  <2>2. \A r \in compounds : r \notin plan /\ r \in RunId
    BY <1>3, RunFacts, ExecutorAssumption DEF Shape, RunId
  <2>3. parentOf'[c] = NoRun /\ \A r \in compounds : parentOf'[r] = NoRun
    BY <2>2, <1>3, <1>7, <1>8 DEF Disjoint
  <2> QED BY <2>1, <2>3, <1>1 DEF Disjoint
<1>12. Unused'
  <2>1. \A r \in RunId : r > nextRunSeq' => r # t
    BY <1>4, RunFacts
  <2>2. \A r \in RunId : r > nextRunSeq' =>
          parentOf'[r] = NoRun /\ os[r] = "none" /\ ~waiting[r] /\ ~done[r] /\ pc'[r] = "idle"
    BY <2>1, <1>3, <1>4, <1>6, <1>8 DEF Unused
  <2>3. \A u \in Threads : req'[u].run <= nextRunSeq'
    <3> TAKE u \in Threads
    <3>1. req[u].run <= nextRunSeq /\ req[u].run \in Nat
      BY RunsKnown
    <3>2. nextRunSeq <= nextRunSeq' /\ nextRunSeq' \in Nat
      BY <1>1, <1>2, <1>3 DEF c
    <3> QED BY <3>1, <3>2, <1>3, <1>9 DEF NoRun
  <2> QED BY <2>2, <2>3, <1>1 DEF Unused
<1>13. Owned'
  <2>1. /\ \A u \in Threads : pc'[u] \in Launching => req'[u].run # NoRun
        /\ \A x \in RunId : pc'[x] = "reserve" => req'[x].run # NoRun
    BY <1>4, <1>6 DEF Owned, Launching
  <2>2. \A u \in Threads : req'[u].run # NoRun =>
          req'[u] = req[u] /\ parentOf'[req[u].run] = parentOf[req[u].run]
            /\ stepState'[req[u].run] = stepState[req[u].run]
    BY <1>6, <1>8, <1>9
  <2>3. \A x \in Callers : req'[x].run # NoRun => parentOf'[req'[x].run] = NoRun
    BY <2>2, <1>4 DEF Owned
  <2>4. \A x \in RunId : req'[x].run # NoRun =>
          parentOf'[req'[x].run] = x /\ stepState'[req'[x].run] # "pending"
    BY <2>2, <1>4 DEF Owned
  <2>5. \A u, v \in Threads : u # v /\ req'[u].run # NoRun => req'[u].run # req'[v].run
    BY <1>9 DEF Owned
  <2> QED BY <2>1, <2>3, <2>4, <2>5 DEF Owned
<1>14. SpawnedOnce'
  <2>1. \A x \in RunId : pc'[x] # "idle" =>
          x \notin plan /\ (x = c \/ pc[x] # "idle")
    BY <1>3, <1>4, <1>6, <1>7
  <2>2. \A x \in RunId : pc'[x] # "idle" =>
          parentOf'[x] = NoRun /\ os[x] = "none" /\ \A u \in Threads : req'[u].run # x
    <3> SUFFICES ASSUME NEW x \in RunId, pc'[x] # "idle"
                 PROVE  parentOf'[x] = NoRun /\ os[x] = "none" /\ \A u \in Threads : req'[u].run # x
      OBVIOUS
    <3>1. CASE x = c
      BY <3>1, <2>1, <1>7, <1>8, <1>9
    <3>2. CASE x # c
      BY <3>2, <2>1, <1>8, <1>9, RunFacts DEF SpawnedOnce
    <3> QED BY <3>1, <3>2
  <2>3. \A r \in RunId : stepState'[r] = "pending" =>
          parentOf'[r] # NoRun /\ os[r] = "none" /\ ~waiting[r] /\ ~done[r]
    BY <1>3, <1>7, <1>8 DEF SpawnedOnce
  <2>4. \A u \in Threads : Unspawned(u)' => Unspawned(u) /\ req'[u] = req[u]
    BY <1>6, <1>9 DEF Unspawned
  <2>5. UNCHANGED <<os, waiting, done>>
    BY <1>1
  <2>6. \A u \in Threads : Unspawned(u)' =>
          os'[req'[u].run] = "none" /\ ~waiting'[req'[u].run] /\ ~done'[req'[u].run]
    BY <2>4, <2>5 DEF SpawnedOnce
  <2> QED BY <2>2, <2>3, <2>5, <2>6 DEF SpawnedOnce
<1>15. Reaped'
  BY <1>1, <1>4, <1>6 DEF Reaped
<1>16. Replaced'
  <2>1. \A u \in Threads : pc'[u] \in Stopping \cup {"check"} => pc'[u] = pc[u] /\ req'[u] = req[u]
    BY <1>6 DEF Stopping
  <2>2. UNCHANGED <<os, waiting, processes, replaces>>
    BY <1>1
  <2>3. RestartExclusive'
    BY <2>2 DEF Replaced, RestartExclusive
  <2>4. \A u \in Callers : pc'[u] \in Stopping /\ req'[u].run # NoRun =>
          /\ req'[u].target \in RunId /\ replaces'[req'[u].run] = req'[u].target
          /\ req'[u].target \in processes' \/ waiting'[req'[u].target]
    BY <2>1, <2>2, <1>4 DEF Replaced
  <2>5. \A u \in Threads : pc'[u] = "check" /\ replaces'[req'[u].run] # NoRun =>
          os'[replaces'[req'[u].run]] = "exited"
    BY <2>1, <2>2 DEF Replaced
  <2> QED BY <2>3, <2>4, <2>5 DEF Replaced
<1> QED BY <1>10, <1>11, <1>12, <1>13, <1>14, <1>15, <1>16

LEMMA AskedInit == Init => Asked
BY DEF Init, Asked, AskedBy, NoReq, Threads

LEMMA AskedOf ==
  ASSUME RunInv, Asked, NEW t \in Callers, NEW l, Goto(t, l),
         NEW q, req' = [req EXCEPT ![t] = q],
         l \in {"reserve", "r-reserve"} => q.profile \in Profiles,
         l \notin {"r-lookup", "rc-check", "rc-stop"},
         l = "c-start" \/ q.again => q.profile \in Compounds
  PROVE  Asked'
BY DEF RunInv, Shape, Threads, Asked, AskedBy, Goto

\* Only a call of its own makes a caller ask for a compound.
LEMMA AskedStep == RunInv /\ Asked /\ [Next]_vars => Asked'
<1> SUFFICES ASSUME RunInv, Asked, [Next]_vars PROVE Asked'
  OBVIOUS
<1> USE DEF Asked, AskedBy, Goto, Return, NoReq
<1>1. pc \in [Threads -> PC] /\ req \in [Threads -> Request] /\ Callers \subseteq Threads
  BY DEF RunInv, Shape, Threads
<1>2. CASE UNCHANGED threadVars
  BY <1>2 DEF threadVars
<1>3. ASSUME NEW t \in Callers, Call(t) PROVE Asked'
  <2>1. ASSUME NEW p \in Ordinary, CallStart(t, p) \/ CallRestart(t, p) PROVE Asked'
    <3>1. CASE CallStart(t, p)
      <4> DEFINE q == [NoReq EXCEPT !.profile = p, !.epoch = workspaceEpoch]
      <4>1. pc' = [pc EXCEPT ![t] = "reserve"] /\ req' = [req EXCEPT ![t] = q]
        BY <3>1 DEF CallStart
      <4>2. q.profile \in Profiles /\ q.again = FALSE
        BY DEF Ordinary
      <4> HIDE DEF q
      <4> QED BY <4>1, <4>2, <1>1
    <3>2. CASE CallRestart(t, p)
      <4> DEFINE q == [NoReq EXCEPT !.profile = p, !.epoch = workspaceEpoch]
      <4>1. pc' = [pc EXCEPT ![t] = "r-lookup"] /\ req' = [req EXCEPT ![t] = q]
        BY <3>2 DEF CallRestart
      <4>2. q.profile \in Profiles /\ q.again = FALSE /\ q.run = NoRun
        BY DEF Ordinary
      <4> HIDE DEF q
      <4> QED BY <4>1, <4>2, <1>1
    <3> QED BY <2>1, <3>1, <3>2
  <2>2. ASSUME NEW p \in Compounds, CallStartCompound(t, p) \/ CallRestartCompound(t, p)
        PROVE Asked'
    <3>1. CASE CallStartCompound(t, p)
      <4> DEFINE q == [NoReq EXCEPT !.profile = p, !.epoch = workspaceEpoch]
      <4>1. pc' = [pc EXCEPT ![t] = "c-start"] /\ req' = [req EXCEPT ![t] = q]
        BY <3>1 DEF CallStartCompound
      <4>2. q.profile = p
        OBVIOUS
      <4> HIDE DEF q
      <4> QED BY <4>1, <4>2, <1>1
    <3>2. CASE CallRestartCompound(t, p)
      <4> DEFINE q == [NoReq EXCEPT !.profile = p, !.epoch = workspaceEpoch, !.again = TRUE]
      <4>1. pc' = [pc EXCEPT ![t] = "rc-check"] /\ req' = [req EXCEPT ![t] = q]
        BY <3>2 DEF CallRestartCompound
      <4>2. q.profile = p /\ q.again = TRUE /\ q.run = NoRun
        OBVIOUS
      <4> HIDE DEF q
      <4> QED BY <4>1, <4>2, <1>1
    <3> QED BY <2>2, <3>1, <3>2
  <2>3. ASSUME NEW p \in Profiles, CallStop(t, p) PROVE Asked'
    BY <2>3, <1>1 DEF CallStop
  <2>4. ASSUME NEW r \in RunId, CallRestartInstance(t, r) \/ CallStopInstance(t, r)
        PROVE Asked'
    <3>1. CASE CallRestartInstance(t, r)
      <4> DEFINE q == [NoReq EXCEPT !.profile = profileOf[r], !.epoch = workspaceEpoch,
                                    !.target = r, !.exact = TRUE]
      <4>1. pc' = [pc EXCEPT ![t] = "r-reserve"] /\ req' = [req EXCEPT ![t] = q]
        BY <3>1 DEF CallRestartInstance
      <4>2. q.profile \in Profiles /\ q.again = FALSE
        BY <3>1 DEF Ordinary, CallRestartInstance
      <4> HIDE DEF q
      <4> QED BY <4>1, <4>2, <1>1
    <3>2. CASE CallStopInstance(t, r)
      BY <3>2, AskedOf DEF CallStopInstance
    <3> QED BY <2>4, <3>1, <3>2
  <2> QED BY <1>3, <2>1, <2>2, <2>3, <2>4 DEF Call
<1>4. ASSUME NEW t \in Callers, CallerStep(t) PROVE Asked'
  <2>1. CASE ReserveReplacement(t)
    <3>1. CASE Return(t) \/ (pc[t] = "r-reserve" /\ Goto(t, "reserve") /\ UNCHANGED req)
      BY <3>1, <1>1
    <3>2. CASE Goto(t, "s-instance") /\ req' = [req EXCEPT ![t].run = nextRunSeq + 1]
      <4>1. pc'[t] = "s-instance" /\ req'[t] = [req[t] EXCEPT !.run = nextRunSeq + 1]
        BY <3>2, <1>1
      <4>2. req'[t].again = req[t].again /\ req'[t].profile = req[t].profile
        BY <4>1, <1>1 DEF Request
      <4> QED BY <3>2, <4>1, <4>2, <1>1
    <3> QED BY <2>1, <3>1, <3>2 DEF ReserveReplacement
  <2>2. CASE RestartUnprepared(t)
    BY <2>2, <1>1 DEF RestartUnprepared
  <2>3. CASE StopInstance(t) \/ StopSignal(t) \/ StopWait(t)
    BY <2>3, <1>1 DEF StopInstance, StopSignal, StopWait, AfterStop
  <2>4. CASE CompoundLookup(t)
    <3>1. CASE req[t].target \in compounds
      <4>1. /\ pc' = [pc EXCEPT ![t] = "sc-cancel"]
            /\ \E x : req' = [req EXCEPT ![t].leaf = x]
        BY <2>4, <3>1 DEF CompoundLookup
      <4>2. PICK x : req' = [req EXCEPT ![t].leaf = x]
        BY <4>1
      <4>3. req'[t] = [req[t] EXCEPT !.leaf = x]
        BY <4>2, <1>1
      <4>4. req'[t].again = req[t].again /\ req'[t].profile = req[t].profile
        BY <4>3, <1>1 DEF Request
      <4> QED BY <4>1, <4>2, <4>4, <1>1
    <3>2. CASE req[t].target \notin compounds
      BY <2>4, <3>2, <1>1 DEF CompoundLookup, AfterCompoundStop
    <3> QED BY <3>1, <3>2
  <2>5. CASE CompoundCancel(t) \/ CompoundSignal(t) \/ CompoundWait(t)
    BY <2>5, <1>1 DEF CompoundCancel, CompoundSignal, CompoundWait, AfterCompoundStop
  <2>6. CASE CompoundRejected(t)
    BY <2>6, <1>1 DEF CompoundRejected
  <2>8. CASE RestartLookup(t) \/ CompoundRestartStop(t)
    <3>1. /\ \E x : req' = [req EXCEPT ![t].target = x]
          /\ \/ pc'[t] \in {"reserve", "r-reserve"} /\ pc[t] = "r-lookup"
             \/ pc'[t] \in {"c-start", "sc-lookup"} /\ pc[t] = "rc-stop"
          /\ \A u \in Callers : u # t => pc'[u] = pc[u]
      BY <2>8, <1>1 DEF RestartLookup, CompoundRestartStop
    <3>2. PICK x : req' = [req EXCEPT ![t].target = x]
      BY <3>1
    <3>3. req'[t] = [req[t] EXCEPT !.target = x]
      BY <3>2, <1>1
    <3>4. req'[t].again = req[t].again /\ req'[t].profile = req[t].profile
      BY <3>3, <1>1 DEF Request
    <3> QED BY <3>1, <3>2, <3>4, <1>1
  <2>9. CASE CompoundRestartCheck(t)
    BY <2>9, <1>1 DEF CompoundRestartCheck
  <2>7. CASE StartCompound(t)
    <3> DEFINE c == nextRunSeq + 1
    <3>1. c \in Nat /\ c \notin Callers
      BY ExecutorAssumption, RunsKnown
    <3>2. pc'[t] = "idle" /\ req'[t] = NoReq
      BY <2>7, <1>1, <3>1 DEF StartCompound
    <3>3. \A u \in Callers : u # t => pc'[u] = pc[u] /\ req'[u] = req[u]
      BY <2>7, <1>1, <3>1 DEF StartCompound
    <3> QED BY <3>2, <3>3
  <2> QED BY <1>4, <2>1, <2>2, <2>3, <2>4, <2>5, <2>6, <2>7, <2>8, <2>9 DEF CallerStep
<1>5. ASSUME NEW t \in Threads, Launch(t) PROVE Asked'
  <2>1. CASE LaunchRejected(t) \/ FinishReservation(t)
    BY <2>1, <1>1 DEF LaunchRejected, FinishReservation, LaunchFails
  <2>2. CASE ReserveFresh(t)
    <3>1. CASE LaunchFails(t, "setup")
      BY <3>1, <1>1 DEF LaunchFails
    <3>2. CASE Goto(t, "check") /\ req' = [req EXCEPT ![t].run = nextRunSeq + 1]
      <4>1. pc'[t] = "check" /\ req'[t] = [req[t] EXCEPT !.run = nextRunSeq + 1]
        BY <3>2, <1>1
      <4>2. req'[t].again = req[t].again /\ req'[t].profile = req[t].profile
        BY <4>1, <1>1 DEF Request
      <4> QED BY <3>2, <4>1, <4>2, <1>1
    <3> QED BY <2>2, <3>1, <3>2 DEF ReserveFresh
  <2>3. CASE ReserveStep(t)
    BY <2>3, <1>1 DEF ReserveStep, LaunchFails
  <2>4. CASE Spawn(t) \/ Promote(t) \/ EmitRunning(t)
    BY <2>4, <1>1 DEF Spawn, Promote, EmitRunning, Abandon
  <2> QED BY <1>5, <2>1, <2>2, <2>3, <2>4 DEF Launch
<1>6. ASSUME NEW c \in RunId, Coordinator(c) PROVE Asked'
  <2>1. \A u \in Callers : u # c
    BY RunFacts
  <2>2. \A u \in Callers : pc'[u] = pc[u] /\ req'[u] = req[u]
    BY <1>6, <1>1, <2>1 DEF Coordinator, CoordStep, CoordPublish, CoordWait, CoordRecord,
         CoordFinish, CoordClose
  <2> QED BY <2>2
<1>7. ASSUME NEW r \in RunId, Process(r) \/ Exit(r) PROVE UNCHANGED threadVars
  BY <1>7 DEF Process, WaitProcess, FinishWait, Escalate, Exit
<1>8. ASSUME NEW d \in Drainers, BeginDrain(d) \/ StopAll(d) \/ Drained(d)
      PROVE UNCHANGED threadVars
  BY <1>8 DEF BeginDrain, StopAll, StopAllCollect, StopAllSignal, StopAllHalfway,
       StopAllReturns, StopAllTimeout, Drained, ClearTerminalStatuses, Reload, EndDrain, LoadFails
<1>9. CASE UNCHANGED vars
  BY <1>2, <1>9 DEF vars
<1> QED BY <1>2, <1>3, <1>4, <1>5, <1>6, <1>7, <1>8, <1>9 DEF Next

LEMMA LiveRuns ==
  ASSUME RunInv, NEW p
  PROVE  /\ processes \subseteq RunId /\ reservations \subseteq RunId /\ compounds \subseteq RunId
         /\ LiveOf(p) # {} => Newest(LiveOf(p)) \in RunId
<1>1. processes \cup reservations \cup compounds \subseteq RunId
  <2>1. 1..nextRunSeq \subseteq 1..MaxRuns
    BY RunsKnown, ExecutorAssumption
  <2> QED BY <2>1 DEF RunInv, Shape, RunId
<1>2. LiveOf(p) \in SUBSET RunId
  BY <1>1 DEF LiveOf
<1> QED BY <1>1, <1>2, NewestIn

\* A new call.
LEMMA CallsKeep == ASSUME RunInv, NEW t \in Callers, Call(t) PROVE RunInv'
<1> USE DEF RunData, admission, tables, identity, resVars, procVars, compVars
<1> DEFINE Sets(l, q) == Goto(t, l) /\ req' = [req EXCEPT ![t] = q]
<1>1. ASSUME NEW l \in {"reserve", "r-lookup", "r-reserve", "rc-check", "s-instance",
                       "s-signal", "c-start", "sc-lookup"},
             NEW q \in Request, q.run = NoRun, Sets(l, q), UNCHANGED RunData
      PROVE  RunInv'
  <2>1. l \in PC \ Launching
    BY DEF PC, Launching
  <2> QED BY <1>1, <2>1, SetsOut
<1>2. workspaceEpoch \in Epoch /\ 0 \in Epoch /\ parentOf \in [RunId -> RunId \cup {NoRun}]
  BY RunFacts DEF RunInv, Shape
<1>3. ASSUME NEW p \in Ordinary, CallStart(t, p) PROVE RunInv'
  <2> DEFINE q == [NoReq EXCEPT !.profile = p, !.epoch = workspaceEpoch]
  <2>1. q \in Request /\ q.run = NoRun
    BY <1>2 DEF NoReq, Request, Ordinary
  <2>2. Sets("reserve", q) /\ UNCHANGED RunData
    BY <1>3 DEF CallStart
  <2> HIDE DEF q
  <2> QED BY <2>1, <2>2, <1>1
<1>4. ASSUME NEW p \in Ordinary, CallRestart(t, p) PROVE RunInv'
  <2> DEFINE q == [NoReq EXCEPT !.profile = p, !.epoch = workspaceEpoch]
  <2>1. q \in Request /\ q.run = NoRun
    BY <1>2 DEF NoReq, Request, Ordinary
  <2>2. Sets("r-lookup", q) /\ UNCHANGED RunData
    BY <1>4 DEF CallRestart
  <2> HIDE DEF q
  <2> QED BY <2>1, <2>2, <1>1
<1>5. ASSUME NEW p \in Compounds, CallStartCompound(t, p) PROVE RunInv'
  <2> DEFINE q == [NoReq EXCEPT !.profile = p, !.epoch = workspaceEpoch]
  <2>1. q \in Request /\ q.run = NoRun
    BY <1>2, RunFacts DEF NoReq, Request
  <2>2. Sets("c-start", q) /\ UNCHANGED RunData
    BY <1>5 DEF CallStartCompound
  <2> HIDE DEF q
  <2> QED BY <2>1, <2>2, <1>1
<1>6. ASSUME NEW p \in Compounds, CallRestartCompound(t, p) PROVE RunInv'
  <2> DEFINE q == [NoReq EXCEPT !.profile = p, !.epoch = workspaceEpoch, !.again = TRUE]
  <2>1. q \in Request /\ q.run = NoRun
    BY <1>2, RunFacts DEF NoReq, Request
  <2>2. Sets("rc-check", q) /\ UNCHANGED RunData
    BY <1>6 DEF CallRestartCompound
  <2> HIDE DEF q
  <2> QED BY <2>1, <2>2, <1>1
<1>7. ASSUME NEW p \in Profiles, CallStop(t, p) PROVE RunInv'
  <2> DEFINE q == [NoReq EXCEPT !.profile = p, !.target = StopTarget(p)]
             l == IF StopTarget(p) \in compounds THEN "sc-lookup" ELSE "s-instance"
  <2>1. StopTarget(p) \in RunId \cup {NoRun}
    BY <1>2, <1>7, LiveRuns DEF CallStop, StopTarget
  <2>2. Sets(l, q) /\ UNCHANGED RunData
    BY <1>7 DEF CallStop
  <2>3. q \in Request /\ q.run = NoRun
    BY <1>2, <2>1 DEF NoReq, Request
  <2>4. l \in {"sc-lookup", "s-instance"}
    OBVIOUS
  <2> HIDE DEF q, l
  <2> QED BY <2>2, <2>3, <2>4, <1>1
<1>8. ASSUME NEW r \in RunId, CallRestartInstance(t, r) PROVE RunInv'
  <2> DEFINE q == [NoReq EXCEPT !.profile = profileOf[r], !.epoch = workspaceEpoch,
                                !.target = r, !.exact = TRUE]
  <2>1. q \in Request /\ q.run = NoRun
    BY <1>2, <1>8 DEF NoReq, Request, Ordinary, CallRestartInstance
  <2>2. Sets("r-reserve", q) /\ UNCHANGED RunData
    BY <1>8 DEF CallRestartInstance
  <2> HIDE DEF q
  <2> QED BY <2>1, <2>2, <1>1
<1>9. ASSUME NEW r \in RunId, CallStopInstance(t, r) PROVE RunInv'
  <2> DEFINE q == [NoReq EXCEPT !.target = r]
  <2>1. q \in Request /\ q.run = NoRun
    BY <1>2 DEF NoReq, Request
  <2>2. Sets("s-signal", q) /\ UNCHANGED RunData
    BY <1>9 DEF CallStopInstance
  <2> HIDE DEF q
  <2> QED BY <2>1, <2>2, <1>1
<1> QED BY <1>3, <1>4, <1>5, <1>6, <1>7, <1>8, <1>9 DEF Call

\* A restart that looks up what it replaces.
LEMMA LookupsKeep ==
  ASSUME RunInv, Asked, NEW t \in Callers,
         RestartLookup(t) \/ CompoundRestartStop(t) \/ CompoundRestartCheck(t)
  PROVE  RunInv'
<1> USE DEF RunData, admission, tables, identity, resVars, procVars, compVars
<1>1. t \in Threads /\ t \notin RunId /\ req[t] \in Request
  BY RunFacts DEF Threads, RunInv, Shape
<1> DEFINE live == LiveOf(req[t].profile)
           target == IF live = {} THEN NoRun ELSE Newest(live)
           q == [req[t] EXCEPT !.target = target]
<1>2. target \in RunId \cup {NoRun}
  BY LiveRuns
<1> HIDE DEF target
<1>3. q \in Request /\ q.run = req[t].run
  BY <1>1, <1>2 DEF Request
<1> HIDE DEF q
<1>4. CASE RestartLookup(t)
  <2> DEFINE l == IF live = {} THEN "reserve" ELSE "r-reserve"
  <2>1. /\ Goto(t, l) /\ req' = [req EXCEPT ![t] = q] /\ UNCHANGED RunData
        /\ req[t].run = NoRun
    BY <1>4, <1>1 DEF RestartLookup, q, target, Asked, AskedBy
  <2>2. l \in PC \ Launching
    BY DEF PC, Launching
  <2> HIDE DEF l
  <2> QED BY <2>1, <2>2, <1>3, SetsOut
<1>5. CASE CompoundRestartStop(t)
  <2> DEFINE l == IF live = {} THEN "c-start" ELSE "sc-lookup"
  <2>1. /\ Goto(t, l) /\ req' = [req EXCEPT ![t] = q] /\ UNCHANGED RunData
        /\ req[t].run = NoRun
    BY <1>5, <1>1 DEF CompoundRestartStop, q, target, Asked, AskedBy
  <2>2. l \in PC \ Launching
    BY DEF PC, Launching
  <2> HIDE DEF l
  <2> QED BY <2>1, <2>2, <1>3, SetsOut
<1>6. CASE CompoundRestartCheck(t)
  <2>1. "rc-stop" \in PC \ Launching /\ "rc-stop" \notin Stopping
    BY DEF PC, Launching, Stopping
  <2>2. CASE Goto(t, "rc-stop") /\ UNCHANGED req
    BY <1>6, <2>1, <2>2, <1>1, GoesOn DEF CompoundRestartCheck
  <2>3. CASE Return(t)
    BY <1>6, <2>3, <1>1, Returns DEF CompoundRestartCheck
  <2> QED BY <1>6, <2>2, <2>3 DEF CompoundRestartCheck
<1> QED BY <1>4, <1>5, <1>6

\* A caller that goes on.
LEMMA CallersKeep == ASSUME RunInv, Asked, NEW t \in Callers, CallerStep(t) PROVE RunInv'
<1> USE DEF RunData, admission, tables, identity, resVars, procVars, compVars
<1>1. t \in Threads /\ t \notin RunId /\ req[t] \in Request
  BY RunFacts DEF Threads, RunInv, Shape
<1>2. {"reserve", "s-signal", "s-wait", "sc-wait", "sc-signal", "c-start"} \subseteq PC \ Launching
  BY DEF PC, Launching
<1>3. CASE ReserveReplacement(t)
  <2> DEFINE m == req[t].target
             e == req[t].epoch
  <2>1. CASE Return(t) /\ UNCHANGED <<nextRunSeq, reservations, epochOf, replaces>>
    BY <2>1, <1>1, <1>3, Returns DEF ReserveReplacement
  <2>2. CASE Goto(t, "reserve") /\ UNCHANGED <<nextRunSeq, reservations, epochOf, replaces, req>>
    <3>1. "reserve" \notin Stopping
      BY DEF Stopping
    <3> QED BY <2>2, <3>1, <1>1, <1>2, <1>3, GoesOn DEF ReserveReplacement
  <2>3. CASE /\ nextRunSeq + 1 <= MaxRuns /\ nextRunSeq' = nextRunSeq + 1
             /\ Return(t) /\ UNCHANGED <<reservations, epochOf, replaces>>
    <3>1. nextRunSeq' \in nextRunSeq..MaxRuns
      BY <2>3, RunsKnown, ExecutorAssumption
    <3>2. LaunchFails(t, "setup")
      BY <2>3 DEF LaunchFails
    <3> QED BY <1>1, <1>3, <2>3, <3>1, <3>2, Fails DEF ReserveReplacement
  <2>4. CASE /\ m \in processes /\ nextRunSeq + 1 <= MaxRuns /\ nextRunSeq' = nextRunSeq + 1
             /\ AddReservation(nextRunSeq + 1, req[t].profile, e, m)
             /\ Goto(t, "s-instance") /\ req' = [req EXCEPT ![t].run = nextRunSeq + 1]
    <3>1. e \in Epoch /\ m \in RunId \cup {NoRun}
      BY <1>1 DEF Request
    <3>2. UNCHANGED <<workspaceEpoch, processes, compounds, parentOf, os, waiting, done, stepState>>
      BY <1>3 DEF ReserveReplacement
    <3> QED BY <2>4, <3>1, <3>2, Takes DEF AddReservation
  <2> QED BY <1>3, <2>1, <2>2, <2>3, <2>4 DEF ReserveReplacement
<1>4. CASE RestartUnprepared(t)
  BY <1>4, <1>1, Returns DEF RestartUnprepared
<1>13. CASE RestartLookup(t) \/ CompoundRestartStop(t) \/ CompoundRestartCheck(t)
  BY <1>13, LookupsKeep
<1>5. CASE StopInstance(t) \/ StopWait(t)
  <2>1. pc[t] \in Stopping /\ UNCHANGED RunData
    BY <1>5 DEF StopInstance, StopWait, Stopping
  <2>2. CASE Goto(t, "s-signal") /\ UNCHANGED req
    BY <2>1, <2>2, <1>1, <1>2, GoesOn
  <2>3. CASE Return(t)
    BY <2>1, <2>3, <1>1, Returns
  <2>4. CASE AfterStop(t) /\ req[t].run # NoRun /\ (req[t].target \notin processes \/ done[req[t].target])
    <3>1. os[req[t].target] = "exited"
      <4>1. /\ req[t].target \in RunId
            /\ req[t].target \in processes \/ waiting[req[t].target]
        BY <2>1, <2>4 DEF RunInv, Replaced
      <4>2. os[req[t].target] \in {"none", "running", "exited"}
        BY <4>1 DEF RunInv, Shape
      <4> QED BY <2>4, <4>1, <4>2 DEF RunInv, Reaped
    <3>2. Goto(t, "check") /\ UNCHANGED req
      BY <2>4 DEF AfterStop
    <3> QED BY <2>1, <2>4, <3>1, <3>2, Relaunches
  <2> QED BY <1>5, <2>2, <2>3, <2>4 DEF StopInstance, StopWait, AfterStop
<1>6. CASE StopSignal(t)
  <2>1. pc[t] \in Stopping
    BY <1>6 DEF StopSignal, Stopping
  <2> QED BY <1>6, <2>1, <1>1, <1>2, GoesOn DEF StopSignal
<1>7. ASSUME AfterCompoundStop(t), UNCHANGED RunData PROVE RunInv'
  <2>1. "c-start" \notin Stopping
    BY DEF Stopping
  <2>2. CASE Goto(t, "c-start") /\ UNCHANGED req
    BY <1>7, <2>1, <2>2, <1>1, <1>2, GoesOn
  <2>3. CASE Return(t)
    BY <1>7, <2>3, <1>1, Returns
  <2> QED BY <1>7, <2>2, <2>3 DEF AfterCompoundStop
<1>8. CASE CompoundLookup(t)
  <2>1. CASE req[t].target \in compounds
    <3> DEFINE x == IF current[req[t].target] \in processes THEN current[req[t].target] ELSE NoRun
               q == [req[t] EXCEPT !.leaf = x]
    <3>1. Goto(t, "sc-cancel") /\ req' = [req EXCEPT ![t].leaf = x]
      BY <1>8, <2>1 DEF CompoundLookup
    <3>2. req' = [req EXCEPT ![t] = q]
      BY <3>1, <1>1 DEF RunInv, Shape
    <3>3. x \in RunId \cup {NoRun}
      BY LiveRuns
    <3> HIDE DEF x
    <3>4. q \in Request /\ q.run = req[t].run
      BY <3>3, <1>1 DEF Request
    <3>5. "sc-cancel" \in PC \ Launching /\ "sc-cancel" \notin Stopping \cup {"reserve"}
      BY DEF PC, Launching, Stopping
    <3>6. UNCHANGED RunData
      BY <1>8 DEF CompoundLookup
    <3>7. nextRunSeq' \in nextRunSeq..MaxRuns /\ stepState' \in [RunId -> StepState]
      BY <3>6, ExecutorAssumption DEF RunInv, Shape
    <3> HIDE DEF q
    <3> QED BY <3>1, <3>2, <3>4, <3>5, <3>6, <3>7, <1>1, Moves DEF Goto
  <2>2. CASE req[t].target \notin compounds
    BY <1>7, <1>8, <2>2 DEF CompoundLookup
  <2> QED BY <2>1, <2>2
<1>9. CASE CompoundCancel(t) \/ CompoundSignal(t)
  <2>1. \E l \in {"sc-wait", "sc-signal"} : Goto(t, l)
    BY <1>9 DEF CompoundCancel, CompoundSignal
  <2>2. UNCHANGED <<RunData, req>>
    BY <1>9 DEF CompoundCancel, CompoundSignal
  <2>3. {"sc-wait", "sc-signal"} \cap Stopping = {}
    BY DEF Stopping
  <2> QED BY <2>1, <2>2, <2>3, <1>1, <1>2, GoesOn
<1>10. CASE CompoundWait(t)
  BY <1>7, <1>10 DEF CompoundWait
<1>11. CASE CompoundRejected(t)
  BY <1>11, <1>1, Returns DEF CompoundRejected
<1>12. CASE StartCompound(t)
  BY <1>12, Starts
<1> QED
  BY <1>3, <1>4, <1>5, <1>6, <1>8, <1>9, <1>10, <1>11, <1>12, <1>13 DEF CallerStep

\* A launch, by a caller or by a coordinator.
LEMMA LaunchesKeep == ASSUME RunInv, NEW t \in Threads, Launch(t) PROVE RunInv'
<1> USE DEF RunData, admission, tables, identity, resVars, procVars, compVars
<1>2. nextRunSeq \in nextRunSeq..MaxRuns
  BY RunsKnown, ExecutorAssumption
<1>3. CASE LaunchRejected(t)
  <2>1. pc[t] # "idle" /\ \E why : LaunchFails(t, why)
    BY <1>3 DEF LaunchRejected
  <2> QED BY <1>3, <2>1, <1>2, Fails DEF LaunchRejected
<1>4. CASE ReserveFresh(t)
  <2>1. /\ t \in Callers /\ nextRunSeq + 1 <= MaxRuns /\ nextRunSeq' = nextRunSeq + 1
        /\ t \notin RunId /\ nextRunSeq' \in nextRunSeq..MaxRuns
    BY <1>4, RunFacts, RunsKnown, ExecutorAssumption DEF ReserveFresh
  <2>2. UNCHANGED <<workspaceEpoch, processes, compounds, parentOf, os, waiting, done, stepState>>
    BY <1>4 DEF ReserveFresh
  <2>3. CASE LaunchFails(t, "setup") /\ UNCHANGED <<reservations, epochOf, replaces>>
    BY <2>1, <2>2, <2>3, Fails
  <2>4. CASE /\ AddReservation(nextRunSeq + 1, req[t].profile, req[t].epoch, NoRun)
             /\ Goto(t, "check") /\ req' = [req EXCEPT ![t].run = nextRunSeq + 1]
    <3>1. req[t].epoch \in Epoch
      BY DEF RunInv, Shape, Request
    <3> QED BY <2>1, <2>2, <2>4, <3>1, Takes DEF AddReservation
  <2> QED BY <1>4, <2>3, <2>4 DEF ReserveFresh
<1>5. CASE ReserveStep(t)
  <2>1. /\ t \in RunId /\ pc[t] = "reserve"
        /\ UNCHANGED <<nextRunSeq, workspaceEpoch, processes, compounds, parentOf, os,
                       waiting, done, stepState>>
    BY <1>5 DEF ReserveStep
  <2>2. CASE LaunchFails(t, "setup") /\ UNCHANGED <<reservations, epochOf, replaces>>
    BY <2>1, <2>2, <1>2, Fails
  <2>3. CASE /\ ~Conflict(req[t].run, profileOf[req[t].run], t, NoRun)
             /\ AddReservation(req[t].run, profileOf[req[t].run], req[t].epoch, NoRun)
             /\ Goto(t, "check") /\ UNCHANGED req
    <3>1. req[t].epoch \in Epoch
      BY DEF RunInv, Shape, Request
    <3>2. req[t].run \notin processes
      BY <2>3 DEF Conflict
    <3> QED BY <2>1, <2>3, <3>1, <3>2, ReservesStep DEF AddReservation
  <2> QED BY <1>5, <2>2, <2>3 DEF ReserveStep
<1>6. ASSUME Goto(t, "abandon"), UNCHANGED <<RunData, req>>, pc[t] # "idle" PROVE RunInv'
  <2>1. "abandon" \in PC \ Launching /\ "abandon" \notin Stopping \cup {"reserve"}
    BY DEF PC, Launching, Stopping
  <2> QED BY <1>6, <2>1, GoesOn
<1>7. CASE Spawn(t)
  <2>1. CASE \E why : Abandon(t, why) /\ UNCHANGED os
    BY <1>6, <1>7, <2>1 DEF Spawn, Abandon
  <2>2. CASE os' = [os EXCEPT ![req[t].run] = "running"] /\ Goto(t, "promote") /\ UNCHANGED req
    BY <1>7, <2>2, Spawns DEF Spawn
  <2> QED BY <1>7, <2>1, <2>2 DEF Spawn
<1>8. CASE Promote(t)
  <2>1. CASE ReservationInvalid(req[t].run)
    BY <1>6, <1>8, <2>1 DEF Promote, Abandon
  <2>2. CASE ~ReservationInvalid(req[t].run)
    <3>1. req[t].run \in reservations
      BY <2>2 DEF ReservationInvalid
    <3>2. \E l \in {"emit", "c-publish"} : Goto(t, l)
      BY <1>8, <2>2 DEF Promote
    <3>3. /\ pc[t] = "promote" /\ UNCHANGED req
          /\ processes' = processes \cup {req[t].run}
          /\ reservations' = reservations \ {req[t].run}
          /\ UNCHANGED <<nextRunSeq, workspaceEpoch, compounds, parentOf, epochOf, replaces,
                         os, waiting, done, stepState>>
      BY <1>8, <2>2 DEF Promote
    <3> QED BY <3>1, <3>2, <3>3, Promotes
  <2> QED BY <2>1, <2>2
<1>9. CASE FinishReservation(t)
  <2>1. pc[t] # "idle" /\ LaunchFails(t, result[t])
    BY <1>9 DEF FinishReservation
  <2> QED BY <1>9, <2>1, <1>2, Fails DEF FinishReservation
<1>10. CASE EmitRunning(t)
  <2>1. NoReq \in Request
    BY RunFacts DEF NoReq, Request, NoRun
  <2> QED BY <1>10, <2>1, Publishes DEF EmitRunning, Return
<1> QED BY <1>3, <1>4, <1>5, <1>7, <1>8, <1>9, <1>10 DEF Launch

\* A coordinator.
LEMMA CoordinatorsKeep == ASSUME RunInv, NEW c \in RunId, Coordinator(c) PROVE RunInv'
<1> USE DEF RunData, admission, tables, identity, resVars, procVars, compVars
<1>1. c \in Threads /\ req[c] \in Request
  BY DEF Threads, RunInv, Shape
<1>2. nextRunSeq \in nextRunSeq..MaxRuns
  BY RunsKnown, ExecutorAssumption
<1>3. stepState \in [RunId -> StepState] /\ req = [req EXCEPT ![c] = req[c]]
  BY <1>1 DEF RunInv, Shape
<1>4. /\ {"c-finish", "c-record", "c-loop", "c-close"} \subseteq PC \ Launching
      /\ {"c-finish", "c-record", "c-loop", "c-close"} \cap (Stopping \cup {"reserve"}) = {}
  BY DEF PC, Launching, Stopping
<1>5. CASE CoordStep(c)
  <2>1. CASE Goto(c, "c-finish") /\ UNCHANGED <<stepState, req>>
    BY <1>5, <2>1, <1>1, <1>4, GoesOn DEF CoordStep
  <2>2. CASE /\ PendingSteps(c) # {}
             /\ LET s == CHOOSE x \in PendingSteps(c) : \A y \in PendingSteps(c) : x <= y
                IN /\ stepState' = [stepState EXCEPT ![s] = "running"]
                   /\ req' = [req EXCEPT ![c].run = s]
             /\ Goto(c, "reserve")
    <3> DEFINE s == CHOOSE x \in PendingSteps(c) : \A y \in PendingSteps(c) : x <= y
    <3>1. PendingSteps(c) \in SUBSET RunId
      BY DEF PendingSteps, PlanOf
    <3>2. s \in PendingSteps(c)
      BY <2>2, <3>1, OldestIn
    <3>3. stepState' = [stepState EXCEPT ![s] = "running"] /\ req' = [req EXCEPT ![c].run = s]
      BY <2>2
    <3>4. /\ pc[c] = "c-loop"
          /\ UNCHANGED <<nextRunSeq, workspaceEpoch, processes, reservations, compounds,
                         parentOf, epochOf, replaces, os, waiting, done>>
      BY <1>5 DEF CoordStep
    <3> HIDE DEF s
    <3> QED BY <2>2, <3>2, <3>3, <3>4, HoldsStep
  <2> QED BY <1>5, <2>1, <2>2 DEF CoordStep
<1>6. CASE CoordPublish(c)
  BY <1>6, <1>1, <1>3, Publishes DEF CoordPublish
<1>7. CASE CoordWait(c)
  BY <1>7, <1>1, <1>4, GoesOn DEF CoordWait
<1>8. CASE CoordRecord(c)
  <2> DEFINE q == [req[c] EXCEPT !.run = NoRun]
             out == StepOutcome(result[c])
  <2>1. q \in Request /\ q.run = NoRun
    BY <1>1 DEF Request
  <2>2. out \in {"success", "stopped", "failed"}
    BY DEF StepOutcome
  <2>3. stepState' = [stepState EXCEPT ![current[c]] = out]
    BY <1>8 DEF CoordRecord
  <2> HIDE DEF out
  <2>4. /\ stepState' \in [RunId -> StepState]
        /\ \A r \in RunId : stepState'[r] = "pending" => stepState[r] = "pending"
    BY <2>2, <2>3, <1>3 DEF StepState
  <2>5. req' = [req EXCEPT ![c] = q] /\ pc[c] # "idle"
    BY <1>8, <1>1 DEF CoordRecord, RunInv, Shape
  <2>6. \E l \in {"c-loop", "c-finish"} : pc' = [pc EXCEPT ![c] = l]
    BY <1>8 DEF CoordRecord, Goto
  <2>7. UNCHANGED <<nextRunSeq, reservations, compounds, workspaceEpoch, processes,
                    parentOf, epochOf, replaces, os, waiting, done>>
    BY <1>8 DEF CoordRecord
  <2> HIDE DEF q
  <2> QED BY <1>1, <1>2, <1>4, <2>1, <2>4, <2>5, <2>6, <2>7, Moves
<1>9. CASE CoordFinish(c)
  <2>1. /\ stepState' \in [RunId -> StepState]
        /\ \A r \in RunId : stepState'[r] = "pending" => stepState[r] = "pending"
    BY <1>9, <1>3 DEF CoordFinish, StepState
  <2>2. req' = [req EXCEPT ![c] = req[c]] /\ pc[c] # "idle" /\ pc' = [pc EXCEPT ![c] = "c-close"]
    BY <1>9, <1>3 DEF CoordFinish, Goto
  <2>3. /\ compounds' \subseteq compounds
        /\ UNCHANGED <<nextRunSeq, reservations, workspaceEpoch, processes,
                       parentOf, epochOf, replaces, os, waiting, done>>
    BY <1>9 DEF CoordFinish
  <2> QED BY <1>1, <1>2, <1>4, <2>1, <2>2, <2>3, Moves
<1>10. CASE CoordClose(c)
  BY <1>10, Closes DEF CoordClose
<1> QED BY <1>5, <1>6, <1>7, <1>8, <1>9, <1>10 DEF Coordinator

LEMMA RunStep == RunInv /\ Asked /\ [Next]_vars => RunInv'
<1> SUFFICES ASSUME RunInv, Asked, [Next]_vars PROVE RunInv'
  OBVIOUS
<1> USE DEF admission, tables, identity, resVars, procVars, compVars, threadVars
<1>1. workspaceEpoch \in Epoch
  BY DEF RunInv, Shape
<1>2. CASE UNCHANGED RunVars
  BY <1>1, <1>2, Frames DEF RunVars
<1>3. ASSUME NEW r \in RunId, Process(r) \/ Exit(r) PROVE RunInv'
  <2>1. CASE WaitProcess(r)
    BY <2>1, Leaves DEF WaitProcess
  <2>2. CASE FinishWait(r)
    BY <2>2, Finishes DEF FinishWait
  <2>3. CASE Escalate(r)
    BY <2>3, <1>2 DEF Escalate, RunVars
  <2>4. CASE Exit(r)
    BY <2>4, Exits DEF Exit
  <2> QED BY <1>3, <2>1, <2>2, <2>3, <2>4 DEF Process
<1>4. ASSUME NEW d \in Drainers, BeginDrain(d) PROVE RunInv'
  <2>1. workspaceEpoch' \in Epoch
    BY <1>1, <1>4, ExecutorAssumption DEF BeginDrain, Epoch
  <2> QED BY <1>4, <2>1, Frames DEF BeginDrain
<1>5. ASSUME NEW d \in Drainers, StopAll(d) \/ Drained(d) PROVE RunInv'
  <2>1. UNCHANGED RunVars
    BY <1>5 DEF RunVars, StopAll, StopAllCollect, StopAllSignal, StopAllHalfway, StopAllReturns,
         StopAllTimeout, Drained, ClearTerminalStatuses, Reload, EndDrain, LoadFails
  <2> QED BY <2>1, <1>2
<1>6. CASE UNCHANGED vars
  BY <1>2, <1>6 DEF vars, RunVars
<1> QED
  BY <1>3, <1>4, <1>5, <1>6, CallsKeep, CallersKeep, LaunchesKeep, CoordinatorsKeep DEF Next

(***************************************************************************)
(* A replacement is spawned only when the run it replaces has exited, for  *)
(* any number of calls, profiles, runs and drains.                         *)
(***************************************************************************)
THEOREM RestartExclusiveAlways == Spec => []RestartExclusive
<1>1. Init => RunInv /\ Asked
  BY RunsInit, AskedInit
<1>2. (RunInv /\ Asked) /\ [Next]_vars => (RunInv /\ Asked)'
  BY RunStep, AskedStep
<1>3. RunInv => RestartExclusive
  BY DEF RunInv, Replaced
<1> QED BY <1>1, <1>2, <1>3, PTL DEF Spec

-----------------------------------------------------------------------------
(***************************************************************************)
(* The executor implements the gate of RunAdmission: a step of the         *)
(* executor begins or ends a drain, admits one run in the epoch its caller *)
(* resolved, retires one, or changes nothing that the application sees.    *)
(***************************************************************************)
LEMMA LiveUnchanged ==
  ASSUME processes' \cup compounds' = processes \cup compounds,
         \A r \in processes \cup compounds : epochOf'[r] = epochOf[r]
  PROVE  LiveWithEpoch' = LiveWithEpoch
BY DEF LiveWithEpoch

LEMMA Stutters ==
  ASSUME UNCHANGED <<admission, processes, compounds, epochOf>>
  PROVE  UNCHANGED Admission!admissionVars
BY LiveUnchanged DEF Admission!admissionVars, admission

\* A run gets an epoch before it is live.
LEMMA ReservesUnseen ==
  ASSUME RunInv, NEW r \in RunId, r \notin processes \cup compounds, NEW e,
         epochOf' = [epochOf EXCEPT ![r] = e], UNCHANGED <<admission, processes, compounds>>
  PROVE  UNCHANGED Admission!admissionVars
<1>1. \A x \in processes \cup compounds : epochOf'[x] = epochOf[x]
  BY DEF RunInv, Shape
<1> QED BY <1>1, LiveUnchanged DEF Admission!admissionVars, admission

\* A run becomes live.
LEMMA Admits ==
  ASSUME RunInv, NEW r \in RunId, r \notin processes \cup compounds,
         processes' \cup compounds' = processes \cup compounds \cup {r},
         \A x \in processes \cup compounds : epochOf'[x] = epochOf[x],
         epochOf'[r] = workspaceEpoch, ~draining, UNCHANGED admission
  PROVE  Admission!AdmissionNext
<1>1. LiveWithEpoch' = LiveWithEpoch \cup {<<r, workspaceEpoch>>}
  BY DEF LiveWithEpoch
<1>2. r \notin Admission!LiveRuns
  BY DEF LiveWithEpoch, Admission!LiveRuns
<1>3. Admission!Admit(r, workspaceEpoch)
  BY <1>1, <1>2 DEF Admission!Admit, admission
<1>4. workspaceEpoch \in 0..MaxEpoch
  BY DEF RunInv, Shape, Epoch
<1> QED BY <1>3, <1>4 DEF Admission!AdmissionNext

\* A live run ends.
LEMMA Retires ==
  ASSUME RunInv, NEW r \in processes \cup compounds,
         processes' \cup compounds' = (processes \cup compounds) \ {r},
         UNCHANGED <<admission, epochOf>>
  PROVE  Admission!AdmissionNext
<1>1. <<r, epochOf[r]>> \in LiveWithEpoch
  BY DEF LiveWithEpoch
<1>2. LiveWithEpoch' = LiveWithEpoch \ {<<r, epochOf[r]>>}
  BY DEF LiveWithEpoch
<1>3. Admission!Retire(<<r, epochOf[r]>>)
  BY <1>2 DEF Admission!Retire, admission
<1> QED BY <1>1, <1>3 DEF Admission!AdmissionNext

LEMMA AdmissionStep ==
  RunInv /\ Asked /\ DrainFull /\ [Next]_vars =>
    [Admission!AdmissionNext]_(Admission!admissionVars)
<1> DEFINE Seen == Admission!AdmissionNext \/ UNCHANGED Admission!admissionVars
<1> SUFFICES ASSUME RunInv, Asked, DrainFull, [Next]_vars PROVE Seen
  OBVIOUS
<1> USE DEF tables, identity, resVars, procVars, compVars, threadVars
<1>1. CASE UNCHANGED <<admission, processes, compounds, epochOf>>
  BY <1>1, Stutters
<1>2. nextRunSeq + 1 \notin processes \cup compounds
  BY RunsKnown DEF RunInv, Shape
<1>3. ASSUME NEW t \in Callers, Call(t) PROVE UNCHANGED <<admission, processes, compounds, epochOf>>
  BY <1>3 DEF Call, CallStart, CallRestart, CallStartCompound, CallRestartCompound, CallStop,
       CallRestartInstance, CallStopInstance
<1>4. ASSUME NEW t \in Callers, CallerStep(t) PROVE Seen
  <2>1. CASE ReserveReplacement(t)
    <3>1. CASE UNCHANGED epochOf
      BY <1>1, <2>1, <3>1 DEF ReserveReplacement
    <3>2. CASE /\ nextRunSeq + 1 <= MaxRuns
               /\ epochOf' = [epochOf EXCEPT ![nextRunSeq + 1] = req[t].epoch]
      <4>1. nextRunSeq + 1 \in RunId
        BY <3>2, RunsKnown, ExecutorAssumption DEF RunId
      <4>2. UNCHANGED <<admission, processes, compounds>>
        BY <2>1 DEF ReserveReplacement
      <4> QED BY <4>1, <4>2, <3>2, <1>2, ReservesUnseen
    <3> QED BY <2>1, <3>1, <3>2 DEF ReserveReplacement, AddReservation
  <2>2. CASE StartCompound(t)
    <3> DEFINE c == nextRunSeq + 1
               n == Len(Steps[req[t].profile])
    <3>1. /\ AdmissionOpen(req[t].epoch) /\ c + n <= MaxRuns
          /\ compounds' = compounds \cup {c} /\ UNCHANGED <<admission, processes>>
          /\ epochOf' = [r \in RunId |-> IF r \in ((c + 1)..(c + n)) \cup {c}
                                         THEN req[t].epoch ELSE epochOf[r]]
      BY <2>2 DEF StartCompound
    <3>2. n \in Nat
      <4>1. req[t].profile \in Compounds
        BY <2>2 DEF StartCompound, Asked, AskedBy
      <4> QED BY <4>1, ExecutorAssumption
    <3>3. \A x \in processes \cup compounds : x \in RunId /\ x \in Nat /\ x <= nextRunSeq
      BY LiveRuns, RunFacts, RunsKnown DEF RunInv, Shape
    <3> HIDE DEF n
    <3>4. /\ c \in RunId
          /\ \A x \in processes \cup compounds : x \notin ((c + 1)..(c + n)) \cup {c}
      BY <3>1, <3>2, <3>3, RunsKnown, ExecutorAssumption DEF RunId
    <3>5. /\ \A x \in processes \cup compounds : epochOf'[x] = epochOf[x]
          /\ epochOf'[c] = workspaceEpoch /\ ~draining
      BY <3>1, <3>3, <3>4 DEF AdmissionOpen
    <3>6. processes' \cup compounds' = processes \cup compounds \cup {c}
      BY <3>1
    <3> HIDE DEF c
    <3> QED BY <3>1, <3>4, <3>5, <3>6, <1>2, Admits DEF c
  <2>3. CASE ~ReserveReplacement(t) /\ ~StartCompound(t)
    <3>1. UNCHANGED <<admission, processes, compounds, epochOf>>
      BY <1>4, <2>3 DEF CallerStep, RestartLookup, RestartUnprepared, StopInstance, StopSignal, StopWait,
           CompoundLookup, CompoundCancel, CompoundSignal, CompoundWait, CompoundRestartCheck,
           CompoundRestartStop, CompoundRejected
    <3> QED BY <3>1, <1>1
  <2> QED BY <2>1, <2>2, <2>3
<1>5. ASSUME NEW t \in Threads, Launch(t) PROVE Seen
  <2>1. CASE ReserveFresh(t)
    <3>1. CASE UNCHANGED epochOf
      BY <1>1, <2>1, <3>1 DEF ReserveFresh
    <3>2. CASE epochOf' = [epochOf EXCEPT ![nextRunSeq + 1] = req[t].epoch]
      <4>1. nextRunSeq + 1 \in RunId
        BY <2>1, RunsKnown, ExecutorAssumption DEF RunId, ReserveFresh
      <4>2. UNCHANGED <<admission, processes, compounds>>
        BY <2>1 DEF ReserveFresh
      <4> QED BY <4>1, <4>2, <3>2, <1>2, ReservesUnseen
    <3> QED BY <2>1, <3>1, <3>2 DEF ReserveFresh, AddReservation
  <2>2. CASE ReserveStep(t)
    <3>1. CASE UNCHANGED epochOf
      BY <1>1, <2>2, <3>1 DEF ReserveStep
    <3>2. CASE /\ ~Conflict(req[t].run, profileOf[req[t].run], t, NoRun)
               /\ epochOf' = [epochOf EXCEPT ![req[t].run] = req[t].epoch]
      <4>1. req[t].run # NoRun /\ parentOf[req[t].run] = t /\ t # NoRun
        BY <2>2, RunFacts DEF ReserveStep, RunInv, Owned
      <4>2. req[t].run \in RunId /\ req[t].run \notin processes \cup compounds
        BY <3>2, <4>1, RunsKnown DEF Conflict, RunInv, Disjoint
      <4>3. UNCHANGED <<admission, processes, compounds>>
        BY <2>2 DEF ReserveStep
      <4> QED BY <3>2, <4>2, <4>3, ReservesUnseen
    <3> QED BY <2>2, <3>1, <3>2 DEF ReserveStep, AddReservation
  <2>3. CASE Promote(t)
    <3>1. CASE ReservationInvalid(req[t].run)
      BY <1>1, <2>3, <3>1 DEF Promote
    <3>2. CASE ~ReservationInvalid(req[t].run)
      <4>1. /\ req[t].run \in reservations /\ AdmissionOpen(epochOf[req[t].run])
            /\ processes' = processes \cup {req[t].run}
            /\ UNCHANGED <<admission, compounds, epochOf>>
        BY <2>3, <3>2 DEF Promote, ReservationInvalid
      <4>2. req[t].run \in RunId /\ req[t].run \notin processes \cup compounds
        BY <4>1, LiveRuns DEF RunInv, Disjoint
      <4>3. /\ processes' \cup compounds' = processes \cup compounds \cup {req[t].run}
            /\ epochOf'[req[t].run] = workspaceEpoch /\ ~draining
        BY <4>1 DEF AdmissionOpen
      <4> QED BY <4>1, <4>2, <4>3, Admits
    <3> QED BY <3>1, <3>2
  <2>4. CASE ~ReserveFresh(t) /\ ~ReserveStep(t) /\ ~Promote(t)
    <3>1. UNCHANGED <<admission, processes, compounds, epochOf>>
      BY <1>5, <2>4 DEF Launch, LaunchRejected, Spawn, FinishReservation, EmitRunning
    <3> QED BY <3>1, <1>1
  <2> QED BY <2>1, <2>2, <2>3, <2>4
<1>6. ASSUME NEW c \in RunId, Coordinator(c) PROVE Seen
  <2>1. CASE CoordFinish(c)
    <3>1. /\ pc[c] # "idle" /\ compounds' = compounds \ {c}
          /\ UNCHANGED <<admission, processes, epochOf>>
      BY <2>1 DEF CoordFinish
    <3>2. c \notin processes
      BY <3>1 DEF RunInv, SpawnedOnce, Reaped
    <3>3. CASE c \in compounds
      <4>1. processes' \cup compounds' = (processes \cup compounds) \ {c}
        BY <3>1, <3>2
      <4> QED BY <4>1, <3>1, <3>3, Retires
    <3>4. CASE c \notin compounds
      BY <1>1, <3>1, <3>4
    <3> QED BY <3>3, <3>4
  <2>2. CASE ~CoordFinish(c)
    <3>1. UNCHANGED <<admission, processes, compounds, epochOf>>
      BY <1>6, <2>2 DEF Coordinator, CoordStep, CoordPublish, CoordWait, CoordRecord, CoordClose
    <3> QED BY <3>1, <1>1
  <2> QED BY <2>1, <2>2
<1>7. ASSUME NEW r \in RunId, Process(r) \/ Exit(r) PROVE Seen
  <2>1. CASE WaitProcess(r)
    <3>1. /\ r \in processes /\ processes' = processes \ {r}
          /\ UNCHANGED <<admission, compounds, epochOf>>
      BY <2>1 DEF WaitProcess
    <3>2. processes' \cup compounds' = (processes \cup compounds) \ {r}
      BY <3>1 DEF RunInv, Disjoint
    <3> QED BY <3>1, <3>2, Retires
  <2>2. CASE ~WaitProcess(r)
    <3>1. UNCHANGED <<admission, processes, compounds, epochOf>>
      BY <1>7, <2>2 DEF Process, FinishWait, Escalate, Exit
    <3> QED BY <3>1, <1>1
  <2> QED BY <2>1, <2>2
<1>8. ASSUME NEW d \in Drainers, BeginDrain(d) PROVE Seen
  <2>1. UNCHANGED <<processes, compounds, epochOf>>
    BY <1>8 DEF BeginDrain
  <2>2. Admission!Begin
    BY <1>8, <2>1, LiveUnchanged DEF BeginDrain, Admission!Begin
  <2> QED BY <2>2 DEF Admission!AdmissionNext
<1>9. ASSUME NEW d \in Drainers, StopAll(d) PROVE UNCHANGED <<admission, processes, compounds, epochOf>>
  BY <1>9 DEF StopAll, StopAllCollect, StopAllSignal, StopAllHalfway, StopAllReturns,
       StopAllTimeout
<1>10. ASSUME NEW d \in Drainers, Drained(d) PROVE Seen
  <2>1. CASE EndDrain(d)
    <3>1. UNCHANGED <<processes, compounds, epochOf>>
      BY <2>1 DEF EndDrain
    <3>2. Admission!End(dreq[d].epoch)
      BY <2>1, <3>1, LiveUnchanged DEF EndDrain, Admission!End
    <3>3. dreq[d].epoch \in 0..MaxEpoch
      <4>1. dreq[d].epoch \in 0..workspaceEpoch /\ workspaceEpoch \in 0..MaxEpoch
        BY DEF DrainFull, DrainInv, RunInv, Shape, Epoch
      <4> QED BY <4>1, ExecutorAssumption
    <3> QED BY <3>2, <3>3 DEF Admission!AdmissionNext
  <2>2. CASE ~EndDrain(d)
    <3>1. UNCHANGED <<admission, processes, compounds, epochOf>>
      BY <1>10, <2>2 DEF Drained, ClearTerminalStatuses, Reload, LoadFails
    <3> QED BY <3>1, <1>1
  <2> QED BY <2>1, <2>2
<1>11. CASE UNCHANGED vars
  BY <1>1, <1>11 DEF vars
<1> QED
  BY <1>1, <1>3, <1>4, <1>5, <1>6, <1>7, <1>8, <1>9, <1>10, <1>11 DEF Next

(***************************************************************************)
(* The executor refines RunAdmission, for any number of calls, profiles,   *)
(* runs, drains and epochs.                                                *)
(***************************************************************************)
THEOREM ImplementsAdmissionAlways == Spec => ImplementsAdmission
<1>1. Init => Admission!AdmissionInit
  BY DEF Init, Admission!AdmissionInit, LiveWithEpoch
<1>2. Init => RunInv /\ Asked /\ DrainFull
  BY RunsInit, AskedInit, DrainInit
<1>3. (RunInv /\ Asked /\ DrainFull) /\ [Next]_vars => (RunInv /\ Asked /\ DrainFull)'
  BY RunStep, AskedStep, DrainStep
<1> QED BY <1>1, <1>2, <1>3, AdmissionStep, PTL DEF Spec, ImplementsAdmission, Admission!AdmissionSpec

=============================================================================
