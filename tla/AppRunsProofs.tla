--------------------------- MODULE AppRunsProofs ----------------------------
(***************************************************************************)
(* Proofs about AppRuns: type correctness, and that runs and history       *)
(* records stay with the workspace they belong to.                         *)
(***************************************************************************)
EXTENDS AppRuns, TLAPS

IInv == TypeOK /\ HistoryInv

Flow == <<admissionVars, loadVars, launch, born, historyVars, pairVars>>

LEMMA LaunchFacts ==
  /\ NoLaunch.epoch = 0 /\ NoLaunch.root = NoRoot
  /\ \A l \in Launchable : l # NoLaunch /\ l.root \in Roots /\ l.root # NoRoot /\ l.epoch \in 0..LastEpoch
  /\ \A l \in Launchable \cup {NoLaunch} : l.epoch \in Nat
  /\ \A w \in Roots, e \in 0..LastEpoch : [root |-> w, epoch |-> e] \in Launchable
BY AppAssumption, AdmissionAssumption DEF NoLaunch, Launchable

LEMMA HistoryInit == Init => IInv
<1> SUFFICES ASSUME Init PROVE IInv
  OBVIOUS
<1>1. TypeOK
  <2>1. 0 \in 0..LastEpoch /\ 0 \in 0..MaxCloses /\ 0 \in 0..0
    BY AppAssumption, AdmissionAssumption
  <2> QED BY <2>1 DEF Init, AdmissionInit, TypeOK
<1>2. HistoryInv
  BY LaunchFacts DEF Init, AdmissionInit, HistoryInv, LaunchInv, LoadInv, PairInv,
       RecordInv, ShutdownFinal, LoadOwnsEpoch, WorkspaceIsolation, EpochNamesRoot,
       HistorySound, Launched
<1> QED BY <1>1, <1>2 DEF IInv

-----------------------------------------------------------------------------
(* Type correctness *)

LEMMA TypeStep == TypeOK /\ [Next]_vars => TypeOK'
<1> SUFFICES ASSUME TypeOK, [Next]_vars PROVE TypeOK'
  OBVIOUS
<1> USE AppAssumption, AdmissionAssumption DEF TypeOK, admissionVars, loadVars,
      historyVars, closeVars, pairVars
<1>1. CASE UNCHANGED vars
  BY <1>1 DEF vars
<1>2. ASSUME NEW c \in Callers, Resolve(c) \/ StartFails(c) PROVE TypeOK'
  <2>1. CASE Resolve(c)
    <3>1. [root |-> root, epoch |-> epoch] \in Launchable
      BY <2>1 DEF Resolve, Launchable
    <3> QED BY <2>1, <3>1 DEF Resolve
  <2>2. CASE StartFails(c)
    BY <2>2 DEF StartFails
  <2> QED BY <1>2, <2>1, <2>2
<1>3. ASSUME NEW c \in Callers, NEW r \in Run, Start(c, r) PROVE TypeOK'
  BY <1>3, LaunchFacts DEF Start, Admit
<1>4. ASSUME NEW r \in Run, RunEnds(r) PROVE TypeOK'
  BY <1>4 DEF RunEnds, Retire
<1>5. ASSUME NEW r \in Run, AppendResolve(r) \/ AppendStale(r) \/ AppendWrite(r)
      PROVE TypeOK'
  <2>1. CASE AppendResolve(r)
    BY <2>1 DEF AppendResolve
  <2>2. CASE AppendStale(r)
    <3>1. ShutdownRoot(r) \in Roots \cup {NoRoot}
      BY LaunchFacts DEF ShutdownRoot
    <3> QED BY <2>2, <3>1 DEF AppendStale
  <2>3. CASE AppendWrite(r)
    BY <2>3 DEF AppendWrite
  <2> QED BY <1>5, <2>1, <2>2, <2>3
<1>6. ASSUME NEW w \in Roots, LoadBegin(w) PROVE TypeOK'
  <2>1. CASE root # w
    BY <1>6, <2>1 DEF LoadBegin, Begin
  <2>2. CASE root = w
    BY <1>6, <2>2 DEF LoadBegin
  <2> QED BY <2>1, <2>2
<1>7. CASE LoadStopped \/ LoadFails
  BY <1>7 DEF LoadStopped, LoadFails
<1>8. CASE LoadPublish
  <2>1. active' \in Launchable \cup {NoLaunch}
    BY <1>8 DEF LoadPublish, Launchable
  <2> QED BY <1>8, <2>1 DEF LoadPublish, End
<1>9. CASE Close
  <2>0. EnterCloseDrain =>
          /\ closePhase' \in {"idle", "awaiting", "draining", "permitted"}
          /\ armed' \in {0, armed}
          /\ tpc' \in {"none", "begun", "fanout", "permitted", "quit"}
    BY DEF EnterCloseDrain
  <2>1. CASE FirstClose
    BY <2>1 DEF FirstClose
  <2>2. CASE SecondClose
    BY <2>2 DEF SecondClose
  <2>3. CASE ForceClose
    <3>1. again' \in BOOLEAN
      BY <2>3 DEF ForceClose
    <3>2. EnterCloseDrain /\ UNCHANGED <<admissionVars, loadVars, launch, born, historyVars,
            handshake, fired, asked, pairVars>>
      BY <2>3 DEF ForceClose
    <3> QED BY <2>0, <3>1, <3>2
  <2>4. CASE BackstopFires
    BY <2>4 DEF BackstopFires
  <2>5. ASSUME NEW h \in 1..MaxCloses, BackstopCloses(h) PROVE TypeOK'
    BY <2>0, <2>5 DEF BackstopCloses
  <2>6. CASE ConfirmBeforeCloseReady
    <3>1. asked' \in BOOLEAN
      BY <2>6 DEF ConfirmBeforeCloseReady
    <3>2. EnterCloseDrain /\ UNCHANGED <<admissionVars, loadVars, launch, born, historyVars,
            handshake, fired, again, pairVars>>
      BY <2>6 DEF ConfirmBeforeCloseReady
    <3> QED BY <2>0, <3>1, <3>2
  <2>7. CASE CancelBeforeClose
    <3>1. closePhase' \in {"idle", closePhase} /\ armed' \in {0, armed}
      BY <2>7 DEF CancelBeforeClose
    <3>2. asked' \in BOOLEAN
      BY <2>7 DEF CancelBeforeClose
    <3>3. UNCHANGED <<admissionVars, loadVars, launch, born, historyVars, handshake,
            fired, again, tpc, pairVars>>
      BY <2>7 DEF CancelBeforeClose
    <3> QED BY <3>1, <3>2, <3>3
  <2> QED BY <1>9, <2>1, <2>2, <2>3, <2>4, <2>5, <2>6, <2>7 DEF Close
<1>10. CASE Teardown
  <2>1. CASE BeginRunShutdown
    BY <2>1 DEF BeginRunShutdown, Begin
  <2>2. CASE PermitAndQuit \/ Quit
    BY <2>2 DEF PermitAndQuit, Quit
  <2> QED BY <1>10, <2>1, <2>2 DEF Teardown
<1> QED BY <1>1, <1>2, <1>3, <1>4, <1>5, <1>6, <1>7, <1>8, <1>9, <1>10
           DEF Next, Runs, History, Load

(***************************************************************************)
(* Type correctness, for any number of workspaces, calls and runs.         *)
(***************************************************************************)
THEOREM TypeCorrect == Spec => []TypeOK
<1>1. Init => TypeOK
  BY HistoryInit DEF IInv
<1> QED BY <1>1, TypeStep, PTL DEF Spec

-----------------------------------------------------------------------------
(* The history invariant, one lemma per kind of step *)

LEMMA ResolveStep ==
  ASSUME IInv, NEW c \in Callers, Resolve(c) \/ StartFails(c) PROVE HistoryInv'
<1> USE DEF IInv, HistoryInv, admissionVars, loadVars, historyVars, closeVars, pairVars
<1>1. \A d \in Callers : launch'[d] # NoLaunch =>
        launch'[d] = launch[d] \/ (lpc = "idle" /\ root # NoRoot
                                   /\ launch'[d] = [root |-> root, epoch |-> epoch])
  BY DEF Resolve, StartFails, TypeOK
<1>2. LaunchInv'
  BY <1>1 DEF LaunchInv, Launched, Resolve, StartFails, TypeOK
<1>3. LoadInv'
  BY <1>1 DEF LoadInv, Launched, Resolve, StartFails, TypeOK
<1>4. PairInv' /\ RecordInv' /\ ShutdownFinal' /\ LoadOwnsEpoch' /\ WorkspaceIsolation'
      /\ EpochNamesRoot' /\ HistorySound'
  BY DEF PairInv, RecordInv, ShutdownFinal, LoadOwnsEpoch, WorkspaceIsolation,
      EpochNamesRoot, HistorySound, Launched, Resolve, StartFails
<1> QED BY <1>2, <1>3, <1>4

LEMMA StartStep ==
  ASSUME IInv, NEW c \in Callers, NEW r \in Run, Start(c, r) PROVE HistoryInv'
<1> USE DEF IInv, HistoryInv, admissionVars, loadVars, historyVars, closeVars, pairVars
<1>1. /\ launch[c] # NoLaunch /\ launch[c].epoch = epoch /\ ~draining /\ ~Launched(r)
      /\ live' = live \cup {<<r, epoch>>}
      /\ born'[r] = launch[c] /\ \A q \in Run : q # r => born'[q] = born[q]
      /\ \A d \in Callers : launch'[d] = launch[d] \/ launch'[d] = NoLaunch
      /\ UNCHANGED <<epoch, draining, loadVars, historyVars, pairVars>>
  BY DEF Start, Admit, Launched, TypeOK
<1>2. ~runShutdown /\ launch[c].root = root /\ 0 < epoch
  BY <1>1 DEF ShutdownFinal, LaunchInv
<1>3. lpc # "idle" => root = target
  BY <1>1 DEF LoadInv
<1>4. Launched(r)' /\ \A q \in Run : q # r => Launched(q)' = Launched(q)
  BY <1>1 DEF Launched
<1>5. LaunchInv'
  BY <1>1, <1>2, <1>4 DEF LaunchInv
<1>6. LoadInv'
  BY <1>1, <1>2, <1>3, <1>4 DEF LoadInv, TypeOK
<1>7. PairInv'
  BY <1>1, <1>2, <1>4 DEF PairInv
<1>8. RecordInv'
  BY <1>1, <1>4 DEF RecordInv, TypeOK
<1>9. WorkspaceIsolation' /\ HistorySound'
  <2>1. \A q \in Run : Launched(q) => born'[q] = born[q]
    BY <1>1
  <2>2. \A x \in live' : x = <<r, epoch>> \/ (x \in live /\ x[1] \in Run /\ Launched(x[1]))
    BY <1>1 DEF RecordInv, TypeOK
  <2>3. \A x \in archived : x[2] \in Run /\ Launched(x[2])
    BY DEF RecordInv, TypeOK
  <2>4. WorkspaceIsolation'
    BY <1>1, <1>2, <2>1, <2>2 DEF WorkspaceIsolation
  <2>5. HistorySound'
    BY <1>1, <2>1, <2>3 DEF HistorySound
  <2> QED BY <2>4, <2>5
<1>10. EpochNamesRoot'
  <2>1. \A q \in Run : q # r /\ born[q].epoch = epoch => born[q].root = root
    BY <1>2, LaunchFacts DEF LaunchInv, Launched
  <2> QED BY <1>1, <1>2, <2>1 DEF EpochNamesRoot
<1>11. ShutdownFinal' /\ LoadOwnsEpoch'
  BY <1>1 DEF ShutdownFinal, LoadOwnsEpoch
<1> QED BY <1>5, <1>6, <1>7, <1>8, <1>9, <1>10, <1>11

\* A run ends, or a step of its record's append.
LEMMA RecordStep ==
  ASSUME IInv, NEW r \in Run,
         RunEnds(r) \/ AppendResolve(r) \/ AppendStale(r) \/ AppendWrite(r)
  PROVE  HistoryInv'
<1> USE DEF IInv, HistoryInv, admissionVars, loadVars, historyVars, closeVars, pairVars
<1>1. /\ UNCHANGED <<epoch, draining, loadVars, launch, born, pairVars>>
      /\ live' \subseteq live
  BY DEF RunEnds, Retire, AppendResolve, AppendStale, AppendWrite
<1>2. LaunchInv' /\ LoadInv' /\ PairInv' /\ ShutdownFinal' /\ LoadOwnsEpoch'
      /\ WorkspaceIsolation' /\ EpochNamesRoot'
  BY <1>1 DEF LaunchInv, LoadInv, PairInv, ShutdownFinal, LoadOwnsEpoch,
       WorkspaceIsolation, EpochNamesRoot, Launched
<1>3. Launched(r) /\ \A q \in Run : q # r => hpc'[q] = hpc[q] /\ hroot'[q] = hroot[q]
  BY DEF RunEnds, AppendResolve, AppendStale, AppendWrite, RecordInv, TypeOK
<1>4. hpc'[r] = "write" => hroot'[r] = born[r].root
  <2>1. CASE AppendResolve(r)
    BY <2>1, <1>3 DEF AppendResolve, LaunchInv, TypeOK
  <2>2. CASE AppendStale(r)
    BY <2>2, <1>3 DEF AppendStale, ShutdownRoot, PairInv, TypeOK
  <2>3. CASE RunEnds(r) \/ AppendWrite(r)
    BY <2>3 DEF RunEnds, AppendWrite, TypeOK
  <2> QED BY <2>1, <2>2, <2>3
<1>5. RecordInv'
  <2>1. \A x \in archived' : x \in archived \/ x[2] = r
    BY DEF RunEnds, AppendResolve, AppendStale, AppendWrite
  <2>2. \A q \in Run : Launched(q)' = Launched(q)
    BY <1>1 DEF Launched
  <2> QED BY <1>1, <1>3, <1>4, <2>1, <2>2 DEF RecordInv, Launched
<1>6. HistorySound'
  BY <1>1, <1>3 DEF HistorySound, RecordInv, RunEnds, AppendResolve, AppendStale,
       AppendWrite
<1> QED BY <1>2, <1>5, <1>6

LEMMA LoadBeginStep ==
  ASSUME IInv, NEW w \in Roots, LoadBegin(w) PROVE HistoryInv'
<1> USE DEF IInv, HistoryInv, admissionVars, loadVars, historyVars, closeVars, pairVars
<1>1. /\ lpc = "idle" /\ target' = w /\ epoch \in Nat
      /\ UNCHANGED <<live, root, launch, born, historyVars, pairVars>>
  BY AdmissionAssumption DEF LoadBegin, Begin, TypeOK
<1>2. \/ /\ root # w /\ lpc' = "stopping" /\ epoch' = epoch + 1 /\ lepoch' = epoch + 1
         /\ draining'
      \/ /\ root = w /\ lpc' = "loading" /\ epoch' = epoch /\ lepoch' = epoch
         /\ draining' = draining
  BY DEF LoadBegin, Begin
<1>3. \A l \in Launchable \cup {NoLaunch} : l.epoch \in Nat
  BY LaunchFacts
<1>4. root = w => root # NoRoot
  BY AppAssumption
<1>5. LaunchInv'
  BY <1>1, <1>2, <1>3 DEF LaunchInv, Launched, TypeOK
<1>6. LoadInv'
  BY <1>1, <1>2, <1>3, <1>4 DEF LoadInv, LaunchInv, Launched, TypeOK
<1>7. PairInv' /\ RecordInv' /\ WorkspaceIsolation' /\ EpochNamesRoot' /\ HistorySound'
  BY <1>1 DEF PairInv, RecordInv, WorkspaceIsolation, EpochNamesRoot, HistorySound, Launched
<1>8. ShutdownFinal' /\ LoadOwnsEpoch'
  BY <1>1, <1>2 DEF ShutdownFinal, LoadOwnsEpoch
<1> QED BY <1>5, <1>6, <1>7, <1>8

LEMMA LoadProgressStep ==
  ASSUME IInv, LoadStopped \/ LoadFails PROVE HistoryInv'
<1> USE DEF IInv, HistoryInv, admissionVars, loadVars, historyVars, closeVars, pairVars
<1>1. /\ UNCHANGED <<admissionVars, root, target, lepoch, launch, born, historyVars, pairVars>>
      /\ lpc # "idle"
      /\ lpc' = "idle" \/ (lpc' = "loading" /\ live = {})
  BY DEF LoadStopped, LoadFails
<1>2. LoadInv' /\ LoadOwnsEpoch'
  BY <1>1 DEF LoadInv, LoadOwnsEpoch, Launched
<1>3. LaunchInv' /\ PairInv' /\ RecordInv' /\ ShutdownFinal' /\ WorkspaceIsolation'
      /\ EpochNamesRoot' /\ HistorySound'
  BY <1>1 DEF LaunchInv, PairInv, RecordInv, ShutdownFinal, WorkspaceIsolation,
       EpochNamesRoot, HistorySound, Launched
<1> QED BY <1>2, <1>3

LEMMA PublishStep ==
  ASSUME IInv, LoadPublish PROVE HistoryInv'
<1> USE DEF IInv, HistoryInv, admissionVars, loadVars, historyVars, closeVars, pairVars
<1>1. /\ lpc = "loading" /\ lpc' = "idle" /\ root' = target /\ target \in Roots
      /\ active' = [root |-> target, epoch |-> lepoch]
      /\ UNCHANGED <<epoch, live, launch, born, historyVars, runShutdown, atShutdown>>
      /\ runShutdown => draining' = draining
  BY DEF LoadPublish, End, TypeOK
<1>2. root # target =>
        /\ live = {}
        /\ \A r \in Run : Launched(r) => born[r].epoch < epoch
        /\ \A c \in Callers : launch[c] # NoLaunch => launch[c].epoch < epoch
  BY <1>1 DEF LoadInv
<1>3. 0 < epoch /\ \A r \in Run : Launched(r) /\ born[r].epoch = lepoch => born[r].root = target
  BY <1>1 DEF LoadInv, TypeOK
<1>4. \A l \in Launchable \cup {NoLaunch} : l.epoch \in Nat
  BY LaunchFacts
<1>5. LaunchInv'
  BY <1>1, <1>2, <1>3, <1>4 DEF LaunchInv, Launched, TypeOK
<1>6. LoadInv' /\ LoadOwnsEpoch' /\ ShutdownFinal'
  BY <1>1 DEF LoadInv, LoadOwnsEpoch, ShutdownFinal
<1>7. PairInv'
  BY <1>1, <1>3 DEF PairInv, Launched
<1>8. WorkspaceIsolation'
  BY <1>1, <1>2 DEF WorkspaceIsolation
<1>9. RecordInv' /\ EpochNamesRoot' /\ HistorySound'
  BY <1>1 DEF RecordInv, EpochNamesRoot, HistorySound, Launched
<1> QED BY <1>5, <1>6, <1>7, <1>8, <1>9

LEMMA ShutdownStep ==
  ASSUME IInv, BeginRunShutdown PROVE HistoryInv'
<1> USE DEF IInv, HistoryInv, admissionVars, loadVars, historyVars, closeVars, pairVars
<1>1. /\ runShutdown' /\ draining' /\ atShutdown' = active
      /\ epoch' = epoch + 1 /\ epoch \in Nat
      /\ UNCHANGED <<live, loadVars, launch, born, historyVars, active>>
  BY AdmissionAssumption DEF BeginRunShutdown, Begin, TypeOK
<1>2. \A l \in Launchable \cup {NoLaunch} : l.epoch \in Nat
  BY LaunchFacts
<1>3. LaunchInv'
  BY <1>1, <1>2 DEF LaunchInv, Launched, TypeOK
<1>4. LoadInv'
  BY <1>1, <1>2 DEF LoadInv, Launched, TypeOK
<1>5. PairInv' /\ RecordInv' /\ ShutdownFinal' /\ LoadOwnsEpoch' /\ WorkspaceIsolation'
      /\ EpochNamesRoot' /\ HistorySound'
  BY <1>1 DEF PairInv, RecordInv, ShutdownFinal, LoadOwnsEpoch, WorkspaceIsolation,
       EpochNamesRoot, HistorySound, Launched
<1> QED BY <1>3, <1>4, <1>5

\* The close machine changes nothing that the invariant speaks of.
LEMMA CloseStep ==
  Close \/ PermitAndQuit \/ Quit \/ UNCHANGED vars => UNCHANGED Flow
BY DEF Close, FirstClose, SecondClose, ForceClose, BackstopFires, BackstopCloses,
     ConfirmBeforeCloseReady, CancelBeforeClose, PermitAndQuit, Quit, vars, Flow

LEMMA HistoryStep == IInv /\ [Next]_vars => IInv'
<1> SUFFICES ASSUME IInv, [Next]_vars PROVE IInv'
  OBVIOUS
<1>1. TypeOK'
  BY TypeStep DEF IInv
<1>2. CASE UNCHANGED Flow
  <2>1. LaunchInv' /\ LoadInv' /\ PairInv' /\ RecordInv'
    BY <1>2 DEF IInv, HistoryInv, LaunchInv, LoadInv, PairInv, RecordInv, Launched, Flow,
         admissionVars, loadVars, historyVars, pairVars
  <2>2. ShutdownFinal' /\ LoadOwnsEpoch' /\ WorkspaceIsolation' /\ EpochNamesRoot'
        /\ HistorySound'
    BY <1>2 DEF IInv, HistoryInv, ShutdownFinal, LoadOwnsEpoch, WorkspaceIsolation,
         EpochNamesRoot, HistorySound, Flow, admissionVars, loadVars, historyVars, pairVars
  <2> QED BY <1>1, <2>1, <2>2 DEF IInv, HistoryInv
<1>3. HistoryInv' => IInv'
  BY <1>1 DEF IInv
<1> QED
  BY <1>2, <1>3, CloseStep, ResolveStep, StartStep, RecordStep, LoadBeginStep,
     LoadProgressStep, PublishStep, ShutdownStep DEF Next, Runs, History, Load, Teardown

(***************************************************************************)
(* History records, live runs and epochs stay with their workspace.        *)
(***************************************************************************)
THEOREM HistorySoundAlways == Spec => []HistorySound
<1>1. IInv => HistorySound
  BY DEF IInv, HistoryInv
<1> QED BY <1>1, HistoryInit, HistoryStep, PTL DEF Spec

(***************************************************************************)
(* Every live run is one of the active workspace.                          *)
(***************************************************************************)
THEOREM WorkspaceIsolationAlways == Spec => []WorkspaceIsolation
<1>1. IInv => WorkspaceIsolation
  BY DEF IInv, HistoryInv
<1> QED BY <1>1, HistoryInit, HistoryStep, PTL DEF Spec

(***************************************************************************)
(* After a shutdown has begun, no load reopens admission.                  *)
(***************************************************************************)
THEOREM ShutdownFinalAlways == Spec => []ShutdownFinal
<1>1. IInv => ShutdownFinal
  BY DEF IInv, HistoryInv
<1> QED BY <1>1, HistoryInit, HistoryStep, PTL DEF Spec

-----------------------------------------------------------------------------
(* The close machine *)

\* What is permitted was drained first; nothing is torn down before the drain.
CloseInv ==
  /\ CancelSafe
  /\ tpc \in {"permitted", "quit"} => closePhase = "permitted"
  /\ tpc \in {"begun", "fanout"} => closePhase = "draining"
  /\ closePhase = "draining" => tpc \in {"begun", "fanout"}

LEMMA CloseInit == Init => CloseInv
BY DEF Init, CloseInv, CancelSafe

\* enterCloseDrain acts on a handshake that waits, and on nothing else.
LEMMA DrainEntry ==
  ASSUME CloseInv, EnterCloseDrain, UNCHANGED runShutdown PROVE CloseInv'
<1>1. CASE closePhase = "awaiting"
  BY <1>1 DEF EnterCloseDrain, CloseInv, CancelSafe
<1>2. CASE closePhase # "awaiting"
  BY <1>2 DEF EnterCloseDrain, CloseInv, CancelSafe
<1> QED BY <1>1, <1>2

LEMMA CloseInvStep == TypeOK /\ CloseInv /\ [Next]_vars => CloseInv'
<1> SUFFICES ASSUME TypeOK, CloseInv, [Next]_vars PROVE CloseInv'
  OBVIOUS
<1> USE DEF pairVars
<1>1. CASE UNCHANGED <<closePhase, tpc, runShutdown>>
  BY <1>1 DEF CloseInv, CancelSafe
<1>2. CASE Runs \/ History \/ Load \/ UNCHANGED vars
  <2>1. UNCHANGED <<closePhase, tpc, runShutdown>>
    BY <1>2 DEF Runs, History, Load, Resolve, StartFails, Start, RunEnds, AppendResolve,
         AppendStale, AppendWrite, LoadBegin, LoadStopped, LoadFails, LoadPublish, closeVars, vars
  <2> QED BY <1>1, <2>1
<1>3. CASE Close
  <2>1. CASE FirstClose
    BY <2>1 DEF FirstClose, CloseInv, CancelSafe
  <2>2. CASE SecondClose \/ BackstopFires
    BY <1>1, <2>2 DEF SecondClose, BackstopFires
  <2>3. CASE ForceClose \/ ConfirmBeforeCloseReady \/ \E h \in 1..MaxCloses : BackstopCloses(h)
    BY <2>3, DrainEntry DEF ForceClose, ConfirmBeforeCloseReady, BackstopCloses
  <2>4. CASE CancelBeforeClose
    <3>1. CASE closePhase = "awaiting"
      BY <2>4, <3>1 DEF CancelBeforeClose, CloseInv, CancelSafe
    <3>2. CASE closePhase # "awaiting"
      BY <1>1, <2>4, <3>2 DEF CancelBeforeClose
    <3> QED BY <3>1, <3>2
  <2> QED BY <1>3, <2>1, <2>2, <2>3, <2>4 DEF Close
<1>4. CASE Teardown
  <2>1. CASE BeginRunShutdown
    BY <2>1 DEF BeginRunShutdown, CloseInv, CancelSafe
  <2>2. CASE PermitAndQuit
    BY <2>2 DEF PermitAndQuit, CloseInv, CancelSafe
  <2>3. CASE Quit
    BY <2>3 DEF Quit, CloseInv, CancelSafe
  <2> QED BY <1>4, <2>1, <2>2, <2>3 DEF Teardown
<1> QED BY <1>2, <1>3, <1>4 DEF Next

(***************************************************************************)
(* What a load, a close and a record may assume: a load's EndDrain is      *)
(* never refused, an epoch names one workspace, and a close that can still *)
(* be cancelled has torn nothing down.                                     *)
(***************************************************************************)
THEOREM LoadsSoundAlways == Spec => []LoadsSound
<1>1. Init => IInv /\ CloseInv
  BY HistoryInit, CloseInit
<1>2. IInv /\ CloseInv /\ [Next]_vars => (IInv /\ CloseInv)'
  BY HistoryStep, CloseInvStep DEF IInv
<1>3. IInv /\ CloseInv => LoadsSound
  BY DEF IInv, HistoryInv, CloseInv, LoadsSound
<1> QED BY <1>1, <1>2, <1>3, PTL DEF Spec

(***************************************************************************)
(* The teardown starts once, whichever of the confirmation, the second     *)
(* request and the backstop comes first, and only what it permits ends the *)
(* application.                                                            *)
(***************************************************************************)
THEOREM TeardownOnceAlways == Spec => TeardownOnce
<1> DEFINE Once ==
      /\ tpc' = "begun" => tpc \in {"none", "begun"}
      /\ tpc' = "quit" => closePhase = "permitted"
<1>1. Init => TypeOK /\ CloseInv
  BY HistoryInit, CloseInit DEF IInv
<1>2. TypeOK /\ CloseInv /\ [Next]_vars => (TypeOK /\ CloseInv)'
  BY TypeStep, CloseInvStep
<1>3. TypeOK /\ CloseInv /\ [Next]_vars => [Once]_vars
  <2> SUFFICES ASSUME TypeOK, CloseInv, [Next]_vars PROVE [Once]_vars
    OBVIOUS
  <2>1. CASE UNCHANGED tpc
    BY <2>1 DEF CloseInv
  <2>2. CASE Runs \/ History \/ Load
    <3>1. UNCHANGED tpc
      BY <2>2 DEF Runs, History, Load, Resolve, StartFails, Start, RunEnds, AppendResolve,
           AppendStale, AppendWrite, LoadBegin, LoadStopped, LoadFails, LoadPublish, closeVars
    <3> QED BY <2>1, <3>1
  <2>3. CASE EnterCloseDrain
    BY <2>1, <2>3 DEF EnterCloseDrain, CloseInv, CancelSafe
  <2>4. CASE Close
    BY <2>1, <2>3, <2>4 DEF Close, FirstClose, SecondClose, ForceClose, BackstopFires,
         BackstopCloses, ConfirmBeforeCloseReady, CancelBeforeClose
  <2>5. CASE Teardown
    BY <2>5 DEF Teardown, BeginRunShutdown, PermitAndQuit, Quit
  <2> QED BY <2>2, <2>4, <2>5 DEF Next
<1> QED BY <1>1, <1>2, <1>3, PTL DEF Spec, TeardownOnce

(***************************************************************************)
(* While the application shuts down, no record of the epoch it superseded  *)
(* is refused: the pair it kept names that record's workspace.             *)
(***************************************************************************)
THEOREM RecordsKeptAlways == Spec => RecordsKept
<1> DEFINE Kept ==
      \A r \in Run :
        hpc'[r] = "refused" /\ hpc[r] # "refused" /\ runShutdown =>
          born[r].epoch # atShutdown.epoch
<1>1. IInv /\ [Next]_vars => [Kept]_vars
  <2> SUFFICES ASSUME IInv, [Next]_vars,
                      NEW r \in Run, hpc'[r] = "refused", hpc[r] # "refused", runShutdown
               PROVE  born[r].epoch # atShutdown.epoch
    OBVIOUS
  <2>1. AppendStale(r) /\ ShutdownRoot(r) = NoRoot
    <3>1. UNCHANGED hpc => FALSE
      OBVIOUS
    <3>2. ~ (Close \/ Teardown \/ Load \/ UNCHANGED vars)
      BY <3>1 DEF Close, Teardown, Load, FirstClose, SecondClose, ForceClose, BackstopFires,
           BackstopCloses, ConfirmBeforeCloseReady, CancelBeforeClose, BeginRunShutdown,
           PermitAndQuit, Quit, LoadBegin, LoadStopped, LoadFails, LoadPublish,
           historyVars, vars
    <3>3. ~ Runs
      <4>1. ~ \E c \in Callers : Resolve(c) \/ StartFails(c) \/ \E q \in Run : Start(c, q)
        BY <3>1 DEF Resolve, StartFails, Start, historyVars
      <4>2. ~ \E q \in Run : RunEnds(q)
        BY DEF RunEnds, IInv, TypeOK
      <4> QED BY <4>1, <4>2 DEF Runs
    <3>4. PICK q \in Run : AppendResolve(q) \/ AppendStale(q) \/ AppendWrite(q)
      BY <3>2, <3>3 DEF Next, History
    <3> QED BY <3>4 DEF AppendResolve, AppendStale, AppendWrite, IInv, TypeOK
  <2>2. Launched(r) /\ born[r].epoch > 0
    BY <2>1 DEF AppendStale, IInv, HistoryInv, RecordInv, LaunchInv
  <2>3. CASE atShutdown = NoLaunch
    BY <2>2, <2>3, LaunchFacts
  <2>4. CASE atShutdown # NoLaunch
    <3>1. atShutdown.root # NoRoot
      BY <2>4, LaunchFacts DEF IInv, TypeOK
    <3> QED BY <2>1, <2>4, <3>1 DEF ShutdownRoot
  <2> QED BY <2>3, <2>4
<1> QED BY <1>1, HistoryInit, HistoryStep, PTL DEF Spec, RecordsKept

=============================================================================
