------------------------------ MODULE AppRuns -------------------------------
(***************************************************************************)
(* How app.go uses the run executor: loading a workspace's run profiles,   *)
(* launching runs, appending their history records, and closing the        *)
(* application.  profileMu is held for the whole of a load (lpc # "idle")  *)
(* and around each reader's step; closeMu around the steps of the close.   *)
(* The frontend awaits one load before it asks for the next one.           *)
(***************************************************************************)
EXTENDS RunAdmission, FiniteSets

CONSTANTS
  Roots,       \* workspace paths
  NoRoot,      \* the empty path
  Callers,     \* bound launch calls that can be in flight at once
  MaxCloses    \* bound: close handshakes

ASSUME AppAssumption == NoRoot \notin Roots /\ MaxCloses \in Nat

Launchable == [root : Roots, epoch : 0..LastEpoch]
NoLaunch == [root |-> NoRoot, epoch |-> 0]

VARIABLES
  \* profileWorkspaceRoot, and the load in progress
  root, lpc, target, lepoch,
  \* launch calls between resolveRunProfile and admission
  launch,
  \* where and when a run was launched: its RunIdentity and working directory
  born,
  \* AppendRunHistoryRecord: its step and the workspace it will write to
  hpc, hroot, archived,
  \* the close machine: closePhase, the handshake whose backstop is armed,
  \* handshakes whose backstop callback runs, the platform's second request,
  \* the frontend's unanswered app:beforeclose
  closePhase, handshake, armed, fired, again, asked,
  \* the teardown goroutine, runShutdown and the two history pairs
  tpc, runShutdown, active, atShutdown

loadVars    == <<root, lpc, target, lepoch>>
historyVars == <<hpc, hroot, archived>>
closeVars   == <<closePhase, handshake, armed, fired, again, asked, tpc>>
pairVars    == <<runShutdown, active, atShutdown>>
vars == <<admissionVars, loadVars, launch, born, historyVars, closeVars, pairVars>>

Init ==
  /\ AdmissionInit
  /\ root = NoRoot /\ lpc = "idle" /\ target = NoRoot /\ lepoch = 0
  /\ launch = [c \in Callers |-> NoLaunch]
  /\ born = [r \in Run |-> NoLaunch]
  /\ hpc = [r \in Run |-> "none"]
  /\ hroot = [r \in Run |-> NoRoot]
  /\ archived = {}
  /\ closePhase = "idle" /\ handshake = 0 /\ armed = 0 /\ fired = {}
  /\ again = FALSE /\ asked = FALSE
  /\ tpc = "none"
  /\ runShutdown = FALSE /\ active = NoLaunch /\ atShutdown = NoLaunch

-----------------------------------------------------------------------------
(* Launching *)

\* resolveRunProfile: the profile, its workspace and the epoch, under profileMu.
Resolve(c) ==
  /\ launch[c] = NoLaunch
  /\ lpc = "idle" /\ root # NoRoot
  /\ launch' = [launch EXCEPT ![c] = [root |-> root, epoch |-> epoch]]
  /\ UNCHANGED <<admissionVars, loadVars, born, historyVars, closeVars, pairVars>>

\* The executor admits the launch.
Start(c, r) ==
  /\ launch[c] # NoLaunch
  /\ born[r] = NoLaunch
  /\ Admit(r, launch[c].epoch)
  /\ born' = [born EXCEPT ![r] = launch[c]]
  /\ launch' = [launch EXCEPT ![c] = NoLaunch]
  /\ UNCHANGED <<loadVars, historyVars, closeVars, pairVars>>

\* The executor refuses the launch, or it fails.
StartFails(c) ==
  /\ launch[c] # NoLaunch
  /\ launch' = [launch EXCEPT ![c] = NoLaunch]
  /\ UNCHANGED <<admissionVars, loadVars, born, historyVars, closeVars, pairVars>>

\* A run ends, and the frontend queues its history record.
RunEnds(r) ==
  /\ \E x \in live : x[1] = r /\ Retire(x)
  /\ hpc' = [hpc EXCEPT ![r] = "queued"]
  /\ UNCHANGED <<loadVars, launch, born, hroot, archived, closeVars, pairVars>>

-----------------------------------------------------------------------------
(* AppendRunHistoryRecord *)

\* Under profileMu: the active workspace and the current epoch.
AppendResolve(r) ==
  /\ hpc[r] = "queued"
  /\ lpc = "idle"
  /\ hroot' = [hroot EXCEPT ![r] = root]
  /\ hpc' = [hpc EXCEPT ![r] = IF born[r].epoch = epoch THEN "write" ELSE "stale"]
  /\ UNCHANGED <<admissionVars, loadVars, launch, born, archived, closeVars, pairVars>>

\* mutant: the workspace of the shutdown is not looked up
ShutdownRootCurrent(r) == root

\* mutant: the pair is the latest one, not the one the shutdown superseded
ShutdownRootLatest(r) ==
  IF runShutdown /\ active.epoch = born[r].epoch THEN active.root ELSE NoRoot

\* shutdownHistoryWorkspaceFor: the workspace a record of a stale epoch still
\* belongs to, because the shutdown superseded exactly that epoch.
ShutdownRoot(r) ==
  IF runShutdown /\ atShutdown # NoLaunch /\ atShutdown.epoch = born[r].epoch
  THEN atShutdown.root
  ELSE NoRoot

\* Under closeMu.
AppendStale(r) ==
  /\ hpc[r] = "stale"
  /\ hroot' = [hroot EXCEPT ![r] = ShutdownRoot(r)]
  /\ hpc' = [hpc EXCEPT ![r] = IF ShutdownRoot(r) = NoRoot THEN "refused" ELSE "write"]
  /\ UNCHANGED <<admissionVars, loadVars, launch, born, archived, closeVars, pairVars>>

\* runHistoryStore.Append, after every lock was released
AppendWrite(r) ==
  /\ hpc[r] = "write"
  /\ archived' = archived \cup {<<hroot[r], r>>}
  /\ hpc' = [hpc EXCEPT ![r] = "done"]
  /\ UNCHANGED <<admissionVars, loadVars, launch, born, hroot, closeVars, pairVars>>

-----------------------------------------------------------------------------
(* loadRunProfilesLocked *)

\* mutant: the epoch is read before the drain begins
LoadBeginStale(w) ==
  /\ lpc = "idle"
  /\ target' = w
  /\ lepoch' = epoch
  /\ IF root # w
     THEN (runShutdown \/ epoch + 1 < LastEpoch) /\ Begin /\ lpc' = "stopping"
     ELSE UNCHANGED admissionVars /\ lpc' = "loading"
  /\ UNCHANGED <<root, launch, born, historyVars, closeVars, pairVars>>

LoadBegin(w) ==
  /\ lpc = "idle"
  /\ target' = w
  /\ IF root # w
     THEN /\ runShutdown \/ epoch + 1 < LastEpoch  \* bound: a shutdown needs one
          /\ Begin /\ lepoch' = epoch + 1 /\ lpc' = "stopping"
     ELSE UNCHANGED admissionVars /\ lepoch' = epoch /\ lpc' = "loading"
  /\ UNCHANGED <<root, launch, born, historyVars, closeVars, pairVars>>

\* mutant: the answer of StopAll is not looked at
LoadStopAny ==
  /\ lpc = "stopping"
  /\ lpc' = "loading"
  /\ UNCHANGED <<admissionVars, root, target, lepoch, launch, born, historyVars,
                 closeVars, pairVars>>

\* StopAllWithReason returned true: every run that it found has ended, and the
\* gate let no other in.
LoadStopped ==
  /\ lpc = "stopping"
  /\ live = {}
  /\ lpc' = "loading"
  /\ UNCHANGED <<admissionVars, root, target, lepoch, launch, born, historyVars,
                 closeVars, pairVars>>

\* StopAllWithReason timed out, or the profiles cannot be loaded: the gate
\* stays closed and the old workspace stays bound.
LoadFails ==
  /\ lpc \in {"stopping", "loading"}
  /\ lpc' = "idle"
  /\ UNCHANGED <<admissionVars, root, target, lepoch, launch, born, historyVars,
                 closeVars, pairVars>>

\* mutant: a load that finishes during a shutdown reopens the gate
LoadPublishReopens ==
  /\ lpc = "loading"
  /\ root' = target
  /\ active' = [root |-> target, epoch |-> lepoch]
  /\ End(epoch)
  /\ lpc' = "idle"
  /\ UNCHANGED <<target, lepoch, launch, born, historyVars, closeVars,
                 runShutdown, atShutdown>>

\* The critical section of closeMu that publishes the workspace.
LoadPublish ==
  /\ lpc = "loading"
  /\ root' = target
  /\ active' = [root |-> target, epoch |-> lepoch]
  /\ IF runShutdown THEN UNCHANGED admissionVars ELSE End(lepoch)
  /\ lpc' = "idle"
  /\ UNCHANGED <<target, lepoch, launch, born, historyVars, closeVars,
                 runShutdown, atShutdown>>

-----------------------------------------------------------------------------
(* The close machine *)

\* mutant: no backstop
FirstCloseNoBackstop ==
  /\ closePhase = "idle" /\ ~again
  /\ handshake < MaxCloses
  /\ closePhase' = "awaiting"
  /\ handshake' = handshake + 1
  /\ asked' = TRUE
  /\ UNCHANGED <<admissionVars, loadVars, launch, born, historyVars, armed, fired,
                 again, tpc, pairVars>>

\* shouldQuit, called by the platform, which waits for the answer.
FirstClose ==
  /\ closePhase = "idle" /\ ~again
  /\ handshake < MaxCloses
  /\ closePhase' = "awaiting"
  /\ handshake' = handshake + 1
  /\ armed' = handshake + 1
  /\ asked' = TRUE
  /\ UNCHANGED <<admissionVars, loadVars, launch, born, historyVars, fired, again,
                 tpc, pairVars>>

\* A second request: closeMu is released before enterCloseDrain takes it.
SecondClose ==
  /\ closePhase = "awaiting" /\ ~again
  /\ again' = TRUE
  /\ UNCHANGED <<admissionVars, loadVars, launch, born, historyVars, closePhase,
                 handshake, armed, fired, asked, tpc, pairVars>>

\* mutant: any request while the application is closing tears it down
EnterLoose ==
  IF closePhase # "idle"
  THEN closePhase' = "draining" /\ armed' = 0 /\ tpc' = "begun"
  ELSE UNCHANGED <<closePhase, armed, tpc>>

\* enterCloseDrain: awaiting_frontend to draining, once.
EnterCloseDrain ==
  IF closePhase = "awaiting"
  THEN closePhase' = "draining" /\ armed' = 0 /\ tpc' = "begun"
  ELSE UNCHANGED <<closePhase, armed, tpc>>

ForceClose ==
  /\ again
  /\ again' = FALSE
  /\ EnterCloseDrain
  /\ UNCHANGED <<admissionVars, loadVars, launch, born, historyVars, handshake,
                 fired, asked, pairVars>>

\* The backstop expires; its callback runs in a goroutine of its own.
BackstopFires ==
  /\ armed # 0
  /\ fired' = fired \cup {armed}
  /\ armed' = 0
  /\ UNCHANGED <<admissionVars, loadVars, launch, born, historyVars, closePhase,
                 handshake, again, asked, tpc, pairVars>>

BackstopCloses(h) ==
  /\ h \in fired
  /\ fired' = fired \ {h}
  /\ EnterCloseDrain
  /\ UNCHANGED <<admissionVars, loadVars, launch, born, historyVars, handshake,
                 again, asked, pairVars>>

ConfirmBeforeCloseReady ==
  /\ asked
  /\ asked' = FALSE
  /\ EnterCloseDrain
  /\ UNCHANGED <<admissionVars, loadVars, launch, born, historyVars, handshake,
                 fired, again, pairVars>>

\* mutant: a drain can be cancelled
CancelAlways ==
  /\ asked
  /\ asked' = FALSE
  /\ closePhase' = "idle" /\ armed' = 0
  /\ UNCHANGED <<admissionVars, loadVars, launch, born, historyVars, handshake,
                 fired, again, tpc, pairVars>>

\* CancelBeforeClose stops the timer, which does not stop a callback that runs.
CancelBeforeClose ==
  /\ asked
  /\ asked' = FALSE
  /\ IF closePhase = "awaiting"
     THEN closePhase' = "idle" /\ armed' = 0
     ELSE UNCHANGED <<closePhase, armed>>
  /\ UNCHANGED <<admissionVars, loadVars, launch, born, historyVars, handshake,
                 fired, again, tpc, pairVars>>

\* mutant: the pair is captured after the epoch has advanced
BeginRunShutdownLate ==
  /\ tpc = "begun"
  /\ runShutdown' = TRUE
  /\ atShutdown' = [active EXCEPT !.epoch = epoch + 1]
  /\ Begin
  /\ tpc' = "fanout"
  /\ UNCHANGED <<loadVars, launch, born, historyVars, closePhase, handshake, armed,
                 fired, again, asked, active>>

\* beginRunShutdown
BeginRunShutdown ==
  /\ tpc = "begun"
  /\ runShutdown' = TRUE
  /\ atShutdown' = active
  /\ Begin
  /\ tpc' = "fanout"
  /\ UNCHANGED <<loadVars, launch, born, historyVars, closePhase, handshake, armed,
                 fired, again, asked, active>>

\* mutant: the quit is asked for before it is permitted
PermitForgotten ==
  /\ tpc = "fanout"
  /\ tpc' = "permitted"
  /\ UNCHANGED <<admissionVars, loadVars, launch, born, historyVars, closePhase,
                 handshake, armed, fired, again, asked, pairVars>>

\* permitAndQuit: the fan-out is done, or its two seconds are over.
PermitAndQuit ==
  /\ tpc = "fanout"
  /\ closePhase' = "permitted"
  /\ tpc' = "permitted"
  /\ UNCHANGED <<admissionVars, loadVars, launch, born, historyVars, handshake,
                 armed, fired, again, asked, pairVars>>

\* The quit that the finished drain asks for, or one of the user's.  Goroutines
\* may run on for a moment before the process ends.
Quit ==
  /\ closePhase = "permitted" /\ tpc # "quit"
  /\ tpc' = "quit"
  /\ UNCHANGED <<admissionVars, loadVars, launch, born, historyVars, closePhase,
                 handshake, armed, fired, again, asked, pairVars>>

-----------------------------------------------------------------------------
(* Specification *)

Runs ==
  \/ \E c \in Callers : Resolve(c) \/ StartFails(c) \/ \E r \in Run : Start(c, r)
  \/ \E r \in Run : RunEnds(r)

History == \E r \in Run : AppendResolve(r) \/ AppendStale(r) \/ AppendWrite(r)

Load == (\E w \in Roots : LoadBegin(w)) \/ LoadStopped \/ LoadFails \/ LoadPublish

Close ==
  \/ FirstClose \/ SecondClose \/ ForceClose
  \/ BackstopFires \/ \E h \in 1..MaxCloses : BackstopCloses(h)
  \/ ConfirmBeforeCloseReady \/ CancelBeforeClose

Teardown == BeginRunShutdown \/ PermitAndQuit \/ Quit

Next == Runs \/ History \/ Load \/ Close \/ Teardown

Spec == Init /\ [][Next]_vars

\* The teardown goroutine and the timers run.  Neither the user nor the
\* frontend has to do anything.
Fairness ==
  /\ WF_vars(Teardown)
  /\ WF_vars(BackstopFires \/ ForceClose)
  /\ \A h \in 1..MaxCloses : WF_vars(BackstopCloses(h))

FairSpec == Spec /\ Fairness

-----------------------------------------------------------------------------
(* Properties *)

\* Type correctness.
TypeOK ==
  /\ epoch \in 0..LastEpoch /\ draining \in BOOLEAN
  /\ live \subseteq Run \X (0..LastEpoch)
  /\ root \in Roots \cup {NoRoot} /\ target \in Roots \cup {NoRoot}
  /\ lpc \in {"idle", "stopping", "loading"} /\ (lpc # "idle" => target \in Roots)
  /\ lepoch \in 0..LastEpoch
  /\ launch \in [Callers -> Launchable \cup {NoLaunch}]
  /\ born \in [Run -> Launchable \cup {NoLaunch}]
  /\ hpc \in [Run -> {"none", "queued", "write", "stale", "refused", "done"}]
  /\ hroot \in [Run -> Roots \cup {NoRoot}]
  /\ archived \subseteq (Roots \cup {NoRoot}) \X Run
  /\ closePhase \in {"idle", "awaiting", "draining", "permitted"}
  /\ handshake \in 0..MaxCloses /\ armed \in 0..handshake
  /\ fired \subseteq 1..handshake
  /\ again \in BOOLEAN /\ asked \in BOOLEAN
  /\ tpc \in {"none", "begun", "fanout", "permitted", "quit"}
  /\ runShutdown \in BOOLEAN
  /\ {active, atShutdown} \subseteq Launchable \cup {NoLaunch}

\* A history record is written only to the workspace its run was launched in,
\* whatever loads and shutdowns come between the run, its end and the write.
HistorySound == \A x \in archived : born[x[2]].root = x[1]

\* Every live run is one of the active workspace, even one that survived a switch
\* that failed, and even when the application is closing.
WorkspaceIsolation == \A x \in live : born[x[1]].root = root

\* An epoch belongs to one workspace: a record's epoch identifies where it was
\* launched.
EpochNamesRoot ==
  \A r, q \in Run :
    born[r].epoch = born[q].epoch => born[r].root = born[q].root

\* Once the shutdown has begun no load reopens admission.
ShutdownFinal == runShutdown => draining

\* A switch's EndDrain is never refused: only a shutdown advances the epoch
\* during a load, and then the drain is not ended.
LoadOwnsEpoch == lpc # "idle" /\ ~runShutdown => lepoch = epoch

\* A close that can still be cancelled has torn nothing down.
CancelSafe == closePhase \in {"idle", "awaiting"} => tpc = "none" /\ ~runShutdown

\* What a load, a close and a record may assume of the epochs and of the teardown.
LoadsSound == TypeOK /\ EpochNamesRoot /\ LoadOwnsEpoch /\ CancelSafe

\* The teardown starts once, whichever of the confirmation, the second request
\* and the backstop comes first, and only what it permits ends the application.
TeardownOnce ==
  [][/\ tpc' = "begun" => tpc \in {"none", "begun"}
     /\ tpc' = "quit" => closePhase = "permitted"]_vars

\* A record of the epoch that the shutdown superseded is not refused during the
\* shutdown.
RecordsKept ==
  [][\A r \in Run :
       hpc'[r] = "refused" /\ hpc[r] # "refused" /\ runShutdown =>
         born[r].epoch # atShutdown.epoch]_vars

\* A close request is answered even if the frontend never answers...
CloseAnswered == closePhase = "awaiting" ~> closePhase # "awaiting"

\* ... and a drain ends in a quit.
DrainQuits == closePhase = "draining" ~> tpc = "quit"

-----------------------------------------------------------------------------
(* The inductive invariant behind HistorySound, WorkspaceIsolation and         *)
(* EpochNamesRoot.                                                             *)

Launched(r) == born[r] # NoLaunch

\* Launch calls and runs carry an epoch of the past or the current one, and those
\* of the current one belong to the active workspace.
LaunchInv ==
  /\ root # NoRoot => epoch > 0
  /\ \A c \in Callers : launch[c] # NoLaunch =>
       /\ 0 < launch[c].epoch /\ launch[c].epoch <= epoch
       /\ launch[c].epoch = epoch /\ ~runShutdown => launch[c].root = root
  /\ \A r \in Run : Launched(r) =>
       /\ 0 < born[r].epoch /\ born[r].epoch <= epoch
       /\ born[r].epoch = epoch => born[r].root = root
       /\ runShutdown => born[r].epoch < epoch

\* A load that switches has closed the gate on an epoch nothing was launched in,
\* and is past StopAll only when nothing lives.
LoadInv ==
  /\ lpc = "stopping" => root # target
  /\ lpc = "loading" /\ root # target => live = {}
  /\ lpc # "idle" /\ root # target =>
       /\ draining
       /\ \A r \in Run : Launched(r) => born[r].epoch < epoch
       /\ \A c \in Callers : launch[c] # NoLaunch => launch[c].epoch < epoch
  /\ lpc # "idle" =>
       /\ 0 < lepoch /\ lepoch <= epoch
       /\ \A r \in Run : Launched(r) /\ born[r].epoch = lepoch => born[r].root = target

\* The two pairs name the workspace of every run of their epoch.
PairInv ==
  /\ active.root = root
  /\ atShutdown # NoLaunch => runShutdown
  /\ \A p \in {active, atShutdown} : \A r \in Run :
       p # NoLaunch /\ Launched(r) /\ born[r].epoch = p.epoch => born[r].root = p.root

RecordInv ==
  /\ \A x \in live : Launched(x[1])
  /\ \A r \in Run : hpc[r] # "none" => Launched(r)
  /\ \A x \in archived : Launched(x[2])
  /\ \A r \in Run : hpc[r] = "write" => hroot[r] = born[r].root

HistoryInv ==
  /\ LaunchInv /\ LoadInv /\ PairInv /\ RecordInv
  /\ ShutdownFinal /\ LoadOwnsEpoch
  /\ WorkspaceIsolation /\ EpochNamesRoot /\ HistorySound

=============================================================================
