---------------------------- MODULE StoreParts ----------------------------
(*****************************************************************************)
(* Stores of the frontend, a behaviour is of one component: what the IDE     *)
(* store keeps of the runs, the saves of a file, the configuration of Golem, *)
(* and the layout of the shell. The constants are the parameters of the      *)
(* components. StoreProofs proves the properties; FrontendParts adds the     *)
(* other stores.                                                             *)
(*****************************************************************************)
EXTENDS Integers, Sequences, FiniteSets

CONSTANTS
  RunIds, RunProfiles, RunCompounds, ProfileOf, SeqOf, EpochOf, RunSteps, RunCasts,
  MaxRetained, MaxDiscarded, NoRunId, AllRuns,                           \* of RunEvents
  Texts, FirstText, MaxEdits, MaxOpens, MaxFailures, MaxBarriers, SlowReads,  \* of FileSaves
  ConfigRows, ConfigKeys, ConfigProfiles, ConfigCasts,                   \* of GolemConfig
  Viewports, Pointers, LayoutCasts                                       \* of ShellLayout

VARIABLES
  part,  \* the component this behaviour is of
  store, pending, todo, launched, ended, load, epoch, calls, cast, clears, asked, archived,
  halted,
  buf,
  disk, queue, timer, saving, edit, opening, reloads, event, barrier, closing, last, slow,
  counts, faults,
  phase, draft, vault, preview, editors, outcome, gen, loads, inFlight, sourceLoading, call,
  prompt, token, unsure, left, ui, layout, active, hook, css, written, focus, owner, drag, latch,
  said

R == INSTANCE RunEvents WITH Runs <- RunIds, Profiles <- RunProfiles, Compounds <- RunCompounds,
                             Steps <- RunSteps, Casts <- RunCasts, All <- AllRuns,
                             NoRun <- NoRunId
F == INSTANCE FileSaves
P == INSTANCE GolemConfig WITH Rows <- ConfigRows, Keys <- ConfigKeys, Profiles <- ConfigProfiles,
                               Casts <- ConfigCasts
L == INSTANCE ShellLayout WITH Casts <- LayoutCasts

\* The variables of the other components, which a behaviour of this one leaves alone.
RRest == <<part, buf, disk, queue, timer, saving, edit, opening, reloads, event, barrier, closing,
           last,
           slow, counts, faults, phase, draft, vault, preview, editors, outcome, gen, loads,
           inFlight,
           sourceLoading, call, prompt, token, unsure, left, ui, layout, active, hook, css,
           written, focus, owner, drag, latch, said>>
FRest == <<part, store, pending, todo, launched, ended, load, epoch, calls, cast, clears, asked,
           archived, halted, phase, draft, vault, preview, editors, outcome, gen, loads, inFlight,
           sourceLoading, call, prompt, token, unsure, left, ui, layout, active, hook, css,
           written, focus, owner, drag, latch, said>>
PRest == <<part, store, todo, launched, ended, load, epoch, calls, cast, clears, asked, archived,
           halted, buf,
           queue, timer, saving, edit, opening, reloads, event, barrier, last, slow, counts,
           faults, ui,
           layout, active, hook, css, written, focus, owner, drag, latch, said>>
LRest == <<part, store, pending, todo, launched, ended, load, epoch, calls, cast, clears, asked,
           archived, halted, buf, disk, queue, timer, saving, edit, opening, reloads, event,
           barrier,
           closing, last, slow, counts, faults, phase, draft, vault, preview, editors, outcome,
           gen,
           loads, inFlight, sourceLoading, call, prompt, token, unsure>>

storeVars == <<part, store, pending, todo, launched, ended, load, epoch, calls, cast, clears,
               asked,
               archived, halted, buf, disk, queue, timer, saving, edit, opening, reloads, event,
               barrier,
               closing, last, slow, counts, faults, phase, draft, vault, preview, editors,
               outcome, gen,
               loads, inFlight, sourceLoading, call, prompt, token, unsure, left, ui, layout,
               active, hook, css, written, focus, owner, drag, latch, said>>

ASSUME RunsAssumed == R!RunAssumption
ASSUME SavesAssumed == F!SaveAssumption
ASSUME ConfigAssumed == P!ConfigAssumption
ASSUME LayoutAssumed == L!LayoutAssumption

StoreInit ==
  \/ /\ part = "runs" /\ R!Init
     /\ buf = 0 /\ disk = 0 /\ queue = 0 /\ timer = 0 /\ saving = 0 /\ edit = 0 /\ opening = 0
     /\ reloads = 0 /\ event = 0 /\ barrier = 0 /\ closing = 0 /\ last = 0 /\ slow = 0
     /\ counts = 0 /\ faults = 0 /\ phase = 0 /\ draft = 0 /\ vault = 0 /\ preview = 0
     /\ editors = 0
     /\ outcome = 0 /\ gen = 0 /\ loads = 0 /\ inFlight = 0 /\ sourceLoading = 0 /\ call = 0
     /\ prompt = 0 /\ token = 0 /\ unsure = 0 /\ left = 0 /\ ui = 0 /\ layout = 0 /\ active = 0
     /\ hook = 0 /\ css = 0 /\ written = 0 /\ focus = 0 /\ owner = 0 /\ drag = 0 /\ latch = 0
     /\ said = 0
  \/ /\ part = "saves" /\ F!Init
     /\ store = 0 /\ pending = 0 /\ todo = 0 /\ launched = 0 /\ ended = 0 /\ load = 0 /\ epoch = 0
     /\ calls = 0 /\ cast = 0 /\ clears = 0 /\ asked = 0 /\ archived = 0 /\ halted = 0
     /\ phase = 0 /\ draft = 0
     /\ vault = 0 /\ preview = 0 /\ editors = 0 /\ outcome = 0 /\ gen = 0 /\ loads = 0
     /\ inFlight = 0 /\ sourceLoading = 0 /\ call = 0 /\ prompt = 0 /\ token = 0 /\ unsure = 0
     /\ left = 0 /\ ui = 0 /\ layout = 0 /\ active = 0 /\ hook = 0 /\ css = 0 /\ written = 0
     /\ focus = 0 /\ owner = 0 /\ drag = 0 /\ latch = 0 /\ said = 0
  \/ /\ part = "config" /\ P!Init
     /\ store = 0 /\ todo = 0 /\ launched = 0 /\ ended = 0 /\ load = 0 /\ epoch = 0 /\ calls = 0
     /\ cast = 0 /\ clears = 0 /\ asked = 0 /\ archived = 0 /\ halted = 0 /\ buf = 0 /\ queue = 0
     /\ timer = 0
     /\ saving = 0 /\ edit = 0 /\ opening = 0 /\ reloads = 0 /\ event = 0 /\ barrier = 0
     /\ last = 0 /\ slow = 0 /\ counts = 0 /\ faults = 0 /\ ui = 0 /\ layout = 0
     /\ active = 0 /\ hook = 0
     /\ css = 0 /\ written = 0 /\ focus = 0 /\ owner = 0 /\ drag = 0 /\ latch = 0 /\ said = 0
  \/ /\ part = "shell" /\ L!Init
     /\ store = 0 /\ pending = 0 /\ todo = 0 /\ launched = 0 /\ ended = 0 /\ load = 0 /\ epoch = 0
     /\ calls = 0 /\ cast = 0 /\ clears = 0 /\ asked = 0 /\ archived = 0 /\ halted = 0 /\ buf = 0
     /\ disk = 0
     /\ queue = 0 /\ timer = 0 /\ saving = 0 /\ edit = 0 /\ opening = 0 /\ reloads = 0
     /\ event = 0 /\ barrier = 0 /\ closing = 0 /\ last = 0 /\ slow = 0 /\ counts = 0
     /\ faults = 0 /\ phase = 0
     /\ draft = 0 /\ vault = 0 /\ preview = 0 /\ editors = 0 /\ outcome = 0 /\ gen = 0
     /\ loads = 0 /\ inFlight = 0 /\ sourceLoading = 0 /\ call = 0 /\ prompt = 0 /\ token = 0
     /\ unsure = 0

RStep == part = "runs" /\ R!Next /\ UNCHANGED RRest
FStep == part = "saves" /\ F!Next /\ UNCHANGED FRest
PStep == part = "config" /\ P!Next /\ UNCHANGED PRest
LStep == part = "shell" /\ L!Next /\ UNCHANGED LRest

StoreNext == RStep \/ FStep \/ PStep \/ LStep

StoreSpec == StoreInit /\ [][StoreNext]_storeVars

-----------------------------------------------------------------------------
(* Nothing of a superseded workspace is shown, the selected output exists,  *)
(* each ending is given to the history once, and none of a run that a drain *)
(* or the shutdown found live, half a line is completed by its own run, and *)
(* a spinner turns only while a request is unanswered.                      *)
RunsSound ==
  part = "runs" => /\ R!EpochClean /\ R!ActiveRetained
                   /\ R!ArchivedOnce /\ R!TailOwned /\ R!FlagsHaveCall

(* A buffer shown as saved is what the disk holds, and a coordinated close  *)
(* that is confirmed has written the last text that was given, whatever     *)
(* write failed, unless the failed save of a closed tab had lost it.        *)
SavesLand == part = "saves" => F!CleanMeansSaved /\ F!CloseFlushes

(* What was given is kept: output of a live run leaves the store with its   *)
(* workspace only, a save that others wait for resolves on what the disk    *)
(* holds, and the focus survives the panel that had it.                     *)
GivenKept ==
  [][/\ part = "runs" => R!LiveStays
     /\ part = "saves" => F!BarrierWrote
     /\ part = "shell" => L!FocusKept]_storeVars

(* Key entries and challenges belong to the apply that needs them, but for  *)
(* a challenge that a lost answer leaves to run out in the backend, what is *)
(* sent is what is shown, and an apply of unknown outcome stops every other. *)
AppliesSound ==
  part = "config" => /\ P!KeysOwned /\ P!TokenOwned
                     /\ P!RequestIsShown /\ P!UnknownStops /\ P!SourceShown

(* The layout fits the window or has given way in order, the shell and the  *)
(* handles agree on the gesture under way, and the focus is on screen.      *)
ShellSound == part = "shell" => L!ShellSound

(* The release of a gesture rewrites the variable of its panel, also when   *)
(* another gesture has overlapped it (useLayoutCssSync.ts).                 *)
ReleaseRewrites == part = "shell" => L!ReleaseRewrites
=============================================================================
