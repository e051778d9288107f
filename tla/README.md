# A TLA+ model of Firn

Firn is a desktop IDE: a Go process (`app.go`, `internal/`) that owns files,
processes, language servers, git and an AI assistant, and a TypeScript frontend
that talks to it through generated bindings and events. This directory holds
TLA+ modules that model the parts of it whose correctness depends on the order
in which goroutines, callbacks, timers and messages run, the TLC configurations
that check them, and TLAPS proofs of the theorems that matter most.

Run `tlc -workers 2 -config exec_switch.cfg MCRunExecutor` to check a model and
`tlapm RunExecutorProofs.tla` to check the proofs of a module. `PROJECT.json`
lists the runs, the source lines each definition stands for, the hazards the
properties are aimed at, and the theorems.

## 1. The system

### Backend

| Part | State it keeps | Operations | Hard behaviour |
| --- | --- | --- | --- |
| Run executor (`internal/runprofile/executor*.go`) | live processes, launch reservations, compound aggregates, active run per profile, retained terminal statuses, workspace epoch, draining flag; all under `Executor.mu` | start, restart, stop (by profile and by instance), compound start, drain, end of drain | one goroutine per process and per compound, SIGTERM/SIGKILL timers, work between two critical sections, drains that overlap launches |
| Output batcher (`batcher.go`) | pending buffers, write channel | write, flush on a ticker, close | writes that race close |
| Run profile stores (`store.go`, `project_manager.go`) | profiles and UI state per workspace unit | load, save, delete, pin, adopt, re-detect | partial writes, files that cannot be read and must not be overwritten |
| Run history (`internal/runhistory`) | index, records, archive epochs on disk | append, list, clear, reconcile at start | a crash between two files of one commit |
| App (`app.go`) | close state, load mutex, workspace binding, history epoch | load run profiles, run bindings, close and quit | a load that races a close, timers that race a confirmation |
| Golem window (`app_golem_window.go`) | phase, generation, handoff, window handle, timers | open, ready, re-dock, close, relay | platform callbacks and timers of an earlier generation |
| AI service (`internal/ai`) | repository binding, conversations, consent, staged settings | bind, start turn, cancel, reset, apply settings, close | admission across lock releases, consent for a destination that changed meanwhile |
| Language servers (`internal/lsp`) | servers per (family, root), documents, pending requests | open, change, close, request, provision, restart | a crash while a start, a shutdown or a request is under way |
| Git (`internal/git`) | none; compares and applies | status, stage, resolve a conflict | the file changes between comparison and write |
| File system (`internal/filesystem`) | none | atomic write, bounded read | a crash between write and rename |
| Watcher (`internal/watcher`) | debounce timers | watch, stop | timers that fire after stop |
| Search (`internal/search`) | active requests | search, cancel | a reused request id |
| Terminals, workspace and app state | sessions; JSON files | create, close; save, load | stores that refuse to overwrite what they could not read |

### Frontend

The stores (`ideStore`, `gitStore`, `golemStore`, `lspStore`, `searchStore`)
hold what the user sees; hooks apply events from the backend and answers to
calls. The recurring difficulty is an answer that arrives after the workspace,
repository, conversation or window it is about was left. The Golem relay
(`golem/*.ts`) moves a conversation's drafts between two windows.

### How the parts interact

The frontend calls the bindings of `App`; each call is a goroutine. `App`
serialises workspace loads with `profileMu` and the close with `closeMu`, and
calls the executor, which answers through callbacks (`run:status`,
`run:output` events). Opening a workspace drains the executor
(`BeginDrainWithReason`, `StopAllWithReason`, `ClearTerminalStatuses`), loads
the new profiles and ends the drain; closing the application begins a drain
that is never ended. The run history, the Golem window, the AI service and the
language servers are told of the switch by the frontend in calls of their own.

### What makes each part correct

* **Run executor.** At most two live runs of a profile; a replacement is spawned
  only when the run it replaces has ended; nothing of an old workspace is
  admitted, promoted, retained or reported after a drain; steps of a compound
  run one after the other and the aggregate says how they went; a stop ends what
  it names.
* **App.** A run and its history record stay with the workspace they belong to;
  a close is answered, tears down once, and is not undone by a load.
* **Golem window.** Drafts are owned by one window, and the one that gives them
  up is closed only after the other has them; every transition ends or can be
  undone; the saved preference is the committed one.
* **AI service.** A turn runs against the repository, the consent and the
  settings it was admitted with; nothing is admitted after a close.
* **Language servers.** One server per family and root; every request is
  answered once; a crash loses no open document.
* **Run history and the stores.** A commit is there entirely or not at all after
  a crash; a file that could not be read is never overwritten.
* **Frontend.** An answer is applied only to what it is about; what the user
  typed, ran or saved is neither lost nor shown twice while answers, events and
  switches overlap; the composer of the Golem tab is live in one window at a
  time; a merge writes only over bytes its user has seen.

## 2. Modules

```
RunAdmission <-- implemented by -- RunExecutor <-- MCRunExecutor
      ^                                 ^-- RunExecutorProofs <-- RunIsolationProofs
      | extended by                                  ^-- RunSlotsProofs
   AppRuns  <-- AppRunsProofs, MCAppRuns

GolemMachine <-- GolemWindow <-- GolemWindowProofs, MCGolemWindow
      ^--------- GolemRelay  <-- GolemRelayProofs
                    MCGolem = GolemRelay | GolemWindow | AppRuns

GitParts = GitStatus | GitMerge | MergeEditor | GitGutter (over LineDiff)
           | LspDocuments | Problems | LinePreview
      ^-- GitProofs, MCGit

StoreParts = RunEvents | FileSaves | GolemConfig | ShellLayout
      ^-- StoreProofs
FrontendParts = StoreParts | WorkspaceSession | Explorer | GolemChat | RouteDraft
                | RouteReach | ProfileMenus | Terminals | Search | CodeEditor
                | EditorSurfaces
      ^-- MCFrontend
```

`A | B` is a composition whose behaviours are each of one component: the
variable `part` says of which, and the variables of the others rest at 0. The
components of a composition share no state in the code either; the composition
lets one run ask many questions of small models. Where components do interact
they are one module (`AppRuns` extends `RunAdmission`; both Golem modules extend
`GolemMachine`).

Operators marked `mutant:` in the modules are variants of the definition that
follows them, with a plausible mistake; `PROJECT.json` pairs each with the
property that it breaks. They are not part of any specification.

### RunExecutor

The executor, `executor.go` and `executor_compound.go`. The grain is the
critical section: each region under `Executor.mu` is one action, and everything
a goroutine does between two regions separates two actions, so that TLC
interleaves exactly what the mutex allows.

* **Runs.** A run instance `r<n>` is the number `n`, which is also its
  `LaunchSeq`. Its record is spread over functions (`profileOf`, `parentOf`,
  `epochOf`, `state`, `os`, `stopped`, `done`, ...); the key sets of the three
  maps are `processes`, `reservations` and `compounds`.
* **Threads.** A bound call in flight is a member of `Callers`; a compound
  coordinator is named by its aggregate's run; `waitProcess` and the watchdog
  of `signalStop` are named by their run. `pc` says before which critical
  section a thread stands and `req` what it carries.
* **Processes.** `Exit` is the operating system: a process may end at any time
  and after SIGKILL it must. Whether a run succeeded, failed or was stopped is
  decided in `WaitProcess`, as `waitProcess` does from the wait error and the
  `stopped` mark.
* **Drains.** A drainer is a caller of `BeginDrainWithReason` and
  `StopAllWithReason`: a workspace load, which then clears the statuses, binds
  its root (`rootEpoch` is the epoch of the load that did) and ends the drain, or
  fails to load and leaves admission closed; or a shutdown, which is a drainer
  that never calls `EndDrain`. A load of the root that is open (`Reload`) takes
  the current epoch, stops and clears nothing and then ends the drain too: after a
  switch that timed out it reopens the gate beside the runs that survived. Loads
  take turns (`profileMu`), so a reload begins only when no other is under way.
* **Abstracted.** Output bytes, commands, environment files, error wording and
  time: a timeout is an action that may happen. A failing step of
  `prepareProcess` or of the spawn is one nondeterministic failure.

`MCRunExecutor` gives it one or two callers and drainers, one profile that may be
a step of one or two compounds, two to four runs and up to two epochs. The run
`exec_switch` also starts from `Siblings`, a reachable state with two live runs.

### RunAdmission

What the executor promises to the application: an epoch, a gate, and the live
runs, each with the epoch that it was admitted in. `Admit` needs an open gate
and the current epoch, `Begin` advances the epoch and closes the gate, `End`
opens it for the current epoch only. `RunExecutor` implements it
(`ImplementsAdmission`): `epoch` and `draining` are the executor's own and
`live` is the set of its live processes and compound aggregates with their
epochs; reservations are not live yet. It is the interface over which `AppRuns`
is composed with the executor, so a property of `AppRuns` rests on
`RunAdmission` and not on the executor's steps.

### AppRuns

The part of `app.go` that uses the executor. A load (`loadRunProfilesLocked`)
holds `profileMu` throughout, so it is a program counter (`lpc`) and a reader of
the profiles runs only when it is idle; the steps of the load are the executor's
critical sections and the final one under `closeMu`, which publishes the
workspace (`root`) and its pair with the epoch (`active`) and ends the drain
unless a shutdown has begun. A launch call reads the workspace and epoch
(`Resolve`) and is admitted later (`Start`). A run's history record goes
through `AppendRunHistoryRecord`: resolve under `profileMu`, for a stale epoch
look up what the shutdown superseded under `closeMu`, write after both were
released. The close is `closePhase`, the backstop that is armed, the callbacks
of backstops that already fired (`fired`: `Timer.Stop` does not stop those), the
frontend's unanswered question, a second request that has released `closeMu`
(`again`), and the teardown goroutine (`tpc`).

Abstracted: what the fan-out of the teardown does to the other services, the
contents of profiles and records, and bindings that only forward. A load of the
workspace that is already open ends the drain of the epoch it read, which is
`End(lepoch)` without `Begin`. The frontend awaits a load before it asks for the
next, so at most one is in progress.

### GolemMachine and GolemWindow

`GolemMachine` is the record `golemWindowRuntime` (`win`) and the operators on
it: each `Can...` is the check, and each operator of the same name without it
the assignment, of one critical section of `golemWinMu`. An attempt to open the
window is numbered by `instance`, and one transfer of the drafts by `handoff`;
the window handle is the number of its instance and the transfer id is the
handoff that was recorded with it.

`GolemWindow` is who calls them. A goroutine that has left one critical section
and not reached the next is a member of `calls`: a bound call that has checked
the state, a timer callback that was not stopped, a retirement observer, a
message between its check and its acceptance. The check in the next section is
part of the action that takes the call, so everything the state can do between
the two is interleaved. `OpenGolemWindow` is a program counter per attempt
(`opener`): create, install, add to the window manager, run, check. Native
windows are `windows`; their close hooks run while `hooked`. Preferences to be
saved are in `saves` and reach the file in any order. The two pages are
external: they post what their protocol lets them post, whenever they like.

Abstracted: the content and revision of the projection and its errors, frames
and placement, focus and reveal, reasons, the `restoring` flag and the messages
that request actions. Two identical calls in flight count as one.

### GolemRelay

The two pages around `GolemMachine`: the main window's relay
(`golem/windowRelay.ts`), the satellite's client (`windowSatellite.ts`) and the
cores of their protocol (`relayCore.ts`). `win` is Go's record; `emitted` the
states that Go has published and that arrive in any order; `posts` the calls on
their way to Go, which relays them into `inbox` or drops them; `main` and `sat`
are the pages' locals. One conversation: a composer draft, which the windows
hand to each other, and one queued turn, whose text only main owns. A text is a
number, 0 is the empty draft. Timers post a message again, Go may lose or repeat
it, and either side may abort.

### GitParts

* `GitStatus` is the rest of `gitStore.ts`: the accepted snapshot and the
  refreshes that race for it, the one mutating operation at a time, the commit
  draft, and the diff tab with its editable pane (`GitDiffView.tsx`). A text is
  the set of the keystrokes it holds, so "nothing typed is lost" is set
  inclusion.
* `GitMerge` is the merge session: opening a conflicted file (saving its tab
  first), the poll that notices a file that moved, Overwrite, and the finalize
  pipeline, which locks, compares, writes, stages and hands off to the next
  file. `repo` is what git and the disk hold, changed at any moment by other
  programs (`Moves`), and the version of a file is its index stages and bytes.
* `MergeEditor` is the text of the Result editor: conflict regions mapped
  through choices, edits, reopening, undo, redo and the freeze.
* `LineDiff` is the Myers diff of `lineDiff.ts` with the word refinement, and
  `GitGutter` the gutter, its popup, the reverts and the staging buttons that
  use it.
* `LspDocuments` is one file and its server: opens, changes, saves, closes, the
  flush that a completion or hover waits for, crash and reconnection; any call
  may fail, an open also once the manager has counted it. `TextFollows`,
  `DocumentFollows` and `AnswersFresh` name the causes that excuse a difference
  (`known`): a bound on what the code leaves open, not a claim that it has none.
* `Problems` is the projection of diagnostics, server statuses and conflicts
  that panel, badge and status bar share; `LinePreview` the ranges of a matched
  line, from ripgrep's bytes to UTF-16.

The parameters are constants of `GitParts`; `MCGit` holds their values only.

### The stores of the frontend

`StoreParts` composes the four components that `StoreProofs` proves about, and
`FrontendParts` extends it by the others; their parameters are constants, and
`MCFrontend` holds the values only. A name of a component's constant that another
module also defines is passed on under a longer one (`NoRunId` for the `NoRun` of
`RunEvents`).

* `RunEvents`: statuses, outputs and compound snapshots of runs in `ideStore.ts`
  under the events of `useRunOutput.ts`; the events of one run are ordered,
  those of different runs interleave, and those of a superseded epoch still
  arrive. A load of another root takes a new epoch and marks the runs it finds
  live (`halted`), as the shutdown does; one of the root that is open keeps the
  epoch and the runs. The end of a run that was marked is shown, if its workspace
  still is, and gives the history no record (`IsAdministrativeStop`). The records
  of a compound's steps stand for its last snapshot.
* `FileSaves`: one file, its buffer, the write queue of its path, autosave, the
  edits of the diff pane, barriers, openings, reloads and the coordinated close.
  Any write may fail, and leaves the disk as it was: an autosave is armed again, the
  diff pane keeps its edit, a barrier and a close are refused (`Refuses`), and the
  save of a closed tab is given up with its text (`faults.lost`).
* `WorkspaceSession`: the saved session of each workspace, captured at a switch,
  restored in steps, written through one chain, and the quit that waits for it.
  A session is the set of marks its user left.
* `Explorer`: the tree, its two readers, the watcher, the reveal and the walk
  that brings a painted snapshot up to date. A listing is a version.
* `GolemChat`: turns, answers and run events of one conversation whose
  repository is closed and opened under new epochs.
* `GolemConfig`, `RouteDraft`, `RouteReach`: the configuration tab (staged draft,
  vault of keys, applies, challenges, unknown outcomes), the route editor, and
  what it foresees of a draft against what `internal/ai/settings_apply.go` does.
  `token` is what the backend would honour: the challenge on screen, that of a call
  in flight, and `lost`, which a call whose answer is lost may leave, as its
  cancellation is sent once and not awaited, or the challenge never arrived.
* `ProfileMenus`: Save as profile and the Source picker over a store that other
  processes write. A save reads the applied document and then creates a profile,
  or replaces the revision the user was asked about; the flow's generation says
  whether an answer still belongs to a menu. The keyboard focus is a variable:
  both menus hand it around controls that are disabled or unmounted under it, and
  `FocusHeld` says that it is on no control only while something is under way or
  because the workspace or the user took it away. `SourceNamed`: the source has
  one row whatever the newest listing shows.
* `Terminals`, `Search`: shells whose answers and events race; debounced requests
  whose answers race.
* `ShellLayout`: the budget that turns the saved sizes into a layout
  (`centerLayout.ts`), the gestures on the four handles (`useResize.ts`), the CSS
  variables that gestures and renders both write (`useLayoutCssSync.ts`), and the
  focus and the announcements of `IDEShell.tsx`. `hook` is what each handle
  keeps of its own gesture, `active` the one the shell knows of; they are apart
  because a key on one handle may take the shell over from a drag of another.
  Whether gestures may overlap is part of the cast (`overlap`): what is said of
  the variables in between holds without it, and `ReleaseRewrites`, which does
  not hold with it, is the fourth finding.
* `CodeEditor`: the one CodeMirror view that every tab shares
  (`CodeMirrorEditor.tsx`). A tab's state is cached when another comes up and is
  brought up to date when it returns; frames that were asked for a file may run
  when another is shown; a jump opens its file, waits for it and gives up; the
  baseline of the gutter is an answer. A text is a number. `BaselineFresh` says
  where the gutter may show an older baseline: in a state that was left before and
  came back while none is wanted.
* `EditorSurfaces`: which of the files, the diff, the merge and the configuration
  has the column and the keyboard (`editorSurface.ts`, `Editor.tsx`), the strip of
  their tabs, how it scrolls, and who is asked before the configuration closes.

JavaScript is one thread: an action is an event handler up to its first `await`,
or what a promise runs when it settles. Calls to Go, their answers and events
are separate actions, so what arrives between two awaits is interleaved. React
renders and runs the effects of an update before the next event unless a module
says otherwise.

## 3. Runs

| Run | Instance | Question |
| --- | --- | --- |
| `exec_switch` | two switches or reloads over the runs of one profile; and, from two live siblings, two callers; four runs, two epochs | does a drain leave anything of the old workspace behind, can an old drain reopen the gate, is a replacement spawned beside the run it replaces, do the slots, the index and the retained results agree |
| `exec_compound` | a compound of two equal steps and one that shares its step, one caller, one drainer, four runs | do steps run in order and alone, does the aggregate say what they did, does a drain cover coordinators, does the executor implement `RunAdmission` |
| `exec_liveness` | a compound, one caller, one drainer, fairness | do stops and drains end |
| `exec_stop_race` | a compound and a caller | the first finding |
| `app_switch` | two workspaces, two runs, one caller, four epochs, one close | do runs and records stay with their workspace, through failed loads and a shutdown at any point |
| `golem_window` | two attempts, two handoffs, a page's call in flight | is a close earned, are observers counted, does the file settle on the committed mode |
| `golem_stray` | one attempt, one handoff | the second finding |
| `golem` | the two pages; the window with a quit; the close; fairness | is the composer live once, does a draft survive every handoff, do handoffs and closes end |
| `git` | the seven components of `GitParts`, fairness for the merge session | is what panel, pane, session, gutter, server and Problems show what the repository, the user and the disk hold |
| `frontend` | the fourteen components above | does each store survive answers, events and switches that overlap |
| `session_close` | the sessions alone: one switch and one quit | the third finding |
| `shell_release` | the layout alone: a drag and a key on two handles of a narrow window | the fourth finding |

**Bounds.** `MaxRuns` bounds the ids handed out and `MaxEpoch` (`LastEpoch` in
`AppRuns`) the drains. The capacity rule speaks of two slots, so three runs of a
profile are the first that can break it and four let both slots be replaced at
once; a compound with two steps is the first that has an order; a reload is tried
while a failed switch has left the gate closed, when it matters; two epochs are
the first that can be confused, and `app_switch` has two switches and one more
epoch for the shutdown. `exec_switch` and `exec_compound` each ask two
questions: the constraint `Bounded` keeps a behaviour inside one of them (a
switch over two runs, or restarts in one epoch; compounds in one epoch, or a
drain over three runs). `MaxCloses` bounds the handshakes: a stale backstop
needs two. `MaxInstance` and `MaxHandoff` bound the attempts and transfers of the
Golem window: a stale call needs two of one of them. `MaxCalls` bounds the pages'
calls in flight (timers, observers and hooks are not bounded), `MaxMoved` and
`MaxStalled` are the save generation up to which the window moves and a
retirement stalls.

The frontend's components are bounded by casts: a record of how many clicks,
keystrokes, refreshes, switches, failures and so on one behaviour may hold, and a
behaviour starts by choosing one. A cast combines the kinds of event that
interfere, at the count where they first can (two requests are the first whose
answers can be swapped, two switches the first that return to a workspace).
Everything the code does by itself is unbounded. `CodeEditor` has two files, two
frames under way and one step of history: a frame that runs for the wrong file
needs one file besides its own, and a step back needs one entry. `EditorSurfaces`
has a strip that is two and a half tabs wide, so that the chosen tab may be
hidden on either side. `FileSaves` has one failing write, which every kind of
write may be, and two barriers; `RunEvents` has the switch and the shutdown over an
ordinary run and a compound. `RouteReach` replays drafts on a few documents whose
fallbacks cross selectors, chain, or leave a use case without a route.

**Deadlock.** The executor's runs check it: with ids and epochs used up a caller
can still be refused. The application ends in a quit, the Golem window in a
state with no attempts left, and a component of a composition when its cast is
spent and every answer is in; nothing has to happen then, so the other runs do
not.

**Fairness.** In `RunExecutor` goroutines that can run do (`WF` on every thread's
steps), timers fire, and a process that was sent SIGKILL ends; nobody has to
call, and a process that got no SIGKILL may run for ever. In `AppRuns` the
teardown goroutine runs, whose fan-out is capped at two seconds, and so do the
backstop and its callback; neither the user nor the frontend has to do anything.
In `GolemWindow` timers fire, and the goroutines that open a window and those
that time a handoff out, restore it or abandon it run; the pages, the user, the
platform and the drain may do nothing for ever. In `GolemRelay` the system's
steps happen (Go takes a call, a page its messages, a timer fires), which is what
an event loop and Go's scheduler give; the user need not act, and a message may
be lost as often as it is sent. `GitParts` assumes that the calls a merge session
awaits are answered, successfully or not; other programs, the user and the tab's
edits have none.

**Findings.**

* `exec_stop_race`: `Stop` of a compound looks up the running leaf, releases the
  lock and then cancels the coordinator. The coordinator can promote its next
  step in between: the new leaf runs on and is not told to stop, while
  comments at `executor.go:616` and `executor_compound.go:300` say that the leaf
  is stopped. `Stop` then waits for that leaf to end by itself.
* `golem_stray`: an attempt that is closed between its publication and
  `Window.Run`. The check after `Run` closes the window only if the attempt is
  already retired. If the observer has not retired it yet, a hidden window is
  left that no state refers to; if the close came between `Window.Add` and `Run`,
  the window runs, its close was authorized but had no effect, and retries only
  observe it again.
* `session_close`: a quit whose flush resumes from the same write as the flush of
  a switch awaits its own write and not the one that the switch queues behind it
  (`useWorkspacePersistence.ts:458`), while the comment at line 475 says that a
  close waits for every outstanding write.
* `shell_release`: `useLayoutCssSync` forgets what it wrote of a panel only while
  that panel's gesture is the active one (`useLayoutCssSync.ts:34`). A key on
  another handle takes the shell over from a drag (`IDEShell.tsx:223`), the
  effect records the dragged panel as written at the size of the layout, and
  when the drag then ends at a size that the budget does not grant, the size is
  the recorded one and nothing is written: the panel keeps the width of the drag
  while the layout counts with another. The comment at line 35 says that a
  release must rewrite the variable. The proof of `ShellSound` met it: the
  variables are those of the layout only while gestures do not overlap.

Observed while modelling, without a run:

* A run that survives a switch that timed out keeps the reason `workspace-switch`
  (`executor.go:165`) after a reload of its root has reopened the gate
  (`app.go:1020`), so it ends as an administrative stop although its workspace was
  never left.
* A backstop whose timer expires just before `CancelBeforeClose` stops it still
  runs its callback, which does not say what handshake it belongs to
  (`app.go:291`). If the user asks to close again before it takes `closeMu`, it
  forces the teardown of the new handshake at once, which the comment at
  `app.go:356` calls harmless. `AppRuns` has that behaviour (`fired`).
* The check of a draft map's handoff and the recording of its id are in two
  critical sections, and the second does not check again, so the id of a map of
  an earlier handoff can be recorded for a later one
  (`app_golem_window.go:1242`); a quit that keeps the preference of an
  uncommitted attempt does not advance `golemSavedGen`, so a save that was
  already on its way can still land (`app_golem_window.go:840`).
* Closing a diff does not advance the request revision (`gitStore.ts:846`): a
  late answer rebuilds the pane from older text, and the next keystroke writes
  that text over the buffer, while the comment at `GitDiffView.tsx:136` says that
  one that predates the edit must never win. `PaneForward` therefore speaks of
  the keystrokes since the pane was built.
* An edit whose text equals what a `didChange` in flight replaces is taken for
  synchronised (`lspDocumentSync.ts:74`, `:95`). A reconnection after a close and
  an open opens the document twice (`useLSPDocumentSync.ts:158`): the manager
  counts the second open, passes its text to nobody (`manager.go:250-262`) and
  keeps the document after the tab is closed. The same is left by a close whose
  `didChange` fails, for then no `didClose` is sent (`lspDocumentSync.ts:184`),
  and by an open that fails once counted. A hover over a tab that is reopened
  during the close of its predecessor is answered about that one's text.
* Closing a diff while a refresh of it is in flight brings its tab back
  (`gitStore.ts:846`; the merge surface guards against this at 1108). A refresh
  that yields to an opening which has read the buffer already leaves that diff
  as old as the read until the next save (`gitStore.ts:822`).
* A save of a closed tab that fails is reported and its text is gone
  (`useAutosave.ts:100`); a close that follows is confirmed without it.
* An apply or an approval whose answer is lost may leave its challenge alive in the
  backend: one cancellation is sent if the page knows the token, nobody waits for
  it (`GolemConfigWorkspace.tsx:1053`, `:1132`), and otherwise the challenge runs out.
  No prompt shows it any more and the page cannot confirm it.
* Reverting every hunk does not restore a final newline (`lineDiff.ts:400`). With
  no workspace open every server event is accepted (`useLSPEvents.ts:30`).
* In the code editor, a file whose baseline is gone when it comes up after another
  without one keeps the markers of its cached state (`CodeMirrorEditor.tsx:321`),
  while the comment at line 315 says that a state after a switch starts null, which
  is true of a new state only. `BaselineFresh` allows exactly this case. The first
  cursor of a fresh file is applied again by its first gesture, and the frame
  that applies its scroll position may find another file.
* After a merge hands off to the next file the keyboard focus is on the body
  (`Editor.tsx:214`).
* In the run panel, pruning past fifty summaries can take the selected record
  away, and starting a run while all runs are selected leaves the timeline up.

## 4. Proofs

A theorem holds for every value of the constants that satisfies the named
assumption; `PROJECT.json` lists them. Every proof has the same shape: an
inductive invariant, a lemma that `Init` establishes it, one lemma per kind of
step, one case per action, and PTL at the end. Where many actions disturb the
same few variables, the actions are first shown to be instances of a small number
of relations (`Quiet`, `Changes`, `Keeps`, `Edits`, `Drops`, `Renews`), and the
invariant is proved against the relations.

### The executor (`ExecutorAssumption`)

* `RunExecutorProofs`. **DrainOwned**: from `BeginDrain` to the end of the newest
  drain admission stays closed. It is not inductive: an `EndDrain` of epoch `e`
  opens the gate when `e` is the current epoch, and is harmless only because no
  other drain in progress has that epoch; `DrainFull` adds that epochs of drains
  are distinct and never in the future. **RestartExclusive** rests on who owns a
  launch: `RunInv` says that a reservation has one thread, that a process is
  spawned by one thread once (`Owned`, `SpawnedOnce`), that what was reaped has
  exited (`Reaped`), and that a thread with a replacement in hand has seen its
  target gone (`Replaced`). **ImplementsAdmission**: every step of the executor
  maps to a step of `RunAdmission` or a stutter; that a call is admitted in the
  epoch that its caller resolved (`Asked`) is what the mapping needs.
* `RunIsolationProofs`. **DrainClears**: `StopAll` answers true only for an empty
  executor, and while admission is open nothing is older than the load that bound
  the open root. It does not say that all is of the current epoch, which a reload
  after a switch that timed out makes false.
  A launch may be between its reservation and its promotion, in a spawn, when the
  drain begins; `IsoInv` follows it: whoever is about to promote still holds its
  reservation (`Held`), what a closed gate finds live is doomed (`Closed`,
  `Doomed`), and a drain that has collected names all that lives (`Collected`).
  The epochs of a superseded drain need more: what is older than a drain is in its
  copies until it answers and in no table after (`Covered`), so that the root it
  binds leaves nothing older behind (`Isolated`).
* `RunSlotsProofs`. **SlotsSound** and **StepExclusive**: `SlotInv` adds to the
  count of slots that a replacement has one target and a target one replacement
  (`Targeted`, `Replaces`), without which a restart under way would be counted
  twice, and that the slot that the capacity check granted under the lock is
  still there when the run is promoted (`Exclusive`).
  **CompoundSound**: `Coordinates(c)` says at each program point of the
  coordinator what the records of its steps are, and `StepInv` that only the step
  it waits for can be live.

### The application (`AppAssumption`, `AdmissionAssumption`)

`AppRunsProofs` proves type correctness, **HistorySound**, **WorkspaceIsolation**,
**ShutdownFinal**, **LoadsSound**, and the action properties **TeardownOnce** and
**RecordsKept**. A record is written two steps after its workspace was decided,
and its workspace is decided from an epoch, so `HistoryInv` says what an epoch
tells: a launch or run of the current epoch belongs to the active workspace
(`LaunchInv`), a load that switches has an epoch in which nothing was launched
and publishes only when nothing lives (`LoadInv`), the pairs that are kept for
the shutdown name the workspace of every run of their epoch (`PairInv`), and a
record about to be written names the workspace of its run (`RecordInv`).
`CloseInv` ties the phase of the close to the teardown's counter.

### The Golem window and its pages

`GolemWindowProofs` (`GolemAssumption`, `CallsAssumption`):

* type correctness and **CloseEarned**: the window of a satellite that owns the
  drafts is closed only after main has acknowledged the map of that very handoff.
  What licenses the close travels from the delivered map to the acknowledgement
  (`AckInv`), to the pending confirmation (`CallsInv`), to the authorization.
* **PreferenceSettled**: the writes of `app.json` land in any order, so `PrefInv`
  says that a pending or landed write of the newest generation carries the mode
  of the window, and that none is newer.
* **RetirementSound**: exactly one observer per closing window, and whoever can
  undo a handoff exists (`ObserverInv`, `EnderInv`); `NumberInv` keeps calls of
  earlier attempts from being taken for this one's.
* the action properties **UncommittedSavesNothing** and **NoWayBack**.

`GolemRelayProofs` proves **OneEditor** and needs no assumption on the bounds. Main
lifts its barrier when it installs a state without a window, possibly long
after another window was opened, so the barrier alone keeps nothing apart. What
does (`EditorInv`) is that the satellite becomes interactive only in a window
whose drafts main has sent, which main does from a state of that window, and that
no state of another window, or of none, is newer than that one while the window
lives (`Newest`, `Handed`).

### The repository (`StatusAssumption`, `MergeAssumption`, `ProblemsAssumption`)

`GitProofs` speaks of `GitParts`, so its theorems are about the specification the
run `git` checks; the steps of the other components leave `part` alone.

* **PanelSound**: `StatusInv` counts requests: a click that awaits an answer has a
  revision, of the open workspace, that no later click has passed, and the reads
  that may still answer it are those of that revision.
* **PaneForward**: `PaneInv` says that every keystroke of the pane is in the buffer
  or on its way there, so that a rebuilt pane, whichever read it is rebuilt from,
  holds what was typed since it was built.
* **SessionCurrent**: `MergeInv` says what each continuation of the session (open,
  check, finalize, advance) may still assume when it resumes: `OpenInv`,
  `SessionInv`, `FinalInv`, `AdvanceInv`. A continuation that was superseded
  carries an older revision or epoch.
* **WritesReviewed**: `DiskInv` types what the disk and the index hold; with
  `FinalInv` the bytes that a finalize replaces are those its session showed, and
  what it stages is its own resolution.
* **ProblemsShown**: the files of the repositories are finitely many and the bound
  of the refreshes is natural; nothing else is assumed. `ProblemsInv` says of the
  reads that one that may still land is for the status and the epoch the effect
  last ran for, and that an answer it has had is what the disk still has unless
  the disk has moved since the status (`Answered`); an effect tells statuses
  apart by their objects, so `Numbers` keeps the objects of the past from those
  to come. The totals are sums over finite sets, which the library defines by a
  recursive function on the subsets: that it exists and is one rests on the
  well-foundedness of strict inclusion (`SumExists`, `OneSum`), and that the
  status bar's totals are the badge's on the exchange of sums (`TotalsAgree`).

### The stores of the frontend (`RunAssumption`, `SaveAssumption`, `ConfigAssumption`, `LayoutAssumption`)

`StoreProofs` speaks of `StoreParts`, whose properties the run `frontend` checks
among the other components. A component's invariant is guarded by `part`, and its
variables are left alone by the steps of the others.

* **SavesLand**: a buffer shown as saved is what the disk holds, and a close that is
  confirmed has written the last text, unless the failed save of a closed tab lost
  it (`LostInv`, which the next text that is given ends). `SavesInv` follows that text, `last`, from hand to hand:
  it is in the open buffer, in the diff pane's edit, on the disk behind a queue
  that holds nothing else, or in a write that is not given up and that only the
  same text follows (`Held`, `Lands`). That needs the shape of the queue
  (`Ordered`: one autosave at most, a barrier's write at the head, the pane's at
  the end) and how far an opening and a close have come (`Flushed`). The property
  and the invariant are of behaviours without late reads: a reload that
  answers after the buffer was edited and saved again shows older text as saved.
  That a text is written in the end is not stated: an autosave is tried again for as
  long as the disk refuses it, and a closed tab's save is tried once.
* **RunsSound**: `Kept` is what one value of the store satisfies. Retention: a
  profile keeps at most `MaxRetained` runs, so the records are finite. The record
  of a compound names a run of its profile, and its steps end only as it does
  (`CompoundsKept`). What is kept is of the current epoch unless events are
  paused (`Current`), and the selection exists (`ActiveKept`). `History` is what
  relates the store to the events that are still on their way: an ending is
  archived exactly when it was told, which for a compound means counting its
  steps' endings and its own (`Told`); a compound's own ending comes after those
  of its steps (`ToldLast`). Of a run that a drain marked nothing was told before,
  since it had not ended, and nothing is after. Statuses change the store in three ways
  (`HandledOrdinary`, `HandledCompound`, `Settled`), which the pruning that
  follows every status then discards from (`Retained`). Pruning discards the
  oldest runs that have ended; that a finite set of runs has an oldest one rests
  on the well-foundedness of strict inclusion (`Ends`).
* **AppliesSound**: `ConfigInv` says of the loads that at most one is fresh and
  that it is alone (`LoadsFresh`, `LoadsAlone`) and shows the document that it is
  of (`LoadsShow`); of the apply, that the request a challenge asks about is the
  one the draft on screen makes (`RequestHeld`), that the backend honours the
  challenge shown and one that a lost answer left at most (`TokenShown`), and that an
  outcome that is not known stays until a load has answered it (`UnknownHolds`).
* **ShellSound**: `LayoutAssumption` gives sizes their types and windows at least
  450 points of width, less than half of what `main.go:158` grants, from which
  on a side has room for its minimum. The budget is arithmetic: each side is
  within its reach (`SidesAre`, `LayoutIs`), the seam leaves Files its minimum
  (`CeilingIs`), and the pair is never two rails (`RailsAre`). The shell does
  not ask whether the handle it holds exists, nor a gesture whether the other
  panels can still give what it takes, so `LayoutInv` says that what is rendered
  is the budget of what is kept (`Rendered`), that the gesture of the shell is
  that of its handle, which can be used (`Owner`), and, unless gestures overlap,
  that it is the only one, that its ceiling and the peer it has frozen are still
  what the window can give, and that every other variable is the layout's
  (`Owned`). That survives because whatever could take the room away changes
  the key that cancels gestures, or the peer's sizes only when the gesture is
  not on the seam (`SeamStays`). Every action but three is a render, and
  `Rendering` is proved once for all of them.
* **GivenKept**, an action property: of `RunEvents` every action is shown to keep
  what a live run has written or to drop it with its workspace (`Goes`); of
  `FileSaves`, a save that others wait for resolves after a write of the open
  buffer's text, which the shape of the buffer suffices for; of `ShellLayout`, a
  panel that becomes a rail hands on the focus it had (`RenderFocus`), the
  command that toggles Golem changes what is seen of it, and a window is
  announced exactly if the user opened it (`Announcing` follows the latch that
  says whether the one that opens is being restored).

### Only model-checked

Liveness (`StopEnds`, `DrainEndsCompounds`, `HandoffSettles`, `HandoffEnds`,
`CloseEnds`, `ReloadSettles`), which is out of the prover's reach. Of the run
`golem`, the parts of `ComposerSound` beside `OneEditor`. Of `git`:
`TextsSound`, which compares recursive computations over texts with reference
definitions and needs induction over data, which the provers cannot do; and
`ServersFollowed`, which compares a buffer with what a server has once the queues
of calls, tasks and answers between them have run dry, and whose inductive
invariant would have to give the meaning of every such queue. Of `frontend`:
`TreeConverges`, `TurnsKept`, `DraftMirrored`, `PanelsSound` and `NothingDropped`.
The last two contain components that filter and fold sequences of requests, tabs
and bytes (`SelectSeq`, `FoldLeft`: the sessions, the terminals, the search, the
menus, the editor and its surfaces); the provers can say of such a fold only what
an induction over its argument would. The tree, the chat and the
route editor have no folds, and their properties would be within reach at the
price of an inductive invariant for each; the first two hold of behaviours without
slow events or rushed closes (the casts `slow` and `rushed`), so the invariants
would have to say what a cast leaves.

## 5. Plan

1. More theorems about the frontend: the turns of the chat (`GolemChat`) and the
   tree (`Explorer`), each with an invariant that the composition guards by `part`
   as `StoreProofs` does.
2. AI service: admission of turns against binding, consent, cancellation and
   close; then the settings protocol (prepare, confirm, write, publish).
   Abstract: a turn's repository, consent and settings are those of one moment.
3. Language servers: entries, references, provisioning, crash and restart, and
   the JSON-RPC client's pending requests under fairness.
4. Run history and the stores with crashes between writes; refined to a log
   whose commits are atomic.
5. Watcher, search and output batcher: timers and closes that race.
6. The rest of the frontend's control: the validation of
   configuration records, the Golem panel.

## 6. Not modelled

Rendering, generated bindings, downloads, pseudo-terminals and everything that is
only input and output; the Go side of search, language servers, git, the file
system, the watcher, the run history and the stores; of the parts that are
modelled, what each section above names as abstracted. Identifiers, timestamps
and wording are left out everywhere. `PROJECT.json` gives the state of each
component and the reason.
