---------------------------- MODULE GolemWindow -----------------------------
(***************************************************************************)
(* app_golem_window.go: the native Golem window, opened, closed and saved  *)
(* by bound calls, native hooks, timers and observers that each take       *)
(* golemWinMu several times.  What happens between two critical sections   *)
(* of a goroutine is a member of calls: a goroutine that has read the      *)
(* state and is about to act on it.                                        *)
(***************************************************************************)
EXTENDS GolemMachine, FiniteSets

CONSTANTS
  MaxCalls,   \* bound: calls of the two windows in flight
  MaxMoved,   \* bound: save generations before the window moves
  MaxStalled, \* bound: save generations before a retirement stalls
  MaxQuit     \* bound: save generations before the application quits

ASSUME CallsAssumption == {MaxCalls, MaxMoved, MaxStalled, MaxQuit} \subseteq Nat

VARIABLES
  win,        \* App.golemWin
  windows,    \* native windows
  hooked,     \* windows whose hooks are installed
  opener,     \* the step of each attempt's OpenGolemWindow
  calls,      \* goroutines between two critical sections
  delivered,  \* transfer messages that reached the other window
  quit,       \* quitPermitted()
  saves,      \* preferences on their way to saveGolemPreference
  savedGen,   \* App.golemSavedGen
  saveError,  \* the last write failed
  disk        \* the mode in app.json

nativeVars == <<windows, hooked, opener>>
diskVars   == <<savedGen, saveError, disk>>
vars == <<win, nativeVars, calls, delivered, quit, saves, diskVars>>

\* Calls of the windows, which they may make at any time.
Requests ==
  {"open", "view", "drafts", "final", "ack", "nack", "ready", "abort", "redock", "confirm"}

\* What a goroutine will do in its next critical section.
Op == Requests \cup {"capture", "timeout", "restore", "abandon", "close", "observe",
                     "removed", "stalled", "quitting", "shutdown", "quitsave"}

\* A goroutine that will do op for instance i; n is a handoff or a window.
Call(op, i, n) == [op |-> op, instance |-> i, n |-> n]

Room == Cardinality({c \in calls : c.op \in Requests}) < MaxCalls

Finish(c, next) == calls' = (calls \ {c}) \cup next

Save(w, m) == saves' = saves \cup {[gen |-> w.saveGen, mode |-> m]}

\* The satellite's page runs, and so can call.
Satellite == win.handle # 0 /\ windows[win.handle] = "running"

Init ==
  /\ disk \in Mode /\ win = Loaded(disk)
  /\ windows = [i \in Instance |-> "none"]
  /\ hooked = {}
  /\ opener = [i \in Instance |-> "none"]
  /\ calls = {} /\ delivered = {}
  /\ quit = FALSE
  /\ saves = {} /\ savedGen = 0 /\ saveError = FALSE

-----------------------------------------------------------------------------
(* OpenGolemWindow *)

\* The call finds that the application does not quit ...
OpenGolemWindow ==
  /\ ~quit /\ Room
  /\ win.instanceSeq < MaxInstance
  /\ calls' = calls \cup {Call("open", 0, 0)}
  /\ UNCHANGED <<win, nativeVars, delivered, quit, saves, diskVars>>

\* ... and reserves an attempt if there is none.
ReserveGolemWindow(c) ==
  /\ c.op = "open"
  /\ Finish(c, {})
  /\ IF CanReserve(win)
     THEN /\ win' = Reserve(win)
          /\ opener' = [opener EXCEPT ![win.instanceSeq + 1] = "create"]
     ELSE UNCHANGED <<win, opener>>
  /\ UNCHANGED <<windows, hooked, delivered, quit, saves, diskVars>>

\* createGolemWindow and installGolemHooks
CreateGolemWindow(i) ==
  /\ opener[i] = "create"
  /\ windows' = [windows EXCEPT ![i] = "made"]
  /\ hooked' = hooked \cup {i}
  /\ opener' = [opener EXCEPT ![i] = "install"]
  /\ UNCHANGED <<win, calls, delivered, quit, saves, diskVars>>

\* ... fails: abandonGolemOpen
AbandonGolemOpen(i) ==
  /\ opener[i] = "create"
  /\ win' = IF CanInstall(win, i) THEN Retire(win) ELSE win
  /\ opener' = [opener EXCEPT ![i] = "done"]
  /\ UNCHANGED <<windows, hooked, calls, delivered, quit, saves, diskVars>>

\* A superseded attempt closes a window that does not run yet, which does nothing.
InstallGolemWindow(i) ==
  /\ opener[i] = "install"
  /\ IF CanInstall(win, i)
     THEN /\ win' = Install(win, i)
          /\ opener' = [opener EXCEPT ![i] = "add"]
          /\ UNCHANGED hooked
     ELSE /\ opener' = [opener EXCEPT ![i] = "done"]
          /\ hooked' = hooked \ {i}
          /\ UNCHANGED win
  /\ UNCHANGED <<windows, calls, delivered, quit, saves, diskVars>>

\* The window manager learns the window, and the window runs.
AddWindow(i) ==
  /\ opener[i] = "add"
  /\ windows' = [windows EXCEPT ![i] = "added"]
  /\ opener' = [opener EXCEPT ![i] = "run"]
  /\ UNCHANGED <<win, hooked, calls, delivered, quit, saves, diskVars>>

RunWindow(i) ==
  /\ opener[i] = "run"
  /\ windows' = [windows EXCEPT ![i] = "running"]
  /\ opener' = [opener EXCEPT ![i] = "check"]
  /\ UNCHANGED <<win, hooked, calls, delivered, quit, saves, diskVars>>

\* A window that was retired before it ran is closed.
CheckGolemWindow(i) ==
  /\ opener[i] = "check"
  /\ opener' = [opener EXCEPT ![i] = "done"]
  /\ windows' = IF win.handle # i /\ windows[i] = "running"
                THEN [windows EXCEPT ![i] = "closing"] ELSE windows
  /\ UNCHANGED <<win, hooked, calls, delivered, quit, saves, diskVars>>

-----------------------------------------------------------------------------
(* Native windows *)

\* The user closes a window that was shown.
UserCloses(i) ==
  /\ windows[i] = "running" /\ win.handle = i /\ win.mode = "undocked"
  /\ Room
  /\ windows' = [windows EXCEPT ![i] = "closing"]
  /\ UNCHANGED <<win, hooked, opener, calls, delivered, quit, saves, diskVars>>

\* The platform dispatches a close: handleGolemWindowClosing decides.
CloseDispatched(i) ==
  LET cancelled == /\ i \in hooked /\ ~quit
                   /\ win.instance = i /\ win.handle = i /\ ~win.closeAuthorized
  IN
  /\ windows[i] = "closing"
  /\ windows' = [windows EXCEPT ![i] = IF cancelled THEN "running" ELSE "gone"]
  /\ calls' = calls \cup
       (IF cancelled THEN {Call("redock", i, 0)}
        ELSE IF i \in hooked /\ quit THEN {Call("quitsave", i, i)}
        ELSE {})
  /\ UNCHANGED <<win, hooked, opener, delivered, quit, saves, diskVars>>

\* scheduleGolemBoundsSave, for a window that moves
ScheduleGolemBoundsSave(i) ==
  /\ i \in hooked /\ windows[i] \in {"added", "running"}
  /\ ~quit
  /\ win.instance = i /\ ~win.closeAuthorized /\ ~Uncommitted(win)
  /\ win.saveGen < MaxMoved
  /\ win' = [win EXCEPT !.saveTimer = i]
  /\ UNCHANGED <<nativeVars, calls, delivered, quit, saves, diskVars>>

-----------------------------------------------------------------------------
(* Timers *)

SaveTimerFires ==
  /\ win.saveTimer # 0
  /\ win' = [win EXCEPT !.saveTimer = 0]
  /\ calls' = IF quit THEN calls ELSE calls \cup {Call("capture", win.saveTimer, 0)}
  /\ UNCHANGED <<nativeVars, delivered, quit, saves, diskVars>>

CaptureGolemFrame(c) ==
  /\ c.op = "capture"
  /\ IF win.instance = c.instance /\ ~Uncommitted(win)
     THEN /\ win' = [win EXCEPT !.saveGen = @ + 1]
          /\ Save(win', win.mode)
     ELSE UNCHANGED <<win, saves>>
  /\ Finish(c, {})
  /\ UNCHANGED <<nativeVars, delivered, quit, diskVars>>

DeadlineFires ==
  /\ win.deadline # 0
  /\ win' = [win EXCEPT !.deadline = 0]
  /\ calls' = IF quit THEN calls
              ELSE calls \cup {Call("timeout", win.instance, win.deadline)}
  /\ UNCHANGED <<nativeVars, delivered, quit, saves, diskVars>>

\* Ends the handoff of c, as far as the state says that it can be ended.
Undo(c) ==
  IF win.instance # c.instance \/ win.handoff # c.n \/ ~Open(win) THEN {}
  ELSE {Call(IF Uncommitted(win) THEN "abandon" ELSE "restore", c.instance, c.n)}

\* golemTransitionTimeout
GolemTransitionTimeout(c) ==
  /\ c.op = "timeout"
  /\ Finish(c, Undo(c))
  /\ UNCHANGED <<win, nativeVars, delivered, quit, saves, diskVars>>

\* restoreGolemReady
RestoreGolemReady(c) ==
  /\ c.op = "restore"
  /\ win' = IF CanRestore(win, c.instance, c.n) THEN Restore(win) ELSE win
  /\ Finish(c, {})
  /\ UNCHANGED <<nativeVars, delivered, quit, saves, diskVars>>

-----------------------------------------------------------------------------
(* Closing *)

\* CloseGolemWindow, called by either window
CloseGolemWindow ==
  /\ ~quit /\ Room
  /\ win.instance # 0
  /\ calls' = calls \cup {Call("redock", win.instance, 0)}
  /\ UNCHANGED <<win, nativeVars, delivered, quit, saves, diskVars>>

\* requestGolemReDock
RequestGolemReDock(c) ==
  /\ c.op = "redock"
  /\ \/ /\ CanReDock(win, c.instance)
        /\ win' = ReDock(win)
        /\ Finish(c, {})
     \/ /\ CanObserveAgain(win, c.instance)
        /\ win' = ObserveAgain(win)
        /\ Finish(c, {Call("observe", c.instance, win.handoff)})
     \/ /\ win.instance = c.instance /\ Uncommitted(win)
        /\ Finish(c, {Call("abandon", c.instance, win.handoff)})
        /\ UNCHANGED win
     \/ /\ ~CanReDock(win, c.instance) /\ ~CanObserveAgain(win, c.instance)
        /\ ~(win.instance = c.instance /\ Uncommitted(win))
        /\ Finish(c, {})
        /\ UNCHANGED win
  /\ UNCHANGED <<nativeVars, delivered, quit, saves, diskVars>>

\* ConfirmGolemWindowClose: the satellite heard that main has its drafts.
ConfirmGolemWindowClose(h) ==
  /\ ~quit /\ Room /\ Satellite
  /\ <<"ack", h>> \in delivered
  /\ CanAuthorize(win, win.instance, h, FALSE) /\ win.mode = "undocked"
  /\ calls' = calls \cup {Call("confirm", win.instance, h)}
  /\ UNCHANGED <<win, nativeVars, delivered, quit, saves, diskVars>>

\* authorizeGolemClose, up to the end of its critical section
AuthorizeGolemClose(c) ==
  /\ c.op \in {"confirm", "abandon"}
  /\ IF CanAuthorize(win, c.instance, c.n, c.op = "abandon")
     THEN /\ win' = Authorize(win)
          /\ Finish(c, IF win.handle = 0 THEN {} ELSE {Call("close", c.instance, c.n)})
     ELSE /\ Finish(c, {})
          /\ UNCHANGED win
  /\ UNCHANGED <<nativeVars, delivered, quit, saves, diskVars>>

\* ... handle.Close(), which does nothing to a window that does not run, and
\* the observer
CloseHandle(c) ==
  /\ c.op = "close"
  /\ windows' = IF windows[c.instance] = "running"
                THEN [windows EXCEPT ![c.instance] = "closing"] ELSE windows
  /\ Finish(c, {Call("observe", c.instance, c.n)})
  /\ UNCHANGED <<win, hooked, opener, delivered, quit, saves, diskVars>>

\* Whether the window manager knows the window.
Present(i) == windows[i] \in {"added", "running", "closing"}

\* waitGolemWindowRemoved: the window is gone, or the cap expires.
WaitGolemWindowRemoved(c) ==
  /\ c.op = "observe"
  /\ \E result \in (IF Present(c.instance) THEN {} ELSE {"removed"})
                    \cup (IF win.saveGen < MaxStalled \/ quit THEN {"stalled"} ELSE {}) :
       Finish(c, {Call(IF quit THEN "quitting" ELSE result, c.instance, c.n)})
  /\ UNCHANGED <<win, nativeVars, delivered, quit, saves, diskVars>>

\* mutant: an observer that gives up leaves its mark
ObserveGolemRetirementForgets(c) ==
  /\ c.op \in {"removed", "stalled", "quitting"}
  /\ LET retiring == /\ win.instance = c.instance /\ win.handoff = c.n
                     /\ win.closeAuthorized
     IN  IF retiring /\ c.op = "removed"
         THEN win' = Retire(win) /\ hooked' = hooked \ {c.instance} /\ Save(win', "docked")
         ELSE /\ win' = IF retiring /\ c.op = "stalled"
                        THEN Transition([win EXCEPT !.retirementFailed = TRUE])
                        ELSE win
              /\ UNCHANGED <<hooked, saves>>
  /\ Finish(c, {})
  /\ UNCHANGED <<windows, opener, delivered, quit, diskVars>>

\* observeGolemRetirement, its critical section
ObserveGolemRetirement(c) ==
  /\ c.op \in {"removed", "stalled", "quitting"}
  /\ LET retiring == /\ win.instance = c.instance /\ win.handoff = c.n
                     /\ win.closeAuthorized
         observed == [win EXCEPT !.observing = FALSE]
     IN  IF retiring /\ c.op = "removed"
         THEN win' = Retire(win) /\ hooked' = hooked \ {c.instance} /\ Save(win', "docked")
         ELSE /\ win' = IF retiring /\ c.op = "stalled"
                        THEN Transition([observed EXCEPT !.retirementFailed = TRUE])
                        ELSE observed
              /\ UNCHANGED <<hooked, saves>>
  /\ Finish(c, {})
  /\ UNCHANGED <<windows, opener, delivered, quit, diskVars>>

-----------------------------------------------------------------------------
(* Messages.  PostGolemWindowMessage checks the instance and the handoff in a *)
(* critical section of its own; the accept functions come later.              *)

Post(op) ==
  /\ Room /\ win.phase # "closed"
  /\ calls' = calls \cup {Call(op, win.instance, win.handoff)}
  /\ UNCHANGED <<win, nativeVars, delivered, quit, saves, diskVars>>

\* BootstrapGolemWindow
BootstrapGolemWindow ==
  /\ Satellite /\ win.phase = "bootstrapping"
  /\ win' = Bootstrap(win)
  /\ UNCHANGED <<nativeVars, calls, delivered, quit, saves, diskVars>>

PostView == ~win.view /\ Post("view")

\* Main transfers its drafts when it sees the window bootstrapped, and again if
\* no answer comes.
PostMainDrafts == win.phase = "bootstrapped" /\ Post("drafts")

\* The satellite confirms the map that it installed.
PostReady ==
  /\ Satellite /\ win.phase = "bootstrapped" /\ <<"drafts", win.handoff>> \in delivered
  /\ ~quit /\ Post("ready")

\* The satellite returns its drafts when it sees the window closing.
PostFinalDrafts ==
  Satellite /\ win.phase = "closing" /\ win.mode = "undocked" /\ Post("final")

\* Main accepts or refuses the returned map.
PostAck == <<"final", win.handoff>> \in delivered /\ (Post("ack") \/ Post("nack"))

\* Either window gives the transfer up.
PostAbort == ~quit /\ Open(win) /\ Post("abort")

Accept(c, ok, effect, message) ==
  /\ win' = IF ok THEN effect ELSE win
  /\ delivered' = IF ok THEN delivered \cup message ELSE delivered
  /\ Finish(c, {})
  /\ UNCHANGED <<nativeVars, quit, saves, diskVars>>

AcceptGolemView(c) ==
  /\ c.op = "view"
  /\ Accept(c, win.instance = c.instance, [win EXCEPT !.view = TRUE], {})

AcceptGolemDrafts(c) ==
  /\ c.op \in {"drafts", "final"}
  /\ Accept(c,
       CanRecordDrafts(win, IF c.op = "drafts" THEN "main" ELSE "satellite", c.instance, c.n),
       RecordDrafts(win, c.n), {<<c.op, c.n>>})

AcceptGolemAck(c) ==
  /\ c.op \in {"ack", "nack"}
  /\ Accept(c, CanRecordAck(win, c.instance, c.n), RecordAck(win, c.op = "ack"),
       IF c.op = "ack" THEN {<<"ack", c.n>>} ELSE {})

\* The undock commit; the preference is saved after it.
AcceptGolemReady(c) ==
  /\ c.op = "ready"
  /\ IF CanCommit(win, c.instance, c.n)
     THEN win' = Commit(win) /\ Save(win', "undocked")
     ELSE UNCHANGED <<win, saves>>
  /\ Finish(c, {})
  /\ UNCHANGED <<nativeVars, delivered, quit, diskVars>>

AcceptGolemAbort(c) ==
  /\ c.op = "abort"
  /\ Finish(c, Undo(c))
  /\ UNCHANGED <<win, nativeVars, delivered, quit, saves, diskVars>>

-----------------------------------------------------------------------------
(* Saving and quitting *)

\* mutant: writes are serialised but not ordered
SaveGolemPreferenceUnordered(s) ==
  /\ saves' = saves \ {s}
  /\ savedGen' = s.gen
  /\ \/ disk' = s.mode /\ saveError' = FALSE
     \/ saveError' = TRUE /\ UNCHANGED disk
  /\ UNCHANGED <<win, nativeVars, calls, delivered, quit>>

\* saveGolemPreference: a write may fail.
SaveGolemPreference(s) ==
  /\ saves' = saves \ {s}
  /\ IF s.gen < savedGen
     THEN UNCHANGED diskVars
     ELSE /\ savedGen' = s.gen
          /\ \/ disk' = s.mode /\ saveError' = FALSE
             \/ saveError' = TRUE /\ UNCHANGED disk
  /\ UNCHANGED <<win, nativeVars, calls, delivered, quit>>

\* The close drain permits the quit, then saves the frame.
PermitQuit ==
  /\ ~quit /\ win.saveGen < MaxQuit
  /\ quit' = TRUE
  /\ calls' = calls \cup {Call("shutdown", 0, 0)}
  /\ UNCHANGED <<win, nativeVars, delivered, saves, diskVars>>

SaveGolemFrameForShutdown(c) ==
  /\ c.op = "shutdown"
  /\ Finish(c, IF win.instance = 0 THEN {}
               ELSE {Call("quitsave", win.instance, win.handle)})
  /\ UNCHANGED <<win, nativeVars, delivered, quit, saves, diskVars>>

\* mutant: the live mode is saved
SaveGolemFrameLiveMode(c) ==
  /\ c.op = "quitsave"
  /\ IF win.instance = c.instance /\ win.handle = c.n
     THEN /\ win' = [win EXCEPT !.deadline = 0, !.saveTimer = 0, !.saveGen = @ + 1]
          /\ Save(win', win.mode)
     ELSE UNCHANGED <<win, saves>>
  /\ Finish(c, {})
  /\ UNCHANGED <<nativeVars, delivered, quit, diskVars>>

SaveGolemFrameForQuit(c) ==
  /\ c.op = "quitsave"
  /\ IF win.instance = c.instance /\ win.handle = c.n
     THEN /\ win' = [win EXCEPT !.deadline = 0, !.saveTimer = 0, !.saveGen = @ + 1]
          /\ IF Uncommitted(win)
             THEN UNCHANGED saves
             ELSE Save(win', IF win.closeAuthorized THEN "docked" ELSE win.mode)
     ELSE UNCHANGED <<win, saves>>
  /\ Finish(c, {})
  /\ UNCHANGED <<nativeVars, delivered, quit, diskVars>>

-----------------------------------------------------------------------------
(* Specification *)

Opener(i) ==
  \/ CreateGolemWindow(i) \/ AbandonGolemOpen(i) \/ InstallGolemWindow(i)
  \/ AddWindow(i) \/ RunWindow(i) \/ CheckGolemWindow(i)

Timers == SaveTimerFires \/ DeadlineFires

Windows ==
  \/ OpenGolemWindow \/ BootstrapGolemWindow \/ CloseGolemWindow
  \/ \E h \in Handoff : ConfirmGolemWindowClose(h)
  \/ PostView \/ PostMainDrafts \/ PostReady \/ PostFinalDrafts \/ PostAck \/ PostAbort
  \/ \E i \in Instance : UserCloses(i) \/ ScheduleGolemBoundsSave(i)

Goroutine(c) ==
  \/ ReserveGolemWindow(c) \/ CaptureGolemFrame(c) \/ GolemTransitionTimeout(c) \/ RestoreGolemReady(c)
  \/ RequestGolemReDock(c) \/ AuthorizeGolemClose(c) \/ CloseHandle(c)
  \/ WaitGolemWindowRemoved(c) \/ ObserveGolemRetirement(c)
  \/ AcceptGolemView(c) \/ AcceptGolemDrafts(c) \/ AcceptGolemAck(c)
  \/ AcceptGolemReady(c) \/ AcceptGolemAbort(c)
  \/ SaveGolemFrameForShutdown(c) \/ SaveGolemFrameForQuit(c)

Next ==
  \/ Windows \/ Timers \/ PermitQuit
  \/ \E i \in Instance : Opener(i) \/ CloseDispatched(i)
  \/ \E c \in calls : Goroutine(c)
  \/ \E s \in saves : SaveGolemPreference(s)

Spec == Init /\ [][Next]_vars

\* Timers fire, and the goroutines that open a window or end a handoff run.  The
\* user, the two pages, the platform and the drain need not do anything.
Fairness ==
  /\ WF_vars(Timers)
  /\ \A i \in Instance : WF_vars(Opener(i))
  /\ \A op \in {"timeout", "restore", "abandon"} :
       WF_vars(\E c \in calls : c.op = op /\ Goroutine(c))

FairSpec == Spec /\ Fairness

-----------------------------------------------------------------------------
(* Properties *)

\* Type correctness.
TypeOK ==
  /\ win \in golemWindowRuntime
  /\ windows \in [Instance -> {"none", "made", "added", "running", "closing", "gone"}]
  /\ hooked \subseteq Instance
  /\ opener \in [Instance -> {"none", "create", "install", "add", "run", "check", "done"}]
  /\ calls \subseteq [op : Op, instance : 0..MaxInstance, n : 0..MaxHandoff \cup Instance]
  /\ delivered \subseteq {"drafts", "final", "ack"} \X Handoff
  /\ quit \in BOOLEAN
  /\ saves \subseteq [gen : Nat, mode : Mode] /\ savedGen \in Nat
  /\ saveError \in BOOLEAN /\ disk \in Mode

\* The window of a satellite that owns the drafts is closed only after main said
\* that it has the map of this very handoff.
CloseEarned ==
  win.closeAuthorized /\ win.mode = "undocked" =>
    /\ <<"final", win.handoff>> \in delivered
    /\ <<"ack", win.handoff>> \in delivered

\* Once the close is authorized nothing but the retirement ends it.
NoWayBack ==
  [][win.closeAuthorized =>
       /\ win'.phase = (IF win'.closeAuthorized THEN "closing" ELSE "closed")
       /\ win'.instance \in {win.instance, 0}]_vars

\* observing says that an observer of this window will report.
ObserverCounted ==
  LET observers ==
        {c \in calls : c.op \in {"close", "observe", "removed", "stalled", "quitting"}}
  IN  /\ win.observing <=> observers # {}
      /\ Cardinality(observers) <= 1

\* A transition that can still be undone has a deadline that will undo it, unless
\* the application quits.
DeadlineSet ==
  win.handle # 0 /\ Open(win) /\ ~quit =>
    \/ win.deadline = win.handoff
    \/ \E c \in calls :
         /\ c.op \in {"timeout", "restore", "abandon"}
         /\ c.instance = win.instance /\ c.n = win.handoff

\* What a window that retires, or may be undone, relies on.
RetirementSound == TypeOK /\ ObserverCounted /\ DeadlineSet

\* A window that runs is the current one and not one whose close was authorized,
\* unless its close is still to be issued.
NoStrayWindow ==
  \A i \in Instance :
    windows[i] = "running" /\ (win.handle # i \/ win.closeAuthorized) =>
      \/ opener[i] = "check"
      \/ \E c \in calls : c.op = "close" /\ c.instance = i

\* When no write is pending and the last one succeeded, the file says what the
\* committed state says.
PreferenceSettled ==
  saves = {} /\ ~saveError /\ savedGen > 0 =>
    /\ win.phase = "ready" => disk = "undocked"
    /\ win.phase = "closed" => disk = "docked"

\* An attempt that is not committed saves nothing, so a restore that is
\* interrupted keeps the preference it restores.
UncommittedSavesNothing ==
  [][Uncommitted(win) /\ Uncommitted(win') => saves' \subseteq saves]_vars

\* A handoff that Go can undo ends.
HandoffEnds ==
  \A h \in Handoff : win.handoff = h /\ Open(win) /\ ~quit
                       ~> win.handoff # h \/ ~Open(win) \/ quit

=============================================================================
