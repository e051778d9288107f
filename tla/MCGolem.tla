---------------------------- MODULE MCGolem ----------------------------
(*****************************************************************************)
(* The Golem tab and its windows, a behaviour is of one component: the       *)
(* handoff of the drafts between the two windows, the native window while the *)
(* application quits, and the close of the application.                      *)
(*****************************************************************************)
EXTENDS Integers, Sequences, FiniteSets, TLC

VARIABLES
  part,  \* the component this behaviour is of
  win, kept, emitted, posts, inbox, main, sat, texts, wanted, sent, asked, left, windows, hooked,
  opener, calls, delivered, quit, saves, savedGen, saveError, disk, epoch, draining, live, root,
  lpc, target, lepoch, launch, born, hpc, hroot, archived, closePhase, handshake, armed, fired,
  again, tpc, runShutdown, active, atShutdown

Handoff(t, s, e, u, d, y, x, j, f, l, a, p) ==
  [types |-> t, sends |-> s, edits |-> e, undocks |-> u, docks |-> d, retries |-> y, drops |-> x,
   rejects |-> j, refuses |-> f, stalls |-> l, attempts |-> a, prompt |-> p]
Handoffs ==
  {Handoff(1, 1, 0, 1, 1, 0, 0, 0, 0, 0, 1, TRUE), Handoff(1, 0, 0, 1, 1, 0, 1, 1, 1, 1, 1, TRUE),
   Handoff(0, 0, 1, 1, 0, 1, 1, 1, 0, 0, 1, FALSE), Handoff(1, 1, 0, 1, 0, 0, 1, 0, 0, 0, 2, FALSE),
   Handoff(0, 0, 2, 1, 0, 0, 0, 0, 1, 0, 1, FALSE)}

H == INSTANCE GolemRelay WITH MaxInstance <- 2, MaxHandoff <- 3, Casts <- Handoffs
W == INSTANCE GolemWindow WITH MaxInstance <- 1, MaxHandoff <- 1, MaxCalls <- 1, MaxMoved <- 0,
                               MaxStalled <- 0, MaxQuit <- 9
A == INSTANCE AppRuns WITH Roots <- {"w"}, Callers <- {"c"}, Run <- {"r"}, NoRoot <- "",
                           LastEpoch <- 3, MaxCloses <- 2

\* The variables of the other components, which a behaviour of this one leaves alone.
HRest == <<part, windows, hooked, opener, calls, delivered, quit, saves, savedGen, saveError, disk,
           epoch, draining, live, root, lpc, target, lepoch, launch, born, hpc, hroot, archived,
           closePhase, handshake, armed, fired, again, tpc, runShutdown, active, atShutdown>>
WRest == <<part, kept, emitted, posts, inbox, main, sat, texts, wanted, sent, asked, left, epoch,
           draining, live, root, lpc, target, lepoch, launch, born, hpc, hroot, archived,
           closePhase, handshake, armed, fired, again, tpc, runShutdown, active, atShutdown>>
ARest == <<part, win, kept, emitted, posts, inbox, main, sat, texts, wanted, sent, left, windows,
           hooked, opener, calls, delivered, quit, saves, savedGen, saveError, disk>>

vars == <<part, win, kept, emitted, posts, inbox, main, sat, texts, wanted, sent, asked, left, windows,
          hooked, opener, calls, delivered, quit, saves, savedGen, saveError, disk, epoch,
          draining, live, root, lpc, target, lepoch, launch, born, hpc, hroot, archived,
          closePhase, handshake, armed, fired, again, tpc, runShutdown, active, atShutdown>>

Init ==
  \/ /\ part = "relay" /\ H!Init
     /\ windows = 0 /\ hooked = 0 /\ opener = 0 /\ calls = 0 /\ delivered = 0 /\ quit = 0
     /\ saves = 0 /\ savedGen = 0 /\ saveError = 0 /\ disk = 0 /\ epoch = 0 /\ draining = 0
     /\ live = 0 /\ root = 0 /\ lpc = 0 /\ target = 0 /\ lepoch = 0 /\ launch = 0 /\ born = 0
     /\ hpc = 0 /\ hroot = 0 /\ archived = 0 /\ closePhase = 0 /\ handshake = 0 /\ armed = 0
     /\ fired = 0 /\ again = 0 /\ tpc = 0 /\ runShutdown = 0 /\ active = 0 /\ atShutdown = 0
  \/ /\ part = "window" /\ W!Init
     /\ kept = 0 /\ emitted = 0 /\ posts = 0 /\ inbox = 0 /\ main = 0 /\ sat = 0 /\ texts = 0
     /\ wanted = 0 /\ sent = 0 /\ asked = 0 /\ left = 0 /\ epoch = 0 /\ draining = 0 /\ live = 0
     /\ root = 0 /\ lpc = 0 /\ target = 0 /\ lepoch = 0 /\ launch = 0 /\ born = 0 /\ hpc = 0
     /\ hroot = 0 /\ archived = 0 /\ closePhase = 0 /\ handshake = 0 /\ armed = 0 /\ fired = 0
     /\ again = 0 /\ tpc = 0 /\ runShutdown = 0 /\ active = 0 /\ atShutdown = 0
  \/ /\ part = "close" /\ A!Init
     /\ win = 0 /\ kept = 0 /\ emitted = 0 /\ posts = 0 /\ inbox = 0 /\ main = 0 /\ sat = 0
     /\ texts = 0 /\ wanted = 0 /\ sent = 0 /\ left = 0 /\ windows = 0 /\ hooked = 0 /\ opener = 0
     /\ calls = 0 /\ delivered = 0 /\ quit = 0 /\ saves = 0 /\ savedGen = 0 /\ saveError = 0
     /\ disk = 0

HStep == part = "relay" /\ H!Next /\ UNCHANGED HRest
WStep == part = "window" /\ W!Next /\ UNCHANGED WRest
AStep == part = "close" /\ A!Next /\ UNCHANGED ARest

Next == HStep \/ WStep \/ AStep

Spec == Init /\ [][Next]_vars

\* The fairness of the two windows and of the close (see their modules).
FairSpec ==
  /\ Spec
  /\ WF_vars(part = "relay" /\ H!System /\ UNCHANGED HRest)
  /\ WF_vars(part = "window" /\ W!Timers /\ UNCHANGED WRest)
  /\ WF_vars(part = "window" /\ W!Opener(1) /\ UNCHANGED WRest)
  /\ \A op \in {"timeout", "restore", "abandon"} :
       WF_vars(part = "window" /\ (\E c \in calls : c.op = op /\ W!Goroutine(c)) /\ UNCHANGED WRest)
  /\ WF_vars(part = "close" /\ A!Teardown /\ UNCHANGED ARest)
  /\ WF_vars(part = "close" /\ (A!BackstopFires \/ A!ForceClose) /\ UNCHANGED ARest)
  /\ \A h \in 1..2 : WF_vars(part = "close" /\ A!BackstopCloses(h) /\ UNCHANGED ARest)

-----------------------------------------------------------------------------
(* The composer is never live in both windows; whichever accepts input      *)
(* shows what the user left, an edit of the queued turn stays on screen     *)
(* until the projection carries it, and a submitted text is executed once.  *)
ComposerSound == part = "relay" => H!OneEditor /\ H!DraftKept /\ H!NoSnapBack /\ H!SentOnce

(* An undock or a dock settles, and a window accepts input again.           *)
HandoffSettles ==
  (part = "relay" /\ left.prompt)
    ~> (part = "relay" => H!Settled)

(* A handoff that Go can undo ends.                                         *)
HandoffEnds ==
  (part = "window" /\ win.handoff = 1 /\ W!Open(win) /\ ~quit)
    ~> (part = "window" => win.handoff # 1 \/ ~W!Open(win) \/ quit)

(* An attempt that is not committed saves nothing, so a restore that a quit *)
(* interrupts keeps the preference it restores.                             *)
UncommittedSavesNothing ==
  [][part = "window" /\ W!Uncommitted(win) /\ W!Uncommitted(win)' => saves' \subseteq saves]_vars

(* A close request ends in a quit unless it is cancelled, even if the       *)
(* frontend never answers.                                                  *)
CloseEnds ==
  (part = "close" /\ closePhase \in {"awaiting", "draining"})
    ~> (part = "close" => closePhase = "idle" \/ tpc = "quit")
=============================================================================
