----------------------------- MODULE GolemRelay -----------------------------
(***************************************************************************)
(* The two Golem windows around the machine of GolemMachine: the main      *)
(* window's relay (golem/windowRelay.ts), the satellite's client           *)
(* (golem/windowSatellite.ts) and the protocol cores of both               *)
(* (golem/relayCore.ts).  Calls reach Go in any order, what Go relays and  *)
(* the states it publishes are delivered in any order, and a relayed       *)
(* message may be lost; timers post it again.                              *)
(*                                                                         *)
(* One conversation: a composer draft, which the windows hand to each      *)
(* other, and one queued turn, whose text only main owns.  Every text is a *)
(* new number; 0 is the empty draft.                                       *)
(***************************************************************************)
EXTENDS GolemMachine, FiniteSets, Sequences

CONSTANTS
  Casts  \* bounds of a behaviour: [types, sends, edits, undocks, docks, retries, drops, rejects,
         \* refuses, stalls], attempts, the posts of a message before its outcome is uncertain, and
         \* prompt, whether main gets the events in order and before a ten-second deadline runs out

VARIABLES
  win,       \* App.golemWin
  kept,      \* the projection Go keeps for a bootstrap
  emitted,   \* state snapshots that a window has not installed
  posts,     \* calls of PostGolemWindowMessage in flight: [from, m]
  inbox,     \* window -> messages relayed to it
  main,      \* the owner in the main window and its core
  sat,       \* the owner in the satellite and its core
  texts,     \* texts typed so far
  wanted,    \* the draft the user last saw accepted: typed, or cleared by a Send
  sent,      \* the texts of executed Sends, in order
  asked,     \* the user's last edit of the queued turn, 0 once it was refused
  left       \* what is left of the behaviour's bounds

vars == <<win, kept, emitted, posts, inbox, main, sat, texts, wanted, sent, asked, left>>
Ghosts == <<texts, wanted, sent, asked>>
Wire == <<posts, inbox>>
Go == <<win, kept, emitted>>

None == [handoff |-> 0]
NoJob == [id |-> 0]
NoEdit == [id |-> 0]
NoView == [rev |-> 0, through |-> 0, item |-> 0]

Has(what) == left[what] > 0
Spend(what) == left' = [left EXCEPT ![what] = @ - 1]

\* golemWindowRuntime.snapshot
Snapshot(w) ==
  [rev |-> w.stateRevision, phase |-> w.phase, mode |-> w.mode, instance |-> w.instance,
   handoff |-> w.handoff, stalled |-> w.retirementFailed]

Init ==
  /\ left \in Casts
  /\ win = Loaded("docked") /\ kept = NoView /\ emitted = {} /\ posts = {}
  /\ inbox = [w \in {"main", "sat"} |-> {}]
  /\ main = [state |-> Snapshot(win), frozen |-> FALSE, draft |-> 0, item |-> 0,
             rev |-> 0, watermark |-> 0, highest |-> 0, acks |-> {}, job |-> NoJob,
             transfer |-> None, returned |-> {}, cleared |-> 0, closing |-> 0, pending |-> {},
             undock |-> "none", dock |-> "none"]
  /\ sat = [core |-> 0, state |-> Snapshot(win), draft |-> 0, installed |-> {}, view |-> NoView,
            error |-> 0, deferred |-> None, queue |-> <<>>, next |-> 0, settled |-> 0,
            locked |-> FALSE, edit |-> NoEdit, blocked |-> FALSE, hand |-> None]
  /\ texts = 0 /\ wanted = 0 /\ sent = <<>> /\ asked = 0

-----------------------------------------------------------------------------
(* Go.                                                                      *)

Emits(w) == win' = w /\ emitted' = emitted \cup {Snapshot(w)}

Posting(from, ms) == {[from |-> from, m |-> m] : m \in ms}

\* checkGolemHandoff and the rule of each kind.
Accepts(from, m) ==
  /\ win.phase # "closed" /\ m.instance = win.instance
  /\ m.kind \in {"drafts", "ready", "abort"} => m.handoff = win.handoff
  /\ m.kind = "ack" => m.handoff \in {0, win.handoff}
  /\ CASE m.kind = "view" -> m.rev > kept.rev
       [] m.kind = "drafts" -> CanRecordDrafts(win, from, m.instance, m.id)
       [] m.kind = "ack" /\ m.handoff # 0 -> CanRecordAck(win, m.instance, m.id)
       [] m.kind = "action" -> win.phase \in {"ready", "closing"}
       [] m.kind = "ready" ->
            \/ win.phase = "ready" /\ m.id = win.transferID
            \/ CanCommit(win, m.instance, m.id)
       [] m.kind = "abort" -> Open(win) /\ m.handoff = win.handoff
       [] OTHER -> TRUE

\* What an accepted message makes of the machine.
Recorded(m) ==
  CASE m.kind = "view" -> [win EXCEPT !.view = TRUE]
    [] m.kind = "drafts" -> RecordDrafts(win, m.id)
    [] m.kind = "ack" /\ m.handoff # 0 -> RecordAck(win, m.ok)
    [] m.kind = "ready" /\ win.phase = "bootstrapped" -> Commit(win)
    [] m.kind = "abort" -> IF win.phase = "closing" THEN Restore(win) ELSE Authorize(win)
    [] OTHER -> win

Other(w) == IF w = "main" THEN "sat" ELSE "main"

\* The message is relayed to the other window, if that exists; it may be lost on the way.
Relay(p, lost) ==
  LET m == p.m to == Other(p.from) IN
  /\ Accepts(p.from, m)
  /\ lost => Has("drops") /\ m.kind # "view"
  /\ left' = IF lost THEN [left EXCEPT !.drops = @ - 1] ELSE left
  /\ posts' = posts \ {p}
  /\ inbox' = IF lost \/ (to = "sat" /\ win.handle = 0) THEN inbox ELSE [inbox EXCEPT ![to] = @ \cup {m}]
  /\ IF Recorded(m).stateRevision # win.stateRevision THEN Emits(Recorded(m))
     ELSE win' = Recorded(m) /\ UNCHANGED emitted
  /\ kept' = IF m.kind = "view" THEN [rev |-> m.rev, through |-> m.through, item |-> m.item] ELSE kept
  /\ UNCHANGED <<main, sat, Ghosts>>

\* What the sender of a refused post does: a view is followed by a view-error, and the ready of
\* an installed map, not of a copy (n), by an abort.
Refused(m) ==
  CASE m.kind = "view" /\ m.instance = main.state.instance ->
         Posting("main", {[kind |-> "view-error", instance |-> m.instance, rev |-> m.rev]})
    [] m.kind = "ready" /\ m.n = 0 ->
         Posting("sat", {[kind |-> "abort", instance |-> m.instance, handoff |-> m.handoff]})
    [] OTHER -> {}

\* An action waits for Retry; the satellite's transfer has no timer after a refusal, as after
\* its last attempt, and is left to Go's deadline.
Unsent(p) ==
  CASE p.m.kind = "action" /\ sat.queue # <<>> /\ Head(sat.queue).id = p.m.id ->
         [sat EXCEPT !.queue[1].posted = FALSE]
    [] p.from = "sat" /\ p.m.kind = "drafts" /\ sat.hand # None /\ sat.hand.handoff = p.m.handoff ->
         [sat EXCEPT !.hand.tries = left.attempts]
    [] OTHER -> sat

\* A refused post: by Go's rules, or for what the model does not count (its size).
Refuse(p) ==
  /\ ~Accepts(p.from, p.m) \/ (Has("rejects") /\ p.m.kind \in {"view", "action", "drafts"})
  /\ left' = IF Accepts(p.from, p.m) THEN [left EXCEPT !.rejects = @ - 1] ELSE left
  /\ posts' = (posts \ {p}) \cup Refused(p.m)
  /\ sat' = Unsent(p)
  /\ UNCHANGED <<Go, inbox, main, Ghosts>>

\* OpenGolemWindow; it may fail before there is a window.
OpenGolemWindow ==
  /\ main.undock = "opening"
  /\ IF CanReserve(win)
     THEN /\ kept' = NoView
          /\ \/ Emits(Install(Reserve(win), Reserve(win).instance))
                /\ main' = [main EXCEPT !.undock = "open"] /\ UNCHANGED left
             \/ Has("refuses") /\ Spend("refuses") /\ Emits(Retire(Reserve(win)))
                /\ main' = [main EXCEPT !.undock = "refused"]
     ELSE /\ main' = [main EXCEPT !.undock = IF win.phase \in {"closed", "closing"} THEN "refused" ELSE "open"]
          /\ UNCHANGED <<Go, left>>
  /\ UNCHANGED <<Wire, sat, Ghosts>>

\* CloseGolemWindow, by either window.
CloseGolemWindow ==
  /\ win.instance # 0
  /\ CASE Uncommitted(win) -> Emits(Authorize(win))
       [] CanReDock(win, win.instance) -> Emits(ReDock(win))
       [] CanObserveAgain(win, win.instance) -> Emits(ObserveAgain(win))
       [] OTHER -> UNCHANGED <<win, emitted>>
  /\ UNCHANGED kept

\* The one bounded deadline of both transitions.
Deadline ==
  /\ win.deadline # 0
  /\ left.prompt => main.state.rev = win.stateRevision
  /\ IF Uncommitted(win) THEN Emits(Authorize(win))
     ELSE CanRestore(win, win.instance, win.deadline) /\ Emits(Restore(win))
  /\ UNCHANGED <<kept, Wire, main, sat, Ghosts, left>>

\* The window leaves the manager and takes the satellite's page along.
Retired ==
  /\ win.observing /\ Emits(Retire(win))
  /\ inbox' = [inbox EXCEPT !.sat = {}] /\ posts' = {p \in posts : p.from = "main"}
  /\ sat' = [sat EXCEPT !.core = 0, !.state = Snapshot(win'), !.draft = 0, !.installed = {},
               !.view = NoView, !.error = 0, !.deferred = None, !.queue = <<>>, !.next = 0, !.settled = 0,
               !.locked = FALSE, !.edit = NoEdit, !.blocked = FALSE, !.hand = None]
  /\ UNCHANGED <<kept, main, Ghosts, left>>

\* Or it does not within its cap.
Stalls ==
  /\ win.observing /\ Has("stalls") /\ Spend("stalls")
  /\ Emits(Transition([win EXCEPT !.observing = FALSE, !.retirementFailed = TRUE]))
  /\ UNCHANGED <<kept, Wire, main, sat, Ghosts>>

-----------------------------------------------------------------------------
(* Main.                                                                    *)

Interactive(m) == ~m.frozen

View(m) == [kind |-> "view", instance |-> m.state.instance, rev |-> m.rev, through |-> m.watermark,
            item |-> m.item]

\* A transfer of the docked map, once per handoff and read here; a retry posts the same message.
Drafts(m) == [kind |-> "drafts", instance |-> m.state.instance, handoff |-> m.transfer.handoff,
              id |-> m.transfer.handoff, text |-> m.transfer.text, n |-> m.transfer.tries]

\* Another instance binds a new core, which publishes; no window disposes of it.
BindCore(m, s) ==
  IF s.instance = m.state.instance THEN m
  ELSE [m EXCEPT !.rev = IF s.instance = 0 THEN 0 ELSE 1, !.watermark = 0, !.highest = 0, !.acks = {},
                 !.job = NoJob, !.transfer = None, !.returned = {}]

\* The first ready of an instance: the drafts are the satellite's from here.
Hands(m, s) ==
  IF m.cleared = s.instance THEN m ELSE [m EXCEPT !.draft = 0, !.cleared = s.instance]

StopsTransfer(m) == [m EXCEPT !.transfer = IF @ = None THEN @ ELSE [@ EXCEPT !.done = TRUE]]

StartsTransfer(m, s) ==
  IF m.transfer.handoff = s.handoff THEN m
  ELSE [m EXCEPT !.transfer = [handoff |-> s.handoff, text |-> m.draft, tries |-> 1, done |-> FALSE]]

\* Mutant: the barrier goes up when the window is ready.
FreezesAtReady(s) == s.phase = "ready"

\* The barrier stays up until Go says that no window exists.
Freezes(s) == s.phase # "closed"

\* What a newer snapshot does, by its phase.
Installed(m, s) ==
  CASE s.phase = "bootstrapped" -> StartsTransfer(m, s)
    [] s.phase = "ready" ->
         LET n == Hands(StopsTransfer(m), s) IN
         [n EXCEPT !.dock = IF m.closing = s.instance THEN "none" ELSE @, !.closing = 0, !.undock = "none"]
    [] s.phase = "closing" ->
         [m EXCEPT !.closing = s.instance,
                   !.dock = IF s.stalled /\ m.closing = s.instance THEN "none" ELSE @]
    [] s.phase = "closed" ->
         [StopsTransfer(m) EXCEPT !.closing = 0, !.dock = "none",
                   !.undock = IF @ \in {"opening", "none"} THEN @ ELSE "none"]
    [] OTHER -> m

\* installState, then what was held is looked at again (Unheld).
InstallState(s) ==
  /\ s \in emitted \cup {Snapshot(win)} /\ s.rev > main.state.rev
  /\ left.prompt => \A e \in emitted : e.rev <= main.state.rev \/ e.rev >= s.rev
  /\ LET bound == [BindCore(main, s) EXCEPT !.state = s, !.frozen = Freezes(s)]
         next == Installed(bound, s)
     IN
       /\ main' = [next EXCEPT !.pending = {}]
       /\ inbox' = [inbox EXCEPT !.main = @ \cup main.pending]
       /\ posts' = posts
            \cup (IF s.instance # 0 /\ s.instance # main.state.instance
                  THEN Posting("main", {View([bound EXCEPT !.state = s])}) ELSE {})
            \cup (IF next.transfer # bound.transfer /\ s.phase = "bootstrapped"
                  THEN Posting("main", {Drafts(next)}) ELSE {})
  /\ emitted' = {e \in emitted : e.rev > s.rev \/ e.rev > sat.state.rev}
  /\ UNCHANGED <<win, kept, sat, Ghosts, left>>

TransferPosted(m) == \A p \in posts : ~(p.from = "main" /\ p.m.kind = "drafts")

\* The transfer timer: post again, or give up and tell Go.
RetryTransfer ==
  /\ main.transfer # None /\ ~main.transfer.done /\ TransferPosted(main)
  /\ IF main.transfer.tries < left.attempts
     THEN /\ main' = [main EXCEPT !.transfer.tries = @ + 1]
          /\ posts' = posts \cup Posting("main", {Drafts(main')})
     ELSE /\ main' = [main EXCEPT !.transfer.done = TRUE]
          /\ posts' = posts \cup Posting("main", {[kind |-> "abort", instance |-> main.state.instance,
                                                  handoff |-> main.transfer.handoff]})
  /\ UNCHANGED <<Go, inbox, sat, Ghosts, left>>

\* Whether an envelope belongs to the installed state, is ahead of it, or is stale.
Gate(s, m) ==
  CASE m.instance > s.instance -> "ahead"
    [] s.instance = 0 \/ m.instance # s.instance -> "reject"
    [] m.kind = "abort" -> "accept"
    [] m.kind = "action" ->
         IF s.phase \in {"ready", "closing"} THEN "accept" ELSE IF s.phase = "closed" THEN "reject" ELSE "ahead"
    [] m.kind \in {"drafts", "ready"} /\ m.handoff > s.handoff -> "ahead"
    [] m.kind \in {"drafts", "ready"} /\ m.handoff < s.handoff -> "reject"
    [] m.kind = "drafts" ->
         IF s.phase = "closing" THEN "accept" ELSE IF s.phase = "closed" THEN "reject" ELSE "ahead"
    [] m.kind = "ready" ->
         IF s.phase \in {"bootstrapped", "ready"} THEN "accept"
         ELSE IF s.phase = "bootstrapping" THEN "ahead" ELSE "reject"

\* Held: the state that explains it is on its way, and is asked for.
Hold(m) ==
  /\ m \in inbox.main /\ Gate(main.state, m) = "ahead" /\ m \notin main.pending
  /\ main' = [main EXCEPT !.pending = @ \cup {m}]
  /\ inbox' = [inbox EXCEPT !.main = @ \ {m}]
  /\ UNCHANGED <<Go, posts, sat, Ghosts, left>>

Reject(m) ==
  /\ m \in inbox.main /\ Gate(main.state, m) = "reject"
  /\ inbox' = [inbox EXCEPT !.main = @ \ {m}]
  /\ UNCHANGED <<Go, posts, main, sat, Ghosts, left>>

Takes(m) == m \in inbox.main /\ Gate(main.state, m) = "accept" /\ inbox' = [inbox EXCEPT !.main = @ \ {m}]

MainReady(m) ==
  /\ m.kind = "ready" /\ Takes(m)
  /\ main' = IF main.transfer.handoff = m.handoff THEN StopsTransfer(main) ELSE main
  /\ UNCHANGED <<Go, posts, sat, Ghosts, left>>

MainAbort(m) ==
  /\ m.kind = "abort" /\ Takes(m)
  /\ main' = StopsTransfer(main)
  /\ UNCHANGED <<Go, posts, sat, Ghosts, left>>

Known(m) == (\E a \in main.acks : a.id = m.id) \/ main.job.id = m.id

\* A repeated id is answered with what was answered before; an older one is refused.
MainAction(m) ==
  /\ m.kind = "action" /\ Takes(m)
  /\ \/ /\ ~Known(m) /\ m.id > main.highest /\ main.job = NoJob
        /\ main' = [main EXCEPT !.highest = m.id, !.acks = {},
                      !.job = [id |-> m.id, what |-> m.what, text |-> m.text, ok |-> FALSE, rev |-> 0]]
        /\ UNCHANGED posts
     \/ /\ Known(m) /\ UNCHANGED main
        /\ posts' = posts \cup Posting("main", {a \in main.acks : a.id = m.id})
     \/ /\ ~Known(m) /\ m.id <= main.highest /\ UNCHANGED main
        /\ posts' = posts \cup
             Posting("main", {[kind |-> "ack", instance |-> m.instance, handoff |-> 0, id |-> m.id, ok |-> FALSE]})
  /\ UNCHANGED <<Go, sat, Ghosts, left>>

\* The store admits the action or refuses it, and the watermark covers it either way.
Execute(ok) ==
  /\ main.job # NoJob /\ main.job.rev = 0 /\ main.watermark < main.job.id
  /\ ~ok => Has("refuses")
  /\ left' = IF ok THEN left ELSE [left EXCEPT !.refuses = @ - 1]
  /\ main' = [main EXCEPT !.watermark = main.job.id, !.job.ok = ok,
                !.item = IF ok /\ main.job.what = "edit" THEN main.job.text ELSE @]
  /\ sent' = IF ok /\ main.job.what = "send" THEN Append(sent, main.job.text) ELSE sent
  /\ UNCHANGED <<Go, Wire, sat, texts, wanted, asked>>

ViewPosted == \A p \in posts : ~(p.from = "main" /\ p.m.kind = "view")

\* A projection that carries the watermark goes out before the acknowledgement.
PublishForAck ==
  /\ main.job # NoJob /\ main.job.rev = 0 /\ main.watermark = main.job.id /\ ViewPosted
  /\ main' = [main EXCEPT !.rev = @ + 1, !.job.rev = main.rev + 1]
  /\ posts' = posts \cup Posting("main", {View(main')})
  /\ UNCHANGED <<Go, inbox, sat, Ghosts, left>>

PostAck ==
  /\ main.job # NoJob /\ main.job.rev # 0 /\ ViewPosted
  /\ LET ack == [kind |-> "ack", instance |-> main.state.instance, handoff |-> 0, id |-> main.job.id,
                 ok |-> main.job.ok] IN
       /\ main' = [main EXCEPT !.job = NoJob, !.acks = {ack}]
       /\ posts' = posts \cup Posting("main", {ack})
  /\ UNCHANGED <<Go, inbox, sat, Ghosts, left>>

Owned(m) == main.state.mode = "undocked"

\* The returned map is installed once, after the admitted actions; a repeated transfer is
\* answered with what it was answered first.
MainDrafts(m) ==
  /\ m.kind = "drafts" /\ Takes(m) /\ main.job = NoJob
  /\ LET ack == [kind |-> "ack", instance |-> m.instance, handoff |-> m.handoff, id |-> m.id, ok |-> Owned(m)]
     IN
       /\ IF \E a \in main.returned : a.handoff = m.handoff
          THEN UNCHANGED main
          ELSE main' = [main EXCEPT !.returned = {ack}, !.draft = IF Owned(m) THEN m.text ELSE @]
       /\ posts' = posts \cup Posting("main", main'.returned)
  /\ UNCHANGED <<Go, sat, Ghosts, left>>

\* The barrier goes up before the window is asked for.
Undock ==
  /\ Has("undocks") /\ Spend("undocks")
  /\ main.undock = "none" /\ main.state.phase # "ready"
  /\ main' = [main EXCEPT !.frozen = TRUE, !.undock = "opening"]
  /\ UNCHANGED <<Go, Wire, sat, Ghosts>>

\* The binding's own answer settles an attempt that Go refused.
UndockRefused ==
  /\ main.undock = "refused"
  /\ main' = [main EXCEPT !.undock = "none", !.frozen = Freezes(main.state)]
  /\ UNCHANGED <<Go, Wire, sat, Ghosts, left>>

\* Go took the open and retired the window before the call returned.
UndockRetired ==
  /\ main.undock = "open" /\ main.state.phase = "closed" /\ main.state.rev = win.stateRevision
  /\ main' = [main EXCEPT !.undock = "none"]
  /\ UNCHANGED <<Go, Wire, sat, Ghosts, left>>

DockFromMain ==
  /\ Has("docks") /\ Spend("docks")
  /\ main.dock = "none" /\ main.state.phase \in {"ready", "closing"} /\ main.state.instance # 0
  /\ IF win.instance = 0 THEN UNCHANGED <<win, kept, emitted>> ELSE CloseGolemWindow
  /\ main' = [main EXCEPT !.dock = IF emitted' = emitted /\ main.state.phase = "closing" /\ main.state.stalled
                                   THEN "none" ELSE "docking"]
  /\ UNCHANGED <<Wire, sat, Ghosts>>

TypeMain ==
  /\ Has("types") /\ Spend("types") /\ Interactive(main)
  /\ texts' = texts + 1 /\ wanted' = texts' /\ main' = [main EXCEPT !.draft = texts']
  /\ UNCHANGED <<Go, Wire, sat, sent, asked>>

-----------------------------------------------------------------------------
(* The satellite.                                                           *)

Live == sat.core # 0 /\ win.handle = sat.core

\* The one rule for the interaction barrier.
SatInteractive ==
  /\ Live /\ sat.error = 0 /\ sat.installed # {} /\ sat.view # NoView
  /\ sat.state.instance = sat.core /\ sat.state.phase = "ready"

\* BootstrapGolemWindow: the instance, the state and the projection Go keeps.
BootstrapGolemWindow ==
  /\ win.handle # 0 /\ sat.core = 0 /\ win.phase \in {"bootstrapping", "bootstrapped"}
  /\ LET w == Bootstrap(win) IN
       /\ IF w = win THEN UNCHANGED <<win, emitted>> ELSE Emits(w)
       /\ sat' = [sat EXCEPT !.core = w.instance, !.state = Snapshot(w), !.view = kept]
  /\ UNCHANGED <<kept, Wire, main, Ghosts, left>>

\* Mutant: the overlay goes when the acknowledgement arrives.
DroppedAtAck(e, v) == IF e # NoEdit /\ e.settled # 0 THEN NoEdit ELSE e

\* A view covers the edits its watermark has reached.
Dropped(e, v) == IF e # NoEdit /\ e.settled # 0 /\ v.through >= e.settled THEN NoEdit ELSE e

\* Installing the main window's map, and the ready that quotes it; n is 0 for the one the
\* install posts and the copy's number for one that answers a copy.
Takeover(s, m) == [s EXCEPT !.draft = m.text, !.installed = {m.handoff}]
Ready(m, n) == Posting("sat", {[kind |-> "ready", instance |-> m.instance, handoff |-> m.handoff, id |-> m.id,
                                n |-> n]})

FromMain(m) == Live /\ m \in inbox.sat /\ inbox' = [inbox EXCEPT !.sat = @ \ {m}]

\* A newer projection; the transfer that waited for the first one is installed.
SatView(m) ==
  /\ m.kind = "view" /\ FromMain(m)
  /\ IF m.rev <= sat.view.rev \/ m.rev < sat.error \/ m.instance # sat.core
     THEN UNCHANGED <<sat, posts>>
     ELSE LET v == [rev |-> m.rev, through |-> m.through, item |-> m.item]
              s == [sat EXCEPT !.view = v, !.error = 0, !.edit = Dropped(sat.edit, v), !.deferred = None] IN
          IF sat.view = NoView /\ sat.deferred # None
          THEN sat' = Takeover(s, sat.deferred) /\ posts' = posts \cup Ready(sat.deferred, 0)
          ELSE sat' = s /\ UNCHANGED posts
  /\ UNCHANGED <<Go, main, Ghosts, left>>

SatViewError(m) ==
  /\ m.kind = "view-error" /\ FromMain(m)
  /\ sat' = IF m.rev <= sat.view.rev \/ m.rev <= sat.error THEN sat ELSE [sat EXCEPT !.error = m.rev]
  /\ UNCHANGED <<Go, posts, main, Ghosts, left>>

\* Mutant: every copy of the transfer is installed.
SameTransfer(m) == FALSE

Repeated(m) == m.handoff \in sat.installed

\* The transfer belongs to the live handoff of a window that is brought up; a copy of it is
\* answered again and not installed over what was typed since.
SatDrafts(m) ==
  /\ m.kind = "drafts" /\ FromMain(m)
  /\ IF sat.state.phase \in {"closed", "closing"} \/ m.handoff # sat.state.handoff \/ m.instance # sat.core
     THEN UNCHANGED <<sat, posts>>
     ELSE IF Repeated(m) THEN UNCHANGED sat /\ posts' = posts \cup Ready(m, m.n)
     ELSE IF sat.view = NoView THEN sat' = [sat EXCEPT !.deferred = m] /\ UNCHANGED posts
     ELSE sat' = Takeover(sat, m) /\ posts' = posts \cup Ready(m, 0)
  /\ UNCHANGED <<Go, main, Ghosts, left>>

\* Mutant: an action is posted again under a new id.
Renumbered(s) ==
  LET h == Head(s.queue) IN
  [kind |-> "action", instance |-> s.core, handoff |-> 0, id |-> h.id + h.tries - 1, what |-> h.what,
   text |-> h.text, n |-> h.tries]

\* The first entry that was not posted goes out.
Action(s) ==
  LET h == Head(s.queue) IN
  [kind |-> "action", instance |-> s.core, handoff |-> 0, id |-> h.id, what |-> h.what, text |-> h.text,
   n |-> h.tries]
Pumped(s) ==
  IF s.queue = <<>> \/ Head(s.queue).posted THEN s
  ELSE [s EXCEPT !.queue[1].posted = TRUE, !.queue[1].tries = 1]
Pump(s) == IF s.queue # <<>> /\ ~Head(s.queue).posted THEN Posting("sat", {Action(Pumped(s))}) ELSE {}

Enqueue(what, text, s) ==
  LET t == [s EXCEPT !.next = @ + 1,
              !.queue = Append(@, [id |-> s.next + 1, what |-> what, text |-> text, tries |-> 0, posted |-> FALSE])]
  IN sat' = Pumped(t) /\ posts' = posts \cup Pump(t)

Send ==
  /\ Has("sends") /\ Spend("sends")
  /\ SatInteractive /\ ~sat.blocked /\ ~sat.locked /\ sat.draft # 0
  /\ Enqueue("send", sat.draft, [sat EXCEPT !.locked = TRUE])
  /\ UNCHANGED <<Go, inbox, main, Ghosts>>

\* An edit of the queued turn is painted at once.
EditQueued ==
  /\ Has("edits") /\ Spend("edits") /\ SatInteractive /\ ~sat.blocked
  /\ texts' = texts + 1 /\ asked' = texts'
  /\ Enqueue("edit", texts', [sat EXCEPT !.edit = [id |-> sat.next + 1, text |-> texts', settled |-> 0]])
  /\ UNCHANGED <<Go, inbox, main, wanted, sent>>

Painted == IF sat.edit = NoEdit THEN sat.view.item ELSE sat.edit.text

\* Main's answer: an accepted Send clears its draft, a refused edit its overlay; the next goes out.
SatAck(m) ==
  /\ m.kind = "ack" /\ m.handoff = 0 /\ FromMain(m)
  /\ IF sat.queue = <<>> \/ Head(sat.queue).id # m.id
     THEN UNCHANGED <<sat, posts, wanted, asked>>
     ELSE LET e == Head(sat.queue)
              send == e.what = "send"
              mine == sat.edit # NoEdit /\ sat.edit.id = m.id
              s == [sat EXCEPT !.queue = Tail(@), !.settled = m.id,
                      !.draft = IF send /\ m.ok THEN 0 ELSE @, !.locked = IF send THEN FALSE ELSE @,
                      !.edit = CASE mine /\ m.ok -> Dropped([sat.edit EXCEPT !.settled = m.id], NoView)
                                 [] mine /\ ~m.ok -> NoEdit
                                 [] OTHER -> @] IN
          /\ sat' = Pumped(s) /\ posts' = posts \cup Pump(s)
          /\ wanted' = IF send /\ m.ok THEN 0 ELSE wanted
          /\ asked' = IF mine /\ ~m.ok THEN 0 ELSE asked
  /\ UNCHANGED <<Go, main, texts, sent, left>>

ActionPosted == \A p \in posts : ~(p.from = "sat" /\ p.m.kind = "action")

\* The acknowledgement timer; after the last attempt the outcome stays uncertain.
RetryAction ==
  /\ Live /\ sat.queue # <<>> /\ Head(sat.queue).posted /\ ActionPosted
  /\ Head(sat.queue).tries < left.attempts
  /\ sat' = [sat EXCEPT !.queue[1].tries = @ + 1]
  /\ posts' = posts \cup Posting("sat", {Action(sat')})
  /\ UNCHANGED <<Go, inbox, main, Ghosts, left>>

\* Retry connection: the oldest action is posted again, or a stalled close asked for again.
RetryGolemConnection ==
  /\ Live /\ Has("retries") /\ Spend("retries")
  /\ IF sat.state.phase = "closing"
     THEN sat.state.stalled /\ CloseGolemWindow /\ UNCHANGED <<sat, posts>>
     ELSE /\ sat.queue # <<>> /\ sat' = [sat EXCEPT !.queue[1].posted = TRUE, !.queue[1].tries = 1]
          /\ posts' = posts \cup Posting("sat", {Action(sat')})
          /\ UNCHANGED Go
  /\ UNCHANGED <<inbox, main, Ghosts>>

TypeSat ==
  /\ Has("types") /\ Spend("types") /\ SatInteractive /\ ~sat.locked
  /\ texts' = texts + 1 /\ wanted' = texts' /\ sat' = [sat EXCEPT !.draft = texts']
  /\ UNCHANGED <<Go, Wire, main, sent, asked>>

RequestReDock ==
  /\ Live /\ Has("docks") /\ Spend("docks") /\ CloseGolemWindow
  /\ UNCHANGED <<Wire, main, sat, Ghosts>>

\* Mutant: an aborted handoff leaves the barrier up.
StaysBlocked(s, handoff) == IF s.hand.handoff = handoff /\ s.hand # None THEN [s EXCEPT !.hand = None] ELSE s

\* An ended transfer: the barrier comes down whether or not it had been answered.
Aborted(s, handoff) ==
  IF s.hand.handoff = handoff /\ s.hand # None THEN [s EXCEPT !.blocked = FALSE, !.hand = None] ELSE s

\* A closing of a window that was ready raises the barrier and starts the transfer back.
SatInstallState(s) ==
  /\ Live /\ s \in emitted /\ s.rev > sat.state.rev
  /\ LET t == [sat EXCEPT !.state = s]
         mine == s.instance = sat.core IN
     sat' = CASE mine /\ s.phase = "ready" -> Aborted(t, s.handoff)
              [] mine /\ s.phase = "closing" /\ s.mode = "undocked" /\ sat.hand.handoff # s.handoff ->
                   [t EXCEPT !.blocked = TRUE, !.next = @ + 1,
                             !.hand = [handoff |-> s.handoff, id |-> s.handoff, text |-> 0, tries |-> 0, step |-> "drain"]]
              [] OTHER -> t
  /\ emitted' = {e \in emitted : e.rev > s.rev \/ e.rev > main.state.rev}
  /\ UNCHANGED <<win, kept, Wire, main, Ghosts, left>>

Returned(s) == [kind |-> "drafts", instance |-> s.core, handoff |-> s.hand.handoff, id |-> s.hand.id,
                text |-> s.hand.text, n |-> s.hand.tries]

\* Mutant: the map is read before the queue has drained.
ReadsEarly == TRUE

Drained == sat.queue = <<>>

\* The map is read after the drain: an admitted Send has cleared its draft.
PostDrafts ==
  /\ Live /\ sat.hand # None /\ sat.hand.step = "drain" /\ Drained
  /\ sat' = [sat EXCEPT !.hand.step = "posted", !.hand.text = sat.draft, !.hand.tries = 1]
  /\ posts' = posts \cup Posting("sat", {Returned(sat')})
  /\ UNCHANGED <<Go, inbox, main, Ghosts, left>>

RetryDrafts ==
  /\ Live /\ sat.hand # None /\ sat.hand.step = "posted" /\ sat.hand.tries < left.attempts
  /\ \A p \in posts : ~(p.from = "sat" /\ p.m.kind = "drafts")
  /\ sat' = [sat EXCEPT !.hand.tries = @ + 1]
  /\ posts' = posts \cup Posting("sat", {Returned(sat')})
  /\ UNCHANGED <<Go, inbox, main, Ghosts, left>>

AbortOf(s) == Posting("sat", {[kind |-> "abort", instance |-> s.core, handoff |-> s.hand.handoff]})

\* Main's answer to the transfer; a refusal ends it here and, while Go believes in it, there.
SatHandoffAck(m) ==
  /\ m.kind = "ack" /\ m.handoff # 0 /\ FromMain(m)
  /\ IF sat.hand = None \/ sat.hand.step # "posted" \/ sat.hand.id # m.id
     THEN UNCHANGED <<sat, posts>>
     ELSE IF m.ok THEN sat' = [sat EXCEPT !.hand.step = "confirm"] /\ UNCHANGED posts
     ELSE sat' = Aborted(sat, m.handoff) /\ posts' = posts \cup AbortOf(sat)
  /\ UNCHANGED <<Go, main, Ghosts, left>>

\* ConfirmGolemWindowClose, the native close authorization.
Confirm ==
  /\ Live /\ sat.hand # None /\ sat.hand.step = "confirm"
  /\ IF CanAuthorize(win, sat.core, sat.hand.handoff, FALSE)
     THEN Emits(Authorize(win)) /\ sat' = [sat EXCEPT !.hand.step = "closing"] /\ UNCHANGED posts
     ELSE /\ sat' = Aborted(sat, sat.hand.handoff)
          /\ posts' = IF sat.state.phase = "closing" THEN posts \cup AbortOf(sat) ELSE posts
          /\ UNCHANGED <<win, emitted>>
  /\ UNCHANGED <<kept, inbox, main, Ghosts, left>>

SatAbort(m) ==
  /\ m.kind = "abort" /\ FromMain(m)
  /\ sat' = Aborted(sat, m.handoff)
  /\ UNCHANGED <<Go, posts, main, Ghosts, left>>

MainSteps ==
  \/ \E s \in emitted \cup {Snapshot(win)} : InstallState(s)
  \/ \E m \in inbox.main : Hold(m) \/ Reject(m) \/ MainReady(m) \/ MainAbort(m) \/ MainAction(m) \/ MainDrafts(m)
  \/ RetryTransfer \/ (\E ok \in BOOLEAN : Execute(ok)) \/ PublishForAck \/ PostAck
  \/ UndockRefused \/ UndockRetired

SatSteps ==
  \/ BootstrapGolemWindow
  \/ \E s \in emitted : SatInstallState(s)
  \/ \E m \in inbox.sat :
       SatView(m) \/ SatViewError(m) \/ SatDrafts(m) \/ SatAck(m) \/ SatHandoffAck(m) \/ SatAbort(m)
  \/ RetryAction \/ PostDrafts \/ RetryDrafts \/ Confirm

GoSteps ==
  \/ \E p \in posts : (\E lost \in BOOLEAN : Relay(p, lost)) \/ Refuse(p)
  \/ OpenGolemWindow \/ Deadline \/ Retired \/ Stalls

User ==
  \/ Undock \/ DockFromMain \/ TypeMain \/ TypeSat \/ Send \/ EditQueued \/ RequestReDock
  \/ RetryGolemConnection

Next == MainSteps \/ SatSteps \/ GoSteps \/ User

Spec == Init /\ [][Next]_vars

\* Calls return, events arrive, timers run out and a window that was closed goes away; nobody
\* has to type or click, and nothing has to be lost or to stall.
System ==
  \/ MainSteps \/ SatSteps \/ OpenGolemWindow \/ Deadline \/ Retired
  \/ \E p \in posts : Relay(p, FALSE) \/ Refuse(p)

FairSpec == Spec /\ WF_vars(System)

-----------------------------------------------------------------------------
(* Properties.                                                              *)

\* The composer is never live in both windows (the interaction barrier of the handoff).
OneEditor == ~(Interactive(main) /\ SatInteractive)

\* Whichever window accepts input shows what the user left: typed text is not lost in a
\* handoff, however it ends, and what was submitted does not come back.
DraftKept ==
  /\ Interactive(main) /\ main.undock = "none" => main.draft = wanted
  /\ SatInteractive => sat.draft = wanted

\* A submitted text is executed once, however often it is posted, and an action the user was
\* told of was executed.
SentOnce == \A i, j \in DOMAIN sent : sent[i] = sent[j] => i = j

\* An undock or a dock always settles, and a window accepts input again, unless the native
\* window stalls or its projection could not be published.
Settled ==
  \/ win.retirementFailed
  \/ /\ main.undock = "none" /\ main.dock = "none"
     /\ Interactive(main) \/ (SatInteractive /\ ~sat.blocked) \/ sat.error # 0

HandoffSettles == left.prompt => []<>Settled

\* An edit of the queued turn stays on screen until the projection carries it.
NoSnapBack == SatInteractive /\ asked # 0 => Painted = asked
=============================================================================
