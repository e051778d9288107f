------------------------------ MODULE GolemChat ------------------------------
(***************************************************************************)
(* One Golem conversation: the store of the main window                    *)
(* (stores/golemStore.ts), the bridge that binds it to the repository      *)
(* (hooks/useGolemBridge.ts) and the AI service it calls                   *)
(* (internal/ai/service.go).  A call reaches Go some time after it was     *)
(* made and its answer comes back some time later, in any order; events    *)
(* arrive in the order in which Go emitted them.                           *)
(*                                                                         *)
(* The repository is closed and opened again under a new epoch; the        *)
(* conversation keeps its ID.  A message is a number, and so is a run.     *)
(***************************************************************************)
EXTENDS Integers, Sequences, FiniteSets

CONSTANTS
  Casts  \* bounds of a behaviour: [submits, retries, cancels, chats, reopens, refreshes, expiries,
         \* refuses, fails, reloads, remote, rushed]: remote, whether the destination needs consent;
         \* rushed, whether the repository may be closed while a grant is in flight, a New chat be
         \* answered before a status that Go read earlier, and a run end without Golem's own terminal
         \* when the binding it belongs to is gone

VARIABLES
  go,      \* the service: its binding, the conversation's record and its session history
  events,  \* emitted and not yet delivered
  calls,   \* bound calls that were made and not yet answered
  chain,   \* the bridge's serialized bind and unbind calls
  bridge,  \* [open, gen, epoch, ask, batch]: what the bridge's effects keep
  view,    \* the store
  late,    \* runs whose challenge has expired
  tries,   \* message -> how often the user sent it
  starts,  \* message -> how often the service started a run for it
  gone,    \* [msg, by]: messages that a New chat or a reload took away
  left     \* what is left of the behaviour's bounds

vars == <<go, events, calls, chain, bridge, view, late, tries, starts, gone, left>>
Ghosts == <<tries, starts, gone>>

Has(what) == left[what] > 0
Spend(what) == left' = [left EXCEPT ![what] = @ - 1]

MaxRuns == 4
Ids == 1 .. MaxRuns

NoRun == [phase |-> "none", msg |-> 0, epoch |-> 0]
NoFailed == 0
Terminal(ph) == ph \in {"done", "failed", "canceled"}

\* The store of a window that has just started; UUIDs are never used twice.
FreshView(next) ==
  [known |-> FALSE, epoch |-> 0, phase |-> "unbound", hydrated |-> 0, floor |-> 0,
   runs |-> [r \in Ids |-> NoRun], active |-> 0, queue |-> <<>>, consent |-> 0, failed |-> NoFailed,
   resetting |-> "no", shown |-> {}, answered |-> {}, unknown |-> [r \in Ids |-> "none"],
   next |-> next, out |-> {}]

FreshBridge == [open |-> FALSE, gen |-> 0, epoch |-> 0, ask |-> 0, batch |-> {}]

Idle == [run |-> 0, epoch |-> 0, state |-> "idle", msg |-> 0, step |-> 0]

Init ==
  /\ left \in Casts
  /\ go = [epoch |-> 0, seq |-> 0, conv |-> Idle, consented |-> ~left.remote, history |-> {}, ending |-> {}]
  /\ events = <<>> /\ calls = {} /\ chain = <<>> /\ bridge = FreshBridge /\ view = FreshView(0)
  /\ late = {} /\ gone = {}
  /\ tries = [m \in Ids |-> 0] /\ starts = [m \in Ids |-> 0]

-----------------------------------------------------------------------------
(* The store.                                                               *)

Busy(v) == v.active # 0 \/ v.consent # 0

\* Send is allowed only into the conversation the backend just hydrated.
SendRefused(v) == ~v.known \/ v.resetting # "no" \/ v.phase # "ready" \/ v.hydrated # v.epoch

\* A run of this message under a new ID, and the call that asks for it.
Started(v, m) ==
  LET r == v.next + 1 IN
  [v EXCEPT !.next = r, !.runs[r] = [phase |-> "admitting", msg |-> m, epoch |-> v.epoch], !.active = r,
            !.shown = {s \in @ : s.msg # m} \cup {[msg |-> m, run |-> r]},
            !.out = @ \cup {[kind |-> "turn", run |-> r, msg |-> m, epoch |-> v.epoch, granted |-> FALSE, ans |-> "none"]}]

Shown(v) == {s.msg : s \in v.shown}
Queued(v) == {v.queue[i].msg : i \in DOMAIN v.queue}

\* Mutant: the turn stays in the queue when it is dispatched.
StaysQueued(v, i, m) == Started(v, m)

Dequeued(v, i, m) == Started([v EXCEPT !.queue = SubSeq(@, 1, i - 1) \o SubSeq(@, i + 1, Len(@))], m)

QueuedAt(v) == {i \in DOMAIN v.queue : v.queue[i].state = "queued"}
First(S) == CHOOSE i \in S : \A j \in S : i <= j

\* At most the first staged turn starts; a New chat in flight holds it, a stale epoch stages it again.
Dispatched(v) ==
  IF Busy(v) \/ QueuedAt(v) = {} THEN v
  ELSE LET i == First(QueuedAt(v)) IN
       IF v.resetting # "no" THEN [v EXCEPT !.resetting = "held"]
       ELSE IF v.phase # "ready" \/ v.hydrated # v.epoch THEN [v EXCEPT !.queue[i].state = "reopen-required"]
       ELSE Dequeued(v, i, v.queue[i].msg)

\* A pending consent turn that can no longer be granted stays retryable.
Released(v) ==
  LET r == v.consent IN
  [v EXCEPT !.consent = 0, !.failed = v.runs[r].msg, !.active = IF @ = r THEN 0 ELSE @,
            !.runs[r].phase = IF Terminal(@) THEN @ ELSE "failed"]

DropExpired(v) == IF v.consent # 0 /\ v.consent \in late THEN Released(v) ELSE v

\* Mutant: a terminal is applied to a run that already ended.
Reopens(v, r) == FALSE

Tombstone(v, r) == Terminal(v.runs[r].phase)

\* One terminal is applied once; a run that answered nothing is a failed outcome.
Finished(v, r, ph) ==
  IF Tombstone(v, r) THEN v
  ELSE LET lost == ph = "failed" \/ (ph = "done" /\ r \notin v.answered)
           pending == v.consent = r
           m == v.runs[r].msg IN
       Dispatched([v EXCEPT !.runs[r].phase = ph, !.active = IF @ = r THEN 0 ELSE @,
                            !.consent = IF pending THEN 0 ELSE @,
                            !.failed = IF (pending \/ lost) /\ m # 0 THEN m ELSE @])

\* upsertRun: an event of a run that the store does not know.
Known(v, r) == IF v.runs[r].phase = "none" THEN [v EXCEPT !.runs[r].phase = "running"] ELSE v

\* What one delivered event does; a terminal of an unknown conversation is kept for its status.
Reduced(v, e) ==
  IF ~v.known THEN IF Terminal(e.type) /\ v.unknown[e.run] = "none" THEN [v EXCEPT !.unknown[e.run] = e.type] ELSE v
  ELSE LET k == Known(v, e.run) IN
       CASE e.type = "delta" -> [k EXCEPT !.answered = @ \cup {e.run}]
         [] e.type = "started" ->
              IF Terminal(k.runs[e.run].phase) \/ k.runs[e.run].phase = "canceling" THEN k
              ELSE [k EXCEPT !.runs[e.run].phase = "running", !.consent = IF @ = e.run THEN 0 ELSE @]
         [] OTHER -> Finished(k, e.run, e.type)

\* ingestRunStatus: the fallback terminal names its run, and one of another identity is dropped.
StatusReduced(v, e) ==
  IF v.known /\ v.epoch # e.epoch THEN v
  ELSE IF ~v.known THEN Reduced(v, e)
  ELSE IF v.runs[e.run].phase # "none" /\ v.runs[e.run].epoch # e.epoch THEN v
  ELSE Finished(v, e.run, e.type)

Ran(v, r) == v.runs[r].phase = "admitting"

\* The answer to a turn advances only the run that still waits for it.
Admitted(v, c) ==
  IF ~Ran(v, c.run) THEN v
  ELSE CASE c.ans = "accepted" ->
              [v EXCEPT !.runs[c.run].phase = "running", !.active = IF @ = 0 THEN c.run ELSE @,
                        !.consent = IF @ = c.run THEN 0 ELSE @]
         [] c.ans = "consent" /\ c.epoch >= v.floor ->
              [v EXCEPT !.runs[c.run].phase = "needs-consent", !.active = c.run, !.consent = c.run]
         [] c.ans = "refused" /\ c.granted -> [v EXCEPT !.runs[c.run].phase = "needs-consent"]
         [] OTHER -> [v EXCEPT !.runs[c.run].phase = "failed", !.active = IF @ = c.run THEN 0 ELSE @,
                               !.failed = c.msg]

\* One run that a status lists as live.
Adopted(v, a) ==
  IF v.unknown[a.run] # "none"
  THEN [v EXCEPT !.runs[a.run] = [phase |-> v.unknown[a.run], msg |-> 0, epoch |-> a.epoch]]
  ELSE IF Tombstone(v, a.run) THEN v
  ELSE [v EXCEPT !.runs[a.run] = [@ EXCEPT !.phase = a.state, !.epoch = a.epoch],
                 !.active = IF @ = 0 THEN a.run ELSE @]

\* hydrateStatus; a status that resolved no workspace is a binding failure.
Hydrated(v, s) ==
  IF s.epoch = 0 THEN [v EXCEPT !.phase = "error", !.hydrated = 0]
  ELSE IF s.epoch < v.floor THEN v
  ELSE LET rearmed == \E i \in DOMAIN v.queue : v.queue[i].state = "reopen-required"
           u == [v EXCEPT !.known = TRUE, !.floor = s.epoch, !.epoch = s.epoch,
                          !.queue = [i \in DOMAIN @ |-> [@[i] EXCEPT !.state = "queued"]]]
           w == IF s.active.run = 0 THEN u ELSE Adopted(u, s.active)
           h == [w EXCEPT !.unknown = [r \in Ids |-> "none"], !.phase = "ready", !.hydrated = s.epoch] IN
       IF rearmed THEN Dispatched(h) ELSE h

\* Mutant: the prompt of a challenge that the service drops is not put back.
Shelves(v) == [v EXCEPT !.consent = 0, !.active = IF @ = v.consent THEN 0 ELSE @,
                        !.shown = {s \in @ : s.run # v.consent}]

\* Unconsumed challenges go with the binding; the prompt goes back into the queue.
Shelved(v) ==
  [v EXCEPT !.consent = 0, !.active = IF @ = v.consent THEN 0 ELSE @,
            !.runs[v.consent].phase = IF Terminal(@) THEN @ ELSE "canceled",
            !.queue = Append(@, [msg |-> v.runs[v.consent].msg, state |-> "reopen-required"])]

Invalidated(v) ==
  LET s == IF v.consent # 0 THEN Shelved(v) ELSE v IN
  [s EXCEPT !.queue = [i \in DOMAIN @ |-> [@[i] EXCEPT !.state = "reopen-required"]],
            !.hydrated = 0, !.phase = "unbound"]

\* A reset that ends with the view kept releases only a dispatch that it held back.
ResetKept(v) == IF v.resetting = "held" THEN Dispatched([v EXCEPT !.resetting = "no"]) ELSE [v EXCEPT !.resetting = "no"]

Cleared(v) ==
  [v EXCEPT !.resetting = "no", !.runs = [r \in Ids |-> NoRun], !.active = 0, !.queue = <<>>, !.consent = 0,
            !.failed = NoFailed, !.shown = {}, !.answered = {}]

Installs(v) == view' = [v EXCEPT !.out = {}]
Asks(v) == calls \cup v.out

-----------------------------------------------------------------------------
(* The user.                                                                *)

Message == 1 + Cardinality({m \in Ids : tries[m] > 0})

\* Send: a busy conversation queues the message.
SubmitTurn ==
  /\ Has("submits") /\ Spend("submits") /\ ~SendRefused(view) /\ view.next < MaxRuns
  /\ LET v == DropExpired(view)
         w == IF Busy(v) THEN [v EXCEPT !.queue = Append(@, [msg |-> Message, state |-> "queued"])]
              ELSE Started(v, Message) IN
       Installs(w) /\ calls' = Asks(w)
  /\ tries' = [tries EXCEPT ![Message] = 1]
  /\ UNCHANGED <<go, events, chain, bridge, late, starts, gone>>

\* The grant names the challenge on screen; an expired one is released instead.
AllowAndSend ==
  /\ ~SendRefused(view) /\ view.consent # 0
  /\ IF view.consent \in late THEN Installs(Released(view)) /\ UNCHANGED calls
     ELSE LET r == view.consent IN
          /\ view.runs[r].phase = "needs-consent"
          /\ view' = [view EXCEPT !.runs[r].phase = "admitting"]
          /\ calls' = calls \cup {[kind |-> "turn", run |-> r, msg |-> view.runs[r].msg,
                                   epoch |-> view.runs[r].epoch, granted |-> TRUE, ans |-> "none"]}
  /\ UNCHANGED <<go, events, chain, bridge, late, Ghosts, left>>

RetryLastFailed ==
  /\ Has("retries") /\ Spend("retries") /\ ~SendRefused(view) /\ view.next < MaxRuns
  /\ LET v == DropExpired(view) IN
       /\ v.failed # NoFailed /\ ~Busy(v)
       /\ LET w == [Started(v, v.failed) EXCEPT !.failed = NoFailed] IN
            /\ Installs(w) /\ calls' = Asks(w)
            /\ tries' = [tries EXCEPT ![v.failed] = @ + 1]
  /\ UNCHANGED <<go, events, chain, bridge, late, starts, gone>>

CancelRun(r) ==
  /\ Has("cancels") /\ Spend("cancels") /\ view.runs[r].phase \in {"running", "needs-consent"}
  /\ IF view.consent = r /\ r \in late THEN Installs(Released(view)) /\ UNCHANGED calls
     ELSE /\ view' = [view EXCEPT !.runs[r].phase = "canceling"]
          /\ calls' = calls \cup {[kind |-> "cancel", run |-> r, msg |-> 0, epoch |-> view.runs[r].epoch,
                                   was |-> view.runs[r].phase, ans |-> "none"]}
  /\ UNCHANGED <<go, events, chain, bridge, late, Ghosts>>

\* New chat: the backend first, and nothing is admitted until it answered.
ClearConversation ==
  /\ Has("chats") /\ Spend("chats")
  /\ view.known /\ view.resetting = "no" /\ ~Busy(view) /\ view.hydrated = view.epoch
  /\ view' = [view EXCEPT !.resetting = "pending"]
  /\ calls' = calls \cup {[kind |-> "reset", run |-> 0, msg |-> 0, epoch |-> view.epoch, ans |-> "none"]}
  /\ UNCHANGED <<go, events, chain, bridge, late, Ghosts>>

-----------------------------------------------------------------------------
(* The bridge.                                                              *)

\* Closing the repository: the binding is invalid at once, the unbind waits in the chain.
CloseRepository ==
  /\ bridge.open
  /\ ~left.rushed => \A c \in calls : ~(c.kind = "turn" /\ c.granted)
  /\ bridge' = [bridge EXCEPT !.open = FALSE, !.gen = @ + 1, !.epoch = 0, !.ask = @ + 1]
  /\ Installs(Invalidated(view))
  /\ chain' = Append(chain, [op |-> "unbind", gen |-> 0, ans |-> -1])
  /\ UNCHANGED <<go, events, calls, late, Ghosts, left>>

OpenRepository ==
  /\ ~bridge.open /\ Has("reopens") /\ Spend("reopens")
  /\ bridge' = [bridge EXCEPT !.open = TRUE, !.gen = @ + 1]
  /\ view' = [view EXCEPT !.phase = "binding"]
  /\ chain' = Append(chain, [op |-> "bind", gen |-> bridge.gen + 1, ans |-> -1])
  /\ UNCHANGED <<go, events, calls, late, Ghosts>>

StatusCall(epoch, n) == [kind |-> "status", run |-> 0, msg |-> n, epoch |-> epoch, ans |-> "none",
                          seen |-> [epoch |-> 0]]

\* A fallback terminal that was not delivered yet.
FallbackOut == (\E e \in go.ending : e.status) \/ \E i \in DOMAIN events : events[i].status

\* The bound epoch is installed, and its status asked for, unless a later bind superseded it.
BindAnswered ==
  /\ ~left.rushed => ~FallbackOut
  /\ chain # <<>> /\ Head(chain).ans >= 0 /\ chain' = Tail(chain)
  /\ IF Head(chain).op = "bind" /\ Head(chain).gen = bridge.gen
     THEN /\ bridge' = [bridge EXCEPT !.epoch = Head(chain).ans, !.ask = @ + 1]
          /\ calls' = calls \cup {StatusCall(Head(chain).ans, bridge.ask + 1)}
     ELSE UNCHANGED <<bridge, calls>>
  /\ UNCHANGED <<go, events, view, late, Ghosts, left>>

\* golem:status-changed asks again, and an earlier request is superseded.
StatusChanged ==
  /\ Has("refreshes") /\ Spend("refreshes") /\ bridge.epoch # 0
  /\ bridge' = [bridge EXCEPT !.ask = @ + 1]
  /\ calls' = calls \cup {StatusCall(bridge.epoch, bridge.ask + 1)}
  /\ UNCHANGED <<go, events, chain, view, late, Ghosts>>

Flush(v) == [v EXCEPT !.answered = IF v.known THEN @ \cup bridge.batch ELSE @]

\* Deltas wait for a frame; any other event flushes them first.
DeliverEvent ==
  /\ events # <<>> /\ events' = Tail(events)
  /\ LET e == Head(events) IN
     IF e.type = "delta"
     THEN bridge' = [bridge EXCEPT !.batch = @ \cup {e.run}] /\ UNCHANGED <<view, calls>>
     ELSE LET v == IF e.status THEN StatusReduced(Flush(view), e) ELSE Reduced(Flush(view), e) IN
          /\ bridge' = [bridge EXCEPT !.batch = {}]
          /\ Installs(v) /\ calls' = Asks(v)
  /\ UNCHANGED <<go, chain, late, Ghosts, left>>

Frame ==
  /\ bridge.batch # {}
  /\ bridge' = [bridge EXCEPT !.batch = {}] /\ Installs(Flush(view))
  /\ UNCHANGED <<go, events, calls, chain, late, Ghosts, left>>

Answered(c) == c \in calls /\ c.ans # "none"

TurnAnswered(c) ==
  /\ c.kind = "turn" /\ Answered(c)
  /\ Installs(Admitted(view, c)) /\ calls' = calls \ {c}
  /\ UNCHANGED <<go, events, chain, bridge, late, Ghosts, left>>

\* A rejected cancellation rolls back; a challenge that is gone releases its prompt.
CancelAnswered(c) ==
  /\ c.kind = "cancel" /\ Answered(c) /\ calls' = calls \ {c}
  /\ IF c.ans = "ok" \/ view.runs[c.run].phase # "canceling" THEN UNCHANGED view
     ELSE IF view.consent = c.run THEN Installs(Released(view))
     ELSE view' = [view EXCEPT !.runs[c.run].phase = c.was]
  /\ UNCHANGED <<go, events, chain, bridge, late, Ghosts, left>>

\* Mutant: the view is cleared by a reset that was refused.
ClearsAnyway(c) == ~Busy(view)

\* The backend was reset, and nothing became live meanwhile.
Clears(c) == c.ans = "ok" /\ ~Busy(view)

StatusOut == \E c \in calls : c.kind = "status" /\ c.ans # "none" /\ c.msg = bridge.ask

ResetAnswered(c) ==
  /\ c.kind = "reset" /\ Answered(c)
  /\ ~left.rushed => ~StatusOut
  /\ LET v == IF Clears(c) THEN Cleared(view) ELSE IF c.ans = "ok" THEN [view EXCEPT !.resetting = "no"] ELSE ResetKept(view) IN
       /\ Installs(v) /\ calls' = (calls \ {c}) \cup v.out
       /\ gone' = IF Clears(c) THEN gone \cup {[msg |-> m, by |-> "chat"] : m \in Shown(view) \cup Queued(view)} ELSE gone
  /\ UNCHANGED <<go, events, chain, bridge, late, tries, starts, left>>

StatusAnswered(c) ==
  /\ c.kind = "status" /\ Answered(c)
  /\ IF c.msg # bridge.ask \/ bridge.epoch # c.epoch THEN UNCHANGED view /\ calls' = calls \ {c}
     ELSE LET v == Hydrated(view, c.seen) IN Installs(v) /\ calls' = (calls \ {c}) \cup v.out
  /\ UNCHANGED <<go, events, chain, bridge, late, Ghosts, left>>

\* The page is loaded again; what the service does goes on.
Reload ==
  /\ Has("reloads") /\ Spend("reloads")
  /\ view' = FreshView(view.next) /\ bridge' = [FreshBridge EXCEPT !.ask = bridge.ask, !.gen = bridge.gen]
  /\ calls' = {} /\ chain' = <<>> /\ events' = <<>>
  /\ gone' = gone \cup {[msg |-> m, by |-> "reload"] : m \in {n \in Ids : tries[n] > 0}}
  /\ UNCHANGED <<go, late, tries, starts>>

-----------------------------------------------------------------------------
(* The service.                                                             *)

Emitted(type, r, epoch, status) == Append(events, [type |-> type, run |-> r, epoch |-> epoch, status |-> status])

Replies(c, ans) == calls' = (calls \ {c}) \cup {[c EXCEPT !.ans = ans]}
Asked(c, kind) == c \in calls /\ c.kind = kind /\ c.ans = "none"

\* BindRepository keeps the epoch of a repository that is bound; UnbindRepository drops its challenge.
Unchallenged(g) == IF g.conv.state = "pending-consent" THEN [g EXCEPT !.conv = Idle] ELSE g
Bind ==
  /\ chain # <<>> /\ Head(chain).ans = -1
  /\ IF Head(chain).op = "bind"
     THEN /\ go' = IF go.epoch # 0 THEN go ELSE [go EXCEPT !.seq = @ + 1, !.epoch = go.seq + 1]
          /\ chain' = [chain EXCEPT ![1].ans = go'.epoch]
     ELSE go' = [Unchallenged(go) EXCEPT !.epoch = 0] /\ chain' = [chain EXCEPT ![1].ans = 0]
  /\ UNCHANGED <<events, calls, bridge, view, late, Ghosts, left>>

Unexpired(g) == IF g.conv.state = "pending-consent" /\ g.conv.run \in late THEN [g EXCEPT !.conv = Idle] ELSE g

Challenged(g, c) == [g EXCEPT !.conv = [run |-> c.run, epoch |-> c.epoch, state |-> "pending-consent", msg |-> c.msg, step |-> 0]]

Launched(g, c) == [g EXCEPT !.conv = [run |-> c.run, epoch |-> c.epoch, state |-> "running", msg |-> c.msg, step |-> 0]]

\* admit: the binding, then the conversation's state.
Admits(g, c) ==
  /\ c.epoch = g.epoch
  /\ \/ g.conv.state = "idle" /\ ~c.granted
     \/ g.conv.state = "pending-consent" /\ c.granted /\ g.conv.run = c.run /\ g.conv.epoch = c.epoch

StartTurn(c) ==
  /\ Asked(c, "turn")
  /\ LET g == Unexpired(go) IN
     \/ /\ Admits(g, c) /\ UNCHANGED left
        /\ IF c.granted \/ g.consented
           THEN /\ go' = [Launched(g, c) EXCEPT !.consented = TRUE] /\ Replies(c, "accepted")
                /\ starts' = [starts EXCEPT ![c.msg] = @ + 1]
           ELSE go' = Challenged(g, c) /\ Replies(c, "consent") /\ UNCHANGED starts
     \/ /\ ~Admits(g, c) \/ Has("refuses")
        /\ left' = IF Admits(g, c) THEN [left EXCEPT !.refuses = @ - 1] ELSE left
        /\ go' = g /\ Replies(c, "refused") /\ UNCHANGED starts
  /\ UNCHANGED <<events, chain, bridge, view, late, tries, gone>>

RunStarts ==
  /\ go.conv.state \in {"running", "canceling"} /\ go.conv.step = 0
  /\ go' = [go EXCEPT !.conv.step = 1] /\ events' = Emitted("started", go.conv.run, go.conv.epoch, FALSE)
  /\ UNCHANGED <<calls, chain, bridge, view, late, Ghosts, left>>

RunAnswers ==
  /\ go.conv.state \in {"running", "canceling"} /\ go.conv.step = 1
  /\ go' = [go EXCEPT !.conv.step = 2] /\ events' = Emitted("delta", go.conv.run, go.conv.epoch, FALSE)
  /\ UNCHANGED <<calls, chain, bridge, view, late, Ghosts, left>>

\* The conversation is idle again before its terminal goes out: Golem's own, or the service's
\* fallback when Golem gave none.
RunEnds(result, fallback) ==
  /\ go.conv.state \in {"running", "canceling"}
  /\ fallback => result # "done" /\ (left.rushed \/ go.conv.epoch = go.epoch)
  /\ go.conv.step = 0 => fallback
  /\ CASE result = "done" -> go.conv.step = 2 /\ UNCHANGED left
       [] result = "canceled" -> go.conv.state = "canceling" /\ UNCHANGED left
       [] result = "failed" -> Spend("fails") /\ Has("fails")
  /\ go' = [go EXCEPT !.conv = Idle,
              !.ending = @ \cup {[run |-> go.conv.run, epoch |-> go.conv.epoch, type |-> result,
                                  status |-> fallback]},
              !.history = IF result = "done" THEN @ \cup {go.conv.msg} ELSE @]
  /\ UNCHANGED <<events, calls, chain, bridge, view, late, Ghosts>>

EmitTerminal(e) ==
  /\ e \in go.ending /\ go' = [go EXCEPT !.ending = @ \ {e}]
  /\ events' = Emitted(e.type, e.run, e.epoch, e.status)
  /\ UNCHANGED <<calls, chain, bridge, view, late, Ghosts, left>>

Cancel(c) ==
  /\ Asked(c, "cancel")
  /\ CASE go.conv.state \in {"running", "canceling"} /\ go.conv.run = c.run ->
            go' = [go EXCEPT !.conv.state = "canceling"] /\ Replies(c, "ok") /\ UNCHANGED events
       [] go.conv.state = "pending-consent" /\ go.conv.run = c.run /\ go.conv.epoch = c.epoch ->
            /\ go' = [go EXCEPT !.conv = Idle] /\ Replies(c, "ok")
            /\ events' = Emitted("canceled", c.run, c.epoch, TRUE)
       [] OTHER -> Replies(c, "rejected") /\ UNCHANGED <<go, events>>
  /\ UNCHANGED <<chain, bridge, view, late, Ghosts, left>>

ResetConversation(c) ==
  /\ Asked(c, "reset")
  /\ LET g == Unexpired(go) IN
     IF c.epoch = g.epoch /\ g.conv.state = "idle"
     THEN go' = [g EXCEPT !.history = {}] /\ Replies(c, "ok")
     ELSE go' = g /\ Replies(c, "refused")
  /\ UNCHANGED <<events, chain, bridge, view, late, Ghosts, left>>

\* What a status reads: the active run of any epoch, and the conversation of the current one.
Status(c) ==
  /\ Asked(c, "status")
  /\ go' = IF c.epoch = go.epoch THEN Unexpired(go) ELSE go
  /\ calls' = (calls \ {c}) \cup
       {[c EXCEPT !.ans = "ok",
                  !.seen = [epoch |-> IF c.epoch = go.epoch THEN c.epoch ELSE 0,
                            active |-> IF go.conv.state \in {"running", "canceling"}
                                       THEN [run |-> go.conv.run, epoch |-> go.conv.epoch, state |-> go.conv.state]
                                       ELSE [run |-> 0, epoch |-> 0, state |-> "idle"]]]}
  /\ UNCHANGED <<events, chain, bridge, view, late, Ghosts, left>>

\* The deadline of a challenge, which both sides compare with the same clock.
Expire ==
  /\ Has("expiries") /\ Spend("expiries")
  /\ go.conv.state = "pending-consent" /\ late' = late \cup {go.conv.run}
  /\ UNCHANGED <<go, events, calls, chain, bridge, view, Ghosts>>

Next ==
  \/ SubmitTurn \/ AllowAndSend \/ RetryLastFailed \/ ClearConversation
  \/ \E r \in Ids : CancelRun(r)
  \/ CloseRepository \/ OpenRepository \/ BindAnswered \/ StatusChanged \/ DeliverEvent \/ Frame
  \/ \E c \in calls : TurnAnswered(c) \/ CancelAnswered(c) \/ ResetAnswered(c) \/ StatusAnswered(c)
  \/ Reload \/ Bind
  \/ \E c \in calls : StartTurn(c) \/ Cancel(c) \/ ResetConversation(c) \/ Status(c)
  \/ RunStarts \/ RunAnswers \/ Expire
  \/ \E result \in {"done", "canceled", "failed"}, fallback \in BOOLEAN : RunEnds(result, fallback)
  \/ \E e \in go.ending : EmitTerminal(e)

Spec == Init /\ [][Next]_vars

-----------------------------------------------------------------------------
(* Properties.                                                              *)

\* What the user sent stays on screen or in the queue until a New chat takes it away, and what
\* the service remembers of the conversation is what the user sees of it.
TurnsKept ==
  /\ \A m \in Ids : tries[m] > 0 => m \in Shown(view) \cup Queued(view) \cup {g.msg : g \in gone}
  /\ \A m \in go.history : m \in Shown(view) \/ [msg |-> m, by |-> "reload"] \in gone

\* No answer, event or status makes the service run a message more often than it was sent.
TurnOnce == \A m \in Ids : starts[m] <= tries[m]

\* Events of a run that are on their way.
Coming(r) ==
  \/ go.conv.run = r /\ go.conv.state # "idle"
  \/ \E e \in go.ending : e.run = r
  \/ \E i \in DOMAIN events : events[i].run = r /\ Terminal(events[i].type)
  \/ \E c \in calls : c.run = r

\* The run that keeps the conversation busy is alive, ending, or waits for the user: no late
\* answer leaves it busy for good.
NoGhostRun ==
  view.active # 0 => Coming(view.active) \/ (view.consent = view.active /\ view.runs[view.active].phase = "needs-consent")
=============================================================================
