--------------------------- MODULE WorkspaceSession ---------------------------
(***************************************************************************)
(* The saved session of each workspace: hooks/useWorkspacePersistence.ts   *)
(* and the file store behind it (internal/workspace/store.go).  A session  *)
(* is the set of marks its user left in it: tabs, sizes, selections.       *)
(*                                                                         *)
(* The outgoing session is captured when the workspace is switched; the    *)
(* incoming one is reset and restored in steps; saves go through one chain *)
(* of writes; a quit is confirmed when they have landed.  What a promise   *)
(* runs when it settles runs before the next gesture.                      *)
(***************************************************************************)
EXTENDS Integers, Sequences, FiniteSets, SequencesExt

CONSTANTS Paths,   \* the workspaces
          Known,   \* those with a saved session at first
          None,    \* no workspace, no saved session
          MaxMark, \* bound: edits of a behaviour
          Casts    \* bounds of a behaviour: [edits, switches, blurs, faults, drops, closes]

CastFields == {"edits", "switches", "blurs", "faults", "drops", "closes"}
SessionAssumption == Casts \subseteq [CastFields -> Nat] /\ None \notin Paths /\ Known \subseteq Paths

VARIABLES
  ws,        \* workspace.path
  live,      \* the session on screen
  restoring, \* isRestoringWorkspace
  load,      \* restoreWorkspaceState: its phase and what it has yet to apply
  timer,     \* timerRef: a debounced save is due
  writes,    \* the chain of savePromiseRef: [path, marks], the head is at the backend
  flushes,   \* flushSave awaiting the chain: what it captured, how many writes to wait for
  close,     \* the close handler: its guard, its flush and the other savers
  reported,  \* reportedSaveFailures
  toasts,    \* heldToasts and the toast, the shown one last
  disk,      \* the state files
  readable,  \* whether a state file can be read
  blocked,   \* writeBlocked: files this run of the program could not read
  gone,      \* history: tabs whose file could not be read again
  crossed,   \* history: workspaces returned to while a save of theirs was outstanding, or
             \* left during the quit while any save was
  due,       \* history: marks the quit began to save, but for those a write was refused with
  cast       \* what is left of the bounds

vars == <<ws, live, restoring, load, timer, writes, flushes, close, reported, toasts, disk,
          readable, blocked, gone, crossed, due, cast>>

Reasons == {"blocked", "failed"}
Idle == [phase |-> "idle", rest |-> {}]
NoClose == [phase |-> "idle", flush |-> "none", behind |-> 0, saves |-> "none"]
Mark(p, n) == [path |-> p, n |-> n]
Marks(p) == {Mark(p, n) : n \in 0..MaxMark}

Init ==
  /\ ws = None /\ live = {} /\ restoring = FALSE /\ load = Idle /\ timer = FALSE
  /\ writes = <<>> /\ flushes = <<>> /\ close = NoClose
  /\ reported = [p \in Paths |-> None] /\ toasts = <<>>
  /\ disk = [p \in Paths |-> IF p \in Known THEN {Mark(p, 0)} ELSE None]
  /\ readable = [p \in Paths |-> TRUE] /\ blocked = {}
  /\ gone = {} /\ crossed = {} /\ due = {} /\ cast \in Casts

Saved(p) == IF disk[p] = None THEN {} ELSE disk[p]
Running == close.phase # "quit"
Spend(field) == cast[field] > 0 /\ cast' = [cast EXCEPT ![field] = @ - 1]

-----------------------------------------------------------------------------
(* Toasts of the store.  A sticky one is held behind whatever covers it.    *)

Toast(message, sticky) == [message |-> message, sticky |-> sticky]
Without(list, message) == SelectSeq(list, LAMBDA t : t.message # message)
Held(list) == IF list = <<>> THEN <<>>
              ELSE IF Last(list).sticky THEN list ELSE Front(list)

showToast(list, message, sticky) ==
  Append(Without(Held(list), message), Toast(message, sticky))

\* A toast that is retired while another is shown leaves its held copy only.
retireToast(list, message) == Without(list, message)

ClearToast ==
  /\ toasts # <<>> /\ toasts' = Front(toasts)
  /\ UNCHANGED <<ws, live, restoring, load, timer, writes, flushes, close, reported, disk,
                 readable, blocked, gone, crossed, due, cast>>

-----------------------------------------------------------------------------
(* Saving.  A flush captures the session it was given, or the live one when *)
(* its turn comes, and appends its write to the chain.                      *)

Flush(path, marks, behind, closes) ==
  [path |-> path, marks |-> marks, behind |-> behind, closes |-> closes]

\* What flushSave captures: an outgoing session at once, the live one at its turn.
Captured(f) == IF f.path = None THEN [path |-> ws, marks |-> live]
               ELSE [path |-> f.path, marks |-> f.marks]

\* Slips: every flush writes, and every flush is skipped during a restore.
NeverSkipped(f) == FALSE
SkippedAny(f) == restoring

\* A restore has the live session half done: only a captured one may be saved.
Skipped(f) == f.path = None /\ restoring

\* The flushes whose turn has come write in the order they were called.
Resumed(chain, turn) ==
  LET going == SelectSeq(turn, LAMBDA f : ~Skipped(f))
  IN chain \o [i \in 1..Len(going) |-> Captured(going[i])]

\* A slip: a skipped flush has nothing to wait for.
CloseFlushAtOnce(c, chain, turn) ==
  LET going == SelectSeq(turn, LAMBDA f : ~Skipped(f))
      mine == {i \in 1..Len(going) : going[i].closes}
  IN IF \E i \in 1..Len(turn) : turn[i].closes /\ Skipped(turn[i])
     THEN [c EXCEPT !.flush = "done"]
     ELSE IF mine # {}
     THEN [c EXCEPT !.flush = "own", !.behind = Len(chain) + CHOOSE i \in mine : TRUE]
     ELSE c

\* The close's flush waits for its own write, or, skipped, for the end of the chain.
CloseFlush(c, chain, turn) ==
  LET going == SelectSeq(turn, LAMBDA f : ~Skipped(f))
      mine == {i \in 1..Len(going) : going[i].closes}
      waits == IF \E i \in 1..Len(turn) : turn[i].closes /\ Skipped(turn[i])
               THEN [c EXCEPT !.flush = "skip"]
               ELSE IF mine # {}
               THEN [c EXCEPT !.flush = "own", !.behind = Len(chain) + CHOOSE i \in mine : TRUE]
               ELSE c
  IN IF waits.flush = "skip" /\ Resumed(chain, turn) = <<>> THEN [waits EXCEPT !.flush = "done"]
     ELSE waits

\* flushSave: the timer is cleared, and the flush awaits what the chain ends in now.
flushSave(f, c) ==
  IF writes = <<>>
  THEN writes' = Resumed(<<>>, <<f>>) /\ close' = CloseFlush(c, <<>>, <<f>>) /\ UNCHANGED flushes
  ELSE flushes' = Append(flushes, f) /\ close' = c /\ UNCHANGED writes

LiveFlush(closes) == Flush(None, {}, Len(writes), closes)

TimerFires ==
  /\ timer /\ Running /\ timer' = FALSE
  /\ flushSave(LiveFlush(FALSE), close)
  /\ UNCHANGED <<ws, live, restoring, load, reported, toasts, disk, readable, blocked, gone,
                 crossed, due, cast>>

\* Window blur and page hide.
Blur ==
  /\ ws # None /\ Running /\ Spend("blurs") /\ timer' = FALSE
  /\ flushSave(LiveFlush(FALSE), close)
  /\ UNCHANGED <<ws, live, restoring, load, reported, toasts, disk, readable, blocked, gone,
                 crossed, due>>

-----------------------------------------------------------------------------
(* The head of the chain reaches the backend.                               *)

Message(p, reason) == <<p, reason>>

\* A success retires the report of the path.
LandedReport(p) ==
  /\ reported' = [reported EXCEPT ![p] = None]
  /\ toasts' = IF reported[p] = None THEN toasts ELSE retireToast(toasts, reported[p].message)

\* A slip: another reason leaves the earlier toast.
RefusedAgain(p, reason) ==
  LET message == Message(p, reason)
  IN IF reported[p] # None /\ reported[p] = [message |-> message, rearmed |-> FALSE]
     THEN UNCHANGED <<reported, toasts>>
     ELSE /\ reported' = [reported EXCEPT ![p] = [message |-> message, rearmed |-> FALSE]]
          /\ toasts' = showToast(toasts, message, TRUE)

\* A refusal is shown once for each reason, until a restore makes it news again.
RefusedReport(p, reason) ==
  LET message == Message(p, reason)
      previous == reported[p]
  IN IF previous # None /\ previous = [message |-> message, rearmed |-> FALSE]
     THEN UNCHANGED <<reported, toasts>>
     ELSE /\ reported' = [reported EXCEPT ![p] = [message |-> message, rearmed |-> FALSE]]
          /\ toasts' = showToast(IF previous # None /\ previous.message # message
                                 THEN retireToast(toasts, previous.message) ELSE toasts,
                                 message, TRUE)

\* The chain without its head: the flushes that awaited it take their turn.
Settled ==
  LET next == [i \in 1..Len(flushes) |-> [flushes[i] EXCEPT !.behind = @ - 1]]
      turn == SelectSeq(next, LAMBDA f : f.behind = 0)
      rest == Tail(writes)
      mine == IF close.flush # "own" THEN close
              ELSE IF close.behind = 1 THEN [close EXCEPT !.flush = "done", !.behind = 0]
              ELSE [close EXCEPT !.behind = @ - 1]
  IN /\ writes' = Resumed(rest, turn)
     /\ flushes' = SelectSeq(next, LAMBDA f : f.behind # 0)
     /\ close' = CloseFlush(mine, rest, turn)

\* Save probes the file first; a file it cannot read is refused from then on.
Save ==
  /\ writes # <<>> /\ Running
  /\ LET p == Head(writes).path IN
     /\ blocked' = IF readable[p] THEN blocked ELSE blocked \cup {p}
     /\ IF p \in blocked'
        THEN RefusedReport(p, "blocked") /\ due' = due \ Head(writes).marks /\ UNCHANGED disk
        ELSE LandedReport(p) /\ disk' = [disk EXCEPT ![p] = Head(writes).marks]
             /\ UNCHANGED due
  /\ Settled
  /\ UNCHANGED <<ws, live, restoring, load, timer, readable, gone, crossed, cast>>

SaveFails ==
  /\ writes # <<>> /\ Running /\ Spend("faults")
  /\ RefusedReport(Head(writes).path, "failed")
  /\ due' = due \ Head(writes).marks
  /\ Settled
  /\ UNCHANGED <<ws, live, restoring, load, timer, disk, readable, blocked, gone, crossed>>

-----------------------------------------------------------------------------
(* Editing and switching.                                                   *)

\* A change of the session; a restore in progress schedules no save.
Edit ==
  /\ ws # None /\ Running /\ Spend("edits")
  /\ live' = live \cup {Mark(ws, cast["edits"])}
  /\ timer' = (timer \/ ~restoring)
  /\ UNCHANGED <<ws, restoring, load, writes, flushes, close, reported, toasts, disk, readable,
                 blocked, gone, crossed, due>>

Underway(p) == \/ \E i \in 1..Len(writes) : writes[i].path = p
               \/ \E i \in 1..Len(flushes) : flushes[i].path = p

\* The effect on the new path: the session on screen is captured, unless a restore has not
\* finished it.
Outgoing ==
  IF ws # None /\ ~restoring
  THEN flushSave(Flush(ws, live, Len(writes), FALSE), close)
  ELSE UNCHANGED <<writes, flushes, close>>

\* A restore begins: the one in flight is aborted, and the session is reset.
Reset == live' = {} /\ restoring' = TRUE /\ load' = [phase |-> "sent", rest |-> {}]

SwitchWorkspace(p) ==
  /\ p # ws /\ Running /\ Spend("switches") /\ timer' = FALSE
  /\ Outgoing /\ ws' = p /\ Reset
  /\ crossed' = crossed \cup (IF Underway(p) THEN {p} ELSE {})
                        \cup (IF close.phase = "saving" /\ writes # <<>> THEN {ws} ELSE {})
  /\ UNCHANGED <<reported, toasts, disk, readable, blocked, gone, due>>

-----------------------------------------------------------------------------
(* Restoring.                                                               *)

\* The backend reads the file; one it cannot read it will not write.
Load ==
  /\ load.phase = "sent" /\ Running
  /\ IF readable[ws]
     THEN /\ load' = [phase |-> IF disk[ws] = None THEN "absent" ELSE "answered",
                      rest |-> Saved(ws)]
          /\ UNCHANGED blocked
     ELSE /\ load' = [phase |-> "refused", rest |-> {}]
          /\ blocked' = blocked \cup {ws}
  /\ UNCHANGED <<ws, live, restoring, timer, writes, flushes, close, reported, toasts, disk,
                 readable, gone, crossed, due, cast>>

Rearmed == [reported EXCEPT ![ws] = IF @ = None THEN None ELSE [@ EXCEPT !.rearmed = TRUE]]

\* A first opening keeps the defaults; a saved session is applied in steps.
LoadAnswered ==
  /\ load.phase \in {"absent", "answered"} /\ Running
  /\ reported' = Rearmed
  /\ load' = IF load.phase = "absent" THEN Idle ELSE [load EXCEPT !.phase = "files"]
  /\ restoring' = (load.phase # "absent")
  /\ UNCHANGED <<ws, live, timer, writes, flushes, close, toasts, disk, readable, blocked,
                 gone, crossed, due, cast>>

LoadRefused ==
  /\ load.phase = "refused" /\ Running
  /\ load' = Idle /\ restoring' = FALSE
  /\ toasts' = showToast(toasts, <<ws, "restore">>, FALSE)
  /\ UNCHANGED <<ws, live, timer, writes, flushes, close, reported, disk, readable, blocked,
                 gone, crossed, due, cast>>

\* One tab: its file is read again, or it is dropped.
RestoreFile(m) ==
  /\ load.phase = "files" /\ m \in load.rest /\ Running
  /\ live' = live \cup {m} /\ load' = [load EXCEPT !.rest = @ \ {m}]
  /\ UNCHANGED <<ws, restoring, timer, writes, flushes, close, reported, toasts, disk,
                 readable, blocked, gone, crossed, due, cast>>

DropFile(m) ==
  /\ load.phase = "files" /\ m \in load.rest /\ Running /\ Spend("drops")
  /\ gone' = gone \cup {m} /\ load' = [load EXCEPT !.rest = @ \ {m}]
  /\ UNCHANGED <<ws, live, restoring, timer, writes, flushes, close, reported, toasts, disk,
                 readable, blocked, crossed, due>>

FinishRestore ==
  /\ load.phase = "files" /\ load.rest = {} /\ Running
  /\ load' = Idle /\ restoring' = FALSE
  /\ UNCHANGED <<ws, live, timer, writes, flushes, close, reported, toasts, disk, readable,
                 blocked, gone, crossed, due, cast>>

-----------------------------------------------------------------------------
(* The quit.                                                                *)

\* app:beforeclose: the guard has let the close through, and the savers start.
BeforeClose ==
  /\ close.phase = "idle" /\ Spend("closes") /\ timer' = FALSE
  /\ due' = (IF restoring THEN {} ELSE live)
            \cup UNION {writes[i].marks : i \in 1..Len(writes)}
            \cup UNION {flushes[i].marks : i \in 1..Len(flushes)}
  /\ LET c == [phase |-> "saving", flush |-> "await", behind |-> 0, saves |-> "busy"]
     IN IF ws = None /\ writes = <<>>
        THEN close' = [c EXCEPT !.flush = "done"] /\ UNCHANGED <<writes, flushes>>
        ELSE flushSave(LiveFlush(TRUE), c)
  /\ UNCHANGED <<ws, live, restoring, load, reported, toasts, disk, readable, blocked, gone,
                 crossed>>

\* The savers beside the session: edited files may fail, the run history is never fatal.
SaversDone ==
  /\ close.phase = "saving" /\ close.saves = "busy"
  /\ close' = [close EXCEPT !.saves = "done"]
  /\ UNCHANGED <<ws, live, restoring, load, timer, writes, flushes, reported, toasts, disk,
                 readable, blocked, gone, crossed, due, cast>>

\* A saver that fails gives the close up; its flush goes on.
SaversFail ==
  /\ close.phase = "saving" /\ close.saves = "busy" /\ Spend("faults")
  /\ close' = NoClose /\ due' = {}
  /\ flushes' = [i \in 1..Len(flushes) |-> [flushes[i] EXCEPT !.closes = FALSE]]
  /\ UNCHANGED <<ws, live, restoring, load, timer, writes, reported, toasts, disk, readable,
                 blocked, gone, crossed>>

ConfirmClose ==
  /\ close.phase = "saving" /\ close.flush = "done" /\ close.saves = "done"
  /\ close' = [close EXCEPT !.phase = "quit"]
  /\ UNCHANGED <<ws, live, restoring, load, timer, writes, flushes, reported, toasts, disk,
                 readable, blocked, gone, crossed, due, cast>>

\* The state file is damaged, or written by a newer program, behind the editor's back.
Damage(p) ==
  /\ readable[p] /\ disk[p] # None /\ Running /\ Spend("faults")
  /\ readable' = [readable EXCEPT ![p] = FALSE]
  /\ UNCHANGED <<ws, live, restoring, load, timer, writes, flushes, close, reported, toasts,
                 disk, blocked, gone, crossed, due>>

Mend(p) ==
  /\ ~readable[p] /\ Running
  /\ readable' = [readable EXCEPT ![p] = TRUE]
  /\ UNCHANGED <<ws, live, restoring, load, timer, writes, flushes, close, reported, toasts,
                 disk, blocked, gone, crossed, due, cast>>

-----------------------------------------------------------------------------
Next ==
  \/ ClearToast
  \/ TimerFires
  \/ Blur
  \/ Save
  \/ SaveFails
  \/ Edit
  \/ \E p \in Paths : SwitchWorkspace(p)
  \/ Load
  \/ LoadAnswered
  \/ LoadRefused
  \/ \E p \in Paths : \E m \in Marks(p) : RestoreFile(m)
  \/ \E p \in Paths : \E m \in Marks(p) : DropFile(m)
  \/ FinishRestore
  \/ BeforeClose
  \/ SaversDone
  \/ SaversFail
  \/ ConfirmClose
  \/ \E p \in Paths : Damage(p)
  \/ \E p \in Paths : Mend(p)

Spec == Init /\ [][Next]_vars

(* Timers fire, and the backend answers every call.                         *)
Answers == Load \/ LoadAnswered \/ LoadRefused \/ FinishRestore
           \/ \E p \in Paths : \E m \in Marks(p) : RestoreFile(m)
FairSpec ==
  Spec /\ WF_vars(TimerFires) /\ WF_vars(Save) /\ WF_vars(Answers)
       /\ WF_vars(SaversDone) /\ WF_vars(ConfirmClose)

-----------------------------------------------------------------------------
(* What the user left in a session is never taken out of its file by a     *)
(* later save, whatever switches, restores, failures and quits overlap: no  *)
(* save lands out of order, holds a session half restored, or another one's.*)
(* A tab whose file is gone may go.  Returning to a workspace before its    *)
(* own save has landed is left out: see RecentChangesKept.                  *)
MarksKept ==
  \A p \in Paths \ crossed' : /\ Saved(p) \ gone' \subseteq Saved(p)'
                               /\ \A m \in Saved(p)' : m.path = p

(* A quit is confirmed only when every mark its session, and the saves that *)
(* were outstanding, had when the savers started is in its file, or was in  *)
(* a write that was refused, and reported.                                  *)
CloseSaves ==
  close.phase = "quit" =>
    \A m \in due \ gone :
      m.path \in crossed \/ m \in Saved(m.path)

(* The comments of flushSave: awaiting the end of the chain "waits for      *)
(* every outstanding write: a close must not confirm before all of them     *)
(* land", a save queued by a switch behind the same write among them.       *)
CloseLandsAll == close.phase = "quit" => \A m \in due \ gone : m \in Saved(m.path)

(* A refused save stays on screen, or held, while it is true: each sticky   *)
(* toast is the one report of its workspace.                                *)
ToastsTrue ==
  /\ \A i \in 1..Len(toasts) : toasts[i].sticky =>
       \E p \in Paths : reported[p] # None /\ reported[p].message = toasts[i].message
  /\ \A i, j \in 1..Len(toasts) : i # j => toasts[i].message # toasts[j].message

(* Every restore ends, aborted or not, and lets sessions be saved again;    *)
(* and a change whose save is due reaches the file, or its refusal is       *)
(* reported, though the workspace is switched at any moment.                *)
SessionSettles ==
  /\ restoring ~> (~restoring \/ ~Running)
  /\ \A p \in Paths : \A m \in Marks(p) :
       (ws = p /\ timer /\ m \in live) ~> (m \in Saved(p) \/ reported[p] # None \/ ~Running)

(* What the comments of flushSave say of overlapping saves: "waits for it   *)
(* to finish and then saves a fresh snapshot so recent changes are never    *)
(* dropped", and no older snapshot lands after a newer one of the file.     *)
RecentChangesKept ==
  [][\A p \in Paths : Saved(p) \ gone' \subseteq Saved(p)']_vars
=============================================================================
