------------------------------ MODULE FileSaves ------------------------------
(***************************************************************************)
(* One file of the editor: its buffer (stores/ideStore.ts), the saves of   *)
(* hooks/useAutosave.ts, the edits of the diff pane and the write queue of *)
(* its path (utils/fileWrites.ts), its opening (utils/editorNavigation.ts) *)
(* and its reload after a change on disk (App.tsx).                        *)
(*                                                                         *)
(* The writes of one path run one after another.  A text is a value, and   *)
(* the same text may be given twice.  What a promise runs when it settles  *)
(* runs before the next gesture.                                           *)
(***************************************************************************)
EXTENDS Integers, Sequences

CONSTANTS Texts,        \* texts the user may give the file
          FirstText,    \* what the disk holds at first
          MaxEdits,     \* bound: edits
          MaxOpens,     \* bound: openings of the file
          MaxFailures,  \* bound: writes that fail
          MaxBarriers,  \* bound: saveOpenFileToDisk calls and coordinated closes
          SlowReads     \* whether reads of the file may be answered late, in the behaviours
                        \* to check: it may then be written, and edited in the diff pane,
                        \* while it is opened

SaveAssumption == FirstText \in Texts /\ SlowReads \subseteq BOOLEAN

VARIABLES
  buf,       \* the open file: [open, text, modified]
  disk,      \* the text on disk
  queue,     \* writeQueues of the path: operations, the head is running
  timer,     \* debounceTimers: an autosave is due
  saving,    \* savingFiles: a saveFile is running
  edit,      \* pendingWorkingTreeEdits: the edit of the diff pane
  opening,   \* ensureEditorFileOpen: "no" | "flush" | "read", and what it read
  reloads,   \* reloads in flight, what they read
  event,     \* a change of the disk the watcher has not told yet
  barrier,   \* saveOpenFileToDisk: "idle" | "flush" | "wait" | "locked" | "resolved"
  closing,   \* flushAllFileEdits: "no" | "drain" | "settle" | "closed"
  last,      \* the last text the user gave the file
  slow,      \* whether this behaviour has late reads
  faults,    \* [lost, refused]: the last text was in a closed tab whose save failed; a
             \* write that the running close awaits has failed
  counts     \* edits, openings, failures and barriers so far

vars == <<buf, disk, queue, timer, saving, edit, opening, reloads, event, barrier, closing,
          last, slow, counts, faults>>

NoEdit == [present |-> FALSE, text |-> FirstText, newer |-> FALSE, timer |-> FALSE,
           draining |-> FALSE]
Closed == [open |-> FALSE, text |-> FirstText, modified |-> FALSE]
Op(kind, text) == [kind |-> kind, text |-> text]
Kinds == {"auto", "left", "diff", "lock", "close"}

Init ==
  /\ buf = Closed /\ disk = FirstText /\ queue = <<>> /\ timer = FALSE /\ saving = FALSE
  /\ edit = NoEdit /\ opening = [phase |-> "no", text |-> FirstText]
  /\ reloads = <<>> /\ event = FALSE /\ barrier = "idle" /\ closing = "no"
  /\ last = FirstText /\ slow \in SlowReads
  /\ counts = [edits |-> 0, opens |-> 0, failures |-> 0, barriers |-> 0]
  /\ faults = [lost |-> FALSE, refused |-> FALSE]

-----------------------------------------------------------------------------
(* The buffer.                                                              *)

UpdateFileContent(b, text) ==
  IF b.text = text THEN b ELSE [b EXCEPT !.text = text, !.modified = TRUE]

\* scheduleSave: a buffer that becomes modified arms the autosave.
Arms(b, c) == c.open /\ c.modified /\ ~(b.open /\ b.modified)

Buffer(b) == buf' = b /\ timer' = (timer \/ Arms(buf, b))

Typing == counts.edits < MaxEdits /\ closing = "no"
Counted(field) == counts' = [counts EXCEPT ![field] = @ + 1]

Given(text) == last' = text /\ faults' = [faults EXCEPT !.lost = FALSE] /\ Counted("edits")

EditBuffer(text) ==
  /\ Typing /\ buf.open /\ text # buf.text
  /\ Buffer(UpdateFileContent(buf, text))
  /\ Given(text)
  /\ UNCHANGED <<disk, queue, saving, edit, opening, reloads, event, barrier, closing, slow>>

-----------------------------------------------------------------------------
(* The diff pane.                                                           *)

\* An older diff write in flight would leave the disk behind a clean buffer.
QueueWorkingTreeEdit(text) ==
  /\ Typing /\ (opening.phase = "no" \/ slow)
  /\ Given(text)
  /\ IF buf.open
     THEN /\ Buffer(IF buf.text # text THEN UpdateFileContent(buf, text)
                    ELSE [buf EXCEPT !.modified = @ \/ edit.draining])
          /\ edit' = NoEdit
     ELSE /\ edit' = [edit EXCEPT !.present = TRUE, !.text = text,
                                  !.newer = edit.draining, !.timer = TRUE]
          /\ UNCHANGED <<buf, timer>>
  /\ UNCHANGED <<disk, queue, saving, opening, reloads, event, barrier, closing, slow>>

\* The body of drainWorkingTreeEdit up to its write, or to its end in an open buffer.
Drain ==
  /\ edit.present /\ ~edit.draining
  /\ IF buf.open
     THEN /\ Buffer(UpdateFileContent(buf, edit.text))
          /\ edit' = NoEdit /\ UNCHANGED queue
     ELSE /\ edit' = [edit EXCEPT !.draining = TRUE, !.newer = FALSE, !.timer = FALSE]
          /\ queue' = Append(queue, Op("diff", edit.text))
          /\ UNCHANGED <<buf, timer>>

DrainWorkingTreeEdit ==
  /\ edit.timer /\ Drain
  /\ UNCHANGED <<disk, saving, opening, reloads, event, barrier, closing, last, counts, slow,
                 faults>>

-----------------------------------------------------------------------------
(* Autosave.                                                                *)

SaveFile ==
  IF saving \/ ~buf.open \/ ~buf.modified
  THEN UNCHANGED <<saving, queue>>
  ELSE saving' = TRUE /\ queue' = Append(queue, Op("auto", buf.text))

\* The timer fires, or the user saves, leaves the tab or leaves the window.
Autosave ==
  /\ timer \/ (buf.open /\ buf.modified /\ ~saving)
  /\ timer' = FALSE /\ SaveFile
  /\ UNCHANGED <<buf, disk, edit, opening, reloads, event, barrier, closing, last, counts, slow,
                 faults>>

\* closeFile: a modified file that leaves the editor is saved from captured data.
CloseFile ==
  /\ buf.open /\ closing = "no"
  /\ buf' = Closed
  /\ IF buf.modified
     THEN timer' = FALSE /\ queue' = Append(queue, Op("left", buf.text))
     ELSE UNCHANGED <<timer, queue>>
  /\ UNCHANGED <<disk, saving, edit, opening, reloads, event, barrier, closing, last, counts,
                 slow, faults>>

-----------------------------------------------------------------------------
(* Opening and reloading.                                                   *)

EnsureEditorFileOpen ==
  /\ opening.phase = "no" /\ ~buf.open /\ closing = "no" /\ counts.opens < MaxOpens
  /\ Counted("opens")
  /\ opening' = [opening EXCEPT !.phase = "flush"]
  /\ IF edit.present /\ ~edit.draining THEN Drain ELSE UNCHANGED <<buf, timer, edit, queue>>
  /\ UNCHANGED <<disk, saving, reloads, event, barrier, closing, last, slow, faults>>

Opened(text) == [open |-> TRUE, text |-> text, modified |-> FALSE]

\* The flush is over: the disk is read; a slow read is answered later.
ReadToOpen ==
  /\ opening.phase = "flush" /\ ~edit.draining /\ (queue = <<>> \/ slow)
  /\ IF slow
     THEN opening' = [phase |-> "read", text |-> disk] /\ UNCHANGED <<buf, timer>>
     ELSE /\ opening' = [opening EXCEPT !.phase = "no"]
          /\ Buffer(IF buf.open THEN buf ELSE Opened(disk))
  /\ UNCHANGED <<disk, queue, saving, edit, reloads, event, barrier, closing, last, counts,
                 slow, faults>>

OpenFile ==
  /\ opening.phase = "read"
  /\ opening' = [opening EXCEPT !.phase = "no"]
  /\ Buffer(IF buf.open THEN buf ELSE Opened(opening.text))
  /\ UNCHANGED <<disk, queue, saving, edit, reloads, event, barrier, closing, last, counts,
                 slow, faults>>

Reload(b, text) == IF b.open /\ ~b.modified THEN [b EXCEPT !.text = text] ELSE b

\* handleFileChange: only a clean buffer is read again.
FileChanged ==
  /\ event /\ event' = FALSE
  /\ IF slow
     THEN /\ reloads' = IF buf.open /\ ~buf.modified THEN Append(reloads, disk) ELSE reloads
          /\ UNCHANGED buf
     ELSE buf' = Reload(buf, disk) /\ UNCHANGED reloads
  /\ UNCHANGED <<disk, queue, timer, saving, edit, opening, barrier, closing, last, counts,
                 slow, faults>>

\* What was read reaches the buffer unless it was modified meanwhile; answers in order.
Reloaded ==
  /\ reloads # <<>> /\ reloads' = Tail(reloads) /\ buf' = Reload(buf, Head(reloads))
  /\ UNCHANGED <<disk, queue, timer, saving, edit, opening, event, barrier, closing, last,
                 counts, slow, faults>>

-----------------------------------------------------------------------------
(* Barriers.                                                                *)

\* saveOpenFileToDisk: pending edit, queued writes, then a write of its own.
SaveOpenFileToDisk ==
  /\ barrier \in {"idle", "resolved"} /\ closing = "no" /\ counts.barriers < MaxBarriers
  /\ Counted("barriers")
  /\ barrier' = "flush"
  /\ IF edit.present /\ ~edit.draining THEN Drain ELSE UNCHANGED <<buf, timer, edit, queue>>
  /\ UNCHANGED <<disk, saving, opening, reloads, event, closing, last, slow, faults>>

LockTaken ==
  /\ barrier = "flush" /\ ~edit.draining /\ queue = <<>>
  /\ IF buf.open /\ buf.modified
     THEN barrier' = "locked" /\ queue' = <<Op("lock", buf.text)>>
     ELSE barrier' = "resolved" /\ UNCHANGED queue
  /\ UNCHANGED <<buf, disk, timer, saving, edit, opening, reloads, event, closing, last, counts,
                 slow, faults>>

\* flushAllFileEdits, at the coordinated close.
FlushAllFileEdits ==
  /\ closing = "no" /\ opening.phase = "no" /\ barrier \in {"idle", "resolved"}
  /\ counts.barriers < MaxBarriers
  /\ Counted("barriers")
  /\ closing' = "drain"
  /\ IF edit.present /\ ~edit.draining THEN Drain ELSE UNCHANGED <<buf, timer, edit, queue>>
  /\ UNCHANGED <<disk, saving, opening, reloads, event, barrier, last, slow, faults>>

FlushBuffers ==
  /\ closing = "drain" /\ ~edit.draining
  /\ closing' = "settle"
  /\ queue' = IF buf.open /\ buf.modified THEN Append(queue, Op("close", buf.text)) ELSE queue
  /\ UNCHANGED <<buf, disk, timer, saving, edit, opening, reloads, event, barrier, last, counts,
                 slow, faults>>

\* A close that a write failed is given up (useWorkspacePersistence.ts), and may be asked again.
Ends ==
  /\ closing' = IF faults.refused THEN "no" ELSE "closed"
  /\ faults' = [faults EXCEPT !.refused = FALSE]
  /\ UNCHANGED <<buf, disk, queue, timer, saving, edit, opening, reloads, event, barrier,
                 last, counts, slow>>

\* A slip: the close does not wait for the writes that are queued.
SettledEarly == closing = "settle" /\ Ends

Settled == closing = "settle" /\ queue = <<>> /\ Ends

-----------------------------------------------------------------------------
(* Writes.  The head of the queue ends, and what awaited it goes on.        *)

Env == <<opening, reloads, closing, last, counts, slow, faults>>
Rest == Tail(queue)
Cleaned == [buf EXCEPT !.modified = FALSE]

\* A slip: what was written cleans the buffer, whatever was typed since.
AutosaveCleans(text) ==
  /\ buf' = IF buf.open THEN Cleaned ELSE buf
  /\ saving' = FALSE /\ queue' = Rest
  /\ UNCHANGED <<timer, edit, barrier>>

\* saveFile goes round again when the buffer has moved on.
AutosaveWritten(text) ==
  /\ IF ~buf.open \/ buf.text = text
     THEN /\ buf' = IF buf.open THEN Cleaned ELSE buf
          /\ saving' = FALSE /\ queue' = Rest
     ELSE /\ saving' = buf.modified /\ UNCHANGED buf
          /\ queue' = IF buf.modified THEN Append(Rest, Op("auto", buf.text)) ELSE Rest
  /\ UNCHANGED <<timer, edit, barrier>>

\* A newer edit of the diff pane is written, or given to the buffer, in turn.
DiffWritten ==
  /\ IF ~edit.draining THEN queue' = Rest /\ UNCHANGED <<buf, timer, edit>>
     ELSE IF ~edit.newer THEN edit' = NoEdit /\ queue' = Rest /\ UNCHANGED <<buf, timer>>
     ELSE IF buf.open
     THEN edit' = NoEdit /\ queue' = Rest /\ Buffer(UpdateFileContent(buf, edit.text))
     ELSE /\ edit' = [edit EXCEPT !.newer = FALSE, !.timer = FALSE]
          /\ queue' = Append(Rest, Op("diff", edit.text)) /\ UNCHANGED <<buf, timer>>
  /\ UNCHANGED <<saving, barrier>>

\* A slip: it resolves on what it wrote.
LockResolves(text) ==
  /\ barrier' = "resolved" /\ buf' = IF buf.open /\ buf.text = text THEN Cleaned ELSE buf
  /\ queue' = Rest
  /\ UNCHANGED <<timer, saving, edit>>

\* The barrier resolves on a stable buffer with nothing queued behind it.
LockWritten(text) ==
  /\ IF Rest # <<>> \/ (buf.open /\ buf.text # text)
     THEN barrier' = "flush" /\ UNCHANGED buf
     ELSE barrier' = "resolved" /\ buf' = IF buf.open THEN Cleaned ELSE buf
  /\ queue' = Rest
  /\ UNCHANGED <<timer, saving, edit>>

WriteSucceeds ==
  /\ queue # <<>>
  /\ LET op == Head(queue) IN
     /\ disk' = op.text /\ event' = (event \/ disk # op.text)
     /\ \/ op.kind = "auto" /\ AutosaveWritten(op.text)
        \/ op.kind = "diff" /\ DiffWritten
        \/ op.kind = "lock" /\ LockWritten(op.text)
        \/ /\ op.kind \in {"left", "close"} /\ queue' = Rest
           /\ UNCHANGED <<buf, timer, saving, edit, barrier>>
  /\ UNCHANGED Env

\* A failed autosave arms itself again.  A failed edit of the diff pane stays pending until the
\* next edit, opening, barrier or close, and the opening that flushes it is given up; a timer
\* that fired meanwhile is spent.
StillHeld(kind) ==
  /\ IF kind = "auto" THEN timer' = TRUE /\ saving' = FALSE ELSE UNCHANGED <<timer, saving>>
  /\ IF kind = "diff"
     THEN /\ \E t \in {FALSE, edit.timer} :
               edit' = IF ~edit.draining THEN edit
                       ELSE [edit EXCEPT !.draining = FALSE, !.newer = FALSE, !.timer = t]
          /\ opening' = IF opening.phase = "flush" THEN [opening EXCEPT !.phase = "no"]
                        ELSE opening
     ELSE UNCHANGED <<edit, opening>>

\* A failed save of a closed tab is reported and given up: nothing holds its text now, unless
\* the diff pane was given a newer one.
Loses(kind) == kind = "left" /\ ~edit.present

\* A slip: the failure of a write that the close itself queued is only reported.
RefusedByOthers(kind, seen) == closing \in {"drain", "settle"} /\ seen /\ kind # "close"

\* A close is refused by its own writes, and by those that it waits for.
Refuses(kind, seen) == closing \in {"drain", "settle"} /\ (seen \/ kind \in {"diff", "close"})

\* A barrier and a close see the failure of the write that was the last when they looked.
WriteFails ==
  /\ queue # <<>> /\ counts.failures < MaxFailures /\ Counted("failures")
  /\ queue' = Rest
  /\ LET kind == Head(queue).kind IN
     /\ StillHeld(kind)
     /\ \E seen \in {TRUE, Rest = <<>>} :
          /\ barrier' = IF kind = "lock" \/ (seen /\ barrier = "flush") THEN "idle" ELSE barrier
          /\ faults' = [lost |-> faults.lost \/ Loses(kind),
                        refused |-> faults.refused \/ Refuses(kind, seen)]
  /\ UNCHANGED <<buf, disk, event, reloads, closing, last, slow>>

Next ==
  \/ \E t \in Texts : EditBuffer(t) \/ QueueWorkingTreeEdit(t)
  \/ DrainWorkingTreeEdit \/ Autosave \/ CloseFile
  \/ EnsureEditorFileOpen \/ ReadToOpen \/ OpenFile \/ FileChanged \/ Reloaded
  \/ SaveOpenFileToDisk \/ LockTaken \/ FlushAllFileEdits \/ FlushBuffers \/ Settled
  \/ WriteSucceeds \/ WriteFails

Spec == Init /\ [][Next]_vars

-----------------------------------------------------------------------------
(* Properties.                                                              *)

Quiet == /\ queue = <<>> /\ ~edit.present /\ ~saving /\ ~event /\ reloads = <<>>
         /\ opening.phase = "no"

\* When nothing is under way, a buffer that is shown as saved is what the disk holds,
\* whichever of the editor, the diff pane and a reload wrote last.
CleanWhenQuiet == Quiet /\ buf.open /\ ~buf.modified => buf.text = disk

CleanMeansSaved == slow \/ CleanWhenQuiet

\* A save that others wait for resolves on what the disk holds: no keystroke, no
\* queued write and no edit of the diff pane comes in between (saveOpenFileToDisk).
BarrierWrote ==
  barrier = "locked" /\ barrier' = "resolved" /\ buf'.open => disk' = buf'.text

\* A coordinated close that is confirmed has written the last text the user gave
\* (flushAllFileEdits), unless that text was in a tab closed before, whose save failed
\* (useAutosave.ts reports it and keeps nothing).
CloseFlushes == ~slow /\ closing = "closed" /\ ~faults.lost => disk = last
=============================================================================
