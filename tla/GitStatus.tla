----------------------------- MODULE GitStatus -----------------------------
(***************************************************************************)
(* The rest of the git store (stores/gitStore.ts): the status snapshot and *)
(* its refreshes, the one mutating operation at a time, the commit draft   *)
(* of the panel (components/GitPanel/GitPanel.tsx), and the diff tab with  *)
(* its editable pane (components/Editor/GitDiffView.tsx).                  *)
(*                                                                         *)
(* A text is the set of the keystrokes it holds.  A read is answered with  *)
(* what was there when it started or with what is there when it ends, and  *)
(* reads that overlap are answered in any order.                           *)
(***************************************************************************)
EXTENDS Integers, Sequences, FiniteSets

CONSTANTS
  Files,     \* files of the repository
  Buffers,   \* whether the files are open in the editor, in the behaviours to check
  Casts      \* bounds of a behaviour: [clicks, keys, refreshes, ops, switches, failures]

StatusAssumption == Buffers \subseteq BOOLEAN /\ "none" \notin Files

VARIABLES
  class,     \* file -> how the index and the worktree differ
  text,      \* file -> its text: the editor's buffer, or the disk
  pending,   \* file -> the diff pane's edit on its way to the disk, NoText if none
  buffered,  \* the files are open in the editor
  epoch,     \* of the workspace
  status,    \* the accepted snapshot: [epoch, class], or NoStatus
  refreshes, \* refreshes in flight: [epoch, seen]
  opFlag,    \* opInFlight
  running,   \* operations that run: [epoch, kind, file]
  draft,     \* commitMessage: "" | "typed" | "generated"
  suggested, \* the panel shows a suggestion beside the draft
  diff,      \* diffSession: [path, context, text, rev], or NoDiff
  focused,   \* diffFocused
  requests,  \* openDiff calls in flight
  rev,       \* diffRequestRevision
  pane,      \* the editable pane: [path, doc, edits, barrier, born], with the keystrokes there
             \* had been when it was built
  wanted,    \* the file of the user's last click that was not refused, "none" after a close
  typed,     \* keystrokes so far
  left       \* what is left of the behaviour's bounds

vars == <<class, text, pending, buffered, epoch, status, refreshes, opFlag, running, draft,
          suggested, diff, focused, requests, rev, pane, wanted, typed, left>>
World == <<class, text, pending, buffered>>
Panel == <<opFlag, running, draft, suggested>>
Diff == <<diff, focused, requests, rev, pane, wanted>>

Classes == {"clean", "staged", "unstaged", "both"}
NoText == {-1}
NoStatus == [epoch |-> -1]
NoDiff == [path |-> "none"]
NoPane == [path |-> "none", doc |-> {}, edits |-> 0, barrier |-> 0, born |-> 0]

Init ==
  /\ left \in Casts
  /\ class \in [Files -> {"unstaged", "both"}]
  /\ text = [f \in Files |-> {}] /\ pending = [f \in Files |-> NoText]
  /\ buffered \in Buffers
  /\ epoch = 0 /\ status = NoStatus /\ refreshes = {}
  /\ opFlag = "none" /\ running = {} /\ draft = "" /\ suggested = FALSE
  /\ diff = NoDiff /\ focused = FALSE /\ requests = {} /\ rev = 0
  /\ pane = NoPane /\ wanted = "none" /\ typed = 0

Has(what) == left[what] > 0
Spend(what) == left' = [left EXCEPT ![what] = @ - 1]

Staged(c) == c \in {"staged", "both"}
Unstaged(c) == c \in {"unstaged", "both"}

-----------------------------------------------------------------------------
(* The pane.                                                                *)

SameFile(p, d) == p.path = d.path
Editable(d) == d # NoDiff /\ d.context = "unstaged"
Rebuilt(d) ==
  [path |-> d.path, doc |-> d.text, edits |-> 0, barrier |-> pane.barrier, born |-> typed]

\* Mutant: every answer reconciles the pane.
EveryAnswerWins(d) == TRUE

\* Asked for after the last keystroke: it read the text with the edit.
PostEdit(d) == d.rev > pane.barrier

\* The effect of GitDiffView on a session: the pane keeps what the user typed unless the
\* session was asked for after it.
Reconciled(p, d) ==
  IF ~Editable(d) THEN NoPane
  ELSE IF ~SameFile(p, d) THEN Rebuilt(d)
  ELSE IF p.doc = d.text THEN [p EXCEPT !.edits = 0]
  ELSE IF p.edits = 0 \/ PostEdit(d) THEN [p EXCEPT !.doc = d.text, !.edits = 0]
  ELSE p

-----------------------------------------------------------------------------
(* Diffs.                                                                   *)

UserRequests == {r \in requests : r.focus}

Request(path, context, focus, texts) ==
  [rev |-> rev + 1, path |-> path, context |-> context, focus |-> focus, epoch |-> epoch,
   seen |-> texts[path]]

OpenDiff(f, context) ==
  /\ Has("clicks") /\ Spend("clicks")
  /\ status # NoStatus
  /\ IF context = "staged" THEN Staged(status.class[f]) ELSE Unstaged(status.class[f])
  /\ requests' = requests \cup {Request(f, context, TRUE, text)}
  /\ rev' = rev + 1 /\ wanted' = f
  /\ UNCHANGED <<World, epoch, status, refreshes, Panel, diff, focused, pane, typed>>

\* The context that still has the change the diff shows.
Retargeted(context, c) ==
  IF context = "unstaged" /\ ~Unstaged(c) /\ Staged(c) THEN "staged"
  ELSE IF context = "staged" /\ ~Staged(c) /\ Unstaged(c) THEN "unstaged"
  ELSE context

\* Mutant: a refresh supersedes a click.
NeverYields == FALSE

\* A refresh yields to a click in flight: superseding it would make it a dead click.
Yields == UserRequests # {}

\* refreshOpenDiff, on the snapshot that was just accepted.
Refreshing(snapshot, texts) ==
  IF diff = NoDiff \/ Yields
  THEN UNCHANGED <<requests, rev>>
  ELSE LET c == snapshot.class[diff.path]
       IN /\ requests' = requests \cup {Request(diff.path, Retargeted(diff.context, c), FALSE, texts)}
          /\ rev' = rev + 1

Current(r) == r.epoch = epoch /\ r.rev = rev

\* Only the newest request of this workspace is shown; a refresh keeps the focus.
DiffAnswered(r) ==
  /\ requests' = requests \ {r}
  /\ IF ~Current(r)
     THEN UNCHANGED <<diff, focused, pane>>
     ELSE \E t \in {r.seen, text[r.path]} :
            /\ diff' = [path |-> r.path, context |-> r.context, text |-> t, rev |-> r.rev]
            /\ focused' = (r.focus \/ focused)
            /\ pane' = Reconciled(pane, diff')
  /\ UNCHANGED <<World, epoch, status, refreshes, Panel, rev, wanted, typed, left>>

DiffFails(r) ==
  /\ Has("failures") /\ Spend("failures")
  /\ requests' = requests \ {r}
  /\ wanted' = IF Current(r) /\ r.focus THEN diff.path ELSE wanted
  /\ UNCHANGED <<World, epoch, status, refreshes, Panel, diff, focused, rev, pane, typed>>

CloseDiff ==
  /\ diff # NoDiff
  /\ diff' = NoDiff /\ focused' = FALSE /\ pane' = NoPane
  /\ wanted' = IF UserRequests = {} THEN "none" ELSE wanted
  /\ UNCHANGED <<World, epoch, status, refreshes, Panel, requests, rev, typed, left>>

\* A keystroke in the pane goes to the buffer, or waits for the write of the disk.
TypeInPane ==
  /\ Has("keys") /\ Spend("keys") /\ Editable(diff) /\ pane.path = diff.path
  /\ typed' = typed + 1
  /\ LET doc == pane.doc \cup {typed'}
         f == diff.path
     IN /\ pane' = [pane EXCEPT !.doc = doc, !.edits = @ + 1, !.barrier = rev]
        /\ IF buffered
           THEN /\ text' = [text EXCEPT ![f] = doc] /\ UNCHANGED pending
                /\ Refreshing(status, text')
           ELSE /\ pending' = [pending EXCEPT ![f] = doc]
                /\ UNCHANGED <<text, requests, rev>>
  /\ UNCHANGED <<class, buffered, epoch, status, refreshes, Panel, diff, focused, wanted>>

\* The edit reaches the disk and the diff is read again (onSaved).
EditWritten(f) ==
  /\ pending[f] # NoText
  /\ text' = [text EXCEPT ![f] = pending[f]] /\ pending' = [pending EXCEPT ![f] = NoText]
  /\ class' = [class EXCEPT ![f] = IF Staged(@) THEN "both" ELSE "unstaged"]
  /\ IF status = NoStatus \/ pane.path # f THEN UNCHANGED <<requests, rev>> ELSE Refreshing(status, text')
  /\ UNCHANGED <<buffered, epoch, status, refreshes, Panel, diff, focused, pane, wanted, typed, left>>

-----------------------------------------------------------------------------
(* Status.                                                                  *)

StartRefresh == refreshes' = refreshes \cup {[epoch |-> epoch, seen |-> class]}

\* The panel's button, the watcher's debounce, the focus of the window.
Refresh ==
  /\ Has("refreshes") /\ Spend("refreshes") /\ StartRefresh
  /\ UNCHANGED <<World, epoch, status, Panel, Diff, typed>>

RefreshDone(r) ==
  /\ refreshes' = refreshes \ {r}
  /\ IF r.epoch # epoch
     THEN UNCHANGED <<status, requests, rev>>
     ELSE \E c \in {r.seen, class} :
            /\ status' = [epoch |-> epoch, class |-> c]
            /\ Refreshing(status', text)
  /\ UNCHANGED <<World, epoch, Panel, diff, focused, pane, wanted, typed, left>>

RefreshFails(r) ==
  /\ Has("failures") /\ Spend("failures") /\ refreshes' = refreshes \ {r}
  /\ UNCHANGED <<World, epoch, status, Panel, Diff, typed>>

-----------------------------------------------------------------------------
(* Operations.                                                              *)

\* The commit button: a message and something staged (amending needs no more than a message).
CanCommit == draft # "" /\ \E g \in Files : Staged(status.class[g])

\* The buttons of the panel: what may be asked of a file, or of the repository.
Offered(kind, f) ==
  \/ kind = "stage" /\ Unstaged(status.class[f])
  \/ kind = "unstage" /\ Staged(status.class[f])
  \/ kind = "commit" /\ CanCommit
  \/ kind \in {"generate", "sync"}

\* pull, push and checkout are "sync".
Kinds == {"stage", "unstage", "commit", "generate", "sync"}

RunOp(kind, f) ==
  /\ Has("ops") /\ Spend("ops")
  /\ status # NoStatus /\ opFlag = "none" /\ Offered(kind, f)
  /\ opFlag' = kind
  /\ running' = running \cup {[epoch |-> epoch, kind |-> kind, file |-> f]}
  /\ suggested' = (suggested /\ kind # "generate")
  /\ UNCHANGED <<World, epoch, status, refreshes, draft, Diff, typed>>

After(c, kind) ==
  CASE kind = "stage" -> "staged"
    [] kind = "unstage" -> "unstaged"
    [] OTHER -> c

Committed(c) == CASE c = "staged" -> "clean" [] c = "both" -> "unstaged" [] OTHER -> c

\* Mutant: an operation of the old workspace settles the new one's.
AnyWorkspace(o) == TRUE

OpCurrent(o) == o.epoch = epoch

\* The flag is cleared and the panel refreshed for an operation of this workspace alone.
OpSettled(o) ==
  /\ running' = running \ {o}
  /\ IF OpCurrent(o) THEN opFlag' = "none" /\ StartRefresh ELSE UNCHANGED <<opFlag, refreshes>>

\* A message is generated into an empty draft, or shown beside the user's.
Generated == IF draft = "" THEN draft' = "generated" /\ UNCHANGED suggested
             ELSE suggested' = TRUE /\ UNCHANGED draft

OpDone(o) ==
  /\ class' = IF o.epoch # epoch THEN class
              ELSE IF o.kind = "commit" THEN [f \in Files |-> Committed(class[f])]
              ELSE [class EXCEPT ![o.file] = After(@, o.kind)]
  /\ OpSettled(o)
  /\ IF OpCurrent(o) /\ o.kind = "commit" THEN draft' = "" /\ suggested' = FALSE
     ELSE IF OpCurrent(o) /\ o.kind = "generate" THEN Generated
     ELSE UNCHANGED <<draft, suggested>>
  /\ UNCHANGED <<text, pending, buffered, epoch, status, Diff, typed, left>>

OpFails(o) ==
  /\ Has("failures") /\ Spend("failures")
  /\ OpSettled(o)
  /\ UNCHANGED <<World, epoch, status, draft, suggested, Diff, typed>>

\* The message is read-only while one is generated.
TypeMessage ==
  /\ opFlag # "generate" /\ draft # "typed" /\ draft' = "typed"
  /\ UNCHANGED <<World, epoch, status, refreshes, opFlag, running, suggested, Diff, typed, left>>

UseSuggestion ==
  /\ suggested /\ suggested' = FALSE
  /\ draft' \in {draft, "generated"}
  /\ UNCHANGED <<World, epoch, status, refreshes, opFlag, running, Diff, typed, left>>

\* useGitSync: reset, then a refresh of the new workspace.
ResetForWorkspace ==
  /\ Has("switches") /\ Spend("switches")
  /\ epoch' = epoch + 1
  /\ status' = NoStatus /\ opFlag' = "none" /\ draft' = "" /\ suggested' = FALSE
  /\ diff' = NoDiff /\ focused' = FALSE /\ pane' = NoPane /\ wanted' = "none"
  /\ refreshes' = refreshes \cup {[epoch |-> epoch + 1, seen |-> class]}
  /\ UNCHANGED <<World, running, requests, rev, typed>>

Next ==
  \/ \E f \in Files, c \in {"staged", "unstaged"} : OpenDiff(f, c)
  \/ \E r \in requests : DiffAnswered(r) \/ DiffFails(r)
  \/ CloseDiff \/ TypeInPane \/ (\E f \in Files : EditWritten(f))
  \/ Refresh \/ (\E r \in refreshes : RefreshDone(r) \/ RefreshFails(r))
  \/ \E k \in Kinds, f \in Files : RunOp(k, f)
  \/ \E o \in running : OpDone(o) \/ OpFails(o)
  \/ TypeMessage \/ UseSuggestion \/ ResetForWorkspace

Spec == Init /\ [][Next]_vars

-----------------------------------------------------------------------------
(* Properties.                                                              *)

\* A click on a change is never dead: once it is answered, the diff of the last file that
\* was clicked is shown, whatever refreshes overlapped it (userDiffRequestsInFlight).
ClickWins == wanted # "none" /\ UserRequests = {} => diff.path \in {wanted, "none"}

\* What the panel shows belongs to the workspace that is open, and so does its diff.
PanelCurrent ==
  /\ status # NoStatus => status.epoch = epoch
  /\ \A o, q \in running : OpCurrent(o) /\ OpCurrent(q) => o = q
  /\ opFlag = "none" <=> ~\E o \in running : OpCurrent(o)

\* The keystrokes that a text has of those typed since the pane was built.
Since(doc) == {k \in doc : k > pane.born}

\* A pane never loses what was typed in it to a refresh, as long as its text goes through the
\* editor's buffer.
PaneForward ==
  [][pane'.path = pane.path /\ buffered => Since(pane.doc) \subseteq pane'.doc]_vars
=============================================================================
