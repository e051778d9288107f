------------------------------- MODULE GitParts -------------------------------
(*****************************************************************************)
(* The repository and the editor, a behaviour is of one component: the       *)
(* status, the diff and its pane; a merge session over the working tree; the *)
(* text of the merge editor; the gutter of an editor; a document that        *)
(* language servers follow; the problems they report; and the preview of a   *)
(* line.  The constants are the parameters of the components.                *)
(*****************************************************************************)
EXTENDS Integers, Sequences, FiniteSets

CONSTANTS
  RepoFiles, Buffers, StatusCasts,                                              \* of GitStatus
  Paths, TextStages, SideStages, LostStages, Queue, Starting, Busy, Moves, MergeCasts,  \* of GitMerge
  Cases, MaxEdits,                                                              \* of MergeEditor
  MaxDepth, MaxRefine, GutterLines, Baselines, GutterCasts,                     \* of GitGutter
  DocumentTexts, DocumentCasts,                                                 \* of LspDocuments
  Roots, Workspaces, Inside, ProblemFiles, RepoOf, ReportCasts,                 \* of Problems
  PreviewLines                                                                  \* of LinePreview

VARIABLES
  part,  \* the component this behaviour is of
  class, text, pending, buffered, epoch, status, refreshes, opFlag, running, draft, suggested,
  diff, focused, requests, rev, pane, wanted, typed, left, repo, staged, writes, tab, session,
  revision, open, check, final, gitOp, advancing, file, doc, ranges, dec, order, active, frozen,
  undone, redone, edits, baseline, markers, popup, clean, patches, phrase, docs, tracked, barrier,
  tasks, calls, answers, server, reconnects, shown, known, root, events, published, statuses,
  toasted, moved, disk, rendered, reads, kept, line

S == INSTANCE GitStatus WITH Files <- RepoFiles, Casts <- StatusCasts
M == INSTANCE GitMerge WITH Casts <- MergeCasts
E == INSTANCE MergeEditor
G == INSTANCE GitGutter WITH Lines <- GutterLines, Casts <- GutterCasts
L == INSTANCE LspDocuments WITH Texts <- DocumentTexts, Casts <- DocumentCasts
Q == INSTANCE Problems WITH Files <- ProblemFiles, Casts <- ReportCasts
V == INSTANCE LinePreview WITH Lines <- PreviewLines

ASSUME StatusAssumption == S!StatusAssumption
ASSUME MergeAssumption == M!MergeAssumption
ASSUME ProblemsAssumption == Q!ProblemsAssumption

\* The variables of the other components, which a behaviour of this one leaves alone.
SRest == <<part, repo, staged, writes, tab, session, revision, open, check, final, gitOp, advancing,
           file, doc, ranges, dec, order, active, frozen, undone, redone, edits, baseline,
           markers, popup, clean, patches, phrase, docs, tracked, barrier, tasks, calls, answers,
           server, reconnects, shown, known, root, events, published, statuses, toasted, moved,
           disk, rendered, reads, kept, line>>
MRest == <<part, class, text, pending, buffered, status, refreshes, opFlag, running, draft, suggested,
           diff, focused, requests, rev, pane, wanted, typed, file, doc, ranges, dec, order,
           active, frozen, undone, redone, edits, baseline, markers, popup, clean, patches,
           phrase, docs, tracked, barrier, tasks, calls, answers, server, reconnects, shown,
           known, root, events, published, statuses, toasted, moved, disk, rendered, reads,
           kept, line>>
ERest == <<part, class, text, pending, buffered, epoch, status, refreshes, opFlag, running, draft,
           suggested, diff, focused, requests, rev, pane, wanted, typed, left, repo, staged,
           writes, tab, session, revision, open, check, final, gitOp, advancing, baseline,
           markers, popup, clean, patches, phrase, docs, tracked, barrier, tasks, calls, answers,
           server, reconnects, shown, known, root, events, published, statuses, toasted, moved,
           disk, rendered, reads, kept, line>>
GRest == <<part, class, text, pending, buffered, epoch, status, refreshes, opFlag, running, draft,
           suggested, diff, focused, requests, rev, pane, wanted, typed, repo, staged, writes,
           tab, session, revision, open, check, final, gitOp, advancing, file, ranges, dec, order,
           active, frozen, undone, redone, edits, docs, tracked, barrier, tasks, calls, answers,
           server, reconnects, shown, known, root, events, published, statuses, toasted, moved,
           disk, rendered, reads, kept, line>>
LRest == <<part, class, text, pending, buffered, epoch, status, refreshes, opFlag, running, draft,
           suggested, diff, focused, requests, rev, pane, wanted, typed, repo, staged, writes,
           tab, session, revision, open, check, final, gitOp, advancing, doc, ranges, dec, order,
           active, frozen, undone, redone, edits, baseline, markers, popup, clean, patches,
           phrase, root, events, published, statuses, toasted, moved, disk, rendered, reads, kept,
           line>>
QRest == <<part, class, text, pending, buffered, refreshes, opFlag, running, draft, suggested, diff,
           focused, requests, rev, pane, wanted, typed, repo, staged, writes, tab, session,
           revision, open, check, final, gitOp, advancing, file, doc, ranges, dec, order, active,
           frozen, undone, redone, edits, baseline, markers, popup, clean, patches, phrase, docs,
           tracked, barrier, tasks, calls, answers, server, reconnects, shown, known, line>>
VRest == <<part, class, text, pending, buffered, epoch, status, refreshes, opFlag, running, draft,
           suggested, diff, focused, requests, rev, pane, wanted, typed, left, repo, staged,
           writes, tab, session, revision, open, check, final, gitOp, advancing, file, doc,
           ranges, dec, order, active, frozen, undone, redone, edits, baseline, markers, popup,
           clean, patches, phrase, docs, tracked, barrier, tasks, calls, answers, server,
           reconnects, shown, known, root, events, published, statuses, toasted, moved, disk,
           rendered, reads, kept>>

vars == <<part, class, text, pending, buffered, epoch, status, refreshes, opFlag, running, draft,
          suggested, diff, focused, requests, rev, pane, wanted, typed, left, repo, staged,
          writes, tab, session, revision, open, check, final, gitOp, advancing, file, doc, ranges,
          dec, order, active, frozen, undone, redone, edits, baseline, markers, popup, clean,
          patches, phrase, docs, tracked, barrier, tasks, calls, answers, server, reconnects,
          shown, known, root, events, published, statuses, toasted, moved, disk, rendered,
          reads, kept, line>>

Init ==
  \/ /\ part = "status" /\ S!Init
     /\ repo = 0 /\ staged = 0 /\ writes = 0 /\ tab = 0 /\ session = 0 /\ revision = 0 /\ open = 0
     /\ check = 0 /\ final = 0 /\ gitOp = 0 /\ advancing = 0 /\ file = 0 /\ doc = 0 /\ ranges = 0
     /\ dec = 0 /\ order = 0 /\ active = 0 /\ frozen = 0 /\ undone = 0 /\ redone = 0 /\ edits = 0
     /\ baseline = 0 /\ markers = 0 /\ popup = 0 /\ clean = 0 /\ patches = 0 /\ phrase = 0
     /\ docs = 0 /\ tracked = 0 /\ barrier = 0 /\ tasks = 0 /\ calls = 0 /\ answers = 0
     /\ server = 0 /\ reconnects = 0 /\ shown = 0 /\ known = 0 /\ root = 0 /\ events = 0
     /\ published = 0 /\ statuses = 0 /\ toasted = 0 /\ moved = 0 /\ disk = 0 /\ rendered = 0
     /\ reads = 0 /\ kept = 0 /\ line = 0
  \/ /\ part = "merge" /\ M!Init
     /\ class = 0 /\ text = 0 /\ pending = 0 /\ buffered = 0 /\ status = 0 /\ refreshes = 0
     /\ opFlag = 0 /\ running = 0 /\ draft = 0 /\ suggested = 0 /\ diff = 0 /\ focused = 0
     /\ requests = 0 /\ rev = 0 /\ pane = 0 /\ wanted = 0 /\ typed = 0 /\ file = 0 /\ doc = 0
     /\ ranges = 0 /\ dec = 0 /\ order = 0 /\ active = 0 /\ frozen = 0 /\ undone = 0 /\ redone = 0
     /\ edits = 0 /\ baseline = 0 /\ markers = 0 /\ popup = 0 /\ clean = 0 /\ patches = 0
     /\ phrase = 0 /\ docs = 0 /\ tracked = 0 /\ barrier = 0 /\ tasks = 0 /\ calls = 0
     /\ answers = 0 /\ server = 0 /\ reconnects = 0 /\ shown = 0 /\ known = 0 /\ root = 0
     /\ events = 0 /\ published = 0 /\ statuses = 0 /\ toasted = 0 /\ moved = 0 /\ disk = 0
     /\ rendered = 0 /\ reads = 0 /\ kept = 0 /\ line = 0
  \/ /\ part = "editor" /\ E!Init
     /\ class = 0 /\ text = 0 /\ pending = 0 /\ buffered = 0 /\ epoch = 0 /\ status = 0
     /\ refreshes = 0 /\ opFlag = 0 /\ running = 0 /\ draft = 0 /\ suggested = 0 /\ diff = 0
     /\ focused = 0 /\ requests = 0 /\ rev = 0 /\ pane = 0 /\ wanted = 0 /\ typed = 0 /\ left = 0
     /\ repo = 0 /\ staged = 0 /\ writes = 0 /\ tab = 0 /\ session = 0 /\ revision = 0 /\ open = 0
     /\ check = 0 /\ final = 0 /\ gitOp = 0 /\ advancing = 0 /\ baseline = 0 /\ markers = 0
     /\ popup = 0 /\ clean = 0 /\ patches = 0 /\ phrase = 0 /\ docs = 0 /\ tracked = 0
     /\ barrier = 0 /\ tasks = 0 /\ calls = 0 /\ answers = 0 /\ server = 0 /\ reconnects = 0
     /\ shown = 0 /\ known = 0 /\ root = 0 /\ events = 0 /\ published = 0 /\ statuses = 0
     /\ toasted = 0 /\ moved = 0 /\ disk = 0 /\ rendered = 0 /\ reads = 0 /\ kept = 0 /\ line = 0
  \/ /\ part = "gutter" /\ G!Init
     /\ class = 0 /\ text = 0 /\ pending = 0 /\ buffered = 0 /\ epoch = 0 /\ status = 0
     /\ refreshes = 0 /\ opFlag = 0 /\ running = 0 /\ draft = 0 /\ suggested = 0 /\ diff = 0
     /\ focused = 0 /\ requests = 0 /\ rev = 0 /\ pane = 0 /\ wanted = 0 /\ typed = 0 /\ repo = 0
     /\ staged = 0 /\ writes = 0 /\ tab = 0 /\ session = 0 /\ revision = 0 /\ open = 0
     /\ check = 0 /\ final = 0 /\ gitOp = 0 /\ advancing = 0 /\ file = 0 /\ ranges = 0 /\ dec = 0
     /\ order = 0 /\ active = 0 /\ frozen = 0 /\ undone = 0 /\ redone = 0 /\ edits = 0 /\ docs = 0
     /\ tracked = 0 /\ barrier = 0 /\ tasks = 0 /\ calls = 0 /\ answers = 0 /\ server = 0
     /\ reconnects = 0 /\ shown = 0 /\ known = 0 /\ root = 0 /\ events = 0 /\ published = 0
     /\ statuses = 0 /\ toasted = 0 /\ moved = 0 /\ disk = 0 /\ rendered = 0 /\ reads = 0
     /\ kept = 0 /\ line = 0
  \/ /\ part = "server" /\ L!Init
     /\ class = 0 /\ text = 0 /\ pending = 0 /\ buffered = 0 /\ epoch = 0 /\ status = 0
     /\ refreshes = 0 /\ opFlag = 0 /\ running = 0 /\ draft = 0 /\ suggested = 0 /\ diff = 0
     /\ focused = 0 /\ requests = 0 /\ rev = 0 /\ pane = 0 /\ wanted = 0 /\ typed = 0 /\ repo = 0
     /\ staged = 0 /\ writes = 0 /\ tab = 0 /\ session = 0 /\ revision = 0 /\ open = 0
     /\ check = 0 /\ final = 0 /\ gitOp = 0 /\ advancing = 0 /\ doc = 0 /\ ranges = 0 /\ dec = 0
     /\ order = 0 /\ active = 0 /\ frozen = 0 /\ undone = 0 /\ redone = 0 /\ edits = 0
     /\ baseline = 0 /\ markers = 0 /\ popup = 0 /\ clean = 0 /\ patches = 0 /\ phrase = 0
     /\ root = 0 /\ events = 0 /\ published = 0 /\ statuses = 0 /\ toasted = 0 /\ moved = 0
     /\ disk = 0 /\ rendered = 0 /\ reads = 0 /\ kept = 0 /\ line = 0
  \/ /\ part = "problems" /\ Q!Init
     /\ class = 0 /\ text = 0 /\ pending = 0 /\ buffered = 0 /\ refreshes = 0 /\ opFlag = 0
     /\ running = 0 /\ draft = 0 /\ suggested = 0 /\ diff = 0 /\ focused = 0 /\ requests = 0
     /\ rev = 0 /\ pane = 0 /\ wanted = 0 /\ typed = 0 /\ repo = 0 /\ staged = 0 /\ writes = 0
     /\ tab = 0 /\ session = 0 /\ revision = 0 /\ open = 0 /\ check = 0 /\ final = 0 /\ gitOp = 0
     /\ advancing = 0 /\ file = 0 /\ doc = 0 /\ ranges = 0 /\ dec = 0 /\ order = 0 /\ active = 0
     /\ frozen = 0 /\ undone = 0 /\ redone = 0 /\ edits = 0 /\ baseline = 0 /\ markers = 0
     /\ popup = 0 /\ clean = 0 /\ patches = 0 /\ phrase = 0 /\ docs = 0 /\ tracked = 0
     /\ barrier = 0 /\ tasks = 0 /\ calls = 0 /\ answers = 0 /\ server = 0 /\ reconnects = 0
     /\ shown = 0 /\ known = 0 /\ line = 0
  \/ /\ part = "line" /\ V!Init
     /\ class = 0 /\ text = 0 /\ pending = 0 /\ buffered = 0 /\ epoch = 0 /\ status = 0
     /\ refreshes = 0 /\ opFlag = 0 /\ running = 0 /\ draft = 0 /\ suggested = 0 /\ diff = 0
     /\ focused = 0 /\ requests = 0 /\ rev = 0 /\ pane = 0 /\ wanted = 0 /\ typed = 0 /\ left = 0
     /\ repo = 0 /\ staged = 0 /\ writes = 0 /\ tab = 0 /\ session = 0 /\ revision = 0 /\ open = 0
     /\ check = 0 /\ final = 0 /\ gitOp = 0 /\ advancing = 0 /\ file = 0 /\ doc = 0 /\ ranges = 0
     /\ dec = 0 /\ order = 0 /\ active = 0 /\ frozen = 0 /\ undone = 0 /\ redone = 0 /\ edits = 0
     /\ baseline = 0 /\ markers = 0 /\ popup = 0 /\ clean = 0 /\ patches = 0 /\ phrase = 0
     /\ docs = 0 /\ tracked = 0 /\ barrier = 0 /\ tasks = 0 /\ calls = 0 /\ answers = 0
     /\ server = 0 /\ reconnects = 0 /\ shown = 0 /\ known = 0 /\ root = 0 /\ events = 0
     /\ published = 0 /\ statuses = 0 /\ toasted = 0 /\ moved = 0 /\ disk = 0 /\ rendered = 0
     /\ reads = 0 /\ kept = 0

SStep == part = "status" /\ S!Next /\ UNCHANGED SRest
MStep == part = "merge" /\ M!Next /\ UNCHANGED MRest
EStep == part = "editor" /\ E!Next /\ UNCHANGED ERest
GStep == part = "gutter" /\ G!Next /\ UNCHANGED GRest
LStep == part = "server" /\ L!Next /\ UNCHANGED LRest
QStep == part = "problems" /\ Q!Next /\ UNCHANGED QRest
VStep == part = "line" /\ V!Next /\ UNCHANGED VRest

Next == SStep \/ MStep \/ EStep \/ GStep \/ LStep \/ QStep \/ VStep

Spec == Init /\ [][Next]_vars

\* The fairness of a merge session (see GitMerge).
MergeFair(step) == part = "merge" /\ step /\ UNCHANGED MRest
FairSpec ==
  /\ Spec
  /\ WF_vars(MergeFair(M!OpenSaves)) /\ WF_vars(MergeFair(M!OpenReads))
  /\ WF_vars(MergeFair(M!CheckAnswered)) /\ WF_vars(MergeFair(\E p \in Busy : M!TabWritten(p)))
  /\ WF_vars(MergeFair(M!OverwriteRead)) /\ WF_vars(MergeFair(M!FinalizeLocked))
  /\ WF_vars(MergeFair(M!FinalizeWrites)) /\ WF_vars(MergeFair(M!FinalizeStages))
  /\ WF_vars(MergeFair(M!AdvanceSettles))

-----------------------------------------------------------------------------
(* A click on a change is never dead, whatever refreshes overlap it, and     *)
(* what the panel shows belongs to the workspace that is open.              *)
PanelSound == part = "status" => S!ClickWins /\ S!PanelCurrent

(* The pane never loses what was typed in it to a refresh.                  *)
PaneForward ==
  [][part = "status" /\ pane'.path = pane.path /\ buffered =>
       S!Since(pane.doc) \subseteq pane'.doc]_vars

(* A session belongs to the workspace that is open and to the newest        *)
(* request, and a hand-off flag to the hand-off under way.                  *)
SessionCurrent == part = "merge" => M!SessionCurrent /\ M!AdvanceOwned

(* The bytes a finalize writes over are those the session showed, the bytes *)
(* that are staged are this session's resolution, and an edit in the file's *)
(* own tab leaves it only through a save of it.                             *)
WritesReviewed ==
  [][part = "merge" => M!WriteReviewed /\ M!StageChosen /\ M!TabKept]_vars

(* A reload that the user asked for settles.                                *)
ReloadSettles ==
  (part = "merge" /\ M!InSession /\ session.reloading)
    ~> (part = "merge" => ~(M!InSession /\ session.reloading))

(* An undecided conflict is shown as it was and a decided one as decided;   *)
(* text outside the conflicts is what the file had or the user typed; the   *)
(* markers of the gutter say what differs from the baseline wherever the    *)
(* text has moved to since; and a preview cuts its line at characters.      *)
TextsSound ==
  /\ part = "editor" => E!UndecidedIntact /\ E!AcceptedIsShown /\ E!ContextKept
  /\ part = "gutter" => G!GutterSound
  /\ part = "line" => V!LineSound

(* A settled server has the document the tab shows, and only that, whatever  *)
(* was answered late, and an answer is of the text it stands beside.        *)
ServersFollowed == part = "server" => L!LspSound

(* The problems shown are those of the workspace, the repository and the    *)
(* disk, each once, whatever was read before the repository moved on.       *)
ProblemsShown == part = "problems" => Q!ProblemsSound
=============================================================================
