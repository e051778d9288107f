------------------------------ MODULE Problems ------------------------------
(****************************************************************************)
(* The Problems view: what the events of the language servers leave in the  *)
(* store (hooks/useLSPEvents.ts, stores/lspStore.ts), the reads of the      *)
(* conflict state of the unmerged files (hooks/useProblemsProjection.ts),   *)
(* and the projection that the panel, its badge and the status bar share.   *)
(* The refreshes of the git status have their own module (GitStatus): here  *)
(* one is a step, and an effect of React runs some time after its store.    *)
(****************************************************************************)
EXTENDS Integers, Sequences, FiniteSetsExt
CONSTANTS
  Roots,      \* roots of projects, those of the workspaces among them
  Workspaces, \* what can be opened, each with its repository
  Inside,     \* the roots at or below a root
  Files,      \* the files of the repositories
  RepoOf,     \* the workspace of a file
  Casts       \* how often each kind of thing may happen: [events, switches, disk, refreshes, faults]

\* The repositories have finitely many files.
ProblemsAssumption ==
  /\ IsFiniteSet(Files)
  /\ \A cast \in Casts : "refreshes" \in DOMAIN cast /\ cast.refreshes \in Nat

VARIABLES
  root,       \* workspace.path, "" for none
  events,     \* events of the servers on their way
  published,  \* diagnostics: by uri the root that published and how many of each severity
  statuses,   \* serverStatuses: by root the state and whether its setup is typed
  toasted,    \* toastedErrors
  moved,      \* the disk has changed since the git status was read
  disk,       \* the unmerged files with the number of their unresolved regions
  status,     \* the git status: a number for the object, the repository and its unmerged files
  epoch,      \* the epoch of the git store
  rendered,   \* the status and the epoch that the effect of the reads last ran for
  reads,      \* reads of the conflict state: what they are for and the answers so far
  kept,       \* conflictRead
  left        \* what is left of the cast
vars == <<root, events, published, statuses, toasted, moved, disk, status, epoch, rendered, reads, kept, left>>

Severities == {"error", "warning", "info"}
None == [severity \in Severities |-> 0]
Diagnostics == {None, [None EXCEPT !["error"] = 1, !["info"] = 1]}
Pending == -1
Failed == -2
NoRead == [epoch |-> 0, conflicts |-> <<>>, failed |-> {}]
NoStatus == [object |-> 0, repo |-> "", unmerged |-> {}]
With(f, x, y) == [z \in DOMAIN f \cup {x} |-> IF z = x THEN y ELSE f[z]]

Init ==
  /\ left \in Casts
  /\ root \in Workspaces /\ events = <<>> /\ published = <<>> /\ statuses = <<>> /\ toasted = {}
  /\ moved = FALSE /\ disk \in [Files -> [unmerged : {TRUE}, regions : {1}]]
  /\ status = NoStatus /\ epoch = 1 /\ rendered = [status |-> 0, epoch |-> 1]
  /\ reads = {} /\ kept = NoRead
Spend(what) == left[what] > 0 /\ left' = [left EXCEPT ![what] = @ - 1]
-----------------------------------------------------------------------------
(* utils/lspUri.ts: a uri is a host and a path; the local host is none, and *)
(* a uri of another host has no path and stands for itself.                 *)
Uris == [host : {"", "localhost", "remote"}, file : Files]
FileURIToPath(uri) == IF uri.host = "remote" THEN "" ELSE uri.file
CanonicalizeFileURI(uri) == IF uri.host = "remote" THEN uri ELSE [uri EXCEPT !.host = ""]

\* A server, of a project root at or below a workspace, publishes diagnostics or its status.
Emit ==
  /\ Spend("events")
  /\ \E r \in Roots :
       \/ \E uri \in Uris, d \in Diagnostics :
            /\ r \in Inside[RepoOf[uri.file]]
            /\ events' = Append(events, [kind |-> "diagnostics", root |-> r, uri |-> uri, counts |-> d])
       \/ \E state \in {"ready", "error"}, typed \in BOOLEAN :
            events' = Append(events, [kind |-> "status", root |-> r, state |-> state, typed |-> typed])
  /\ UNCHANGED <<root, published, statuses, toasted, moved, disk, status, epoch, rendered, reads, kept>>

AcceptsAll(r) == TRUE
IsActiveWorkspaceEvent(r) == root = "" \/ r \in Inside[root]

Receive ==
  /\ events # <<>> /\ events' = Tail(events)
  /\ LET e == Head(events) IN
     IF ~IsActiveWorkspaceEvent(e.root) THEN UNCHANGED <<published, statuses, toasted>>
     ELSE \/ /\ e.kind = "diagnostics"
             /\ published' = With(published, CanonicalizeFileURI(e.uri), [root |-> e.root, counts |-> e.counts])
             /\ UNCHANGED <<statuses, toasted>>
          \/ /\ e.kind = "status"
             /\ statuses' = With(statuses, e.root, [state |-> e.state, typed |-> e.typed])
             /\ toasted' = IF e.state = "ready" THEN toasted \ {e.root}
                           ELSE IF e.typed THEN toasted ELSE toasted \cup {e.root}
             /\ UNCHANGED published
  /\ UNCHANGED <<root, moved, disk, status, epoch, rendered, reads, kept, left>>

\* A workspace is opened or closed: its events start over, and the git store with it.
ClearAll == published' = <<>> /\ statuses' = <<>> /\ toasted' = {}
Switch ==
  /\ Spend("switches")
  /\ \E w \in (Workspaces \cup {""}) \ {root} : root' = w
  /\ ClearAll
  /\ status' = NoStatus /\ epoch' = epoch + 1
  /\ UNCHANGED <<events, moved, disk, rendered, reads, kept>>
-----------------------------------------------------------------------------
\* The merge goes on, here or outside: regions are resolved, a file is staged, or conflicts again.
MergeGoesOn ==
  /\ Spend("disk")
  /\ \E f \in Files, n \in 0..2 :
       disk' = [disk EXCEPT ![f] = [unmerged |-> n # 0 \/ (@.unmerged /\ @.regions # 0), regions |-> n]]
  /\ moved' = TRUE
  /\ UNCHANGED <<root, events, published, statuses, toasted, status, epoch, rendered, reads, kept>>

Unmerged(w) == {f \in Files : RepoOf[f] = w /\ disk[f].unmerged}
Refresh ==
  /\ Spend("refreshes") /\ root # ""
  /\ status' = [object |-> left.refreshes, repo |-> root, unmerged |-> Unmerged(root)]
  /\ moved' = FALSE
  /\ UNCHANGED <<root, events, published, statuses, toasted, disk, epoch, rendered, reads, kept>>

\* The effect runs: the read under way is cancelled, another reads each unmerged file.
Now == [status |-> status.object, epoch |-> epoch]
Cancelled == {[r EXCEPT !.cancelled = TRUE] : r \in reads}
Effect ==
  /\ rendered # Now /\ rendered' = Now
  /\ reads' = Cancelled \cup
       IF status.unmerged = {} THEN {}
       ELSE {[for |-> Now, cancelled |-> FALSE, answers |-> [f \in status.unmerged |-> Pending]]}
  /\ UNCHANGED <<root, events, published, statuses, toasted, moved, disk, status, epoch, kept, left>>

ReadFile ==
  /\ \E r \in reads : \E f \in DOMAIN r.answers :
       /\ r.answers[f] = Pending
       /\ \/ reads' = (reads \ {r}) \cup {[r EXCEPT !.answers[f] = disk[f].regions]} /\ UNCHANGED left
          \/ reads' = (reads \ {r}) \cup {[r EXCEPT !.answers[f] = Failed]} /\ Spend("faults")
  /\ UNCHANGED <<root, events, published, statuses, toasted, moved, disk, status, epoch, rendered, kept>>

LandsAlways(r) == TRUE
Lands(r) == ~r.cancelled /\ r.for = Now
ReadDone ==
  /\ \E r \in reads :
       /\ \A f \in DOMAIN r.answers : r.answers[f] # Pending
       /\ reads' = reads \ {r}
       /\ LET counted == {f \in DOMAIN r.answers : r.answers[f] > 0} IN
          kept' = IF Lands(r) THEN [epoch |-> r.for.epoch, conflicts |-> [f \in counted |-> r.answers[f]],
                                    failed |-> {f \in DOMAIN r.answers : r.answers[f] = Failed}]
                  ELSE kept
  /\ UNCHANGED <<root, events, published, statuses, toasted, moved, disk, status, epoch, rendered, left>>

Next == Emit \/ Receive \/ Switch \/ MergeGoesOn \/ Refresh \/ Effect \/ ReadFile \/ ReadDone
Spec == Init /\ [][Next]_vars
-----------------------------------------------------------------------------
(* The projection: the last read of this epoch for the files that are still *)
(* unmerged, and the diagnostics of every other file.                       *)
ConflictsUnfiltered == IF kept.epoch = epoch /\ status.repo # "" THEN kept.conflicts ELSE <<>>
Conflicts ==
  IF kept.epoch # epoch \/ status.repo = "" THEN <<>>
  ELSE [f \in DOMAIN kept.conflicts \cap status.unmerged |-> kept.conflicts[f]]
GroupedDiagnostics == {uri \in DOMAIN published : published[uri].counts # None}
GroupsOfAll == GroupedDiagnostics
Groups == {uri \in GroupedDiagnostics : FileURIToPath(uri) \notin DOMAIN Conflicts}
Sum(counts) == MapThenSumSet(LAMBDA x : counts[x], DOMAIN counts)
Count == Sum(Conflicts) + Sum([uri \in Groups |-> Sum(published[uri].counts)])
Totals ==
  [severity \in Severities |->
     Sum([uri \in Groups |-> published[uri].counts[severity]])
       + (IF severity = "warning" THEN Sum(Conflicts) ELSE 0)]
-----------------------------------------------------------------------------
(* While a workspace is open, diagnostics and statuses are of projects in   *)
(* it, and a server that is down was told of, once since it was up.          *)
OfWorkspace ==
  root # "" =>
    /\ \A uri \in DOMAIN published : published[uri].root \in Inside[root]
    /\ DOMAIN statuses \subseteq Inside[root]
    /\ toasted \subseteq DOMAIN statuses
    /\ \A r \in DOMAIN statuses :
         /\ statuses[r].state = "ready" => r \notin toasted
         /\ statuses[r].state = "error" /\ ~statuses[r].typed => r \in toasted

(* A file's diagnostics appear once whatever uri they came under, and the   *)
(* totals of the status bar are those of the badge.                         *)
ShownOnce ==
  /\ \A u, v \in Groups : FileURIToPath(u) = FileURIToPath(v) /\ FileURIToPath(u) # "" => u = v
  /\ Sum(Totals) = Count
  /\ \A f \in DOMAIN Conflicts : f \in status.unmerged /\ \A u \in Groups : u.host = "" => u.file # f

(* Once the reads of the newest status have ended, and nothing moved since, *)
(* the conflicts shown are those that the disk has, but for failed reads.   *)
Settled ==
  /\ root # "" /\ status.repo = root /\ ~moved /\ rendered = Now
  /\ \A r \in reads : r.cancelled
ConflictsConverge ==
  Settled =>
    \A f \in Files \ kept.failed :
      IF f \in Unmerged(root) /\ disk[f].regions > 0
      THEN f \in DOMAIN Conflicts /\ Conflicts[f] = disk[f].regions
      ELSE f \notin DOMAIN Conflicts

ProblemsSound == OfWorkspace /\ ShownOnce /\ ConflictsConverge
=============================================================================
