------------------------------- MODULE Explorer -------------------------------
(***************************************************************************)
(* The file tree of one workspace: the tree state of stores/ideStore.ts,   *)
(* its two readers (components/FileExplorer/useDirectoryTree.ts and        *)
(* hooks/useEnsurePathLoaded.ts), the watcher's refresh (App.tsx), the     *)
(* reveal of the active file (FileExplorer.tsx) and the walk that brings a *)
(* tree painted from a snapshot up to date.                                *)
(*                                                                         *)
(* A listing is the version of the directory it was read at, and the       *)
(* directories in it.  A read executes at the backend in one step and is   *)
(* answered in a later one; what an answer wakes runs before anything else.*)
(***************************************************************************)
EXTENDS Integers, Sequences, FiniteSets

CONSTANTS Root, Dirs,  \* the directories
          Parent,      \* the directory each of the others is in
          FileDir,     \* the directory of each file the editor may show
          None,
          Casts        \* bounds of a behaviour: [changes, fails, toggles, reopens, refreshes,
                       \* reveals, slow]; slow: an event may overtake the answer of a read

Files == DOMAIN FileDir
Depth[x \in Dirs] == IF x = Root THEN 0 ELSE 1 + Depth[Parent[x]]
Ancestors[x \in Dirs] == IF x = Root THEN {} ELSE {x} \cup Ancestors[Parent[x]]

VARIABLES
  disk,      \* [ver, there]: the version of each directory, and which exist
  tree,      \* directoryTree: the listing of each loaded directory
  unread,    \* rows marked unreadable
  expanded,  \* expandedPaths
  rootOpen,  \* isRootExpanded
  dirty,     \* dirtyPaths
  loading,   \* loadingPaths
  rootLoad,  \* isLoadingTree
  rootError, \* treeError
  inFlight,  \* inFlight of ensurePathLoaded
  fetch,     \* the current fetchTree
  fetchOld,  \* whether the fetch began before the latest root read of ensurePathLoaded
  events,    \* watcher events not yet handled
  timers,    \* reconcileTimers
  walks,     \* reconcileTreeWithDisk calls under way
  reveals,   \* reveals under way, the last one is the current generation
  active,    \* activeFileId
  selected,  \* selectedPath
  clicked,   \* history: the last row the user selected since the active file changed
  load,      \* restoreWorkspaceState waiting for the saved state
  saved,     \* the saved state: expanded directories and snapshot
  cast       \* what is left of the bounds

treeVars == <<tree, unread, expanded, rootOpen, dirty>>
readVars == <<loading, rootLoad, rootError, inFlight, fetch, fetchOld>>
vars == <<disk, treeVars, readVars, events, timers, walks, reveals, active, selected, clicked,
          load, saved, cast>>

Unloaded == [x \in Dirs |-> None]
NoFetch == [phase |-> "no", got |-> None, cached |-> FALSE, entry |-> FALSE, merged |-> FALSE,
            late |-> FALSE]
Spend(field) == cast[field] > 0 /\ cast' = [cast EXCEPT ![field] = @ - 1]

Listing(x) == [ver |-> disk.ver[x], kids |-> {c \in disk.there \ {Root} : Parent[c] = x}]

\* findEntryByPath: a row exists when every listing above names the next directory.
Present(t, x) == x = Root \/ \A a \in Ancestors[x] :
                               t[Parent[a]] # None /\ a \in t[Parent[a]].kids

\* preserveLoadedChildren and replaceChildrenAt: what a listing no longer names is dropped.
Pruned(t) == [x \in Dirs |-> IF Present(t, x) THEN t[x] ELSE None]
Merged(t, x, listing) == Pruned([t EXCEPT ![x] = listing])

-----------------------------------------------------------------------------
(* Reads.                                                                   *)

Read(x, t) == [phase |-> "sent", got |-> None, cur |-> TRUE, existed |-> Present(t, x),
               late |-> FALSE]
Busy(x) == inFlight[x] # None /\ inFlight[x].cur

\* A row that is loaded, readable and clean needs no read unless one is forced.
\* The root counts as loaded from the start.
Loaded(x, t, u, d) == Present(t, x) /\ (x = Root \/ t[x] # None) /\ x \notin u /\ x \notin d

\* ensurePathLoaded of the directories S: a read in flight is shared.
Ensure(S, t) ==
  /\ inFlight' = [x \in Dirs |-> IF x \in S /\ ~Busy(x) THEN Read(x, t) ELSE inFlight[x]]
  /\ loading' = loading \cup {x \in S : ~Busy(x)}
  /\ fetchOld' = (fetchOld \/ (Root \in S /\ ~Busy(Root)))

Needs(x) == IF Loaded(x, tree, unread, dirty) THEN {} ELSE {x}

\* The microtasks an answer wakes run before the next event, timer or gesture.
WalkReady(w) == w.wait = {}
RevealReady(r) == r.wait = {}
Calm == /\ \A i \in 1..Len(walks) : ~WalkReady(walks[i])
        /\ \A i \in 1..Len(reveals) : ~RevealReady(reveals[i])

Execute(x) ==
  /\ Calm /\ inFlight[x] # None /\ inFlight[x].phase = "sent"
  /\ \/ x \in disk.there /\ inFlight' = [inFlight EXCEPT ![x].phase = "read", ![x].got = Listing(x)]
        /\ UNCHANGED cast
     \/ x \notin disk.there /\ inFlight' = [inFlight EXCEPT ![x].phase = "failed"] /\ UNCHANGED cast
     \/ /\ Spend("fails") /\ (x = Root /\ fetch.phase = "read" => cast.slow)
        /\ inFlight' = [inFlight EXCEPT ![x].phase = "failed"]
  /\ UNCHANGED <<disk, treeVars, loading, rootLoad, rootError, fetch, fetchOld, events, timers,
                 walks, reveals, active, selected, clicked, load, saved>>

ExecuteFetch ==
  /\ Calm /\ fetch.phase = "sent"
  /\ \/ fetch' = [fetch EXCEPT !.phase = "read", !.got = Listing(Root)] /\ UNCHANGED cast
     \/ Spend("fails") /\ fetch' = [fetch EXCEPT !.phase = "failed"]
  /\ UNCHANGED <<disk, treeVars, loading, rootLoad, rootError, inFlight, fetchOld, events, timers,
                 walks, reveals, active, selected, clicked, load, saved>>

\* Those who await the read of x go on.
Woken(x) ==
  /\ walks' = [i \in 1..Len(walks) |-> [walks[i] EXCEPT !.wait = @ \ {x}]]
  /\ reveals' = [i \in 1..Len(reveals) |-> [reveals[i] EXCEPT !.wait = @ \ {x}]]

Settle(x) ==
  /\ inFlight' = [inFlight EXCEPT ![x] = None]
  /\ loading' = loading \ {x}
  /\ Woken(x)

NeverStale(read) == FALSE

\* commitRootRead: a root listing whose read began before a merged one is dropped.
Stale(read) == read.late

Answered(x) ==
  /\ Calm /\ inFlight[x] # None /\ inFlight[x].phase = "read"
  /\ LET read == inFlight[x] IN
     IF ~read.cur \/ (x = Root /\ Stale(read))
     THEN UNCHANGED <<tree, unread, dirty, rootError, fetch>>
     ELSE /\ tree' = IF Present(tree, x) THEN Merged(tree, x, read.got) ELSE tree
          /\ unread' = {y \in unread \ {x} : Present(tree', y)}
          /\ dirty' = dirty \ {x}
          /\ rootError' = (rootError /\ x # Root)
          /\ fetch' = IF x # Root THEN fetch
                      ELSE [fetch EXCEPT !.merged = TRUE, !.late = @ \/ fetchOld]
  /\ Settle(x)
  /\ UNCHANGED <<disk, expanded, rootOpen, rootLoad, fetchOld, events, timers, active, selected,
                 clicked, load, saved, cast>>

\* A row removed while its read was in flight is not annotated.
Failed(x) ==
  /\ Calm /\ inFlight[x] # None /\ inFlight[x].phase = "failed"
  /\ LET read == inFlight[x] IN
     IF ~read.cur \/ (x # Root /\ read.existed /\ ~Present(tree, x))
     THEN UNCHANGED <<unread, dirty>>
     ELSE /\ unread' = IF x # Root /\ Present(tree, x) THEN unread \cup {x} ELSE unread
          /\ dirty' = dirty \cup {x}
  /\ Settle(x)
  /\ UNCHANGED <<disk, tree, expanded, rootOpen, rootLoad, rootError, fetch, fetchOld, events,
                 timers, active, selected, clicked, load, saved, cast>>

\* useDirectoryTree: the skeleton is taken down by the fetch that put it up.
Shown(f) == rootLoad' = (rootLoad /\ f.entry)

FetchAnswered ==
  /\ Calm /\ fetch.phase = "read"
  /\ IF Stale(fetch)
     THEN UNCHANGED <<tree, unread, dirty, rootError, inFlight>>
     ELSE /\ tree' = Merged(tree, Root, fetch.got)
          /\ unread' = {y \in unread : Present(tree', y)}
          /\ dirty' = dirty \ {Root} /\ rootError' = FALSE
          /\ inFlight' = IF inFlight[Root] = None \/ fetchOld THEN inFlight
                         ELSE [inFlight EXCEPT ![Root].late = TRUE]
  /\ Shown(fetch) /\ fetch' = NoFetch
  /\ UNCHANGED <<disk, expanded, rootOpen, loading, fetchOld, events, timers, walks, reveals,
                 active, selected, clicked, load, saved, cast>>

\* A failure under a cached or merged tree is a toast and a mark, else the error panel.
FetchFailed ==
  /\ Calm /\ fetch.phase = "failed"
  /\ IF fetch.cached \/ fetch.merged
     THEN dirty' = dirty \cup {Root} /\ Shown(fetch) /\ UNCHANGED rootError
     ELSE rootError' = TRUE /\ rootLoad' = FALSE /\ UNCHANGED dirty
  /\ fetch' = NoFetch
  /\ UNCHANGED <<disk, tree, unread, expanded, rootOpen, loading, inFlight, fetchOld, events,
                 timers, walks, reveals, active, selected, clicked, load, saved, cast>>

\* fetchTree: hasCache, and hasEntry for a tree known to be empty.
Fetched(hasCache, hasEntry) ==
  [NoFetch EXCEPT !.phase = "sent", !.cached = hasCache, !.entry = hasEntry]

\* The error panel's Retry.
Retry ==
  /\ Calm /\ rootError /\ Spend("toggles")
  /\ LET hasEntry == tree[Root] # None
     IN fetch' = Fetched(hasEntry /\ tree[Root].kids # {}, hasEntry) /\ rootLoad' = ~hasEntry
  /\ rootError' = FALSE /\ fetchOld' = FALSE
  /\ UNCHANGED <<disk, treeVars, loading, inFlight, events, timers, walks, reveals, active,
                 selected, clicked, load, saved>>

-----------------------------------------------------------------------------
(* The watcher.                                                             *)

\* isDirVisible, and the directory itself expanded.
Visible(x) == rootOpen /\ Ancestors[x] \subseteq expanded

\* A read that executed before the change, or whose answer will be dropped, and that a forced
\* one would share; or one whose answer would take the mark of a closed root down again.
Overtakes(x) == \/ inFlight[x] # None /\ (inFlight[x].phase # "sent" \/ inFlight[x].late)
                \/ x = Root /\ fetch.phase = "read" /\ (~rootOpen \/ inFlight[Root] # None)

\* An event reaches the frontend.  Unless the behaviour is slow, a read of the same
\* directory that executed before the change has been answered by then.
EventHandled(x) ==
  /\ Calm /\ x \in events /\ events' = events \ {x}
  /\ Overtakes(x) => cast.slow
  /\ IF ~Present(tree, x) \/ (x # Root /\ tree[x] = None) THEN UNCHANGED <<dirty, timers>>
     ELSE IF Visible(x) THEN timers' = timers \cup {x} /\ UNCHANGED dirty
     ELSE dirty' = dirty \cup {x} /\ UNCHANGED timers
  /\ UNCHANGED <<disk, tree, unread, expanded, rootOpen, readVars, walks, reveals, active,
                 selected, clicked, load, saved, cast>>

TimerFires(x) ==
  /\ Calm /\ x \in timers /\ timers' = timers \ {x}
  /\ Ensure({x}, tree)
  /\ UNCHANGED <<disk, treeVars, rootLoad, rootError, fetch, events, walks, reveals, active,
                 selected, clicked, load, saved, cast>>

Below(x) == {y \in Dirs : x \in Ancestors[y]}

\* The disk changes: a file comes or goes in x, or x itself does.
Change(x) ==
  /\ Calm /\ Spend("changes")
  /\ \/ /\ x \in disk.there
        /\ disk' = [disk EXCEPT !.ver[x] = @ + 1] /\ events' = events \cup {x}
     \/ /\ x \in disk.there \ {Root}
        /\ disk' = [ver |-> [disk.ver EXCEPT ![Parent[x]] = @ + 1], there |-> disk.there \ Below(x)]
        /\ events' = events \cup {Parent[x]}
     \/ /\ x \notin disk.there /\ Parent[x] \in disk.there
        /\ disk' = [ver |-> [disk.ver EXCEPT ![Parent[x]] = @ + 1, ![x] = @ + 1],
                    there |-> disk.there \cup {x}]
        /\ events' = events \cup {Parent[x], x}
  /\ UNCHANGED <<treeVars, readVars, timers, walks, reveals, active, selected, clicked, load,
                 saved>>

-----------------------------------------------------------------------------
(* Gestures on the tree.                                                    *)

\* A row is drawn when its ancestors are expanded.
Drawn(x) == Present(tree, x) /\ rootOpen /\ Ancestors[x] \ {x} \subseteq expanded /\ ~rootError

Toggle(x) ==
  /\ Calm /\ x # Root /\ Drawn(x) /\ Spend("toggles")
  /\ IF x \in expanded
     THEN expanded' = expanded \ {x} /\ UNCHANGED <<inFlight, loading, fetchOld>>
     ELSE expanded' = expanded \cup {x} /\ Ensure(Needs(x), tree)
  /\ UNCHANGED <<disk, tree, unread, rootOpen, dirty, rootLoad, rootError, fetch, events, timers,
                 walks, reveals, active, selected, clicked, load, saved>>

ToggleRoot ==
  /\ Calm /\ ~rootError /\ Spend("toggles") /\ rootOpen' = ~rootOpen
  /\ IF rootOpen THEN UNCHANGED <<inFlight, loading, fetchOld>> ELSE Ensure(Needs(Root), tree)
  /\ UNCHANGED <<disk, tree, unread, expanded, dirty, rootLoad, rootError, fetch, events, timers,
                 walks, reveals, active, selected, clicked, load, saved>>

Select(x) ==
  /\ Calm /\ Drawn(x) /\ x # selected /\ Spend("toggles")
  /\ selected' = x /\ clicked' = x
  /\ UNCHANGED <<disk, treeVars, readVars, events, timers, walks, reveals, active, load, saved>>

-----------------------------------------------------------------------------
(* The reveal of the active file.                                           *)

\* The ancestor of the file at the depth the reveal is at.
Cursor(r) == CHOOSE x \in Ancestors[FileDir[r.file]] : Depth[x] = r.depth

Reveal(f) == [file |-> f, depth |-> 0, wait |-> {}]

Activate(f) ==
  /\ Calm /\ f # active /\ Spend("reveals")
  /\ active' = f /\ selected' = f /\ clicked' = None
  /\ reveals' = Append(reveals, Reveal(f))
  /\ UNCHANGED <<disk, treeVars, readVars, events, timers, walks, load, saved>>

Dropped(list, i) == [j \in 1..(Len(list) - 1) |-> IF j < i THEN list[j] ELSE list[j + 1]]

AlwaysCurrent(i) == TRUE

\* revealGenRef: only the latest reveal goes on.
Current(i) == i = Len(reveals) /\ reveals[i].file = active

\* After each ancestor: a superseded reveal, or one below a directory that cannot be read,
\* ends; the last ancestor reached, all of them are expanded at once.
RevealStep(i) ==
  LET r == reveals[i]
      last == Depth[FileDir[r.file]]
      next == [r EXCEPT !.depth = @ + 1]
  IN /\ i \in 1..Len(reveals) /\ RevealReady(r)
     /\ IF r.depth > 0 /\ (~Current(i) \/ Cursor(r) \in dirty)
        THEN /\ reveals' = Dropped(reveals, i)
             /\ UNCHANGED <<expanded, selected, inFlight, loading, fetchOld>>
        ELSE IF r.depth = last
        THEN /\ reveals' = Dropped(reveals, i) /\ selected' = r.file
             /\ expanded' = expanded \cup Ancestors[FileDir[r.file]]
             /\ UNCHANGED <<inFlight, loading, fetchOld>>
        ELSE /\ Ensure(Needs(Cursor(next)), tree)
             /\ reveals' = [reveals EXCEPT ![i] = [next EXCEPT !.wait = Needs(Cursor(next))]]
             /\ UNCHANGED <<expanded, selected>>
     /\ UNCHANGED <<disk, tree, unread, rootOpen, dirty, rootLoad, rootError, fetch, events,
                    timers, walks, active, clicked, load, saved, cast>>

-----------------------------------------------------------------------------
(* The walk.                                                                *)

\* treeLoadLevels: the root, then the paths and their ancestors, by depth.
Level(paths, k) == {x \in {Root} \cup UNION {Ancestors[p] : p \in paths} : Depth[x] = k}

LoadedDirs(t) == {x \in Dirs \ {Root} : t[x] # None /\ Present(t, x)}

\* A walk begins: what is loaded is distrusted, and the root is read.
Walk(paths) == [paths |-> paths, depth |-> 0, reads |-> {Root}, wait |-> {Root}, fresh |-> {}]

\* The next level of a walk whose reads have all settled.  What a fresh parent no longer
\* names is forgotten; a walk below a root that is dirty again ends.
WalkStep(i) ==
  LET w == walks[i]
      fresh == w.fresh \cup (w.reads \ dirty)
      level == Level(w.paths, w.depth + 1)
      present == {x \in level : Present(tree, x)}
      forgotten == {x \in level \ present : Parent[x] \in fresh}
      ends == Root \in dirty \/ level = {}
  IN /\ i \in 1..Len(walks) /\ WalkReady(w)
     /\ IF ends
        THEN /\ walks' = Dropped(walks, i)
             /\ UNCHANGED <<expanded, inFlight, loading, fetchOld>>
        ELSE /\ expanded' = expanded \ forgotten
             /\ Ensure(present, tree)
             /\ walks' = [walks EXCEPT ![i] = [w EXCEPT !.depth = @ + 1, !.reads = present,
                                                        !.wait = present, !.fresh = fresh]]
     /\ UNCHANGED <<disk, tree, unread, rootOpen, dirty, rootLoad, rootError, fetch, events,
                    timers, reveals, active, selected, clicked, load, saved, cast>>

\* The open workspace is selected again.
Refresh ==
  /\ Calm /\ Spend("refreshes")
  /\ dirty' = dirty \cup LoadedDirs(tree)
  /\ Ensure({Root}, tree) /\ walks' = Append(walks, Walk(expanded))
  /\ UNCHANGED <<disk, tree, unread, expanded, rootOpen, rootLoad, rootError, fetch, events,
                 timers, reveals, active, selected, clicked, load, saved>>

-----------------------------------------------------------------------------
(* Leaving the workspace and returning to it.                               *)

\* The session is saved with its tree, and opened again later: from the cache, or, when it
\* holds the tree no more, from nothing.  The disk may have changed unseen.  The fetch
\* starts, and the session is reset until the saved state is loaded.
Reopen(cached, changed) ==
  /\ Calm /\ Spend("reopens") /\ load = "idle"
  /\ saved' = [expanded |-> expanded, rootOpen |-> rootOpen, tree |-> tree, unread |-> unread,
              active |-> active]
  /\ disk' = IF changed = None THEN disk ELSE [disk EXCEPT !.ver[changed] = @ + 1]
  /\ LET keeps == cached /\ tree[Root] # None IN
     /\ tree' = IF keeps THEN tree ELSE Unloaded
     /\ unread' = IF keeps THEN unread ELSE {}
     /\ fetch' = Fetched(keeps /\ tree[Root].kids # {}, keeps)
     /\ rootLoad' = ~keeps
  /\ rootError' = FALSE /\ fetchOld' = FALSE
  /\ inFlight' = [x \in Dirs |-> IF inFlight[x] = None THEN None ELSE [inFlight[x] EXCEPT !.cur = FALSE]]
  /\ expanded' = {} /\ dirty' = {} /\ loading' = {} /\ rootOpen' = TRUE
  /\ selected' = None /\ clicked' = None /\ active' = None
  /\ walks' = <<>> /\ reveals' = <<>> /\ events' = {} /\ load' = "sent"
  /\ UNCHANGED timers

\* The saved state: the snapshot is painted only while nothing newer, and no error, is on
\* screen; then the walk starts, and the active file comes back.
LoadAnswered ==
  /\ Calm /\ load = "sent" /\ load' = "idle"
  /\ LET paints == tree = Unloaded /\ ~rootError /\ saved.tree[Root] # None
                   /\ saved.tree[Root].kids # {}
         now == IF paints THEN saved.tree ELSE tree
     IN /\ tree' = now
        /\ unread' = IF paints THEN saved.unread ELSE unread
        /\ rootLoad' = (rootLoad /\ ~paints)
        /\ dirty' = dirty \cup LoadedDirs(now)
        /\ Ensure({Root}, now)
  /\ expanded' = saved.expanded /\ rootOpen' = saved.rootOpen /\ walks' = Append(walks, Walk(saved.expanded))
  /\ IF saved.active = None THEN UNCHANGED <<active, selected, clicked, reveals>>
     ELSE /\ active' = saved.active /\ selected' = saved.active /\ clicked' = None
          /\ reveals' = Append(reveals, Reveal(saved.active))
  /\ UNCHANGED <<disk, rootError, fetch, events, timers, saved, cast>>

\* The saved state cannot be loaded: only a tree painted from the cache needs the walk.
LoadFails ==
  /\ Calm /\ load = "sent" /\ load' = "idle" /\ Spend("fails")
  /\ IF tree = Unloaded THEN UNCHANGED <<dirty, walks, inFlight, loading, fetchOld>>
     ELSE /\ dirty' = dirty \cup LoadedDirs(tree)
          /\ Ensure({Root}, tree) /\ walks' = Append(walks, Walk(expanded))
  /\ UNCHANGED <<disk, tree, unread, expanded, rootOpen, rootLoad, rootError, fetch, events,
                 timers, reveals, active, selected, clicked, saved>>

-----------------------------------------------------------------------------
Init ==
  /\ disk = [ver |-> [x \in Dirs |-> 0], there |-> Dirs]
  /\ tree = Unloaded /\ unread = {} /\ expanded = {} /\ rootOpen = TRUE /\ dirty = {}
  /\ loading = {} /\ rootLoad = TRUE /\ rootError = FALSE /\ inFlight = Unloaded
  /\ fetch = Fetched(FALSE, FALSE) /\ fetchOld = FALSE
  /\ events = {} /\ timers = {} /\ walks = <<>> /\ reveals = <<>>
  /\ active = None /\ selected = None /\ clicked = None /\ load = "idle"
  /\ saved = [expanded |-> {}, rootOpen |-> TRUE, tree |-> Unloaded, unread |-> {}, active |-> None]
  /\ cast \in Casts

Next ==
  \/ \E x \in Dirs : Execute(x)
  \/ ExecuteFetch
  \/ \E x \in Dirs : Answered(x)
  \/ \E x \in Dirs : Failed(x)
  \/ FetchAnswered
  \/ FetchFailed
  \/ Retry
  \/ \E x \in Dirs : EventHandled(x)
  \/ \E x \in Dirs : TimerFires(x)
  \/ \E x \in Dirs : Change(x)
  \/ \E x \in Dirs : Toggle(x)
  \/ ToggleRoot
  \/ \E x \in Dirs : Select(x)
  \/ \E f \in Files : Activate(f)
  \/ \E i \in 1..Len(reveals) : RevealStep(i)
  \/ \E i \in 1..Len(walks) : WalkStep(i)
  \/ Refresh
  \/ \E cached \in BOOLEAN : \E x \in Dirs \cup {None} : Reopen(cached, x)
  \/ LoadAnswered
  \/ LoadFails

Spec == Init /\ [][Next]_vars

-----------------------------------------------------------------------------
Quiet == /\ inFlight = Unloaded /\ fetch = NoFetch /\ events = {} /\ timers = {}
         /\ walks = <<>> /\ reveals = <<>> /\ load = "idle"

Above(x) == {Root} \cup (Ancestors[x] \ {x})

(* When every read is answered and every event handled, each directory the  *)
(* tree has loaded is shown as it is on disk, or is marked for another      *)
(* read, whatever snapshots, listings, failures and switches came before;   *)
(* and no skeleton is left up.                                              *)
TreeConverges ==
  Quiet => /\ \A x \in LoadedDirs(tree) \cup ({Root} \cap {y \in Dirs : tree[y] # None}) :
                \/ tree[x] = Listing(x) \/ x \in dirty \/ rootError
                \/ x \notin disk.there /\ Above(x) \cap dirty # {}
           /\ loading = {} /\ ~rootLoad

(* The same of an event that finds a read of its directory already on its    *)
(* way: the forced read shares it, and the directory is fresh all the same.  *)
SharedReadIsFresh ==
  Quiet => \A x \in Dirs : tree[x] # None /\ Present(tree, x) => tree[x] = Listing(x) \/ x \in dirty

(* The selection follows the active file until the user selects a row: no    *)
(* earlier file's reveal selects its own afterwards.                        *)
SelectionFollows == active # None /\ clicked = None => selected = active
=============================================================================
