------------------------------- MODULE Search -------------------------------
(***************************************************************************)
(* The workspace search: the hook that debounces, issues and cancels       *)
(* requests (hooks/useWorkspaceSearch.ts), the store that takes their      *)
(* answers (stores/searchStore.ts), and the panel that shows, folds and    *)
(* walks the results, loads their languages and opens a match              *)
(* (Search/SearchPanel.tsx, hooks/useSearchSyntaxSupports.ts).             *)
(*                                                                         *)
(* A request is the workspace, query and options it was made for.  React   *)
(* renders and runs the effects of an update before the next event.        *)
(***************************************************************************)
EXTENDS Integers, Sequences, FiniteSets, SequencesExt

CONSTANTS
  Workspaces,   \* workspaces; NoWorkspace is not one
  Queries,      \* queries; NoQuery is the empty one
  Found,        \* query -> sequence of [file, matches]: what the workspaces hold
  LanguageOf,   \* file -> its language, or NoLanguage
  Budget,       \* MAX_SEARCH_HIGHLIGHTED_ROWS
  ExpandLimit,  \* DEFAULT_EXPAND_FILE_LIMIT
  Casts         \* [edits, switches, moves, opens, faults]: how often each may happen

VARIABLES
  root,       \* the workspace of the IDE store
  search,     \* the search store: query, option, activeRequestId and uiState
  timer,      \* the debounced request, or NoRequest
  requests,   \* requests under way: [id, key, fresh, canceled]; stale ones have fresh = FALSE
  expanded,   \* expandedFiles
  focus,      \* "input", "row" or "elsewhere"
  index,      \* focusedItemIndex (from 1), or 0
  languages,  \* [loaded, importing, wanted]: wanted by the latest visible files
  supports,   \* the visible files with a language support
  opening,    \* matches that are being opened: the workspace at the click
  tabs,       \* the workspaces whose files are open
  cast        \* what may still happen

vars == <<root, search, timer, requests, expanded, focus, index, languages, supports, opening,
          tabs, cast>>

NoWorkspace == "none"
NoQuery == "none"
NoLanguage == "none"
NoKey == [root |-> NoWorkspace, query |-> NoQuery, option |-> FALSE]
NoRequest == [id |-> 0, key |-> NoKey]
Spend(what) == /\ cast[what] > 0
               /\ cast' = [cast EXCEPT ![what] = @ - 1]

\* uiState: kind, the request that it answers, and the files it shows.
State(kind, key, files) == [kind |-> kind, key |-> key, files |-> files]
Plain(kind) == State(kind, NoKey, <<>>)
Fresh(key, id) == [id |-> id, key |-> key]

-----------------------------------------------------------------------------
(* The rows of the panel.                                                   *)

\* A header for every file, and its matches while it is expanded.
FlatItems(files, open) ==
  FoldLeft(LAMBDA rows, f : rows \o <<[file |-> f.file, match |-> 0]>>
             \o (IF f.file \in open THEN [m \in 1 .. f.matches |-> [file |-> f.file, match |-> m]]
                 ELSE <<>>),
           <<>>, files)
Items == FlatItems(search.ui.files, expanded)
MatchesBefore(rows, i) == Cardinality({k \in 1 .. i - 1 : rows[k].match > 0})

\* The files of the match rows that the parsing budget reaches.
Visible(rows) ==
  {rows[i].file : i \in {k \in DOMAIN rows : rows[k].match > 0 /\ MatchesBefore(rows, k) < Budget}}

\* The languages of the rows are loaded, those that are loaded are used at once.
LoadSupports(rows, langs) ==
  LET wanted == {LanguageOf[f] : f \in Visible(rows)} \ {NoLanguage} IN
  /\ languages' = [langs EXCEPT !.wanted = wanted \ langs.loaded,
                                !.importing = @ \cup (wanted \ langs.loaded)]
  /\ supports' = {f \in Visible(rows) : f \in supports \/ LanguageOf[f] \in langs.loaded}

RefocusKeeps(rows, i, f) == index' = i /\ focus' = IF i = 0 \/ i > Len(rows) THEN f ELSE "row"

\* The restoring effect: an index out of range hands the focus back to the input.
Refocus(rows, i, f) ==
  IF i > Len(rows) THEN index' = 0 /\ focus' = "input"
  ELSE index' = i /\ focus' = IF i = 0 THEN f ELSE "row"

\* The store shows s with these files open: rows, languages and focus follow.
Render(s, open) ==
  LET rows == FlatItems(s.ui.files, open) IN
  /\ search' = s /\ expanded' = open
  /\ IF rows # Items \/ s.ui # search.ui
       THEN LoadSupports(rows, languages) /\ Refocus(rows, index, focus)
       ELSE UNCHANGED <<languages, supports, index, focus>>

-----------------------------------------------------------------------------
(* Requests.                                                                *)

\* Supersede: no debounced request stays, no answer is fresh, and the active one is canceled.
KeepPending == requests' = requests
ClearPending ==
  requests' = {[r EXCEPT !.fresh = FALSE,
                         !.canceled = @ \/ r.id = search.active] : r \in requests}

\* scheduleSearch for a store s whose query or option changed.
ScheduleSearch(w, s) ==
  /\ ClearPending
  /\ IF w = NoWorkspace \/ s.query = NoQuery
       THEN /\ timer' = NoRequest
            /\ Render([s EXCEPT !.active = 0,
                                !.ui = Plain(IF w = NoWorkspace THEN "no-workspace" ELSE "empty-query")],
                      {})
       ELSE /\ timer' = Fresh([root |-> w, query |-> s.query, option |-> s.option], s.last + 1)
            /\ Render([s EXCEPT !.last = @ + 1], expanded)

SetQuery(q) ==
  /\ q # search.query
  /\ Spend("edits")
  /\ ScheduleSearch(root, [search EXCEPT !.query = q])
  /\ UNCHANGED <<root, opening, tabs>>

SetOption ==
  /\ Spend("edits")
  /\ ScheduleSearch(root, [search EXCEPT !.option = ~@])
  /\ UNCHANGED <<root, opening, tabs>>

\* resetForWorkspace changes the query and the options, so the hook schedules once more.
SwitchWorkspace(w) ==
  /\ w # root
  /\ Spend("switches")
  /\ root' = w /\ tabs' = {}
  /\ ScheduleSearch(w, [search EXCEPT !.query = NoQuery, !.option = FALSE, !.active = 0])
  /\ UNCHANGED opening

\* The debounce ends: the store goes to loading, and the request leaves.
BeginSearch ==
  /\ timer # NoRequest
  /\ timer' = NoRequest
  /\ requests' = requests \cup {[id |-> timer.id, key |-> timer.key, fresh |-> TRUE, canceled |-> FALSE]}
  /\ Render([search EXCEPT !.active = timer.id, !.ui = State("loading", timer.key, <<>>)], expanded)
  /\ UNCHANGED <<root, opening, tabs, cast>>

TakesAny(r) == TRUE
Takes(r) == r.fresh /\ search.active = r.id

\* A response: its files, of which the first are expanded; a canceled request has none, nor has
\* one that finds nothing or fails.
ApplyResponse(r, kind) ==
  LET files == IF kind = "results" THEN Found[r.key.query] ELSE <<>> IN
  Render([search EXCEPT !.active = 0, !.ui = State(kind, r.key, files)],
         {files[i].file : i \in 1 .. (IF Len(files) < ExpandLimit THEN Len(files) ELSE ExpandLimit)})

Respond(r, kind) ==
  /\ r \in requests
  /\ requests' = requests \ {r}
  /\ CASE kind = "canceled" -> r.canceled /\ UNCHANGED cast
       [] kind = "failed"   -> Spend("faults")
       [] OTHER             -> (kind = "results") = (Found[r.key.query] # <<>>) /\ UNCHANGED cast
  /\ IF Takes(r) THEN ApplyResponse(r, kind)
     ELSE UNCHANGED <<search, expanded, languages, supports, index, focus>>
  /\ UNCHANGED <<root, timer, opening, tabs>>

-----------------------------------------------------------------------------
(* The panel.                                                               *)

Fold(f) == IF f \in expanded THEN expanded \ {f} ELSE expanded \cup {f}

\* A click on a header, which takes the focus.
ToggleFile(i) ==
  /\ Items[i].match = 0
  /\ Spend("moves")
  /\ expanded' = Fold(Items[i].file)
  /\ LoadSupports(FlatItems(search.ui.files, expanded'), languages)
  /\ Refocus(FlatItems(search.ui.files, expanded'), i, "row")
  /\ UNCHANGED <<root, search, timer, requests, opening, tabs>>

HeaderOf(i) == CHOOSE k \in 1 .. i : Items[k].match = 0 /\ \A j \in k + 1 .. i : Items[j].match > 0

\* Where a key of the list moves to; 0 is the input.
Step(key, i) ==
  CASE key = "ArrowDown" -> IF i < Len(Items) THEN i + 1 ELSE i
    [] key = "ArrowUp"   -> i - 1
    [] key = "ArrowLeft" -> IF Items[i].match = 0 THEN 0 ELSE HeaderOf(i)
    [] key = "Home"      -> 1
    [] key = "End"       -> Len(Items)
Keys == {"ArrowDown", "ArrowUp", "ArrowLeft", "Home", "End"}

\* The keys of the focused row: left and right fold and unfold a header, the others move.
ListKeyDown(key) ==
  /\ focus = "row" /\ index # 0
  /\ Spend("moves")
  /\ IF /\ Items[index].match = 0
        /\ key \in {"Enter"} \cup (IF Items[index].file \in expanded THEN {"ArrowLeft"} ELSE {"ArrowRight"})
       THEN /\ expanded' = Fold(Items[index].file)
            /\ LoadSupports(FlatItems(search.ui.files, expanded'), languages)
            /\ Refocus(FlatItems(search.ui.files, expanded'), index, focus)
       ELSE /\ key \in Keys
            /\ index' = Step(key, index)
            /\ focus' = IF index' = 0 THEN "input" ELSE "row"
            /\ UNCHANGED <<expanded, languages, supports>>
  /\ UNCHANGED <<root, search, timer, requests, opening, tabs>>

\* ArrowDown in the input; a click or the shortcut into it, which leaves the index.
InputKeyDown ==
  /\ focus = "input" /\ Items # <<>>
  /\ Spend("moves")
  /\ index' = 1 /\ focus' = "row"
  /\ UNCHANGED <<root, search, timer, requests, expanded, languages, supports, opening, tabs>>

MoveFocus(to) ==
  /\ focus # to
  /\ Spend("moves")
  /\ focus' = to
  /\ UNCHANGED <<root, search, timer, requests, expanded, index, languages, supports, opening, tabs>>

\* One import of a language, which every row that waits for it uses; or it fails.
LanguageLoaded(l, ok) ==
  /\ l \in languages.importing
  /\ IF ok THEN UNCHANGED cast ELSE Spend("faults")
  /\ languages' = [loaded    |-> IF ok THEN languages.loaded \cup {l} ELSE languages.loaded,
                   importing |-> languages.importing \ {l},
                   wanted    |-> languages.wanted \ {l}]
  /\ supports' = IF ok /\ l \in languages.wanted
                   THEN supports \cup {f \in Visible(Items) : LanguageOf[f] = l} ELSE supports
  /\ UNCHANGED <<root, search, timer, requests, expanded, focus, index, opening, tabs>>

ActivateMatch ==
  /\ \E i \in DOMAIN Items : Items[i].match > 0
  /\ Spend("opens")
  /\ opening' = opening \cup {root}
  /\ UNCHANGED <<root, search, timer, requests, expanded, focus, index, languages, supports, tabs>>

AppliesAlways(w) == TRUE
ShouldApply(w) == w = root

\* The file of the match was read.
Opened(w) ==
  /\ w \in opening
  /\ opening' = opening \ {w}
  /\ IF ShouldApply(w) THEN tabs' = tabs \cup {w} /\ focus' = "elsewhere" ELSE UNCHANGED <<tabs, focus>>
  /\ UNCHANGED <<root, search, timer, requests, expanded, index, languages, supports, cast>>

-----------------------------------------------------------------------------
Init ==
  /\ root = NoWorkspace
  /\ search = [query |-> NoQuery, option |-> FALSE, active |-> 0, last |-> 0, ui |-> Plain("no-workspace")]
  /\ timer = NoRequest /\ requests = {}
  /\ expanded = {} /\ focus = "input" /\ index = 0
  /\ languages = [loaded |-> {}, importing |-> {}, wanted |-> {}] /\ supports = {}
  /\ opening = {} /\ tabs = {}
  /\ cast \in Casts

Next ==
  \/ \E q \in Queries \cup {NoQuery} : SetQuery(q)
  \/ SetOption \/ BeginSearch \/ InputKeyDown \/ ActivateMatch
  \/ \E w \in Workspaces \cup {NoWorkspace} : SwitchWorkspace(w)
  \/ \E r \in requests, kind \in {"results", "no-matches", "canceled", "failed"} : Respond(r, kind)
  \/ \E i \in DOMAIN Items : ToggleFile(i)
  \/ \E key \in Keys \cup {"Enter", "ArrowRight"} : ListKeyDown(key)
  \/ \E to \in {"input", "elsewhere"} : MoveFocus(to)
  \/ \E l \in languages.importing, ok \in BOOLEAN : LanguageLoaded(l, ok)
  \/ \E w \in opening : Opened(w)

Spec == Init /\ [][Next]_vars

-----------------------------------------------------------------------------
Current == [root |-> root, query |-> search.query, option |-> search.option]

(* What the panel shows answers what the input holds: once nothing is       *)
(* debounced or under way, the answer shown is that of the current          *)
(* workspace, query and options; while it loads, the request that it waits  *)
(* for is on its way; and a search that was superseded is told to stop.     *)
AnswersCurrent ==
  /\ (root # NoWorkspace /\ search.query # NoQuery)
       <=> search.ui.kind \notin {"no-workspace", "empty-query"} \/ timer # NoRequest
  /\ timer # NoRequest => timer.key = Current
  /\ search.ui.kind \notin {"no-workspace", "empty-query"} /\ timer = NoRequest
       => search.ui.key = Current /\ search.ui.kind # "canceled"
  /\ search.ui.kind = "loading" /\ timer = NoRequest
       => \E r \in requests : r.id = search.active /\ r.fresh /\ ~r.canceled /\ r.key = Current
  /\ \A r \in requests : r.canceled \/ (r.id = search.active /\ r.key = Current)

(* The keyboard is never stranded: a focused row exists.                    *)
RowsReachable == /\ focus = "row" => index \in DOMAIN Items
                 /\ index # 0 => index \in DOMAIN Items

(* A row is coloured once its language is there, whichever rows were shown  *)
(* when it was asked for, and nothing that is not shown is kept.            *)
SupportsSound ==
  /\ supports \subseteq Visible(Items)
  /\ \A f \in Visible(Items) :
       LanguageOf[f] \in languages.loaded => f \in supports

SearchSound == AnswersCurrent /\ RowsReachable /\ SupportsSound /\ tabs \subseteq {root}
=============================================================================
