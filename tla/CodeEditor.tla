----------------------------- MODULE CodeEditor -----------------------------
(***************************************************************************)
(* The code editor (CodeMirrorEditor) and what it follows.  One view serves *)
(* every tab: a switch swaps the editor state in place, keeps the outgoing  *)
(* one in a cache, and brings the incoming one up to date with what its     *)
(* subscriptions missed meanwhile.  Jumps (navigateToEditorLocation) open a *)
(* file across several awaits and have to win over the scroll and cursor    *)
(* positions that the switch itself restores.                               *)
(*                                                                         *)
(* A text is a sequence of lines, a position is a line, and the viewport is *)
(* one line high.                                                           *)
(***************************************************************************)
EXTENDS Integers, Sequences, FiniteSets, SequencesExt

CONSTANTS
  Files, None,  \* the files, and no file
  RootsOf,      \* the projects that a file is in, innermost first; none without a language server
  Texts,        \* the texts a file may have
  MaxHistory,   \* MAX_NAVIGATION_HISTORY
  MaxFrames,    \* MAX_SCROLL_ASSERT_FRAMES
  Casts         \* how often each kind of thing may happen: [clicks, closes, types, moves, scrolls,
                \* jumps, looks, backs, reloads, lsp, git, faults]; which
                \* places are jumped to, whether a state that is installed may need measuring, and
                \* the session that was restored: [open, text, cursor, scroll]

VARIABLES
  store,   \* the tabs and what the three stores hold of them, see Init
  props,   \* what the editor was rendered with last, or NoProps when it is not mounted
  view,    \* the EditorView
  cache,   \* stateCacheRef, by file
  refs,    \* lastBaselineRef, lastConfigKey and the two hasAppliedInitial refs
  load,    \* the file whose language is being loaded, or None
  frames,  \* the callbacks of the next animation frame, in order
  moved,   \* the viewport moved, and the scroll event is due
  head,    \* useGitBaseline: [key, fetched]
  jumps,   \* the calls of navigateToEditorLocation under way
  look,    \* the definition lookup under way, or NoPlace
  landed,  \* where the last jump put the cursor, while nobody has moved since (history)
  left     \* what is left of the cast

vars == <<store, props, view, cache, refs, load, frames, moved, head, jumps, look, landed, left>>

Null == -1   \* no baseline; Blank is that of a file that HEAD does not have, and the others
Blank == 0   \* are contents of HEAD, by the revision of the status they belong to
NoKey == <<>>
NoNav == [file |-> None, line |-> 0, rev |-> 0, id |-> 0]
NoProps == [file |-> None]
NoView == [file |-> None]
NoPlace == [file |-> None, line |-> 0]
NoRefs == [base |-> Null, conf |-> NoKey, cursor |-> FALSE, scroll |-> FALSE]

Spend(kind) == left[kind] > 0 /\ left' = [left EXCEPT ![kind] = @ - 1]
At(line, text) == IF line <= Len(text) THEN line ELSE Len(text)
Opened(s) == ToSet(s.open)
Roots == UNION {ToSet(RootsOf[f]) : f \in Files}
-----------------------------------------------------------------------------
(* reconcileDoc: the doc is spliced between what the two texts have in      *)
(* common at either end, and CodeMirror maps the cursor through the splice. *)
Same(n, a, b) == n <= Len(a) /\ n <= Len(b)
Prefix(a, b) == CHOOSE n \in 0..Len(a) : /\ Same(n, a, b) /\ \A i \in 1..n : a[i] = b[i]
                                         /\ Same(n + 1, a, b) => a[n + 1] # b[n + 1]
Suffix(a, b) ==
  LET rest(t) == Reverse(SubSeq(t, Prefix(a, b) + 1, Len(t))) IN Prefix(rest(a), rest(b))
Mapped(line, a, b) ==
  IF line <= Prefix(a, b) THEN line
  ELSE IF line > Len(a) - Suffix(a, b) THEN line + Len(b) - Len(a)
  ELSE At(Prefix(a, b) + 1, b)
Reconciled(v, text) ==
  [v EXCEPT !.text = text, !.cursor = Mapped(@, v.text, text), !.top = At(@, text)]

\* useGitBaseline: which content of HEAD is wanted, and what the gutter compares with.
FetchKey(s) == IF s.active # None /\ s.row[s.active] = "changed" THEN <<s.active, s.rev>> ELSE NoKey
Baseline(s) ==
  CASE s.active = None \/ s.row[s.active] = "clean" -> Null
    [] s.row[s.active] = "added" -> Blank
    [] OTHER -> IF head.fetched.key = FetchKey(s) THEN head.fetched.content ELSE Null
Props ==
  IF store.active = None THEN NoProps
  ELSE [file |-> store.active, text |-> store.text[store.active], open |-> store.open,
        cursor |-> store.cursor[store.active], scroll |-> store.scroll[store.active], base |-> Baseline(store)]
Rendered == Props = props /\ FetchKey(store) = head.key
-----------------------------------------------------------------------------
(* The effects of the editor work on e, its view, refs and frames with what *)
(* they write to the store: the cursor of the file and the navigation.      *)
Selected(e, line) == [e EXCEPT !.view.cursor = line, !.cursor = line]
InitialCursor(e, p) ==
  IF p.cursor = 0 THEN e ELSE [Selected(e, At(p.cursor, e.view.text)) EXCEPT !.refs.cursor = TRUE]
InitialScroll(e, p) ==
  LET restore == [kind |-> "initial", top |-> p.scroll, file |-> None, text |-> <<>>, left |-> 0] IN
  IF p.scroll = 0 \/ restore \in ToSet(e.frames) THEN e ELSE [e EXCEPT !.frames = Append(@, restore)]

(* applyNavigation.  In a document that was not measured yet the first      *)
(* scroll does not arrive, so it is asserted again in the frames to come.   *)
ScrolledTo(v, line) == IF v.rough THEN [v EXCEPT !.rough = FALSE] ELSE [v EXCEPT !.top = line]
ScrollAssert(v, line, tries) ==
  [kind |-> "assert", top |-> line, file |-> v.file, text |-> v.text, left |-> tries]
Navigated(e, nav) ==
  LET line == At(nav.line, e.view.text)
      at == Selected(e, line)
  IN [at EXCEPT !.view = ScrolledTo(@, line), !.nav = NoNav, !.landed = [file |-> e.view.file, line |-> line],
                !.frames = Append(@, ScrollAssert(e.view, line, MaxFrames))]

\* createEditorExtensions and EditorState.create
FreshState(s, p, top, rough) ==
  [file |-> p.file, text |-> p.text, lang |-> None, theme |-> s.theme, base |-> Null, conf |-> NoKey,
   diags |-> s.diags[p.file], cursor |-> 1, top |-> At(top, p.text), rough |-> rough]
Fresh(e, p, top, rough) ==
  InitialScroll(InitialCursor([e EXCEPT !.view = FreshState(store, p, top, rough), !.refs.cursor = FALSE,
                                        !.refs.scroll = FALSE], p), p)
RestoredTop(e, p, kept) == IF e.nav.file = p.file THEN e.view.top ELSE kept.top
RestoredAsKept(e, p, kept, rough) ==
  [e EXCEPT !.view = [kept EXCEPT !.theme = store.theme, !.diags = store.diags[p.file], !.rough = rough,
                                  !.top = RestoredTop(e, p, kept)],
            !.refs.cursor = TRUE, !.refs.scroll = TRUE]
Restored(e, p, kept, rough) ==
  LET v == Reconciled(kept, p.text) IN
  [e EXCEPT !.view = [v EXCEPT !.theme = store.theme, !.diags = store.diags[p.file], !.rough = rough,
                               !.top = At(RestoredTop(e, p, kept), p.text)],
            !.cursor = IF kept.text = p.text THEN p.cursor ELSE v.cursor,
            !.refs.cursor = TRUE, !.refs.scroll = TRUE]

Saved ==
  IF view = NoView THEN cache
  ELSE [f \in DOMAIN cache \cup {view.file} |-> IF f = view.file THEN view ELSE cache[f]]
Switched(e, p, rough) ==
  IF view = NoView THEN Fresh(e, p, 1, rough)
  ELSE IF p.file \in DOMAIN Saved THEN Restored(e, p, Saved[p.file], rough)
  ELSE Fresh(e, p, view.top, rough)

\* Mutant: no baseline is no reason to tell the gutter.
BaselineKept(e, p) ==
  IF p.base = Null THEN e ELSE [e EXCEPT !.refs.base = p.base, !.view.base = p.base]

BaselineSet(e, p) ==
  IF p.base = Null /\ e.refs.base = Null THEN e ELSE [e EXCEPT !.refs.base = p.base, !.view.base = p.base]
(* applyLSPFeatureConfiguration: completion and hover belong to the server  *)
(* of the innermost project that has one, if it is ready.                   *)
Gone == -1
StatusFor(servers, file) ==
  LET known == SelectSeq(RootsOf[file], LAMBDA root : servers[root] # Gone)
  IN IF known = <<>> \/ servers[Head(known)] = 0 THEN NoKey ELSE <<Head(known), servers[Head(known)]>>
Configured(e, servers) ==
  LET key == StatusFor(servers, e.view.file) IN
  IF RootsOf[e.view.file] = <<>> \/ key = e.refs.conf THEN e
  ELSE [e EXCEPT !.view.conf = key, !.refs.conf = key]

Bundle == [view |-> view, refs |-> refs, frames |-> frames, nav |-> store.nav, landed |-> landed,
           cursor |-> IF store.active = None THEN 0 ELSE store.cursor[store.active]]
\* The effects of a render that shows another file, in order; and of one that does not.
Switch(p, rough) ==
  LET e1 == BaselineSet(Switched(Bundle, p, rough), p)
      e2 == Configured([e1 EXCEPT !.refs.conf = NoKey], store.servers)
  IN IF e2.nav.file = p.file THEN Navigated(e2, e2.nav) ELSE e2
Update(p) ==
  LET e1 == IF p.base = props.base THEN Bundle ELSE BaselineSet(Bundle, p)
      e2 == IF p.cursor = props.cursor \/ refs.cursor THEN e1 ELSE InitialCursor(e1, p)
      e3 == IF p.scroll = props.scroll \/ refs.scroll THEN e2 ELSE InitialScroll(e2, p)
      v == Reconciled(e3.view, p.text)
  IN IF p.text = e3.view.text THEN e3 ELSE [e3 EXCEPT !.view = v, !.cursor = v.cursor]
Put(e) ==
  /\ view' = e.view /\ refs' = e.refs /\ frames' = e.frames /\ landed' = e.landed
  /\ moved' = (moved \/ (view # NoView /\ e.view.top # view.top))

Fetching ==
  head' = IF FetchKey(store) = head.key THEN head ELSE [head EXCEPT !.key = FetchKey(store), !.due = TRUE]
\* React renders what the stores hold, and runs the effects of what has changed.
Unmounts ==
  /\ ~Rendered /\ Props = NoProps
  /\ props' = NoProps /\ view' = NoView /\ cache' = <<>> /\ refs' = NoRefs
  /\ load' = None /\ frames' = <<>> /\ moved' = FALSE /\ Fetching
  /\ UNCHANGED <<store, jumps, look, landed, left>>
Renders(rough) ==
  /\ ~Rendered /\ Props # NoProps
  /\ LET p == Props
         switches == p.file # props.file
         e == IF switches THEN Switch(p, rough) ELSE Update(p)
     IN /\ rough => switches /\ left.rough
        /\ Put(e) /\ props' = p
        /\ store' = [store EXCEPT !.cursor[p.file] = e.cursor, !.nav = e.nav]
        /\ cache' = [f \in DOMAIN (IF switches THEN Saved ELSE cache) \cap ToSet(p.open) |->
                       IF switches THEN Saved[f] ELSE cache[f]]
        /\ load' = IF switches THEN p.file ELSE load
  /\ Fetching
  /\ UNCHANGED <<jumps, look, left>>
-----------------------------------------------------------------------------
\* Between two events React has rendered, and no continuation is due.
Quiet == Rendered /\ \A j \in jumps : j.step # "opened"
Elsewhere == landed' = NoPlace

\* requestEditorNavigation, and its subscriber in the editor, which applies what is for its file.
Requested(s, file, line, id) == [s EXCEPT !.nav = [file |-> file, line |-> line, rev |-> @.rev + 1, id |-> id]]
Heard(s) == view # NoView /\ s.nav.file = props.file
Request(s, file, line, id) ==
  LET asks == Requested(s, file, line, id)
      e == Navigated([Bundle EXCEPT !.nav = asks.nav], asks.nav)
  IN IF Heard(asks)
     THEN Put(e) /\ store' = [asks EXCEPT !.nav = e.nav, !.cursor[props.file] = e.cursor]
     ELSE store' = asks /\ UNCHANGED <<view, refs, frames, moved>> /\ Elsewhere
Sits(s) == store' = s /\ UNCHANGED <<view, refs, frames, moved>> /\ Elsewhere

(* navigateToEditorLocation: a file that is open gets its request before it *)
(* is activated, so that the switch leaves the viewport to it.              *)
Jump(kind, s, file, line) ==
  LET id == left.jumps + left.looks + left.backs
      had == file \in Opened(s)
      asks == Requested(s, file, line, id)
  IN /\ Spend(kind)
     /\ jumps' = jumps \cup {[id |-> id, file |-> file, line |-> line, had |-> had, live |-> TRUE, step |-> "flush",
                              rev |-> IF had /\ ~Heard(asks) THEN asks.nav.rev ELSE 0]}
     /\ IF had THEN Request(s, file, line, id) ELSE Sits(s)
Navigate(file, line) ==
  /\ [file |-> file, line |-> line] \in left.places
  /\ Jump("jumps", store, file, line)
  /\ UNCHANGED <<props, cache, load, head, look>>

SameRevision(j) == j.rev # 0 /\ store.nav.file = j.file /\ store.nav.rev = j.rev
SameRequest(j) == j.rev # 0 /\ store.nav.id = j.id
Retracts(j) ==
  /\ jumps' = jumps \ {j}
  /\ store' = IF SameRequest(j) THEN [store EXCEPT !.nav = NoNav] ELSE store
  /\ UNCHANGED landed
\* ensureEditorFileOpen, in the order of its awaits: the flush of a pending write, and the read.
Activates(s, j) ==
  /\ jumps' = (jumps \ {j}) \cup {[j EXCEPT !.step = "opened"]}
  /\ store' = [s EXCEPT !.active = j.file]
  /\ IF store.active = j.file THEN UNCHANGED landed ELSE Elsewhere
Flushed(j) ==
  /\ j.step = "flush"
  /\ IF j.file \notin Opened(store)
     THEN jumps' = (jumps \ {j}) \cup {[j EXCEPT !.step = "read"]} /\ UNCHANGED <<store, landed>>
     ELSE IF j.live THEN Activates(store, j) ELSE Retracts(j)
  /\ UNCHANGED <<props, view, cache, refs, load, frames, moved, head, look, left>>
\* openFile
Read(j) ==
  /\ j.step = "read"
  /\ IF j.live THEN Activates([store EXCEPT !.open = IF j.file \in ToSet(@) THEN @ ELSE Append(@, j.file)], j)
               ELSE Retracts(j)
  /\ UNCHANGED <<props, view, cache, refs, load, frames, moved, head, look, left>>
\* The flush or the read fails, or the file is binary.
Fails(j) ==
  /\ j.step \in {"flush", "read"} /\ Spend("faults")
  /\ Retracts(j)
  /\ UNCHANGED <<props, view, cache, refs, load, frames, moved, head, look>>
Continues(j) ==
  /\ j.step = "opened"
  /\ jumps' = jumps \ {j}
  /\ IF j.had THEN UNCHANGED <<store, view, refs, frames, moved, landed>> ELSE Request(store, j.file, j.line, j.id)
  /\ UNCHANGED <<props, cache, load, head, look, left>>
\* shouldApply turns false: the caller was superseded.
Superseded(j) ==
  /\ j.live /\ Spend("faults")
  /\ jumps' = (jumps \ {j}) \cup {[j EXCEPT !.live = FALSE]}
  /\ UNCHANGED <<store, props, view, cache, refs, load, frames, moved, head, look, landed>>

\* triggerDefinition, goBack and goForward; the position is that of the cursor when they are called.
Here == [file |-> view.file, line |-> view.cursor]
LookUp ==
  /\ view # NoView /\ look = NoPlace /\ left.looks > 0
  /\ look' = Here
  /\ UNCHANGED <<store, props, view, cache, refs, load, frames, moved, head, jumps, landed, left>>
Pushed(entries, place) == LET all == Append(entries, place) IN
  IF Len(all) > MaxHistory THEN SubSeq(all, Len(all) - MaxHistory + 1, Len(all)) ELSE all
Found(file, line) ==
  /\ [file |-> file, line |-> line] \in left.places /\ look # NoPlace /\ look' = NoPlace
  /\ Jump("looks", [store EXCEPT !.past = Pushed(@, look), !.future = <<>>], file, line)
  /\ UNCHANGED <<props, cache, load, head>>
NotFound ==
  /\ look # NoPlace /\ look' = NoPlace /\ Spend("looks")
  /\ UNCHANGED <<store, props, view, cache, refs, load, frames, moved, head, jumps, landed>>
GoBack ==
  /\ view # NoView /\ store.past # <<>>
  /\ Jump("backs", [store EXCEPT !.past = Front(@), !.future = Append(@, Here)],
          Last(store.past).file, Last(store.past).line)
  /\ UNCHANGED <<props, cache, load, head, look>>
GoForward ==
  /\ view # NoView /\ store.future # <<>>
  /\ Jump("backs", [store EXCEPT !.past = Append(@, Here), !.future = Front(@)],
          Last(store.future).file, Last(store.future).line)
  /\ UNCHANGED <<props, cache, load, head, look>>
-----------------------------------------------------------------------------
\* The user: tabs, text, cursor and wheel.
ClickTab(file) ==
  /\ file \in Opened(store) /\ file # store.active /\ Spend("clicks")
  /\ store' = [store EXCEPT !.active = file] /\ Elsewhere
  /\ UNCHANGED <<props, view, cache, refs, load, frames, moved, head, jumps, look>>
CloseFile(file) ==
  /\ file \in Opened(store) /\ Spend("closes")
  /\ LET rest == SelectSeq(store.open, LAMBDA f : f # file)
         next == IF rest = <<>> THEN None ELSE Last(rest)
     IN store' = [store EXCEPT !.open = rest, !.active = IF @ = file THEN next ELSE @]
  /\ Elsewhere
  /\ UNCHANGED <<props, view, cache, refs, load, frames, moved, head, jumps, look>>
Type(text) ==
  /\ view # NoView /\ text # view.text /\ Spend("types")
  /\ LET line == At(Prefix(view.text, text) + 1, text) IN
     /\ view' = [view EXCEPT !.text = text, !.cursor = line, !.top = At(@, text)]
     /\ store' = [store EXCEPT !.text[view.file] = text, !.cursor[view.file] = line]
     /\ moved' = (moved \/ view'.top # view.top)
  /\ Elsewhere
  /\ UNCHANGED <<props, cache, refs, load, frames, head, jumps, look>>
NoAsserts == SelectSeq(frames, LAMBDA c : c.kind = "initial")
Select(line, pointer) ==
  /\ view # NoView /\ line \in DOMAIN view.text /\ line # view.cursor /\ Spend("moves")
  /\ view' = [view EXCEPT !.cursor = line] /\ store' = [store EXCEPT !.cursor[view.file] = line]
  /\ frames' = IF pointer THEN NoAsserts ELSE frames
  /\ Elsewhere
  /\ UNCHANGED <<props, cache, refs, load, moved, head, jumps, look>>
Scroll(line) ==
  /\ view # NoView /\ line \in DOMAIN view.text /\ line # view.top /\ Spend("scrolls")
  /\ view' = [view EXCEPT !.top = line, !.rough = FALSE] /\ frames' = NoAsserts /\ moved' = TRUE
  /\ Elsewhere
  /\ UNCHANGED <<store, props, cache, refs, load, head, jumps, look>>

\* A frame: the scroll event, and once React has rendered what follows of it, the callbacks.
ScrollEvent ==
  /\ moved /\ moved' = FALSE
  /\ store' = [store EXCEPT !.scroll[view.file] = view.top]
  /\ UNCHANGED <<props, view, cache, refs, load, frames, head, jumps, look, landed, left>>
Arrived(v, c) == v.file # c.file \/ v.text # c.text \/ v.cursor # c.top \/ v.top = c.top
Called(e, c) ==
  CASE c.kind = "initial" -> [e EXCEPT !.view.top = At(c.top, e.view.text), !.refs.scroll = TRUE]
    [] Arrived(e.view, c) -> e
    [] OTHER -> [e EXCEPT !.view = ScrolledTo(@, c.top),
                          !.frames = IF c.left > 1 THEN Append(@, ScrollAssert(e.view, c.top, c.left - 1)) ELSE @]
Frame ==
  /\ frames # <<>> /\ ~moved
  /\ Put(FoldLeft(Called, [Bundle EXCEPT !.frames = <<>>], frames))
  /\ UNCHANGED <<store, props, cache, load, head, jumps, look, left>>
-----------------------------------------------------------------------------
\* Answers and events from outside.
LanguageLoaded(language) ==
  /\ load # None /\ load' = None
  /\ IF language = None THEN Spend("faults") ELSE left' = left
  /\ view' = [view EXCEPT !.lang = language]
  /\ UNCHANGED <<store, props, cache, refs, frames, moved, head, jumps, look, landed>>
\* GitFileAtRev; a binary file, a truncated one and a failure give no baseline.
HeadRead(content) ==
  /\ head.due /\ head.key # NoKey
  /\ head' = [head EXCEPT !.due = FALSE, !.fetched = [key |-> head.key, content |-> content]]
  /\ UNCHANGED <<store, props, view, cache, refs, load, frames, moved, jumps, look, landed, left>>
StatusRefreshed(file, row) ==
  /\ Spend("git")
  /\ store' = [store EXCEPT !.row[file] = row, !.rev = @ + 1]
  /\ UNCHANGED <<props, view, cache, refs, load, frames, moved, head, jumps, look, landed>>
ServerChanges(root, status) ==
  /\ status # store.servers[root] /\ Spend("lsp")
  /\ store' = [store EXCEPT !.servers[root] = status]
  /\ IF view = NoView THEN UNCHANGED <<view, refs>>
     ELSE LET e == Configured(Bundle, store'.servers) IN view' = e.view /\ refs' = e.refs
  /\ UNCHANGED <<props, cache, load, frames, moved, head, jumps, look, landed>>
DiagnosticsArrive(file) ==
  /\ Spend("lsp")
  /\ store' = [store EXCEPT !.diags[file] = @ + 1]
  /\ view' = IF view.file = file THEN [view EXCEPT !.diags = store.diags[file] + 1] ELSE view
  /\ UNCHANGED <<props, cache, refs, load, frames, moved, head, jumps, look, landed>>
ThemeChanges ==
  /\ Spend("lsp")
  /\ store' = [store EXCEPT !.theme = 3 - @]
  /\ view' = IF view = NoView THEN view ELSE [view EXCEPT !.theme = 3 - store.theme]
  /\ UNCHANGED <<props, cache, refs, load, frames, moved, head, jumps, look, landed>>
\* A file is read again, because the disk has another text of it.
Reload(file, text) ==
  /\ store.text[file] # text /\ Spend("reloads")
  /\ store' = [store EXCEPT !.text[file] = text] /\ Elsewhere
  /\ UNCHANGED <<props, view, cache, refs, load, frames, moved, head, jumps, look>>
-----------------------------------------------------------------------------
Lines == 1..2
Init ==
  /\ left \in Casts
  /\ LET session == left.from IN
       store = [open |-> session.open, active |-> IF session.open = <<>> THEN None ELSE session.open[1],
                text |-> session.text, cursor |-> session.cursor, scroll |-> session.scroll, nav |-> NoNav,
                past |-> <<>>, future |-> <<>>, theme |-> 1, servers |-> [root \in Roots |-> Gone],
                diags |-> [f \in Files |-> 0],
                row |-> [f \in Files |-> "clean"], rev |-> 1]
  /\ props = NoProps /\ view = NoView /\ cache = <<>> /\ refs = NoRefs /\ load = None
  /\ frames = <<>> /\ moved = FALSE
  /\ head = [key |-> NoKey, due |-> FALSE, fetched |-> [key |-> NoKey, content |-> Null]]
  /\ jumps = {} /\ look = NoPlace /\ landed = NoPlace

\* What may happen between two renders.
Events ==
  \/ \E f \in Files, line \in Lines : Navigate(f, line) \/ Found(f, line)
  \/ \E j \in jumps : Flushed(j) \/ Read(j) \/ Fails(j) \/ Superseded(j)
  \/ LookUp \/ NotFound \/ GoBack \/ GoForward
  \/ \E f \in Files : ClickTab(f) \/ CloseFile(f) \/ DiagnosticsArrive(f)
  \/ \E f \in Files, text \in Texts : Reload(f, text)
  \/ \E text \in Texts : Type(text)
  \/ \E line \in Lines : Scroll(line) \/ \E pointer \in BOOLEAN : Select(line, pointer)
  \/ ScrollEvent \/ Frame
  \/ \E language \in {load, None} : LanguageLoaded(language)
  \/ \E content \in {store.rev, Null} : HeadRead(content)
  \/ \E f \in Files, row \in {"clean", "added", "changed"} : StatusRefreshed(f, row)
  \/ \E root \in Roots, status \in Gone..1 : ServerChanges(root, status)
  \/ ThemeChanges

Next ==
  \/ Unmounts \/ \E rough \in BOOLEAN : Renders(rough)
  \/ \E j \in jumps : Continues(j)
  \/ Quiet /\ Events

Spec == Init /\ [][Next]_vars
-----------------------------------------------------------------------------
(* Once React has rendered, the editor is that of the active tab: its text, *)
(* diagnostics and theme, its own language, and the server that is ready    *)
(* for it, whatever changed while the tab was in the background; and states *)
(* are kept of open files only.                                             *)
EditorFollows ==
  Rendered =>
    /\ DOMAIN cache \subseteq Opened(store)
    /\ view.file = store.active
    /\ view # NoView =>
         /\ view.text = store.text[view.file] /\ view.cursor \in DOMAIN view.text
         /\ view.diags = store.diags[view.file] /\ view.theme = store.theme
         /\ view.lang \in {view.file, None}
         /\ StatusFor(store.servers, view.file) # NoKey => view.conf = StatusFor(store.servers, view.file)

(* The change gutter compares with the content of HEAD that is wanted, that *)
(* of its own file and of the last status; where none is, with nothing,     *)
(* unless the state was left before and came back: then it may still        *)
(* compare with what it had when it was left.  (The effect skips a null     *)
(* after a null, because a state after a switch starts null; one from the   *)
(* cache does not.)                                                         *)
BaselineFresh ==
  Rendered /\ store.active # None =>
    IF props.base = Null
    THEN view.base \in {Null} \cup {cache[f].base : f \in {view.file} \cap DOMAIN cache}
    ELSE /\ view.base = props.base
         /\ IF store.row[view.file] = "added" THEN view.base = Blank ELSE view.base = store.rev

(* A jump wins: when its frames are over, the cursor and the viewport are   *)
(* where it went, unless somebody has moved since.                          *)
JumpWins ==
  Rendered /\ landed # NoPlace /\ frames = <<>> =>
    view.file = landed.file /\ view.cursor = landed.line /\ view.top = landed.line

(* A request that was not applied belongs to a jump that is under way, so   *)
(* that no later switch is hijacked.                                        *)
NoStrayRequest == Rendered /\ store.nav # NoNav => \E j \in jumps : j.id = store.nav.id

\* However the user goes back and forth, no more places are kept than the history holds.
HistoryBounded == Len(store.past) + Len(store.future) <= MaxHistory

EditorSound == EditorFollows /\ BaselineFresh /\ JumpWins /\ NoStrayRequest /\ HistoryBounded

(* A jump that gives up takes back its own request only: one that goes      *)
(* without being applied was that jump's.                                   *)
RequestsKept ==
  store.nav # NoNav /\ store'.nav = NoNav /\ landed' = landed =>
    \E j \in jumps \ jumps' : j.id = store.nav.id
=============================================================================
