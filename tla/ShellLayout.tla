---------------------------- MODULE ShellLayout ----------------------------
(****************************************************************************)
(* The layout of the shell: the preferences in the store, the budget that   *)
(* makes an effective layout of them (utils/centerLayout.ts), the gestures  *)
(* on the handles (hooks/useResize.ts), the CSS variables that both write   *)
(* (hooks/useLayoutCssSync.ts), and who has the focus when a panel becomes  *)
(* a rail or comes back (layout/IDEShell.tsx).  A render follows each event *)
(* before the next.  A handle under the mouse takes no keys.                *)
(****************************************************************************)
EXTENDS Integers, FiniteSets
CONSTANTS
  Viewports,  \* the sizes the window may have, [width, height]
  Pointers,   \* the sizes a drag may ask for
  Casts       \* how often each kind of thing may happen: [drags, keys, windows, toggles, reveals,
              \* restores, docks, focus, overlap]; overlap, whether a gesture may begin while that of
              \* another handle is under way

\* A side has room for its minimum; the window is never less than 1024 wide.
LayoutAssumption ==
  /\ \A view \in Viewports : view.width \in Nat /\ view.height \in Nat /\ view.width >= 450
  /\ Pointers \subseteq Nat
  /\ Casts \subseteq [drags : Nat, keys : Nat, windows : Nat, toggles : Nat, reveals : Nat, restores : Nat,
                      docks : Nat, focus : Nat, overlap : BOOLEAN]

VARIABLES
  ui,       \* the preferences of the store, the viewport, the repository and the Golem window
  layout,   \* the effective layout of the last render
  active,   \* the gesture the shell knows of: the handle, its live size, the frozen peer
  hook,     \* useResize of each handle: its gesture, the size it started from, its ceiling, and the
            \* size that waits for an animation frame
  css,      \* the --panel-* variables
  written,  \* what useLayoutCssSync wrote last, by variable
  focus,    \* a panel, its rail, outside of the pair, or none
  owner,    \* lastFocusedPanel
  drag,     \* the record of a drag of a panel: its source, the order and the repository it began in
  latch,    \* restoringWindow: the window that opens is the saved one
  said,     \* the last transition of the window that was announced
  left      \* what is left of the cast
vars == <<ui, layout, active, hook, css, written, focus, owner, drag, latch, said, left>>

Handles == {"left", "right", "golem", "bottom"}
Sides == {"left", "right"}
Panels == {"files", "golem"}
Peer(p) == CASE p = "left" -> "right" [] p = "right" -> "left" [] p = "files" -> "golem" [] p = "golem" -> "files"
NoSize == -1
NoActive == [panel |-> "", size |-> NoSize, peer |-> NoSize]
NoGesture == [kind |-> "none", start |-> NoSize, max |-> NoSize, preview |-> NoSize]
NoDrag == [source |-> "", order |-> "", repo |-> 0]
At(n, m) == IF n < m THEN n ELSE m
Least(n, m) == IF n < m THEN m ELSE n
Clamp(n, low, high) == At(high, Least(low, n))

\* utils/centerLayout.ts: 56 + 2 * 6 + 3 * 6 of chrome, 44 + 26 + 2 * 6 + 6 of it vertically.
HorizontalChrome == 86
VerticalChrome == 88
MinSide == 180
MaxPanel == 600
CenterReserve == 400
MinGolem == 320
MaxGolem == 900
MinFiles == 360
MinBottom == 100
MinEditor == 200
DefaultSizes == [left |-> 260, right |-> 300, golem |-> 420, bottom |-> 200]
DefaultUi(view, repo, w) ==
  [sizes |-> DefaultSizes, collapsed |-> {"golem"}, order |-> "files-first", reveal |-> "files",
   revision |-> 0, view |-> view, repo |-> repo, window |-> w.window, pending |-> w.pending,
   asked |-> w.asked]  \* history: the user opened the window
-----------------------------------------------------------------------------
(* The budget: computeSideWidths, computeSideMax, computeBottomLayout and   *)
(* computeCenterLayout.                                                     *)
Requested(u, a) == [p \in Handles |-> IF a.panel = p THEN a.size ELSE u.sizes[p]]
SideCap(u) == At(MaxPanel, (u.view.width * 2) \div 5)
SideAsked(u, a, p) == IF p \in u.collapsed THEN 0 ELSE Clamp(Requested(u, a)[p], MinSide, SideCap(u))
\* What is too wide is taken from one side down to its minimum, the rest from the other.
GivesWay(asked, p, excess) == At(excess, Least(0, asked[p] - MinSide))
Narrowed(asked, first, excess) ==
  [asked EXCEPT ![first] = @ - GivesWay(asked, first, excess),
                ![Peer(first)] = @ - GivesWay(asked, Peer(first), excess - GivesWay(asked, first, excess))]
SideWidths(u, a) ==
  LET asked == [left |-> SideAsked(u, a, "left"), right |-> SideAsked(u, a, "right")]
      room == u.view.width - HorizontalChrome - CenterReserve
  IN Narrowed(asked, IF a.panel = "right" THEN "left" ELSE "right",
              Least(0, asked.left + asked.right - room))
SideMax(u, peerWidth) ==
  Least(MinSide, At(SideCap(u), u.view.width - HorizontalChrome - CenterReserve - peerWidth))
BottomMax(u) == Least(MinBottom, At(MaxPanel, u.view.height - VerticalChrome - MinEditor))

Undocked(u) == u.window = "ready"
GolemCeiling(u, sides) ==
  At(At(MaxGolem, u.view.width \div 2), u.view.width - HorizontalChrome - sides.left - sides.right - MinFiles)
\* A pair that does not fit shows the panel that was asked for last.
Rails(u, ceiling) ==
  IF Undocked(u) THEN {"golem"}
  ELSE IF u.collapsed \cap Panels = {} /\ ceiling < MinGolem THEN {Peer(u.reveal)}
  ELSE u.collapsed \cap Panels
Budget(u, a, asked, sides, ceiling, rails) ==
  LET peerOf(p) == IF a.panel = p THEN a.peer ELSE sides[Peer(p)]
  IN [rails |-> rails, seam |-> rails = {},
      size |-> [left |-> sides.left, right |-> sides.right,
                bottom |-> Clamp(asked.bottom, MinBottom, BottomMax(u)),
                golem |-> IF rails = {} THEN At(ceiling, Least(MinGolem, asked.golem)) ELSE asked.golem],
      max |-> [left |-> SideMax(u, peerOf("left")), right |-> SideMax(u, peerOf("right")),
               golem |-> IF rails = {} THEN ceiling ELSE 0, bottom |-> BottomMax(u)]]
CenterOf(u, a, sides, ceiling) == Budget(u, a, Requested(u, a), sides, ceiling, Rails(u, ceiling))
LayoutOf(u, a, sides) == CenterOf(u, a, sides, GolemCeiling(u, sides))
Effective(u, a) == LayoutOf(u, a, SideWidths(u, a))
Floor(p) == CASE p \in Sides -> MinSide [] p = "golem" -> MinGolem [] OTHER -> MinBottom
-----------------------------------------------------------------------------
\* What cancels a gesture when it changes under it.
KeyOf(u) == <<u.view, u.order, u.collapsed, u.repo>>
KeyOfView(u) == <<u.view>>
InvalidationKey(u) == KeyOf(u)
Revoked(u, h, a) ==
  {p \in Handles : h[p].kind # "none" /\ (InvalidationKey(u) # InvalidationKey(ui)
                                            \/ (p = "golem" /\ ~Effective(u, a).seam))}

(* The focus once the layout is rendered: a panel that is hidden loses it.  *)
Shown(f, e, u) ==
  CASE f \in Panels -> f \notin e.rails
    [] f \in {"filesRail", "golemRail"} -> (IF f = "filesRail" THEN "files" ELSE "golem") \in e.rails
                                            /\ ~(f = "golemRail" /\ Undocked(u))
    [] OTHER -> TRUE
Rail(p) == IF p = "files" THEN "filesRail" ELSE "golemRail"
HandsNone(p, base, e, u) == base
\* A panel that has just become a rail gives its focus to the rail.
HandsToRail(p, base, e, u) ==
  IF /\ p \in e.rails \ layout.rails
     /\ (p \in u.collapsed \ ui.collapsed) \/ focus = p \/ (owner = p /\ focus = "none")
  THEN Rail(p) ELSE base
\* One that the user asked for takes it, unless another was collapsed on purpose.
ComesBack(p, base, e, u) ==
  IF /\ p \in layout.rails \ e.rails
     /\ (u.collapsed \ ui.collapsed) \cap Panels = {}
     /\ (p \in ui.collapsed \ u.collapsed) \/ (u.reveal = p /\ ui.reveal # p)
  THEN p ELSE base
FocusAfter(e, u) ==
  LET base == IF Shown(focus, e, u) THEN focus ELSE "none"
      files == ComesBack("files", HandsToRail("files", base, e, u), e, u)
  IN IF u.revision # ui.revision \/ Undocked(u) # Undocked(ui) THEN base
     ELSE ComesBack("golem", HandsToRail("golem", files, e, u), e, u)

(* The announcer: a window that was restored is not announced.              *)
LatchAfter(u) == IF u.pending THEN TRUE ELSE IF u.window = "closed" THEN FALSE ELSE latch
LatchKept(u) == u.pending \/ latch
LatchedAfter(u) == LatchAfter(u)

Announced(u, opening) ==
  IF Undocked(u) # Undocked(ui)
  THEN latch' = FALSE /\ said' = IF Undocked(u) /\ opening THEN said
                                 ELSE IF Undocked(u) THEN "undocked" ELSE "docked"
  ELSE latch' = opening /\ said' = said

(* A render: what the change took away cancels its gesture, the variables   *)
(* that no gesture owns are written, and focus and announcer follow.        *)
Settle(u, h, c, gone, now, e, kept) ==
  /\ ui' = u /\ active' = now /\ layout' = e
  /\ hook' = [p \in Handles |-> IF p \in gone THEN NoGesture ELSE h[p]]
  /\ css' = [p \in Handles |-> IF now.panel = p \/ kept[p] = e.size[p] THEN c[p] ELSE e.size[p]]
  /\ written' = [p \in Handles |-> IF now.panel = p THEN NoSize ELSE e.size[p]]
  /\ focus' = FocusAfter(e, u)
  /\ owner' = IF focus' \in Panels THEN focus' ELSE IF focus' = focus THEN owner
              ELSE IF focus' = "none" THEN owner ELSE ""
  /\ Announced(u, LatchedAfter(u))
Written(gone, again) == [p \in Handles |-> IF gone \/ again THEN NoSize ELSE written[p]]
RenderNow(u, h, c, gone, now, again) == Settle(u, h, c, gone, now, Effective(u, now), Written(gone # {}, again))
RenderWith(u, h, a, c, gone, again) == RenderNow(u, h, c, gone, IF gone # {} THEN NoActive ELSE a, again)
Render(u, h, a, c, again) == RenderWith(u, h, a, c, Revoked(u, h, a), again)

Init ==
  /\ left \in Casts
  /\ \E view \in Viewports, open \in BOOLEAN :
       ui = [DefaultUi(view, 1, [window |-> "closed", pending |-> FALSE, asked |-> FALSE]) EXCEPT
               !.collapsed = IF open THEN {} ELSE {"golem"}]
  /\ active = NoActive /\ layout = Effective(ui, active) /\ hook = [p \in Handles |-> NoGesture]
  /\ css = layout.size /\ written = layout.size
  /\ focus = "outside" /\ owner = "" /\ drag = NoDrag /\ latch = FALSE /\ said = ""
Spend(what) == left[what] > 0 /\ left' = [left EXCEPT ![what] = @ - 1]
Changes(u) == Render(u, hook, active, css, FALSE) /\ UNCHANGED drag
-----------------------------------------------------------------------------
(* hooks/useResize.ts.  A gesture on a handle discards the one before it.   *)
Alone(p) == (\A q \in Handles \ {p} : hook[q].kind = "none") \/ left.overlap
Grab(p) == [panel |-> p, size |-> css[p], peer |-> IF p \in Sides THEN layout.size[Peer(p)] ELSE NoSize]
Usable(p) == IF p = "golem" THEN layout.seam ELSE p \notin ui.collapsed
MouseDown ==
  /\ Spend("drags") /\ \A p \in Handles : hook[p].kind # "mouse"
  /\ \E p \in Handles :
       /\ Usable(p) /\ Alone(p)
       /\ Render(ui, [hook EXCEPT ![p] = [kind |-> "mouse", start |-> css[p], max |-> layout.max[p],
                                          preview |-> NoSize]],
                 Grab(p), css, hook[p].kind # "none")
  /\ UNCHANGED drag
MouseMove ==
  /\ Spend("drags")
  /\ \E p \in Handles, n \in Pointers :
       LET size == Clamp(n, Floor(p), hook[p].max) IN
       /\ hook[p].kind = "mouse" /\ css[p] # size
       /\ css' = [css EXCEPT ![p] = size] /\ hook' = [hook EXCEPT ![p].preview = size]
  /\ UNCHANGED <<ui, layout, active, written, focus, owner, drag, latch, said>>
\* The frame of a preview: peers give way before the drag ends.
Previewed(p) == IF active.panel = p THEN [active EXCEPT !.size = hook[p].preview] ELSE active
Frame ==
  /\ \E p \in Handles :
       /\ hook[p].preview # NoSize
       /\ Render(ui, [hook EXCEPT ![p].preview = NoSize], Previewed(p), css, FALSE)
  /\ UNCHANGED <<drag, left>>

\* onResizeEnd and onResizeCancel of the shell.
Commits(p, size, start) == size # start
EndsHeld(p, size, c) ==
  LET saved == Commits(p, size, hook[p].start) IN
  Render(IF saved THEN [ui EXCEPT !.sizes[p] = size] ELSE ui, [hook EXCEPT ![p] = NoGesture],
         IF saved THEN NoActive ELSE active, c, FALSE)
\* A release that did not move the panel saves nothing, and ends the gesture all the same.
Ends(p, size, c) ==
  LET saved == Commits(p, size, hook[p].start) IN
  Render(IF saved THEN [ui EXCEPT !.sizes[p] = size] ELSE ui, [hook EXCEPT ![p] = NoGesture],
         NoActive, c, ~saved)
MouseUp ==
  /\ \E p \in Handles : hook[p].kind = "mouse" /\ Ends(p, css[p], css)
  /\ UNCHANGED <<drag, left>>
KeyStep ==
  /\ Spend("keys")
  /\ \E p \in Handles, step \in {-20, 20} :
       LET size == Clamp(css[p] + step, Floor(p), layout.max[p])
           first == hook[p].kind = "none"
           start == IF first THEN css[p] ELSE hook[p].start
           h == [hook EXCEPT ![p] = [kind |-> "keys", start |-> start, max |-> size, preview |-> size]]
       IN /\ Usable(p) /\ hook[p].kind # "mouse" /\ (first => Alone(p))
          /\ Render(ui, h, IF first THEN Grab(p) ELSE active, [css EXCEPT ![p] = size], FALSE)
  /\ UNCHANGED drag
\* KEYBOARD_RESIZE_END_DELAY after the last key: the size of that key is the one that counts.
KeysPause ==
  /\ \E p \in Handles : hook[p].kind = "keys" /\ Ends(p, hook[p].max, css)
  /\ UNCHANGED <<drag, left>>
-----------------------------------------------------------------------------
\* The window manager gives the window another size.
Resized ==
  /\ Spend("windows")
  /\ \E view \in Viewports \ {ui.view} : Changes([ui EXCEPT !.view = view])

\* setFilesPanelCollapsed and setGolemPanelCollapsed: never both.
CollapsesOne(c, p) == c \cup {p}
Collapsed(c, p) == (c \cup {p}) \ (IF p \in Panels THEN {Peer(p)} ELSE {})
Toggle ==
  /\ Spend("toggles")
  /\ \E p \in Panels \cup Sides :
       Changes([ui EXCEPT !.collapsed = IF p \in @ THEN @ \ {p} ELSE Collapsed(@, p)])
Reorder ==
  /\ Spend("toggles")
  /\ \E order \in {"files-first", "golem-first"} \ {ui.order} : Changes([ui EXCEPT !.order = order])

\* revealCenterPanel, from a rail or from whatever opens a file or the chat.
Revealed(u, p) == [u EXCEPT !.reveal = p, !.collapsed = @ \ {p}]
Reveal ==
  /\ Spend("reveals")
  /\ \E p \in Panels : (p = "golem" => ui.window = "closed") /\ Changes(Revealed(ui, p))
\* The command toggles what can be seen, not what is saved.
SavedVisible == "golem" \notin ui.collapsed
GolemVisible == "golem" \notin layout.rails
ToggleGolemPanel ==
  /\ Spend("reveals") /\ ui.window = "closed"
  /\ Changes(IF GolemVisible THEN [ui EXCEPT !.collapsed = Collapsed(@, "golem")]
             ELSE Revealed(ui, "golem"))

\* Another repository: defaults, and some renders later what was saved for it.
SwitchWorkspace ==
  /\ Spend("restores")
  /\ Changes([DefaultUi(ui.view, ui.repo + 1, ui) EXCEPT !.revision = ui.revision + 1])
\* normalizeCenterLayout keeps the pair from being collapsed both.
Restore ==
  /\ Spend("restores")
  /\ \E c \in SUBSET Panels, n \in Pointers :
       LET kept == IF c = Panels THEN {"golem"} ELSE c IN
       Changes([ui EXCEPT !.collapsed = (@ \ Panels) \cup kept,
                          !.sizes.golem = Clamp(n, MinGolem, MaxGolem),
                          !.reveal = IF kept = {"files"} THEN "golem" ELSE "files",
                          !.revision = @ + 1])

\* The Golem window: restored at the start, opened by the user, or gone again.
WindowMoves ==
  /\ Spend("docks")
  /\ \E w \in {"closed", "opening", "ready"}, pending \in BOOLEAN :
       /\ \/ ui.window = "closed" /\ w = "closed" /\ pending /\ ~ui.pending
          \/ ui.window = "closed" /\ w = "opening" /\ ~pending
          \/ ui.window = "opening" /\ w \in {"ready", "closed"} /\ ~pending
          \/ ui.window = "ready" /\ w = "closed" /\ ~pending
       /\ Changes([ui EXCEPT !.window = w, !.pending = pending,
                             !.asked = IF ui.window = "closed" THEN ~ui.pending ELSE @])

\* The user moves the focus to something that is on screen.
Focus ==
  /\ Spend("focus")
  /\ \E f \in {"files", "golem", "filesRail", "golemRail", "outside", "none"} \ {focus} :
       /\ Shown(f, layout, ui)
       /\ focus' = f
       /\ owner' = CASE f \in Panels -> f [] f \in {"filesRail", "golemRail"} -> "" [] OTHER -> owner
  /\ UNCHANGED <<ui, layout, active, hook, css, written, drag, latch, said>>

\* A panel is dragged over its peer: the order of the start decides where it lands.
DragStart ==
  /\ Spend("toggles") /\ drag = NoDrag
  /\ \E p \in Panels \ layout.rails : drag' = [source |-> p, order |-> ui.order, repo |-> ui.repo]
  /\ UNCHANGED <<ui, layout, active, hook, css, written, focus, owner, latch, said>>
DroppedOrder(d) ==
  LET targetIsLeft == (Peer(d.source) = "files") = (d.order = "files-first")
  IN IF (d.source = "files") = targetIsLeft THEN "files-first" ELSE "golem-first"
Drop ==
  /\ drag # NoDrag /\ drag' = NoDrag
  /\ \E passed \in BOOLEAN :
       Render(IF passed /\ drag.repo = ui.repo THEN [ui EXCEPT !.order = DroppedOrder(drag)] ELSE ui,
              hook, active, css, FALSE)
  /\ UNCHANGED left

Next ==
  MouseDown \/ MouseMove \/ Frame \/ MouseUp \/ KeyStep \/ KeysPause \/ Resized \/ Toggle
    \/ Reorder \/ Reveal \/ ToggleGolemPanel \/ SwitchWorkspace \/ Restore \/ WindowMoves \/ Focus
    \/ DragStart \/ Drop
Spec == Init /\ [][Next]_vars
-----------------------------------------------------------------------------
(* What is shown fits the window: a split leaves Files its minimum, the     *)
(* pair is never both rails, and a rail that nobody asked for is there only *)
(* because a split would not fit.                                           *)
LayoutFits ==
  /\ ~(Panels \subseteq ui.collapsed) /\ layout.rails # Panels
  /\ layout.seam =>
       /\ layout.size.golem >= MinGolem
       /\ layout.size.left + layout.size.right + layout.size.golem + MinFiles + HorizontalChrome <= ui.view.width
  /\ ~Undocked(ui) /\ ui.collapsed \cap Panels = {} => ui.reveal \notin layout.rails

(* Without a gesture under way the shell holds none, and the handle of the  *)
(* gesture it holds can be used.  Unless gestures overlap, each variable    *)
(* has the size of the layout, whatever was cancelled, clamped or restored, *)
(* but that of the gesture, which takes no more than the other panels can   *)
(* give.                                                                    *)
Reach(p) ==
  CASE p \in Sides -> SideMax(ui, IF Peer(p) \in ui.collapsed THEN 0 ELSE MinSide)
    [] p = "golem" -> layout.max.golem
    [] OTHER -> BottomMax(ui)
GestureEnds ==
  /\ (\A p \in Handles : hook[p].kind = "none") => active = NoActive
  /\ active # NoActive => Usable(active.panel)
  /\ ~left.overlap => \A p \in Handles : IF active.panel = p THEN css[p] \in Floor(p)..Reach(p)
                                         ELSE css[p] = layout.size[p]

(* "Release must rewrite this variable even if its desired size is          *)
(* unchanged" (useLayoutCssSync.ts): when no gesture is under way, each has *)
(* the size of the layout, also when gestures overlapped.                   *)
ReleaseRewrites == (\A p \in Handles : hook[p].kind = "none") => css = layout.size

(* The focus is on something that is on screen.                             *)
FocusShown == Shown(focus, layout, ui)
ShellSound == LayoutFits /\ GestureEnds /\ FocusShown

(* A panel that becomes a rail never drops the focus it had, unless another *)
(* layout was restored or the chat moved to its window; the command that    *)
(* toggles Golem changes what is seen of it; and the window that the user   *)
(* opened is announced, even after the restore of another one failed.       *)
FocusKept ==
  /\ focus \in Panels /\ focus' = "none" =>
       \/ ui'.revision # ui.revision \/ Undocked(ui') # Undocked(ui)
       \/ left'.focus # left.focus
  /\ ToggleGolemPanel => ("golem" \in layout'.rails) # ("golem" \in layout.rails)
  /\ ~Undocked(ui) /\ Undocked(ui') => (ui.asked <=> said' = "undocked")
=============================================================================
