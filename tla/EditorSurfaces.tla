--------------------------- MODULE EditorSurfaces ---------------------------
(***************************************************************************)
(* The surfaces of the editor column (Editor): the files, the diff preview, *)
(* the merge resolution and the Golem configuration.  Three stores hold     *)
(* which are open and which has the editor's focus; the effects of Editor   *)
(* keep those flags exclusive, whoever raises one.  Closing a surface hands *)
(* the keyboard to the tab that is selected then, and the tab strip follows *)
(* the selection.                                                           *)
(***************************************************************************)
EXTENDS Integers, Sequences, FiniteSets, SequencesExt

CONSTANTS
  Files, None,  \* the files, and no file
  Width,        \* widths in the strip: [tab, strip, control]
  Casts         \* how often each kind of thing may happen: [clicks, opens, closes, diffs, merges,
                \* configs, types, scrolls, faults], and the files that are open to begin with

VARIABLES
  now,      \* what the three stores hold of the surfaces, see Init
  seen,     \* now as it was rendered last
  had,      \* hadMergeSessionRef
  restore,  \* restoreFocusAfterCloseRef
  timer,    \* its timeout is due
  focus,    \* the element that has the keyboard focus
  scroll,   \* scrollLeft of the tab strip
  asks,     \* the calls under way, see Call: openDiff, refreshOpenDiff, openMergeResolution,
            \* confirmConfigClose
  stale,    \* the diff misses an edit of its buffer
  want,     \* the surface that was chosen last, or None (history)
  let,      \* excused: the focus was lost by no close, the strip was scrolled or another tab
            \* came back, a read failed or yielded (history)
  left      \* what is left of the cast

vars == <<now, seen, had, restore, timer, focus, scroll, asks, stale, want, let, left>>

Diff == "diff"
Merge == "merge"
Config == "config"
Refresh == "refresh"
\* A call is superseded (live), is the hand-off of a finalized merge, has read the buffer already.
Call(kind) == [kind |-> kind, live |-> TRUE, hand |-> FALSE, old |-> FALSE]
Running(kinds) == {a \in asks : a.kind \in kinds}
Spend(kind) == left[kind] > 0 /\ left' = [left EXCEPT ![kind] = @ - 1]
-----------------------------------------------------------------------------
\* Which surface is shown; its tab is the one that is selected.
ShowConfig(u) == u.config /\ (u.configFocused \/ (u.active = None /\ ~u.diff /\ ~u.merge))
ShowDiff(u) == ~ShowConfig(u) /\ u.diff /\ (u.focus = Diff \/ (u.active = None /\ ~u.merge))
ShowMerge(u) == ~ShowConfig(u) /\ u.merge /\ ~ShowDiff(u) /\ (u.focus = Merge \/ u.active = None)
Selected(u) ==
  CASE ShowConfig(u) -> Config
    [] ShowMerge(u) -> Merge
    [] ShowDiff(u) -> Diff
    [] OTHER -> u.active
Tabs(u) == u.open \o (IF u.diff THEN <<Diff>> ELSE <<>>) \o (IF u.merge THEN <<Merge>> ELSE <<>>)
             \o (IF u.config THEN <<Config>> ELSE <<>>)

\* revealTab, scrollTo with what the browser makes of it, and useTabStripOverflow.
Most(u) == IF Len(Tabs(u)) * Width.tab > Width.strip THEN Len(Tabs(u)) * Width.tab - Width.strip ELSE 0
Clamp(u, x) == IF x < 0 THEN 0 ELSE IF x > Most(u) THEN Most(u) ELSE x
LeftEdge(u, tab) == (SelectInSeq(Tabs(u), LAMBDA t : t = tab) - 1) * Width.tab
RevealFlush(u, tab, x) == LET before == LeftEdge(u, tab) - x IN Clamp(u, x + before)
RevealTab(u, tab, x) ==
  LET before == LeftEdge(u, tab) - x - Width.control
      after == LeftEdge(u, tab) + Width.tab - x - Width.strip + Width.control
      least == IF after < before THEN after ELSE before
  IN Clamp(u, x + (IF before < 0 THEN before ELSE IF after > 0 THEN least ELSE 0))
Overflows(u, x) == [left |-> x > 0, right |-> x < Most(u)]

\* setEditorFocus, setConfigTabFocused; focusEditorSurface and focusConfigTab.
SetEditorFocus(u, on) == [u EXCEPT !.focus = on]
FocusSurface(u, on) == [SetEditorFocus(u, on) EXCEPT !.configFocused = FALSE, !.nonce = ~@]
ConfigOnly(u) == [u EXCEPT !.config = TRUE, !.configFocused = TRUE, !.nonce = ~@]
FocusConfig(u) == [SetEditorFocus(u, "file") EXCEPT !.config = TRUE, !.configFocused = TRUE, !.nonce = ~@]
-----------------------------------------------------------------------------
Rendered == now = seen
\* An element that goes away or is hidden drops the focus to the body; the files share one view.
Pane(u) == IF Selected(u) \in Files THEN "file" ELSE Selected(u)
Focusable(u) ==
  ToSet(Tabs(u)) \cup {"body", "elsewhere", "main"} \cup (IF Tabs(u) = <<>> THEN {} ELSE {"content"})
Kept(f, u) == IF f \notin Focusable(u) THEN "body"
              ELSE IF f = "content" /\ Pane(u) # Pane(seen) THEN "body" ELSE f

(* A render, and the effects of Editor in their order: the active file      *)
(* takes the editor's focus, a rising focus of the diff or the merge takes  *)
(* it from the configuration, the end of a merge session that no next one   *)
(* follows asks for the keyboard, which a timer then hands on; a diff that  *)
(* shows up is read again, and the strip reveals the selected tab.          *)
Rises(v) == v.focus # seen.focus /\ v.focus \in {Diff, Merge}
MergeEnded(v) == had /\ ~v.merge /\ ~v.advance
RestoreDeps(u) == <<u.active, u.config, u.focus = Diff, u.diff, u.advance, u.merge, u.open>>
RevealDeps(u) == <<Selected(u), u.nonce, u.advance, Tabs(u) = <<>>>>
Renders ==
  /\ ~Rendered
  /\ LET switches == now.active \notin {seen.active, None}
         after == IF switches THEN [now EXCEPT !.focus = "file", !.configFocused = FALSE] ELSE now
         asksFocus == restore \/ MergeEnded(now)
         shows == ShowDiff(now) /\ ~ShowDiff(seen)
     IN /\ now' = IF Rises(now) THEN [after EXCEPT !.configFocused = FALSE] ELSE after
        /\ had' = IF now.merge THEN TRUE ELSE had /\ now.advance
        /\ restore' = asksFocus
        /\ timer' = IF RestoreDeps(now) # RestoreDeps(seen) THEN asksFocus ELSE timer
        /\ asks' = IF shows /\ Running({Diff}) = {} THEN (asks \ Running({Refresh})) \cup {Call(Refresh)}
                   ELSE asks
        /\ focus' = IF now.clicked # seen.clicked THEN "content" ELSE Kept(focus, now)
        /\ scroll' = IF Selected(now) = None \/ now.advance \/ RevealDeps(now) = RevealDeps(seen)
                     THEN Clamp(now, scroll)
                     ELSE RevealTab(now, Selected(now), Clamp(now, scroll))
        /\ let' = [focus |-> /\ focus' = "body"
                             /\ let.focus \/ (focus # "body" /\ ~asksFocus /\ (now.merge \/ ~now.advance)),
                   strip |-> let.strip /\ RevealDeps(now) = RevealDeps(seen),
                   diff |-> IF shows THEN Running({Diff}) # {} ELSE let.diff]
  /\ seen' = now
  /\ UNCHANGED <<stale, want, left>>

Restores ==
  /\ Rendered /\ timer /\ timer' = FALSE /\ restore' = FALSE
  /\ focus' = IF Selected(now) = None THEN "main" ELSE Selected(now)
  /\ scroll' = IF Selected(now) = None THEN scroll ELSE RevealTab(now, Selected(now), scroll)
  /\ let' = [let EXCEPT !.focus = FALSE]
  /\ UNCHANGED <<now, seen, had, asks, stale, want, left>>
-----------------------------------------------------------------------------
Sets(u, f) == /\ now' = u /\ focus' = f /\ let' = [let EXCEPT !.focus = f = "body"]
Chooses(surface) == want' = surface

\* A tab is clicked, or activated by Enter; an arrow moves the focus between the tabs.
ClickTab(tab, key) ==
  /\ Rendered /\ tab \in ToSet(Tabs(now)) /\ Spend("clicks") /\ (key => focus = tab)
  /\ LET u == CASE tab \in {Diff, Merge} -> FocusSurface(now, tab)
                [] tab = Config -> FocusConfig(now)
                [] OTHER -> [FocusSurface(now, "file") EXCEPT !.active = tab, !.clicked = IF key THEN @ ELSE ~@]
     IN Sets(u, tab)
  /\ Chooses(tab)
  /\ UNCHANGED <<seen, had, restore, timer, scroll, asks, stale>>
Arrow(tab) ==
  /\ Rendered /\ focus \in ToSet(Tabs(now)) /\ tab \in ToSet(Tabs(now)) \ {focus} /\ Spend("scrolls")
  /\ focus' = tab /\ scroll' = RevealTab(now, tab, scroll) /\ let' = [let EXCEPT !.strip = TRUE]
  /\ UNCHANGED <<now, seen, had, restore, timer, asks, stale, want>>
ScrollTabs(x) ==
  /\ Rendered /\ Tabs(now) # <<>> /\ x # scroll /\ Spend("scrolls")
  /\ scroll' = x /\ let' = [let EXCEPT !.strip = TRUE]
  /\ UNCHANGED <<now, seen, had, restore, timer, focus, asks, stale, want>>
\* The user goes to the content that is shown, or elsewhere.
Goes(to) ==
  /\ Rendered /\ to \in {"content", "elsewhere"} \cap Focusable(now) /\ focus # to /\ Spend("clicks")
  /\ Sets(now, to)
  /\ UNCHANGED <<seen, had, restore, timer, scroll, asks, stale, want>>

\* The X of a tab, which goes away with the focus.
CloseFile(file) ==
  /\ Rendered /\ file \in ToSet(now.open) /\ Spend("closes")
  /\ restore' = TRUE
  /\ LET rest == SelectSeq(now.open, LAMBDA f : f # file)
         next == IF rest = <<>> THEN None ELSE Last(rest)
     IN /\ Sets([now EXCEPT !.open = rest, !.active = IF @ = file THEN next ELSE @], file)
        /\ want' = IF now.active = file /\ next # None THEN next ELSE IF want = file THEN None ELSE want
  /\ UNCHANGED <<seen, had, timer, scroll, asks, stale>>
Superseded(kinds) == {IF a.kind \in kinds THEN [a EXCEPT !.live = FALSE] ELSE a : a \in asks}
Unless(surface) == want' = IF want = surface THEN None ELSE want
CloseDiff ==
  /\ Rendered /\ now.diff /\ Spend("closes")
  /\ restore' = TRUE
  /\ Sets([now EXCEPT !.diff = FALSE, !.focus = IF @ = Diff THEN "file" ELSE @], Diff) /\ Unless(Diff)
  /\ UNCHANGED <<seen, had, timer, scroll, asks, stale>>
\* A merge closes by its X, by Escape or when it was resolved outside, after a discard was confirmed.
CloseMerge ==
  /\ Rendered /\ now.merge /\ Spend("closes")
  /\ \E f \in {focus, Merge} :
       Sets([now EXCEPT !.merge = FALSE, !.focus = IF @ = Merge THEN "file" ELSE @, !.advance = FALSE], f)
  /\ asks' = Superseded({Merge}) /\ Unless(Merge)
  /\ UNCHANGED <<seen, had, restore, timer, scroll, stale>>
\* closeConfigTab: a surface with unsaved work is revealed, for the dialog that it raises.
CloseConfig(unsaved) ==
  /\ Rendered /\ now.config /\ Spend("closes")
  /\ asks' = asks \cup {Call(Config)}
  /\ Sets(IF unsaved THEN FocusConfig(now) ELSE now, Config)
  /\ IF unsaved THEN Chooses(Config) ELSE want' = want
  /\ UNCHANGED <<seen, had, restore, timer, scroll, stale>>
ConfigAnswered(a, proceed) ==
  /\ Rendered /\ a.kind = Config /\ asks' = asks \ {a}
  /\ restore' = (restore \/ proceed)
  /\ now' = IF proceed THEN [now EXCEPT !.config = FALSE, !.configFocused = FALSE] ELSE now
  /\ IF proceed THEN Unless(Config) ELSE want' = want
  /\ UNCHANGED <<seen, had, timer, focus, scroll, stale, let, left>>
-----------------------------------------------------------------------------
\* A file is opened or activated from elsewhere: an intent, or a restore of the session.
OpenFile(file, intent) ==
  /\ Rendered /\ Spend("opens")
  /\ LET opened == [now EXCEPT !.open = IF file \in ToSet(@) THEN @ ELSE Append(@, file), !.active = file]
     IN now' = IF intent THEN FocusSurface(opened, "file") ELSE opened
  /\ want' = IF intent \/ file # now.active THEN file ELSE want
  /\ UNCHANGED <<seen, had, restore, timer, focus, scroll, asks, stale, let>>
OpenConfig ==
  /\ Rendered /\ Spend("configs") /\ now' = FocusConfig(now) /\ Chooses(Config)
  /\ UNCHANGED <<seen, had, restore, timer, focus, scroll, asks, stale, let>>
OpenDiff ==
  /\ Rendered /\ Spend("diffs")
  /\ asks' = (asks \ Running({Diff, Refresh})) \cup {Call(Diff)}
  /\ UNCHANGED <<now, seen, had, restore, timer, focus, scroll, stale, want, let>>
(* openDiff raises the flag of the diff; a refresh leaves it as it is, also *)
(* when the tab was closed meanwhile.                                       *)
DiffAnswered(a, ok) ==
  /\ Rendered /\ a.kind \in {Diff, Refresh} /\ asks' = asks \ {a}
  /\ IF ok THEN left' = left ELSE Spend("faults")
  /\ stale' = (stale /\ (ok => a.old)) /\ let' = [let EXCEPT !.diff = @ \/ ~ok, !.strip = @ \/ (ok /\ ~now.diff)]
  /\ now' = CASE ~ok -> now
             [] a.kind = Diff -> [now EXCEPT !.diff = TRUE, !.focus = Diff, !.nonce = ~@]
             [] OTHER -> [now EXCEPT !.diff = TRUE]
  /\ IF ok /\ a.kind = Diff THEN Chooses(Diff) ELSE want' = want
  /\ UNCHANGED <<seen, had, restore, timer, focus, scroll>>

OpenMerge ==
  /\ Rendered /\ Spend("merges")
  /\ IF now.merge
     THEN now' = [SetEditorFocus(now, Merge) EXCEPT !.nonce = ~@] /\ Chooses(Merge) /\ asks' = asks
     ELSE asks' = Superseded({Merge}) \cup {Call(Merge)} /\ UNCHANGED <<now, want>>
  /\ UNCHANGED <<seen, had, restore, timer, focus, scroll, stale, let>>
MergeOpened(a, ok) ==
  /\ Rendered /\ a.kind = Merge /\ asks' = asks \ {a} /\ (ok => a.live)
  /\ IF ok \/ ~a.live THEN left' = left ELSE Spend("faults")
  /\ LET u == IF ok THEN [now EXCEPT !.merge = TRUE, !.focus = Merge, !.nonce = ~@] ELSE now
     IN now' = [u EXCEPT !.advance = @ /\ ~a.hand]
  /\ let' = [let EXCEPT !.focus = @ \/ (ok /\ focus = "body")]
  /\ IF ok THEN Chooses(Merge) ELSE want' = want
  /\ UNCHANGED <<seen, had, restore, timer, focus, scroll, stale>>
\* The session is finalized, and hands off to the next file of the queue if there is one.
Finalized(next) ==
  /\ Rendered /\ now.merge /\ Spend("merges")
  /\ now' = [now EXCEPT !.merge = FALSE, !.focus = IF @ = Merge THEN "file" ELSE @, !.advance = next]
  /\ asks' = IF next THEN asks \cup {[Call(Merge) EXCEPT !.hand = TRUE]} ELSE asks
  /\ Unless(Merge)
  /\ UNCHANGED <<seen, had, restore, timer, focus, scroll, stale, let>>
Type ==
  /\ Rendered /\ now.diff /\ ~ShowDiff(now) /\ Selected(now) \in Files /\ Spend("types")
  /\ stale' = TRUE
  /\ \E old \in BOOLEAN :
       asks' = {IF a.kind \in {Diff, Refresh} THEN [a EXCEPT !.old = @ \/ old] ELSE a : a \in asks}
  /\ UNCHANGED <<now, seen, had, restore, timer, focus, scroll, want, let>>
-----------------------------------------------------------------------------
Init ==
  /\ left \in Casts
  /\ now = [open |-> left.files, active |-> IF left.files = <<>> THEN None ELSE left.files[1], diff |-> FALSE,
          merge |-> FALSE, config |-> FALSE, focus |-> "file", configFocused |-> FALSE, advance |-> FALSE,
          nonce |-> FALSE, clicked |-> FALSE]
  /\ seen = now /\ had = FALSE /\ restore = FALSE /\ timer = FALSE
  /\ focus = "elsewhere" /\ scroll = 0 /\ asks = {} /\ stale = FALSE
  /\ want = now.active /\ let = [focus |-> FALSE, strip |-> FALSE, diff |-> FALSE]

Next ==
  \/ Renders \/ Restores
  \/ \E tab \in Files \cup {Diff, Merge, Config} : Arrow(tab) \/ \E key \in BOOLEAN : ClickTab(tab, key)
  \/ \E x \in {0, Most(now)} : ScrollTabs(x)
  \/ \E to \in {"content", "elsewhere"} : Goes(to)
  \/ \E file \in Files : CloseFile(file) \/ \E intent \in BOOLEAN : OpenFile(file, intent)
  \/ CloseDiff \/ CloseMerge \/ \E unsaved \in BOOLEAN : CloseConfig(unsaved)
  \/ \E a \in asks, ok \in BOOLEAN : ConfigAnswered(a, ok) \/ DiffAnswered(a, ok) \/ MergeOpened(a, ok)
  \/ OpenConfig \/ OpenDiff \/ OpenMerge
  \/ \E next \in BOOLEAN : Finalized(next)
  \/ Type

Spec == Init /\ [][Next]_vars
-----------------------------------------------------------------------------
(* What was chosen last is what is shown, while it is open: no flag that    *)
(* another surface has left behind hides it, whoever raised its own; and    *)
(* the editor shows something whenever a surface is open.                   *)
ChoiceShown ==
  Rendered =>
    /\ want # None => Selected(now) = want
    /\ ~(now.configFocused /\ now.focus # "file")
    /\ Tabs(now) # <<>> => Selected(now) \in ToSet(Tabs(now))

(* The keyboard is handed on: the focus that goes with a surface that is    *)
(* closed is at the selected tab or at the main landmark in the end, also   *)
(* when the surface was a merge whose queue ends without another file.      *)
FocusRestored == Rendered /\ focus = "body" => timer \/ now.advance \/ let.focus

(* The diff that is shown has the last edit of its buffer, or is being read; *)
(* unless the read failed, or yielded to a diff that the user opened before. *)
DiffCurrent ==
  Rendered /\ ShowDiff(now) /\ stale => let.diff \/ \E a \in Running({Diff, Refresh}) : ~a.old

(* The selected tab is in view, clear of the controls over the edges of the *)
(* strip, unless the user has scrolled since, or a refresh that was late    *)
(* has brought a closed diff back.                                          *)
TabInView ==
  Rendered /\ Selected(now) # None /\ ~let.strip /\ ~now.advance /\ ~timer =>
    LET o == Overflows(now, scroll)
        x == LeftEdge(now, Selected(now)) - scroll
    IN /\ x >= (IF o.left THEN Width.control ELSE 0)
       /\ x + Width.tab <= Width.strip - (IF o.right THEN Width.control ELSE 0)

SurfacesSound == ChoiceShown /\ FocusRestored /\ DiffCurrent /\ TabInView
=============================================================================
