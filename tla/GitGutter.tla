----------------------------- MODULE GitGutter -----------------------------
(****************************************************************************)
(* The change gutter of an editor (codemirror/gitGutter.ts) and the staging *)
(* buttons beside it (codemirror/hunkStagingGutter.ts): one document under  *)
(* edits and reloads of its baseline, the popup that peeks at a change and  *)
(* reverts it, and the buttons of the hunks that git gave for a snapshot.   *)
(****************************************************************************)
EXTENDS LineDiff
CONSTANTS
  Lines,      \* lines a document may hold, "" among them
  Baselines,  \* texts git may deliver as the baseline
  Casts       \* a document, its baseline, a pair of texts for the word diff, and how often
              \* each kind of thing may happen: [doc, baseline, phrase, edits, loads, clicks]

VARIABLES
  doc,       \* the document
  baseline,  \* gitGutterField.baseline, NoBaseline for null
  markers,   \* gitGutterField.markers
  popup,     \* hunkTooltipField: the baseline and the hunk it was made for, and the clicked line
  clean,     \* the snapshot the pane's hunks were computed against
  patches,   \* the hunks git gave for it
  phrase,    \* a hunk whose words the popup shows
  left       \* what is left of the cast
vars == <<doc, baseline, markers, popup, clean, patches, phrase, left>>

NoBaseline == <<>>
NoPopup == [baseline |-> NoBaseline, hunk |-> Hunk(0, 0, 0, 0), line |-> 0]

gitGutterField(text, base) == IF base = NoBaseline THEN {} ELSE gitLineMarkers(base, text)
hunkForLine(base, text, line) ==
  LET hunks == diffLines(base, text) IN
  {hunks[i] : i \in {j \in DOMAIN hunks : line \in LinesOf(hunks[j], Len(splitLines(text)))}}

GitHunks(from, to) == LET hunks == diffLines(from, to) IN {hunks[i] : i \in DOMAIN hunks}

Init ==
  /\ \E c \in Casts :
       left = [edits |-> c.edits, loads |-> c.loads, clicks |-> c.clicks]
         /\ doc = c.doc /\ baseline = c.baseline /\ phrase = c.phrase
  /\ markers = gitGutterField(doc, baseline)
  /\ popup = NoPopup
  /\ clean = doc
  /\ patches = GitHunks(baseline, doc)

Spend(what) == left[what] > 0 /\ left' = [left EXCEPT ![what] = @ - 1]
\* A transaction that changes the document drops the popup.
TypedUnder(text) ==
  /\ doc' = text
  /\ markers' = gitGutterField(text, baseline)
  /\ popup' = popup
Typed(text) ==
  /\ doc' = text
  /\ markers' = gitGutterField(text, baseline)
  /\ popup' = IF text = doc THEN popup ELSE NoPopup

\* The user types: a line is replaced, removed or split off, and the document keeps one.
Edited(text) ==
  {[text EXCEPT ![i] = l] : i \in DOMAIN text, l \in Lines}
    \cup {RemoveAt(text, i) : i \in IF Len(text) > 1 THEN DOMAIN text ELSE {}}
    \cup {InsertAt(text, i, l) : i \in 1..Len(text) + 1, l \in Lines}
Edit ==
  /\ Spend("edits")
  /\ \E text \in Edited(doc) \ {doc} : Typed(text)
  /\ UNCHANGED <<baseline, clean, patches, phrase>>

\* setGitBaseline: git answers with a new baseline; an open popup stays open.
SetBaseline ==
  /\ Spend("loads")
  /\ \E b \in Baselines \cup {NoBaseline} :
       /\ b # baseline
       /\ baseline' = b
       /\ markers' = gitGutterField(doc, b)
  /\ UNCHANGED <<doc, popup, clean, patches, phrase>>

\* A save and the refresh that follows it deliver a fresh snapshot with its hunks.
Refresh ==
  /\ Spend("loads")
  /\ clean # doc /\ baseline # NoBaseline
  /\ clean' = doc
  /\ patches' = GitHunks(baseline, doc)
  /\ UNCHANGED <<doc, baseline, markers, popup, phrase>>

\* A click on a cell of the gutter opens the popup of its hunk, or closes an open one.
OpenHunkTooltip ==
  /\ Spend("clicks")
  /\ baseline # NoBaseline
  /\ \E line \in DOMAIN doc :
       LET found == hunkForLine(baseline, doc, line) IN
       /\ popup' = IF found = {} THEN NoPopup
                   ELSE [baseline |-> baseline, line |-> line,
                         hunk |-> CHOOSE h \in found : \A g \in found : h.fromB <= g.fromB]
  /\ UNCHANGED <<doc, baseline, markers, clean, patches, phrase>>

\* A click outside the popup and the gutter.
DismissHunkTooltip ==
  /\ popup # NoPopup /\ popup' = NoPopup
  /\ UNCHANGED <<doc, baseline, markers, clean, patches, phrase, left>>

ApplyRevert(c) ==
  /\ revertChangeIsSafe(c, popup.hunk, doc)
  /\ Typed(Changed(doc, c))
  /\ UNCHANGED <<baseline, clean, patches, phrase, left>>
Revert == popup # NoPopup /\ ApplyRevert(revertHunkChange(doc, popup.baseline, popup.hunk))
LineChange == revertLineChange(doc, popup.baseline, popup.hunk, popup.line)
RevertLine ==
  /\ popup # NoPopup
  /\ LineChange # NoChange /\ popup.hunk.toB - popup.hunk.fromB > 1
  /\ ApplyRevert(LineChange)

Next ==
  Edit \/ SetBaseline \/ Refresh \/ OpenHunkTooltip \/ DismissHunkTooltip \/ Revert \/ RevertLine

Spec == Init /\ [][Next]_vars
-----------------------------------------------------------------------------
(* visibleHunks: an edit stales the hunks it touches and shifts the buttons *)
(* of those below it.                                                       *)
ReachesStart(e, h) == e.fromA <= h.fromB /\ e.toA > h.fromB
Touches(e, h) == e.fromA < h.toB /\ e.toA > h.fromB
AboveStrictly(e, h) == e.toA < h.fromB
Above(e, h) == e.toA <= h.fromB
Edits == LET hunks == diffLines(clean, doc) IN {hunks[i] : i \in DOMAIN hunks}
Stale(h) == \E e \in Edits : Touches(e, h)
Growth(es) == FoldSet(LAMBDA e, n : n + (e.toB - e.fromB) - (e.toA - e.fromA), 0, es)
ButtonLine(h) == h.fromB + 1 + Growth({e \in Edits : ~Touches(e, h) /\ Above(e, h)})

(* A button that is live sits on the lines that its patch stages: the edits *)
(* above it have moved it, and none has touched them.                       *)
ButtonsTrue ==
  \A h \in patches :
    h.fromB < h.toB /\ ~Stale(h)
      => Part(splitLines(doc), ButtonLine(h) - 1, ButtonLine(h) - 1 + h.toB - h.fromB)
           = Part(splitLines(clean), h.fromB, h.toB)

(* The lines without a marker, in their order, are the baseline's lines     *)
(* that the change kept, and a document that is not the baseline shows a    *)
(* marker, on a line that the document has.                                 *)
At(lines, S) ==
  [i \in 1..Cardinality(S) |-> lines[CHOOSE l \in S : Cardinality({k \in S : k <= l}) = i]]
MarkersTrue ==
  baseline # NoBaseline =>
    LET lines == splitLines(doc)
        base == splitLines(baseline)
        plain == At(lines, DOMAIN lines \ {m.line : m \in {x \in markers : x.type # "deleted"}})
    IN /\ (markers = {}) <=> (lines = base)
       /\ \A m \in markers : m.line \in DOMAIN doc
       /\ \E S \in SUBSET DOMAIN base : plain = At(base, S)
       /\ (\A m \in markers : m.type = "added") => plain = base

(* An open popup is of a change of this document, and its Revert makes the  *)
(* lines of that change those of the popup's baseline and touches no other, *)
(* up to the empty lines that the text ends with.                           *)
Trimmed(lines) ==
  Part(lines, 0, Largest({0} \cup {i \in DOMAIN lines : lines[i] # ""}))
PopupTrue ==
  popup # NoPopup =>
    LET h == popup.hunk
        base == splitLines(popup.baseline)
        after == splitLines(Changed(doc, revertHunkChange(doc, popup.baseline, h)))
        wanted == Part(splitLines(doc), 0, h.fromB) \o Part(base, h.fromA, h.toA)
                    \o Part(splitLines(doc), h.toB, Len(splitLines(doc)))
    IN /\ \E i \in DOMAIN diffLines(popup.baseline, doc) : diffLines(popup.baseline, doc)[i] = h
       /\ Trimmed(after) = Trimmed(wanted)

BothSides(segments) ==
  /\ Side(segments, "ins") = FlattenSeq(phrase[1])
  /\ Side(segments, "del") = FlattenSeq(phrase[2])

(* The popup shows both sides of a change, word by word, whole.             *)
PhraseTrue == BothSides(inlineWordDiff(phrase[1], phrase[2]))

GutterSound == ButtonsTrue /\ MarkersTrue /\ PopupTrue /\ PhraseTrue
=============================================================================
