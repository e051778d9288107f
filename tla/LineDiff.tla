------------------------------ MODULE LineDiff ------------------------------
(****************************************************************************)
(* utils/lineDiff.ts: the Myers diff that the change gutter, the staging    *)
(* buttons and the peek popup share.  A text is the sequence of its lines as*)
(* split at the line breaks, so that <<"">> is the empty text and an empty  *)
(* last line is a final line break; a change of characters is a change of   *)
(* whole lines, which is what each branch of the code computes the offsets  *)
(* of.  Ranges are 0-based and exclusive, as in the code.                   *)
(****************************************************************************)
EXTENDS Integers, FiniteSets, SequencesExt
CONSTANTS
  MaxDepth,   \* MAX_MYERS_D
  MaxRefine   \* REFINE_MAX_CHARS
-----------------------------------------------------------------------------
Hunk(fa, ta, fb, tb) == [fromA |-> fa, toA |-> ta, fromB |-> fb, toB |-> tb]
Shifted(h, s) == Hunk(h.fromA + s, h.toA + s, h.fromB + s, h.toB + s)
Largest(S) == CHOOSE x \in S : \A y \in S : y <= x
Least(S) == CHOOSE x \in S : \A y \in S : x <= y
Part(s, from, to) == SubSeq(s, Largest({0, from}) + 1, Least({to, Len(s)}))

splitLines(text) ==
  IF text = <<"">> THEN <<>> ELSE IF Last(text) = "" THEN Front(text) ELSE text

\* The furthest x on every diagonal before depth d (row d + 1); the array starts at zero.
Snake(a, b, x, k) ==
  x + Largest({l \in 0..Len(a) :
        \A i \in 1..l : x + i <= Len(a) /\ x - k + i <= Len(b) /\ a[x + i] = b[x - k + i]})
Down(v, d, k) == k = -d \/ (k # d /\ v[k - 1] < v[k + 1])
AtDepth(a, b, v, d) ==
  [k \in DOMAIN v |->
     IF k \notin -d..d \/ (k - d) % 2 # 0 THEN v[k]
     ELSE Snake(a, b, IF Down(v, d, k) THEN v[k + 1] ELSE v[k - 1] + 1, k)]
Reached(a, b, v, d) ==
  LET k == Len(a) - Len(b) IN k \in -d..d /\ (k - d) % 2 = 0 /\ v[k] >= Len(a)
myersTrace(a, b) ==
  LET size == Len(a) + Len(b) + 1
      after[d \in -1..size] ==
        IF d = -1 THEN <<[k \in -size..size |-> 0]>>
        ELSE LET trace == after[d - 1] IN
             IF d > 0 /\ Reached(a, b, Last(trace), Len(trace) - 2) THEN trace
             ELSE Append(trace, AtDepth(a, b, Last(trace), d))
  IN after[size]
EditDistance(trace) == Len(trace) - 2

\* The points the backtracking passes, from the end of both sequences, and the edits between.
Points(a, b, trace) ==
  LET end == EditDistance(trace)
      at[i \in 0..end] ==
        IF i = 0 THEN <<Len(a), Len(b)>>
        ELSE LET d == end - i + 1
                 p == at[i - 1]
                 k == p[1] - p[2]
                 prevK == IF Down(trace[d + 1], d, k) THEN k + 1 ELSE k - 1
                 prevX == trace[d + 1][prevK]
             IN <<prevX, prevX - prevK>>
  IN [i \in 1..end |-> [prev |-> at[i], down |-> at[i][1] - at[i][2] > at[i - 1][1] - at[i - 1][2]]]
RunEnd(S, i) == Least({e \in i..i + Cardinality(S) : e \notin S})
HunksThrough(a, b, deleted, inserted) ==
  LET from[p \in (0..Len(a)) \X (0..Len(b))] ==
        IF p = <<Len(a), Len(b)>> THEN <<>>
        ELSE IF p[1] \in deleted \/ p[2] \in inserted
             THEN LET ea == RunEnd(deleted, p[1])  eb == RunEnd(inserted, p[2])
                  IN <<Hunk(p[1], ea, p[2], eb)>> \o from[<<ea, eb>>]
        ELSE from[<<p[1] + 1, p[2] + 1>>]
  IN from[<<0, 0>>]
Grouped(a, b, edits) ==
  HunksThrough(a, b, {edits[i].prev[1] : i \in {j \in DOMAIN edits : ~edits[j].down}},
               {edits[i].prev[2] : i \in {j \in DOMAIN edits : edits[j].down}})
backtrackHunks(a, b, trace) == Grouped(a, b, Points(a, b, trace))

\* A change among equal lines is put where git puts it: below them, as far as both sides can.
SlideOneSide(a, b, h, i) ==
  \/ h.toB + i < Len(b) /\ b[h.fromB + i + 1] = b[h.toB + i + 1]
  \/ h.toA + i < Len(a) /\ a[h.fromA + i + 1] = a[h.toA + i + 1]
SlidesAt(a, b, h, i) ==
  /\ h.fromB = h.toB \/ (h.toB + i < Len(b) /\ b[h.fromB + i + 1] = b[h.toB + i + 1])
  /\ h.fromA = h.toA \/ (h.toA + i < Len(a) /\ a[h.fromA + i + 1] = a[h.toA + i + 1])
slideHunkDown(a, b, h) ==
  Shifted(h, Largest({s \in 0..Len(a) + Len(b) : \A i \in 0..s - 1 : SlidesAt(a, b, h, i)}))

CommonPrefix(a, b) == Largest({l \in 0..Len(a) : l <= Len(b) /\ Part(a, 0, l) = Part(b, 0, l)})
\* What differs between the equal ends; a diff that is too deep is one change.
Slid(a, b, start, found) == [i \in DOMAIN found |-> slideHunkDown(a, b, Shifted(found[i], start))]
HunksBetween(a, b, start, subA, subB, trace) ==
  IF subA = <<>> /\ subB = <<>> THEN <<>>
  ELSE IF EditDistance(trace) > MaxDepth
  THEN <<Hunk(start, start + Len(subA), start, start + Len(subB))>>
  ELSE Slid(a, b, start, backtrackHunks(subA, subB, trace))
HunksOf(a, b, start, subA, subB) == HunksBetween(a, b, start, subA, subB, myersTrace(subA, subB))
TrimmedHunks(a, b, start, tail) ==
  HunksOf(a, b, start, Part(a, start, Len(a) - tail), Part(b, start, Len(b) - tail))
HunksFrom(a, b, start) ==
  TrimmedHunks(a, b, start,
               CommonPrefix(Reverse(Part(a, start, Len(a))), Reverse(Part(b, start, Len(b)))))
diffSequences(a, b) == HunksFrom(a, b, CommonPrefix(a, b))
diffLines(baseline, current) == diffSequences(splitLines(baseline), splitLines(current))
-----------------------------------------------------------------------------
\* A removal is marked on the line that follows it, or on the last one.
DeletionLine(h, lineCount) == Largest({1, IF h.fromB < lineCount THEN h.fromB + 1 ELSE lineCount})
LinesOf(h, lineCount) ==
  IF h.fromB = h.toB THEN {DeletionLine(h, lineCount)} ELSE h.fromB + 1..h.toB
Kind(h) ==
  IF h.fromB = h.toB THEN "deleted" ELSE IF h.fromA = h.toA THEN "added" ELSE "modified"
gitLineMarkers(baseline, current) ==
  LET hunks == diffLines(baseline, current) IN
  UNION {[line : LinesOf(hunks[i], Len(splitLines(current))), type : {Kind(hunks[i])}] :
           i \in DOMAIN hunks}

(* The changes of a revert: the lines [from, to) of the text are replaced   *)
(* by insert.  A range that reaches over a line break takes the break with  *)
(* it.                                                                      *)
Change(from, to, insert) == [from |-> from, to |-> to, insert |-> insert]
Changed(text, c) == Part(text, 0, c.from) \o c.insert \o Part(text, c.to, Len(text))
OrEmpty(lines, text) == IF lines = <<>> /\ text = <<>> THEN <<"">> ELSE lines
revertHunkChange(current, baseline, h) ==
  LET count == Len(splitLines(current))
      restored == Part(splitLines(baseline), h.fromA, h.toA)
  IN IF count = 0 THEN Change(0, 1, restored)
     ELSE IF restored = <<>> /\ h.fromB = 0 /\ h.toB = count
     THEN Change(0, count, <<"">>)
     ELSE Change(h.fromB, h.toB, restored)
NoChange == [from |-> -1, to |-> -1, insert |-> <<>>]
revertLineChange(current, baseline, h, line) ==
  LET k == line - 1 - h.fromB
      lines == splitLines(current)
  IN IF k < 0 \/ line > h.toB \/ line > Len(lines) THEN NoChange
     ELSE IF h.fromA + k < h.toA
     THEN Change(line - 1, line, <<splitLines(baseline)[h.fromA + k + 1]>>)
     ELSE IF Len(lines) = 1 THEN Change(0, 1, <<"">>)
     ELSE Change(line - 1, line, <<>>)
\* A change that leaves the window of its hunk, with one line of slack, is refused.
revertChangeIsSafe(c, h, current) ==
  /\ h.fromB - 1 <= c.from /\ c.from <= c.to /\ c.to <= h.toB + 1
-----------------------------------------------------------------------------
(* The word diff of the popup.  A token is a sequence of characters.        *)
Segment(tokens, type) == IF tokens = <<>> THEN <<>> ELSE <<[text |-> FlattenSeq(tokens), type |-> type]>>
Segments(old, new, hunks) ==
  LET before(i) == IF i = 1 THEN 0 ELSE hunks[i - 1].toA
      step(i) == Segment(Part(old, before(i), hunks[i].fromA), "same")
                   \o Segment(Part(old, hunks[i].fromA, hunks[i].toA), "del")
                   \o Segment(Part(new, hunks[i].fromB, hunks[i].toB), "ins")
  IN FlattenSeq([i \in DOMAIN hunks |-> step(i)])
       \o Segment(Part(old, before(Len(hunks) + 1), Len(old)), "same")
segmentsFromTokens(old, new) == Segments(old, new, diffSequences(old, new))
Chars(text) == [i \in DOMAIN text |-> <<text[i]>>]
\* A replaced word is shown by its characters when at least half of them survive.
Refined(old, new) == segmentsFromTokens(Chars(old), Chars(new))
Survivors(segments) ==
  LET same(s) == s.type = "same"
      size[i \in 0..Len(segments)] ==
        IF i = 0 THEN 0 ELSE size[i - 1] + IF same(segments[i]) THEN Len(segments[i].text) ELSE 0
  IN size[Len(segments)]
Refines(old, new) ==
  /\ Len(old) + Len(new) <= MaxRefine
  /\ 4 * Survivors(Refined(old, new)) >= Len(old) + Len(new)
RefinedFrom(coarse) ==
  LET from[i \in 1..Len(coarse) + 1] ==
        IF i > Len(coarse) THEN <<>>
        ELSE IF /\ i < Len(coarse)
                /\ coarse[i].type = "del" /\ coarse[i + 1].type = "ins"
                /\ Refines(coarse[i].text, coarse[i + 1].text)
        THEN Refined(coarse[i].text, coarse[i + 1].text) \o from[i + 2]
        ELSE <<coarse[i]>> \o from[i + 1]
  IN from[1]
inlineWordDiff(old, new) == RefinedFrom(segmentsFromTokens(old, new))
\* What the segments say of one side of the popup.
Side(segments, other) ==
  FlattenSeq([i \in DOMAIN segments |-> IF segments[i].type = other THEN <<>> ELSE segments[i].text])
=============================================================================
