----------------------------- MODULE LinePreview -----------------------------
(***************************************************************************)
(* The preview of a matched line in the search panel: the byte ranges that *)
(* ripgrep reports, turned into ranges of the UTF-16 text that the page    *)
(* renders (utils/searchRanges.ts), and the syntax tokens that colour what *)
(* lies around them (utils/searchTokens.ts).                               *)
(*                                                                         *)
(* A text is a sequence of characters [bytes, units, blank]: its lengths   *)
(* in UTF-8 and in UTF-16, and whether it is a space or a tab.  Positions  *)
(* of the rendered text count UTF-16 units from 0.                         *)
(***************************************************************************)
EXTENDS Integers, Sequences, FiniteSets, SequencesExt

CONSTANT Lines   \* [text, ranges, tokens]: the lines that a panel may show

VARIABLE line    \* the line that is shown

vars == line

Sum(f, k) == FoldLeft(+, 0, SubSeq(f, 1, k))
Bytes(text, k) == Sum([i \in DOMAIN text |-> text[i].bytes], k)
Units(text, k) == Sum([i \in DOMAIN text |-> text[i].units], k)
Larger(a, b) == IF a > b THEN a ELSE b
Smaller(a, b) == IF a < b THEN a ELSE b
Length(text) == Units(text, Len(text))

-----------------------------------------------------------------------------
\* The boundary at the offset, or the one before the character that it falls into.
ByteOffsetToCharIndex(text, offset) ==
  LET fits == {k \in 0 .. Len(text) : Bytes(text, k) <= offset} IN
  Units(text, CHOOSE k \in fits : \A j \in fits : j <= k)

MergeLatest(ranges, r) ==
  IF ranges # <<>> /\ r.start < Last(ranges).end
    THEN Front(ranges) \o <<[Last(ranges) EXCEPT !.end = r.end]>>
    ELSE Append(ranges, r)

\* Ranges that overlap become one; ranges that touch stay two.
Merge(ranges, r) ==
  IF ranges # <<>> /\ r.start < Last(ranges).end
    THEN Front(ranges) \o <<[Last(ranges) EXCEPT !.end = Larger(@, r.end)]>>
    ELSE Append(ranges, r)

NormalizeRanges(ranges) ==
  FoldLeft(Merge, <<>>,
           SortSeq(SelectSeq(ranges, LAMBDA r : r.end > r.start),
                   LAMBDA a, b : a.start < b.start \/ (a.start = b.start /\ a.end < b.end)))

Segment(from, to, isMatch) == [from |-> from, to |-> to, isMatch |-> isMatch]

\* One range after the segments up to the cursor.
Cut(text, parts, r) ==
  LET cursor == IF parts = <<>> THEN 0 ELSE Last(parts).to
      start  == Larger(cursor, ByteOffsetToCharIndex(text, r.start))
      end    == Larger(start, ByteOffsetToCharIndex(text, r.end)) IN
  IF end <= start THEN parts
  ELSE parts \o (IF start > cursor THEN <<Segment(cursor, start, FALSE)>> ELSE <<>>)
             \o <<Segment(start, end, TRUE)>>

SplitLineByByteRanges(text, ranges) ==
  LET parts  == FoldLeft(LAMBDA ps, r : Cut(text, ps, r), <<>>, NormalizeRanges(ranges))
      cursor == IF parts = <<>> THEN 0 ELSE Last(parts).to IN
  IF cursor < Length(text) \/ parts = <<>>
    THEN Append(parts, Segment(cursor, Length(text), FALSE)) ELSE parts

-----------------------------------------------------------------------------
Plain == "plain"
Piece(from, to, class) == [from |-> from, to |-> to, class |-> class]

ConsumeAlways(token, end, k) == k + 1

\* A token that goes on past the segment stays, to colour what follows a match.
Consume(token, end, k) == IF token.to <= end THEN k + 1 ELSE k

\* The pieces of a context from pos up to end, and the first token left for the next one.
PiecesOf(tokens, pos, end, k) ==
  LET run[p \in 0 .. end, i \in 1 .. Len(tokens) + 1] ==
        IF p >= end THEN [pieces |-> <<>>, next |-> i]
        ELSE IF i <= Len(tokens) /\ tokens[i].to <= p THEN run[p, i + 1]
        ELSE IF i > Len(tokens) \/ tokens[Smaller(i, Len(tokens))].from >= end
          THEN [pieces |-> <<Piece(p, end, Plain)>>, next |-> i]
        ELSE LET start == Larger(p, tokens[i].from)
                 stop  == Smaller(tokens[i].to, end)
                 rest  == run[stop, Consume(tokens[i], end, i)]
                 gap   == IF start > p THEN <<Piece(p, start, Plain)>> ELSE <<>> IN
             [rest EXCEPT !.pieces = gap \o <<Piece(start, stop, tokens[i].class)>> \o @] IN
  run[pos, k]

\* The indent of the line, which a lead does not show.
Indent(text, end) ==
  LET dark == {k \in 1 .. Len(text) : ~text[k].blank}
      first == IF dark = {} THEN Len(text) + 1 ELSE CHOOSE k \in dark : \A j \in dark : k <= j IN
  Smaller(end, Units(text, first - 1))

\* One segment after the parts so far.
AddPart(text, tokens, acc, seg) ==
  LET from == IF seg.from = 0 THEN Indent(text, seg.to) ELSE seg.from
      made == PiecesOf(tokens, from, seg.to, acc.next) IN
  IF seg.isMatch
    THEN [acc EXCEPT !.parts = Append(@, [isMatch |-> TRUE, pieces |-> <<Piece(seg.from, seg.to, Plain)>>])]
    ELSE [next  |-> made.next,
          parts |-> IF made.pieces = <<>> THEN acc.parts
                    ELSE Append(acc.parts, [isMatch |-> FALSE, pieces |-> made.pieces])]

BuildLineRenderModel(text, submatches, tokens) ==
  FoldLeft(LAMBDA acc, seg : AddPart(text, tokens, acc, seg),
           [next |-> 1, parts |-> <<>>],
           SplitLineByByteRanges(text, submatches)).parts

-----------------------------------------------------------------------------
NoLine == [text |-> <<>>, ranges |-> <<>>, tokens |-> <<>>]

Init == line = NoLine
MatchLine == line = NoLine /\ line' \in Lines
Next == MatchLine
Spec == Init /\ [][Next]_vars

-----------------------------------------------------------------------------
Marked(p) ==
  \E i \in DOMAIN line.ranges : /\ ByteOffsetToCharIndex(line.text, line.ranges[i].start) <= p
                                /\ p < ByteOffsetToCharIndex(line.text, line.ranges[i].end)
ClassAt(p) ==
  IF \E i \in DOMAIN line.tokens : line.tokens[i].from <= p /\ p < line.tokens[i].to
    THEN line.tokens[CHOOSE i \in DOMAIN line.tokens :
                       line.tokens[i].from <= p /\ p < line.tokens[i].to].class
    ELSE Plain

Flat(parts) ==
  FlattenSeq([i \in DOMAIN parts |->
    [j \in DOMAIN parts[i].pieces |-> [piece |-> parts[i].pieces[j], isMatch |-> parts[i].isMatch]]])
InOrder(shown) ==
  \A i \in DOMAIN shown :
    /\ shown[i].piece.from < shown[i].piece.to
    /\ i > 1 => shown[i].piece.from = shown[i - 1].piece.to
RenderedAt(at, p) ==
  /\ at = {} => p < Indent(line.text, Length(line.text)) /\ ~Marked(p)
  /\ \A x \in at : (x.isMatch <=> Marked(p)) /\ (~Marked(p) => x.piece.class = ClassAt(p))
Rendered(shown) ==
  /\ InOrder(shown)
  /\ \A p \in 0 .. Length(line.text) - 1 :
       RenderedAt({x \in Range(shown) : x.piece.from <= p /\ p < x.piece.to}, p)

(* The line is rendered whole but for its indent, every position that a     *)
(* match covers is marked and no other, and what is not marked has the      *)
(* colour of its token, on both sides of a match that a token goes through. *)
LineSound == Rendered(Flat(BuildLineRenderModel(line.text, line.ranges, line.tokens)))
=============================================================================
