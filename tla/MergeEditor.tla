------------------------------ MODULE MergeEditor ------------------------------
(***************************************************************************)
(* The Result editor of a merge (Editor/codemirror/mergeResolution.ts):    *)
(* conflict regions mapped through choices, manual edits, reopening, undo  *)
(* and redo, and the freeze during a stage.                                *)
(*                                                                         *)
(* A document is a sequence of characters: NL, a marker block (one token,  *)
(* Marker[i]), a line of a side or of the context, or "t", what the user   *)
(* types.  Positions count characters, and a range is [from, to) with      *)
(* nl for a block that was followed by a newline.  CodeMirror's mapping of *)
(* positions and its history are modelled from how this code uses them.    *)
(***************************************************************************)
EXTENDS Integers, Sequences, FiniteSets

CONSTANTS
  Cases,       \* [doc, ours, theirs, oursEnds, theirsEnds]: parsed conflicts; the EOF flags
               \* ("yes", "no", "none") are those of the last region, the only one that may carry any;
               \* "depth" bounds the undo stack
  MaxEdits     \* edits of the user

VARIABLES
  file,     \* the case, which does not change
  doc,
  ranges,   \* region -> [from, to, nl]
  dec,      \* region -> "", "C", "I", "B" or "M"
  order,    \* which side comes first in "both"
  active,   \* the active region, or 0
  frozen,   \* a stage is running
  undone, redone, \* the history: what an entry restores
  edits

vars == <<file, doc, ranges, dec, order, active, frozen, undone, redone, edits>>

NL == "/"
Marker == <<"M1", "M2", "M3">>
Count(f) == Len(f.ours)
Regions == 1 .. Count(file)

Slice(s, a, b) == SubSeq(s, a + 1, b)
Splice(s, ch) == Slice(s, 0, ch.from) \o ch.ins \o Slice(s, ch.to, Len(s))

Joined(lines) == [k \in 1 .. (IF Len(lines) = 0 THEN 0 ELSE 2 * Len(lines) - 1) |-> IF k % 2 = 1 THEN lines[(k + 1) \div 2] ELSE NL]

\* Where the parsed regions lie; a following newline belongs to the block's range.
Parsed(f) ==
  [i \in 1 .. Count(f) |->
     LET at == CHOOSE k \in DOMAIN f.doc : f.doc[k] = Marker[i]
         nl == at < Len(f.doc) /\ f.doc[at + 1] = NL IN
     [from |-> at - 1, to |-> IF nl THEN at + 1 ELSE at, nl |-> nl]]

\* The next region without a decision, wrapping around; 0 when there is none.
NextUnresolved(d, current, dir) ==
  LET n == Len(d)
      start == IF current = 0 THEN IF dir = 1 THEN 0 ELSE 1 ELSE current
      at(k) == ((start - 1 + dir * k + n) % n) + 1
      open == {k \in 1 .. n : d[at(k)] = ""} IN
  IF open = {} THEN 0 ELSE at(CHOOSE k \in open : \A j \in open : k <= j)

-----------------------------------------------------------------------------
(* Mapping.                                                                 *)

MapPos(p, after, ch) ==
  IF p < ch.from THEN p
  ELSE IF p = ch.from /\ (ch.from < ch.to \/ ~after) THEN p
  ELSE IF p < ch.to \/ p = ch.from THEN IF after THEN ch.from + Len(ch.ins) ELSE ch.from
  ELSE p + Len(ch.ins) - (ch.to - ch.from)

\* Mutant: an insertion at the start of the following line grows the region.
MapsPlainly(rs, ch) ==
  [i \in DOMAIN rs |-> [rs[i] EXCEPT !.from = MapPos(@, FALSE, ch), !.to = MapPos(@, TRUE, ch)]]

\* An insertion at the start of the following line stays outside the region.
MapRanges(rs, ch) ==
  [i \in DOMAIN rs |->
     LET r == rs[i]
         outside == ch.from = ch.to /\ r.nl /\ r.from < r.to /\ r.to = ch.from IN
     [r EXCEPT !.from = MapPos(@, FALSE, ch), !.to = IF outside THEN @ ELSE MapPos(@, TRUE, ch)]]

\* The regions that a change touches.
ChangedRegions(rs, ch) ==
  {i \in DOMAIN rs :
     LET r == rs[i] IN
     IF ch.from = ch.to
     THEN IF r.from = r.to THEN ch.from = r.from
          ELSE ch.from >= r.from /\ IF r.nl THEN ch.from < r.to ELSE ch.from <= r.to
     ELSE ch.from < r.to /\ ch.to > r.from}

\* An insertion where an empty resolution meets another region could belong to either.
Ambiguous(rs, ch) ==
  /\ ch.from = ch.to
  /\ LET touched == ChangedRegions(rs, ch) IN
     Cardinality(touched) > 1 /\ \E i \in touched : rs[i].from = rs[i].to

-----------------------------------------------------------------------------
(* Transactions.  An entry of the history holds what undoing it restores:   *)
(* the text, the ranges, the decisions that the transaction set and, when   *)
(* it also set the active region, that one ("keep" otherwise).              *)

Keep == -1
Entry(touched, setsActive, typed) ==
  [doc |-> doc, ranges |-> ranges, dec |-> [i \in touched |-> dec[i]],
   active |-> IF setsActive THEN active ELSE Keep, typed |-> typed]

\* A transaction that is recorded: its change, the decisions that it sets, the active region
\* that it sets if any, and the ranges that it pins if any.
Recorded(ch, d, act, pinned, typed) ==
  /\ Len(undone) < file.depth
  /\ doc' = Splice(doc, ch)
  /\ dec' = [i \in Regions |-> IF i \in DOMAIN d THEN d[i] ELSE dec[i]]
  /\ ranges' = IF pinned = <<>> THEN MapRanges(ranges, ch) ELSE pinned
  /\ undone' = Append(undone, Entry(DOMAIN d, act # Keep /\ DOMAIN d # {}, typed))
  /\ redone' = <<>>
  /\ UNCHANGED <<file, order, frozen>>

-----------------------------------------------------------------------------
(* A choice.                                                                *)

Sides(i, choice) ==
  IF choice = "C" THEN file.ours[i]
  ELSE IF choice = "I" THEN file.theirs[i]
  ELSE IF order = "current" THEN file.ours[i] \o file.theirs[i] ELSE file.theirs[i] \o file.ours[i]

\* The ending that a choice gives the file; "none" for a region that does not decide it.
EOFTarget(i, choice) ==
  LET ours == IF i = Count(file) THEN file.oursEnds ELSE "none"
      theirs == IF i = Count(file) THEN file.theirsEnds ELSE "none"
      last == IF order = "current" THEN IF file.theirs[i] # <<>> THEN theirs ELSE IF file.ours[i] # <<>> THEN ours ELSE "neither"
              ELSE IF file.ours[i] # <<>> THEN ours ELSE IF file.theirs[i] # <<>> THEN theirs ELSE "neither" IN
  IF ours = "none" /\ theirs = "none" THEN "none"
  ELSE LET t == IF choice = "C" THEN ours ELSE IF choice = "I" THEN theirs
                ELSE IF last # "neither" THEN last ELSE IF ours = theirs THEN ours ELSE "none" IN
       IF t = "none" THEN "ambiguous" ELSE t

EndsNL(s) == s # <<>> /\ s[Len(s)] = NL

\* The change of a choice: the block's own text, or for the end of the file what differs from it.
ChoiceChange(i, lines, eof) ==
  LET r == ranges[i]
      head == Slice(doc, 0, r.from) \o Joined(lines)
      result == IF eof = "yes" THEN IF lines # <<>> \/ ~EndsNL(head) THEN Append(head, NL) ELSE head
                ELSE IF EndsNL(head) THEN Slice(head, 0, Len(head) - 1) ELSE head
      same == {k \in 0 .. Len(doc) : k <= Len(result) /\ Slice(doc, 0, k) = Slice(result, 0, k)}
      from == CHOOSE k \in same : \A j \in same : j <= k IN
  IF eof = "none"
  THEN [from |-> r.from, to |-> r.to, ins |-> IF lines # <<>> /\ r.nl THEN Append(Joined(lines), NL) ELSE Joined(lines)]
  ELSE [from |-> from, to |-> Len(doc), ins |-> Slice(result, from, Len(result))]

\* The card of the active conflict, with its buttons; the other ones are strips that open theirs.
Offered(i) == ~frozen /\ active = i /\ dec[i] = ""

\* A side, both, or both to be edited by hand.  Refused when the endings of the sides disagree, and
\* when the region that should decide the ending is no longer last.
Choose(i, choice) ==
  LET taken == IF choice = "M" THEN "B" ELSE choice
      eof == EOFTarget(i, taken)
      ch == ChoiceChange(i, Sides(i, taken), eof)
      after == IF choice = "M" THEN i ELSE NextUnresolved([dec EXCEPT ![i] = choice], i, 1) IN
  /\ Offered(i) /\ eof # "ambiguous"
  /\ eof # "none" => ranges[i].to = Len(doc)
  /\ Recorded(ch, [k \in {i} |-> choice], after, <<>>, FALSE)
  /\ active' = after /\ UNCHANGED edits

\* Mutant: the siblings that start after the block move, wherever they stand in the file.
PinnedByPlace(i, ins) ==
  LET r == ranges[i]
      delta == Len(ins) - (r.to - r.from) IN
  [k \in Regions |->
     IF k = i THEN [r EXCEPT !.to = r.from + Len(ins)]
     ELSE IF ranges[k].from >= r.to THEN [ranges[k] EXCEPT !.from = @ + delta, !.to = @ + delta]
     ELSE ranges[k]]

\* Reopening pins every range by the order of the regions in the file.
Pinned(i, ins) ==
  LET r == ranges[i]
      delta == Len(ins) - (r.to - r.from) IN
  [k \in Regions |->
     IF k = i THEN [r EXCEPT !.to = r.from + Len(ins)]
     ELSE IF k > i THEN [ranges[k] EXCEPT !.from = @ + delta, !.to = @ + delta]
     ELSE ranges[k]]

Overlaps(i) ==
  LET r == ranges[i] IN
  r.from < r.to /\ \E k \in Regions \ {i} :
    ranges[k].from < ranges[k].to /\ ranges[k].from < r.to /\ ranges[k].to > r.from

StartsAfterNL(i) == LET at == Parsed(file)[i].from IN at > 0 /\ file.doc[at] = NL

\* The original block, with the newline before it if that one is gone.
Original(i) ==
  LET r == ranges[i] IN
  (IF StartsAfterNL(i) /\ r.from > 0 /\ doc[r.from] # NL THEN <<NL>> ELSE <<>>)
    \o <<Marker[i]>> \o (IF r.nl THEN <<NL>> ELSE <<>>)

Reopen(i, activate) ==
  /\ ~frozen /\ dec[i] # "" /\ ~Overlaps(i)
  /\ Recorded([from |-> ranges[i].from, to |-> ranges[i].to, ins |-> Original(i)], [k \in {i} |-> ""],
              IF activate THEN i ELSE Keep, Pinned(i, Original(i)), FALSE)
  /\ active' = (IF activate THEN i ELSE active) /\ UNCHANGED edits

\* An edit of the user; it makes the resolutions that it touches manual, and may not touch an
\* unresolved block.  Typing may join the entry of the typing before it.
Edit(ch, joins) ==
  LET touched == ChangedRegions(ranges, ch)
      top == undone[Len(undone)] IN
  /\ ~frozen /\ edits < MaxEdits /\ edits' = edits + 1
  /\ ~Ambiguous(ranges, ch) /\ \A i \in touched : dec[i] # ""
  /\ IF joins
     THEN /\ undone # <<>> /\ top.typed
          /\ undone' = [undone EXCEPT ![Len(undone)].dec =
                          [i \in touched \cup DOMAIN @ |-> IF i \in DOMAIN @ THEN @[i] ELSE dec[i]]]
          /\ doc' = Splice(doc, ch) /\ ranges' = MapRanges(ranges, ch)
          /\ dec' = [i \in Regions |-> IF i \in touched THEN "M" ELSE dec[i]]
          /\ redone' = <<>> /\ UNCHANGED <<file, order, frozen>>
     ELSE Recorded(ch, [i \in touched |-> "M"], Keep, <<>>, TRUE)
  /\ UNCHANGED active

Insert(p, c, joins) == Edit([from |-> p, to |-> p, ins |-> <<c>>], joins)
Delete(p, q, joins) == Edit([from |-> p, to |-> q, ins |-> <<>>], joins)

\* Undo and redo replay an entry, and leave the opposite one on the other stack.
Replay(e) ==
  /\ doc' = e.doc /\ ranges' = e.ranges
  /\ dec' = [i \in Regions |-> IF i \in DOMAIN e.dec THEN e.dec[i] ELSE dec[i]]
  /\ active' = IF e.active = Keep THEN active ELSE e.active
  /\ UNCHANGED <<file, order, frozen, edits>>

Opposite(e) == Entry(DOMAIN e.dec, e.active # Keep, e.typed)

Undo ==
  /\ ~frozen /\ undone # <<>>
  /\ LET e == undone[Len(undone)] IN
     Replay(e) /\ redone' = Append(redone, Opposite(e))
  /\ undone' = SubSeq(undone, 1, Len(undone) - 1)

Redo ==
  /\ ~frozen /\ redone # <<>>
  /\ LET e == redone[Len(redone)] IN
     Replay(e) /\ undone' = Append(undone, Opposite(e))
  /\ redone' = SubSeq(redone, 1, Len(redone) - 1)

ToggleOrder ==
  /\ active # 0 /\ Offered(active)
  /\ order' = (IF order = "current" THEN "incoming" ELSE "current")
  /\ UNCHANGED <<file, doc, ranges, dec, active, frozen, undone, redone, edits>>

Activate(i) ==
  /\ active' = i /\ i # active
  /\ UNCHANGED <<file, doc, ranges, dec, order, frozen, undone, redone, edits>>

Navigate(dir) ==
  LET i == NextUnresolved(dec, active, dir) IN
  /\ i \notin {0, active} /\ active' = i
  /\ UNCHANGED <<file, doc, ranges, dec, order, frozen, undone, redone, edits>>

SetFrozen(on) ==
  /\ frozen # on /\ frozen' = on
  /\ UNCHANGED <<file, doc, ranges, dec, order, active, undone, redone, edits>>

Init ==
  /\ file \in Cases /\ doc = file.doc /\ ranges = Parsed(file)
  /\ dec = [i \in 1 .. Count(file) |-> ""] /\ order = "current" /\ active = 1
  /\ frozen = FALSE /\ undone = <<>> /\ redone = <<>> /\ edits = 0

Next ==
  \/ \E i \in Regions : \/ \E c \in {"C", "I", "B", "M"} : Choose(i, c)
                        \/ \E a \in BOOLEAN : Reopen(i, a)
                        \/ Activate(i)
  \/ \E p \in 0 .. Len(doc), joins \in BOOLEAN :
       \/ \E c \in {"t", NL} : Insert(p, c, joins)
       \/ \E q \in p + 1 .. Len(doc) : Delete(p, q, joins)
  \/ \E dir \in {-1, 1} : Navigate(dir)
  \/ \E on \in BOOLEAN : SetFrozen(on)
  \/ Undo \/ Redo \/ ToggleOrder

Spec == Init /\ [][Next]_vars

-----------------------------------------------------------------------------
(* Properties.                                                              *)

Text(i) == Slice(doc, ranges[i].from, ranges[i].to)
Block(i) == <<Marker[i]>> \o (IF ranges[i].nl THEN <<NL>> ELSE <<>>)

\* A conflict that has no decision still stands in the document as git wrote it, and its range is
\* where it stands, whatever was resolved, edited, reopened, undone or redone around it.
UndecidedIntact == \A i \in Regions : dec[i] = "" => Text(i) \in {Block(i), <<NL>> \o Block(i)}

\* A region that counts as resolved to a side holds that side: an edit of it makes it manual.
Both(i) == {file.ours[i] \o file.theirs[i], file.theirs[i] \o file.ours[i]}
Lines(i) == IF dec[i] = "C" THEN {file.ours[i]} ELSE IF dec[i] = "I" THEN {file.theirs[i]} ELSE Both(i)
AcceptedIsShown ==
  \A i \in Regions : dec[i] \in {"C", "I", "B"} =>
    \E l \in Lines(i) : \E e \in {<<>>, <<NL>>} : Text(i) = Joined(l) \o e

\* Without an edit of the user, the text around the conflicts is what git wrote.
Around(d, rs) ==
  [g \in 0 .. Len(rs) |-> Slice(d, IF g = 0 THEN 0 ELSE rs[g].to, IF g = Len(rs) THEN Len(d) ELSE rs[g + 1].from)]
ContextKept == edits = 0 => Around(doc, ranges) = Around(file.doc, Parsed(file))

\* A resolved region begins a line if its block did.
BeginsItsLine ==
  edits = 0 => \A i \in Regions :
    dec[i] # "" /\ Text(i) # <<>> /\ StartsAfterNL(i) /\ ranges[i].from > 0 => doc[ranges[i].from] = NL
=============================================================================
