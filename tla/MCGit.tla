-------------------------------- MODULE MCGit --------------------------------
(*****************************************************************************)
(* Values of the parameters of GitParts for TLC.  Each record of Clicks,     *)
(* Sessions, Gutters, Documents and Reports bounds one kind of behaviour.    *)
(*****************************************************************************)
EXTENDS GitParts, TLC

Click(c, k, r, o, w, x) ==
  [clicks |-> c, keys |-> k, refreshes |-> r, ops |-> o, switches |-> w, failures |-> x]
Clicks == {Click(2, 0, 2, 0, 0, 1), Click(1, 2, 1, 0, 0, 0), Click(1, 0, 1, 1, 1, 0), Click(1, 0, 1, 2, 0, 0),
           Click(2, 1, 1, 0, 0, 0),
           Click(0, 0, 0, 2, 2, 1), Click(1, 1, 2, 0, 0, 0)}

Listed == <<"f", "g">>
Start == {[p \in {"f", "g"} |-> 1], [p \in {"f", "g"} |-> IF p = "f" THEN 3 ELSE 1]}
At(s, t) == [stages |-> s, text |-> t]
Left == {At(1, "merged"), At(1, "outside"), At(2, "merged"), At(3, "merged"), At(4, "merged"),
         At(1, "settled"), At(0, "settled")}
Session(o, e, k, w, x, n) ==
  [outside |-> o, edits |-> e, gitOps |-> k, switches |-> w, failures |-> x, opens |-> n]
Sessions == {Session(2, 0, 0, 0, 0, 1), Session(1, 0, 0, 0, 1, 1),
             Session(0, 1, 0, 0, 1, 1), Session(0, 1, 1, 0, 0, 1), Session(0, 0, 1, 0, 1, 1),
             Session(0, 0, 0, 1, 0, 2)}

\* Conflicts that touch, one that the file ends with, and one that ends it without a newline.
Conflicts ==
  {[doc |-> <<"c", "/", "M1", "/", "M2", "/", "d">>, ours |-> <<<<"a">>, <<>>>>, theirs |-> <<<<>>, <<"b">>>>,
    oursEnds |-> "none", theirsEnds |-> "none", depth |-> 2],
   [doc |-> <<"M1", "/", "c", "/", "M2", "/">>, ours |-> <<<<"a">>, <<"a">>>>, theirs |-> <<<<"b">>, <<"b">>>>,
    oursEnds |-> "yes", theirsEnds |-> "no", depth |-> 2],
   [doc |-> <<"M1", "/", "M2", "/">>, ours |-> <<<<"a">>, <<>>>>, theirs |-> <<<<>>, <<"b">>>>,
    oursEnds |-> "yes", theirsEnds |-> "no", depth |-> 2]}

Doc(d, b, e, l, c) ==
  [doc |-> d, baseline |-> b, phrase |-> <<<<>>, <<>>>>, edits |-> e, loads |-> l, clicks |-> c]
Words(old, new) == [Doc(<<"">>, <<"">>, 0, 0, 0) EXCEPT !.phrase = <<old, new>>]
Delivered == {<<"">>, <<"x", "y", "">>}
Gutters ==
  LET ab == <<"a", "b">>  ac == <<"a", "c">>  c == <<"c">>  blank == <<"_">>
  IN {Doc(<<"x", "y">>, <<"x", "x", "y", "">>, 1, 1, 1), Doc(<<"y", "x", "y", "">>, <<"x", "y", "">>, 2, 0, 0),
      Doc(<<"y", "x", "y", "">>, <<"x", "y", "y">>, 1, 0, 1), Doc(<<"x", "">>, <<"">>, 1, 1, 1),
      Doc(<<"x", "", "y", "">>, <<"y", "x">>, 1, 0, 1),
      Words(<<ab, blank, c>>, <<c, blank, ab>>), Words(<<ab, blank, c>>, <<ac, blank, c>>),
      Words(<<ab, blank>>, <<ac, c>>), Words(<<c, c, blank>>, <<c>>), Words(<<>>, <<ab>>)}

Served(e, t, s, q, c, x) ==
  [edits |-> e, tabs |-> t, saves |-> s, asks |-> q, crashes |-> c, faults |-> x]
Documents ==
  {Served(2, 2, 0, 0, 0, 1), Served(1, 3, 1, 0, 0, 1), Served(2, 1, 1, 1, 0, 0),
   Served(1, 4, 0, 0, 1, 0), Served(1, 3, 0, 0, 1, 1), Served(1, 1, 0, 1, 1, 0),
   Served(1, 1, 1, 1, 0, 1)}

\* Project x lies in workspace a.
RootsIn == [a |-> {"a", "x"}, x |-> {"x"}, b |-> {"b"}]
OneRepo == [f \in {"f", "g"} |-> "a"]
Reported(e, s, d, r, x) ==
  [events |-> e, switches |-> s, disk |-> d, refreshes |-> r, faults |-> x]
Reports == {Reported(2, 1, 0, 0, 0), Reported(0, 1, 1, 2, 0), Reported(1, 0, 1, 2, 1)}

\* Lines of ASCII, of three-byte and of four-byte characters, with blanks.
Char(b, u, k) == [bytes |-> b, units |-> u, blank |-> k]
Shown ==
  LET a == Char(1, 1, FALSE)  blank == Char(1, 1, TRUE)  wide == Char(3, 1, FALSE)  pair == Char(4, 2, FALSE)
      From(x, y) == [start |-> x, end |-> y]
      Token(x, y, k) == [from |-> x, to |-> y, class |-> k]
      Matches == {From(0, 2), From(2, 3), From(3, 4), From(3, 6), From(5, 9)}
  IN [text : {<<blank, a, wide, a>>, <<a, pair, a, a>>, <<blank, blank, blank, blank, blank>>,
              <<wide, blank, a, a, a>>},
      ranges : {<<>>} \cup {<<m>> : m \in Matches} \cup {<<From(1, 5), m>> : m \in Matches},
      tokens : {<<>>, <<Token(1, 2, "k"), Token(2, 4, "s")>>, <<Token(0, 1, "k"), Token(3, 4, "s")>>,
                <<Token(0, 5, "k")>>}]
=============================================================================
