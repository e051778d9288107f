------------------------------- MODULE MCFrontend -----------------------------
(*****************************************************************************)
(* Values of the parameters of FrontendParts for TLC.  Each record of a      *)
(* component's casts bounds one kind of behaviour.                           *)
(*****************************************************************************)
EXTENDS FrontendParts, TLC

RunNames == {"a1", "a2", "a3", "c1", "c2", "b"}
ProfileOfRun == [i \in RunNames |-> IF i \in {"c1", "c2"} THEN "c" ELSE "p"]
SeqOfRun == [i \in RunNames |-> CASE i = "a1" -> 1 [] i = "a2" -> 2 [] i = "a3" -> 3
                                  [] i = "c1" -> 5 [] i = "c2" -> 6 [] i = "b" -> 7]
EpochOfRun == [i \in RunNames |-> IF i = "b" THEN 2 ELSE 1]
Launched(runs, epochs, clearGestures, requested, picks, quits) ==
  [runs |-> runs, epochs |-> epochs, clears |-> clearGestures, calls |-> requested, picks |-> picks,
   quits |-> quits]
Launches ==
  {Launched({"a1", "a2", "a3"}, 1, 2, 0, FALSE, FALSE), Launched({"a1", "a2", "c1"}, 1, 1, 0, TRUE, FALSE),
   Launched({"c1", "c2"}, 1, 2, 0, TRUE, FALSE), Launched({"a1", "c1"}, 1, 0, 0, FALSE, TRUE),
   Launched({"a1", "c1", "b"}, 2, 0, 0, FALSE, FALSE), Launched({"a1", "c1"}, 2, 0, 0, FALSE, TRUE),
   Launched({"a1", "a2"}, 2, 1, 1, FALSE, FALSE)}

Session(e, s, b, f, d, c) ==
  [edits |-> e, switches |-> s, blurs |-> b, faults |-> f, drops |-> d, closes |-> c]
Sessions == {Session(1, 2, 1, 0, 0, 1), Session(1, 3, 0, 1, 0, 1), Session(1, 2, 1, 2, 1, 0)}
Closing == {Session(1, 2, 1, 0, 0, 1)}

ParentOf == [x \in {"d", "e"} |-> IF x = "d" THEN "r" ELSE "d"]
DirOf == [f \in {"f", "g"} |-> IF f = "f" THEN "e" ELSE "d"]
Tree(c, f, t, o, r, v) ==
  [changes |-> c, fails |-> f, toggles |-> t, reopens |-> o, refreshes |-> r, reveals |-> v, slow |-> FALSE]
Trees == {Tree(1, 1, 1, 0, 0, 1), Tree(1, 0, 1, 0, 0, 2), Tree(1, 1, 0, 1, 0, 0),
          Tree(1, 1, 1, 0, 1, 0), Tree(0, 1, 1, 1, 0, 0)}

Chat(s, t, k, n, o, f, x, r, l, d, m) ==
  [submits |-> s, retries |-> t, cancels |-> k, chats |-> n, reopens |-> o, refreshes |-> f, expiries |-> x,
   refuses |-> r, fails |-> l, reloads |-> d, remote |-> m, rushed |-> FALSE]
Chats == {Chat(1, 1, 1, 0, 2, 0, 1, 1, 0, 0, TRUE), Chat(2, 0, 0, 1, 1, 1, 0, 0, 0, 0, FALSE)}

Config(s, a, g, c, q, f, m) ==
  [stages |-> s, applies |-> a, grants |-> g, sources |-> c, quits |-> q, failures |-> f, moves |-> m,
   abandons |-> 1]
Configs == {Config(2, 2, 0, 0, 0, 2, 1), Config(2, 1, 0, 2, 0, 1, 0), Config(1, 1, 1, 1, 1, 1, 0)}

FloorOf == <<{"chat", "tool"}, {}, {"chat"}>>
DerivedOf == [dense |-> {"chat"}, embedding |-> {"embed"}]
Shown == [dense |-> {{"chat"}, {"chat", "tool"}}, embedding |-> {{"embed"}}]
Role(s, t, l, k, f) == [sel |-> s, type |-> t, list |-> l, think |-> k, falls |-> f]
Tool == {"chat", "tool"}
Docs ==
  {[roles |-> <<Role("a", "dense", Tool, "", {2}), Role("b", "dense", {}, "", {})>>, bound |-> <<1, 2, 2>>],
   [roles |-> <<Role("a", "dense", Tool, "", {3}), Role("b", "dense", {}, "on", {}),
                Role("b", "dense", Tool, "", {})>>, bound |-> <<1, 2, 3>>],
   [roles |-> <<Role("b", "dense", Tool, "", {}), Role("a", "embedding", {}, "", {1}),
                Role("a", "dense", {}, "", {})>>, bound |-> <<1, 2, 3>>]}

\* Documents that the backend replays drafts on: roles with their lists, fallbacks that cross
\* selectors, chains of two, and a use case without a route.
Demanded == 1 :> {"chat"} @@ 2 :> Tool
Doc(m, d) == [models |-> m, defaults |-> d]
Replayed ==
  LET Chat1 == {"chat"}
  IN {Doc(<<Role("s", "dense", Tool, "", {}), Role("t", "dense", {}, "", {})>>, <<1, 1, 2>>),
      Doc(<<Role("s", "dense", Tool, "", {}), Role("s", "dense", {}, "on", {})>>, <<2, 1>>),
      Doc(<<Role("s", "dense", Tool, "", {2}), Role("t", "dense", Tool, "", {})>>, <<1, 1, 2>>),
      Doc(<<Role("s", "dense", Chat1, "", {}), Role("t", "dense", Tool, "", {1}),
            Role("t", "dense", {}, "", {})>>, <<1, 2, 3>>),
      Doc(<<Role("s", "dense", Tool, "on", {2}), Role("s", "dense", {}, "", {3}),
            Role("t", "embedding", {}, "", {})>>, <<2, 1, 3>>),
      Doc(<<Role("s", "dense", {}, "on", {3}), Role("t", "dense", Chat1, "", {1}),
            Role("s", "dense", Tool, "", {}), Role("t", "embedding", {}, "", {})>>, <<2, 3, 1>>),
      Doc(<<Role("s", "embedding", Tool, "on", {}), Role("t", "dense", Tool, "", {1}),
            Role("s", "dense", {}, "", {2})>>, <<1, 3, 2>>),
      Doc(<<Role("s", "dense", Tool, "", {2}), Role("s", "dense", Tool, "", {}),
            Role("t", "embedding", {}, "", {})>>, 1 :> 1 @@ 3 :> 3)}
Offer(s, t, e, k) == [sel |-> s, type |-> t, exp |-> e, think |-> k]
Offered ==
  {Offer("s", "dense", {"chat"}, ""), Offer("s", "dense", Tool, ""), Offer("t", "dense", Tool, "on"),
   Offer("t", "dense", {"chat"}, ""), Offer("t", "embedding", {"embed"}, ""), Offer("s", "embedding", Tool, "")}

Shell(m, t, o, r, x) == [marks |-> m, toggles |-> t, orders |-> o, renames |-> r, fails |-> x]
Shells == {Shell(3, 2, 0, 0, 0), Shell(1, 1, 1, 1, 0), Shell(4, 0, 0, 0, 0), Shell(0, 0, 1, 1, 1)}

Matched(f, n) == [file |-> f, matches |-> n]
Matches == [q |-> <<Matched("x", 2), Matched("y", 1), Matched("z", 1)>>, r |-> <<>>]
LanguageOfFile == [x |-> "ts", y |-> "go", z |-> "none"]
Search(e, s, m, o, x) == [edits |-> e, switches |-> s, moves |-> m, opens |-> o, faults |-> x]
Searches == {Search(1, 1, 4, 0, 0), Search(2, 2, 0, 1, 0), Search(3, 1, 1, 0, 0), Search(2, 1, 0, 0, 1)}

\* A window, the least one, and one that a drag leaves no room to spare in.
Windows == {[width |-> 1400, height |-> 800], [width |-> 1024, height |-> 600]}
Narrow == {[width |-> 1066, height |-> 600]}
Layout(d, k, w, t, r, s, o, f) ==
  [drags |-> d, keys |-> k, windows |-> w, toggles |-> t, reveals |-> r, restores |-> s, docks |-> o, focus |-> f,
   overlap |-> FALSE]
Overlapping == {[Layout(2, 1, 0, 0, 0, 0, 0, 0) EXCEPT !.overlap = TRUE]}
Layouts ==
  {Layout(2, 1, 0, 0, 0, 0, 0, 0), Layout(2, 0, 0, 1, 0, 0, 0, 0), Layout(2, 0, 1, 0, 0, 0, 0, 0),
   Layout(0, 0, 1, 1, 1, 0, 0, 1), Layout(0, 0, 0, 1, 1, 0, 2, 1), Layout(0, 0, 0, 3, 0, 1, 0, 1),
   Layout(0, 0, 0, 0, 0, 0, 5, 0), Layout(2, 0, 0, 0, 0, 1, 0, 0)} \cup Overlapping

CuratedNames == <<"c">>
UserNames == <<"u", "v">>
Menu(f, l, o, r, k, p, m, x, t, b) ==
  [flows |-> f, leaves |-> l, others |-> o, reloads |-> r, locks |-> k, picks |-> p, moves |-> m, faults |-> x,
   tabs |-> t, limit |-> b]
Menus ==
  {Menu(1, 0, 2, 1, 0, 0, 0, 0, 0, 3), Menu(1, 1, 1, 1, 0, 0, 0, 0, 0, 3), Menu(1, 1, 0, 0, 0, 0, 0, 1, 0, 3),
   Menu(1, 1, 0, 0, 1, 0, 0, 0, 1, 3), Menu(1, 1, 0, 0, 0, 1, 1, 0, 0, 2), Menu(1, 0, 1, 0, 0, 1, 0, 0, 0, 2),
   Menu(0, 1, 1, 1, 0, 1, 1, 0, 0, 2), Menu(0, 0, 1, 0, 0, 2, 0, 1, 0, 2)}

\* The projects of "g" are those of "f" but the innermost; a jump may go to the end of "g".
ProjectsOf == [f |-> <<"in", "out">>, g |-> <<"out">>]
TwoLines == <<"a", "b">>
OneLine == <<"c">>
EditedTexts == {TwoLines, OneLine}
Place(f, n) == [file |-> f, line |-> n]
Restore(o, t, c, s) == [open |-> o, text |-> t, cursor |-> c, scroll |-> s]
OneTab == Restore(<<"f">>, [f |-> OneLine, g |-> TwoLines], [f |-> 0, g |-> 0], [f |-> 0, g |-> 0])
TwoTabs == Restore(<<"f", "g">>, [f |-> TwoLines, g |-> TwoLines], [f |-> 0, g |-> 2], [f |-> 0, g |-> 2])
AllPlaces == {Place(f, n) : f \in {"f", "g"}, n \in 1..2}
OnePlace == {Place("g", 2)}
FewPlaces == {Place("f", 1), Place("g", 2)}
Editing(c) ==
  c @@ [clicks |-> 0, closes |-> 0, types |-> 0, moves |-> 0, scrolls |-> 0, jumps |-> 0, looks |-> 0,
        backs |-> 0, reloads |-> 0, lsp |-> 0, git |-> 0, faults |-> 0, rough |-> FALSE, from |-> TwoTabs,
        places |-> AllPlaces]
Editings ==
  {Editing([jumps |-> 2, clicks |-> 2, faults |-> 1, places |-> OnePlace]),
   Editing([jumps |-> 2, clicks |-> 1, faults |-> 1, places |-> FewPlaces, from |-> OneTab]),
   Editing([jumps |-> 1, clicks |-> 1, moves |-> 1, rough |-> TRUE, places |-> OnePlace]),
   Editing([jumps |-> 1, scrolls |-> 1, moves |-> 1, rough |-> TRUE, from |-> OneTab]),
   Editing([jumps |-> 2, rough |-> TRUE]), Editing([jumps |-> 1, closes |-> 1, rough |-> TRUE]),
   Editing([clicks |-> 2, closes |-> 2, faults |-> 1]), Editing([clicks |-> 2, types |-> 1, reloads |-> 1]),
   Editing([clicks |-> 2, lsp |-> 2]), Editing([clicks |-> 2, git |-> 2]),
   Editing([looks |-> 2, backs |-> 1, places |-> FewPlaces]),
   Editing([jumps |-> 1, clicks |-> 1, reloads |-> 1, places |-> OnePlace])}

\* Two tabs and a half fit in the strip.
Strip == [tab |-> 10, strip |-> 25, control |-> 2]
Column(c) ==
  c @@ [clicks |-> 0, opens |-> 0, closes |-> 0, diffs |-> 0, merges |-> 0, configs |-> 0, types |-> 0,
        scrolls |-> 0, faults |-> 0, files |-> <<"f", "g">>]
Columns ==
  {Column([clicks |-> 2, closes |-> 1, diffs |-> 1, configs |-> 1]),
   Column([closes |-> 2, diffs |-> 1, merges |-> 1, configs |-> 1]),
   Column([clicks |-> 1, closes |-> 1, diffs |-> 1, merges |-> 1, configs |-> 1]),
   Column([diffs |-> 2, merges |-> 1, configs |-> 2, faults |-> 1]),
   Column([merges |-> 4, faults |-> 1, clicks |-> 1]),
   Column([merges |-> 4, closes |-> 1, faults |-> 1]),
   Column([opens |-> 2, diffs |-> 1, configs |-> 1, closes |-> 1]),
   Column([diffs |-> 1, scrolls |-> 1, clicks |-> 1, closes |-> 1, configs |-> 1]),
   Column([diffs |-> 2, types |-> 1, clicks |-> 2, faults |-> 1])}
=============================================================================
