----------------------------- MODULE RouteReach -----------------------------
(****************************************************************************)
(* What a draft of routes will do, told twice.  The configuration tab says  *)
(* beforehand which use cases a draft gates, asks to confirm and changes    *)
(* (types/golemConfig.ts); the apply of internal/ai/settings_apply.go then  *)
(* runs the changes plan by plan on the document.  An exposure is a set of  *)
(* capabilities, an empty list is no list, the optional facts of a model    *)
(* are in its type, and stable ids are compared as the numbers of the use   *)
(* cases.                                                                   *)
(****************************************************************************)
EXTENDS Integers, FiniteSets, Sequences
CONSTANTS
  Docs,      \* the documents: models by role, [sel, type, list, think, falls], and defaults
  Offers,    \* what a change may ask for: [sel, type, exp, think]
  UseCases,  \* numbers, in the order of the names
  Agent,     \* the use case that is never unassigned
  Derived,   \* what a type derives when no list is authored
  Floors,    \* the use cases Firn has a floor for, and their floors
  MaxStaged  \* bound: changes in a draft

VARIABLES
  base,   \* the document the draft is about
  draft,  \* the staged changes, the newest last
  doc,    \* the document of the apply
  phase,  \* draft, routes, overrides, done, refused
  todo,   \* the use cases whose plans the phase still has to run
  gated   \* history: the use cases each selector's plans were gated on
vars == <<base, draft, doc, phase, todo, gated>>

Selectors == {o.sel : o \in Offers}
Route(u, o) == [kind |-> "route", u |-> u, sel |-> o.sel, type |-> o.type, exp |-> o.exp, think |-> o.think]
Unassign(u) == [kind |-> "unassign", u |-> u]
First(S) == CHOOSE x \in S : \A y \in S : x <= y
-----------------------------------------------------------------------------
(* The projection of a document, which both sides read.                     *)
RoleOf(d, u) == IF u \in DOMAIN d.defaults THEN d.defaults[u] ELSE 0
On(d, s) == {r \in DOMAIN d.models : d.models[r].sel = s}
Chain(d, u) ==
  LET reached[n \in 0..Cardinality(DOMAIN d.models)] ==
        IF n = 0 THEN {d.defaults[u]}
        ELSE reached[n - 1] \cup UNION {d.models[r].falls : r \in reached[n - 1]}
  IN reached[Cardinality(DOMAIN d.models)]
RoutedUseCases(d, r) == {u \in DOMAIN d.defaults : r \in Chain(d, u)}
IsFallbackTarget(d, r) == \E x \in DOMAIN d.models : r \in d.models[x].falls
Holders(d, s) == [r \in {x \in On(d, s) : d.models[x].list # {}} |-> d.models[r].list]
ListsOf(h) == {h[r] : r \in DOMAIN h}
OwnCaps(d, r) == IF d.models[r].list # {} THEN d.models[r].list ELSE Derived[d.models[r].type]
Exposed(d, r) ==
  LET lists == ListsOf(Holders(d, d.models[r].sel))
  IN IF lists # {} THEN CHOOSE l \in lists : TRUE ELSE Derived[d.models[r].type]
SameModelFacts(m, c) == m.sel = c.sel /\ m.type = c.type
\* More than one use case, or a role that some role falls back to: forked, never moved.
Forks(d, r) == Cardinality(RoutedUseCases(d, r)) > 1 \/ IsFallbackTarget(d, r)
-----------------------------------------------------------------------------
(* The frontend: everything from the base document b and the changes cs.    *)
Routes(cs) == {cs[i] : i \in {j \in DOMAIN cs : cs[j].kind = "route"}}
Onto(cs, s) == {c \in Routes(cs) : c.sel = s}
SelectorAuthority(cs, s) ==
  cs[CHOOSE i \in DOMAIN cs : cs[i] \in Onto(cs, s) /\ \A j \in i+1..Len(cs) : cs[j] \notin Onto(cs, s)]
IsOverride(b, c) == RoleOf(b, c.u) # 0 /\ SameModelFacts(b.models[RoleOf(b, c.u)], c)
OverridesSelector(b, cs, s) == \E c \in Onto(cs, s) : IsOverride(b, c)
LeavingRoutes(b, cs, r) ==
  {c \in Routes(cs) : c.u \in RoutedUseCases(b, r) /\ c.sel # b.models[r].sel /\ RoleOf(b, c.u) = r}
RetargetOf(b, cs, r) ==
  IF Forks(b, r) THEN {} ELSE LeavingRoutes(b, cs, r)

Without(h, r) == [x \in DOMAIN h \ {r} |-> h[x]]
With(h, r, l) == [x \in DOMAIN h \cup {r} |-> IF x = r THEN l ELSE h[x]]
NewRole(u) == 100 + u
\* The lists on a selector as the plan numbered before meets them, the earlier plans replayed.
HeldAfter(b, h, c, s, exposure) ==
  LET role == RoleOf(b, c.u)
      from == role # 0 /\ b.models[role].sel = s
      forked == role # 0 /\ Forks(b, role)
      inPlace == from /\ ~forked
      asserts == \/ exposure # Derived[c.type]
                 \/ ListsOf(h) \ {Derived[c.type]} # {}
                 \/ inPlace /\ DOMAIN h = {role}
  IN CASE ~from /\ c.sel # s -> h
       [] from /\ c.sel # s -> IF forked THEN h ELSE Without(h, role)
       [] from /\ c.sel = s /\ IsOverride(b, c) -> h
       [] c.sel = s /\ inPlace /\ ~IsOverride(b, c) -> IF asserts THEN With(h, role, exposure) ELSE Without(h, role)
       [] OTHER -> IF asserts THEN With(h, IF forked \/ role = 0 THEN NewRole(c.u) ELSE role, exposure) ELSE h
BaseHolders(b, cs, s, exposure, before) == Holders(b, s)
ListHoldersAt(b, cs, s, exposure, before) ==
  LET held[n \in 0..before - 1] ==
        IF n = 0 THEN Holders(b, s)
        ELSE IF \E c \in Routes(cs) : c.u = n
             THEN HeldAfter(b, held[n - 1], CHOOSE c \in Routes(cs) : c.u = n, s, exposure)
             ELSE held[n - 1]
  IN held[before - 1]
AfterEvery == 1 + CHOOSE u \in UseCases : \A v \in UseCases : v <= u

\* Whether a join's exposure is sent as an explicit list, which gates the whole selector.
AssertsOverride(b, cs, c, exposure) ==
  LET holders == ListHoldersAt(b, cs, c.sel, exposure, c.u)
      role == RoleOf(b, c.u)
  IN \/ exposure # Derived[c.type]
     \/ ListsOf(holders) \ {Derived[c.type]} # {}
     \/ role # 0 /\ b.models[role].sel = c.sel /\ ~Forks(b, role) /\ DOMAIN holders = {role}
GatingJoins(b, cs, s) ==
  {c \in Onto(cs, s) : ~IsOverride(b, c) /\ AssertsOverride(b, cs, c, SelectorAuthority(cs, s).exp)}

\* What the user is asked to confirm.
Affected(b, cs, s) ==
  {c.u : c \in Onto(cs, s)} \cup UNION {RoutedUseCases(b, r) : r \in On(b, s)}
    \cup UNION {RoutedUseCases(b, RoleOf(b, c.u)) : c \in {x \in Onto(cs, s) : RoleOf(b, x.u) # 0}}
\* What the changes really gate, which their capabilities have to serve.
StaysFor(b, cs, s, r, u) ==
  \A d \in LeavingRoutes(b, cs, r) : d.u = u => \E c \in GatingJoins(b, cs, s) : c.u < u
StaysAlways(b, cs, s, r, u) == TRUE
Meets(b, cs, s, r, u) == StaysFor(b, cs, s, r, u)
Governed(b, cs, s) ==
  {c.u : c \in Onto(cs, s)} \cup
  IF OverridesSelector(b, cs, s) \/ GatingJoins(b, cs, s) # {}
  THEN UNION {{u \in RoutedUseCases(b, r) : Meets(b, cs, s, r, u)} : r \in On(b, s)} ELSE {}

\* What a role on the selector shows once the draft is applied.
WritesSelectorCaps(b, cs, s) ==
  OverridesSelector(b, cs, s) \/ \E c \in Onto(cs, s) : AssertsOverride(b, cs, c, SelectorAuthority(cs, s).exp)
TypeAfter(b, cs, s, r) ==
  LET mine == {c \in Onto(cs, s) : RoleOf(b, c.u) = r}
  IN IF Forks(b, r) \/ mine = {} THEN b.models[r].type ELSE (CHOOSE c \in mine : TRUE).type
ExposedAfter(b, cs, s, r) ==
  LET exposure == SelectorAuthority(cs, s).exp IN
  CASE WritesSelectorCaps(b, cs, s) -> exposure
    [] ListsOf(ListHoldersAt(b, cs, s, exposure, AfterEvery)) = {}
         /\ (ListsOf(Holders(b, s)) # {} \/ TypeAfter(b, cs, s, r) # b.models[r].type)
       -> Derived[TypeAfter(b, cs, s, r)]
    [] OTHER -> Exposed(b, r)
ThinkAfter(b, cs, s, r) ==
  IF OverridesSelector(b, cs, s) THEN SelectorAuthority(cs, s).think ELSE b.models[r].think
RolesOn(b, cs, s) == {r \in On(b, s) : RetargetOf(b, cs, r) = {}}
Changed(b, cs, s) ==
  {r \in RolesOn(b, cs, s) : \/ ExposedAfter(b, cs, s, r) # Exposed(b, r)
                             \/ ThinkAfter(b, cs, s, r) # b.models[r].think}

EffectiveRoutes(b, cs) ==
  [u \in DOMAIN b.defaults \cup {c.u : c \in Routes(cs)} |->
     IF \E c \in Routes(cs) : c.u = u THEN (CHOOSE c \in Routes(cs) : c.u = u).sel
     ELSE IF \E i \in DOMAIN cs : cs[i].u = u THEN "" ELSE b.models[b.defaults[u]].sel]
\* The rows a change reaches without being theirs.
Bystanders(b, cs) == DOMAIN b.defaults \ {cs[i].u : i \in DOMAIN cs}
SameModel(b, cs, s) == {u \in Bystanders(b, cs) : b.defaults[u] \in Changed(b, cs, s)}
Fallback(b, cs, s) ==
  {u \in DOMAIN b.defaults :
     /\ \A i \in DOMAIN cs : cs[i].u = u => cs[i] \notin Onto(cs, s) \cup {Unassign(u)}
     /\ \E r \in Changed(b, cs, s) \ {b.defaults[u]} : u \in RoutedUseCases(b, r)
     /\ u \notin SameModel(b, cs, s)}

\* Who uses what, the fallbacks of the document included unless the use case is staged.
StagedAway(cs) == {cs[i].u : i \in DOMAIN cs}
ProviderUsage(b, cs, s) ==
  {u \in DOMAIN EffectiveRoutes(b, cs) : EffectiveRoutes(b, cs)[u] = s}
    \cup (UNION {RoutedUseCases(b, r) : r \in On(b, s)} \ StagedAway(cs))
\* How many roles the shortest chain from a use case to the selector has, 0 when there is none.
ReachOf(b, u, s) ==
  LET size == Cardinality(DOMAIN b.models)
      ring[n \in 0..size] ==
        IF n = 0 THEN {b.defaults[u]} ELSE UNION {b.models[r].falls : r \in ring[n - 1]}
      hits == {n \in 0..size : ring[n] \cap On(b, s) # {}}
  IN IF u \notin DOMAIN b.defaults \/ hits = {} THEN 0 ELSE 1 + First(hits)
\* The use cases whose floor an exposure misses.
FloorShortfalls(exp, us) == {u \in us \cap DOMAIN Floors : ~(Floors[u] \subseteq exp)}

\* The request: each change with the fields of its selector's authority.
Coalesced(cs) ==
  [i \in DOMAIN cs |-> IF cs[i].kind = "route"
     THEN [cs[i] EXCEPT !.exp = SelectorAuthority(cs, cs[i].sel).exp, !.think = SelectorAuthority(cs, cs[i].sel).think]
     ELSE cs[i]]
AsStaged(cs) == cs
Request(cs) == Coalesced(cs)
-----------------------------------------------------------------------------
(* The editor stages a change, or drops one.                                *)
Init ==
  /\ base \in Docs /\ draft = <<>> /\ doc = base /\ phase = "draft" /\ todo = {}
  /\ gated = [s \in Selectors |-> {}]
StageChange ==
  /\ phase = "draft" /\ Len(draft) < MaxStaged
  /\ \E u \in UseCases :
       /\ ~\E i \in DOMAIN draft : draft[i].u = u
       /\ \/ \E o \in Offers : draft' = Append(draft, Route(u, o))
          \/ u \in DOMAIN base.defaults \ {Agent} /\ draft' = Append(draft, Unassign(u))
  /\ UNCHANGED <<base, doc, phase, todo, gated>>
-----------------------------------------------------------------------------
(* The backend: internal/ai/settings_apply.go on the document as it stands. *)
Action(c) ==
  LET role == RoleOf(base, c.u) IN
  CASE role = 0 -> "create"
    [] role # 0 /\ SameModelFacts(base.models[role], c) -> "override"
    [] role # 0 /\ Forks(base, role) -> "fork"
    [] OTHER -> "retarget"
SoleListHolder(d, r, s) == DOMAIN Holders(d, s) = {r}
AssertedCapabilities(d, c) ==
  LET lists == ListsOf(Holders(d, c.sel)) IN
  IF \/ c.exp # Derived[c.type]
     \/ lists # {} /\ Derived[c.type] \notin lists
     \/ Action(c) = "retarget" /\ SoleListHolder(d, RoleOf(base, c.u), c.sel)
  THEN c.exp ELSE {}
\* The roles whose use cases the plan has to serve.
GateRoles(d, c) ==
  (IF Action(c) = "override" \/ AssertedCapabilities(d, c) # {} THEN On(d, c.sel) ELSE {})
    \cup (IF Action(c) = "retarget" THEN {RoleOf(base, c.u)} ELSE {})
Gates(d, c) == UNION {RoutedUseCases(d, r) : r \in GateRoles(d, c)}
Failing(d, c) == {u \in Gates(d, c) \cap DOMAIN Floors : ~(Floors[u] \subseteq c.exp)}
Refuses(d, c) == Failing(d, c) # {}
GateRolesFor(c) == On(base, c.sel) \cup (IF RoleOf(base, c.u) # 0 THEN {RoleOf(base, c.u)} ELSE {})
ConfirmationSet(s) ==
  LET plans == Onto(Request(draft), s) IN
  {c.u : c \in plans} \cup UNION {RoutedUseCases(base, r) : r \in UNION {GateRolesFor(c) : c \in plans}}

\* What go-llm does to a role, and to all that share a selector.
SetModel(d, r, c, falls) ==
  [d EXCEPT !.models = [x \in DOMAIN d.models \cup {r} |->
     IF x = r THEN [sel |-> c.sel, type |-> c.type, list |-> AssertedCapabilities(d, c),
                    think |-> c.think, falls |-> falls]
     ELSE d.models[x]]]
Bind(d, u, r) == [d EXCEPT !.defaults = [v \in DOMAIN d.defaults \cup {u} |-> IF v = u THEN r ELSE d.defaults[v]]]
SetRoleOverrides(d, c) ==
  [d EXCEPT !.models = [r \in DOMAIN d.models |->
     IF r \in On(d, c.sel) THEN [d.models[r] EXCEPT !.list = c.exp, !.think = c.think] ELSE d.models[r]]]
PairConflict(d) == \E s \in Selectors : Cardinality(ListsOf(Holders(d, s))) > 1

Planned(d, c) ==
  LET role == RoleOf(base, c.u) IN
  CASE Action(c) = "create" -> Bind(SetModel(d, NewRole(c.u), c, {}), c.u, NewRole(c.u))
    [] Action(c) = "fork" -> Bind(SetModel(d, NewRole(c.u), c, d.models[role].falls), c.u, NewRole(c.u))
    [] Action(c) = "retarget" -> SetModel(d, role, c, d.models[role].falls)
    [] OTHER -> d
OverridePlans == {c \in Routes(Request(draft)) : Action(c) = "override"}

Apply ==
  /\ phase = "draft" /\ draft # <<>>
  /\ phase' = "routes" /\ todo' = {c.u : c \in Routes(draft)}
  /\ UNCHANGED <<base, draft, doc, gated>>
PlanOf(u) == CHOOSE c \in Routes(Request(draft)) : c.u = u
RunPlan ==
  /\ phase = "routes" /\ todo # {}
  /\ LET c == PlanOf(First(todo))
         isOverride == Action(c) = "override"
         next == Planned(doc, c)
     IN IF ~isOverride /\ (Refuses(doc, c) \/ PairConflict(next))
        THEN phase' = "refused" /\ UNCHANGED <<doc, todo, gated>>
        ELSE /\ doc' = next /\ todo' = todo \ {c.u} /\ UNCHANGED phase
             /\ gated' = IF isOverride THEN gated ELSE [gated EXCEPT ![c.sel] = @ \cup Gates(doc, c)]
  /\ UNCHANGED <<base, draft>>
\* One override per selector, after every bind.
StartOverrides ==
  /\ phase = "routes" /\ todo = {} /\ phase' = "overrides"
  /\ todo' = {First({c.u : c \in {x \in OverridePlans : x.sel = s}}) : s \in {c.sel : c \in OverridePlans}}
  /\ UNCHANGED <<base, draft, doc, gated>>
RunOverride ==
  /\ phase = "overrides" /\ todo # {}
  /\ LET c == PlanOf(First(todo)) IN
     IF Refuses(doc, c) THEN phase' = "refused" /\ UNCHANGED <<doc, todo, gated>>
     ELSE /\ doc' = SetRoleOverrides(doc, c) /\ todo' = todo \ {c.u} /\ UNCHANGED phase
          /\ gated' = [gated EXCEPT ![c.sel] = @ \cup Gates(doc, c)]
  /\ UNCHANGED <<base, draft>>
\* The unassigns, and the floors of the document that came of it.
Unbound(d) == [d EXCEPT !.defaults = [u \in {v \in DOMAIN @ : ~\E i \in DOMAIN draft : draft[i] = Unassign(v)} |-> @[u]]]
MeetsFloors(d) == \A u \in DOMAIN d.defaults \cap DOMAIN Floors : Floors[u] \subseteq OwnCaps(d, d.defaults[u])
Finish ==
  /\ phase = "overrides" /\ todo = {} /\ doc' = Unbound(doc)
  /\ phase' = IF MeetsFloors(doc') THEN "done" ELSE "refused"
  /\ UNCHANGED <<base, draft, todo, gated>>
\* go-llm may refuse for a reason of its own, and nothing is written.
UpstreamRefuses ==
  /\ phase \in {"routes", "overrides"} /\ phase' = "refused"
  /\ UNCHANGED <<base, draft, doc, todo, gated>>

Next == StageChange \/ Apply \/ RunPlan \/ StartOverrides \/ RunOverride \/ Finish \/ UpstreamRefuses
Spec == Init /\ [][Next]_vars
-----------------------------------------------------------------------------
(* The lists the frontend expects a plan to meet are the ones it meets.     *)
HoldersMirrored ==
  phase = "routes" /\ todo # {} =>
    LET c == PlanOf(First(todo)) IN
    ListHoldersAt(base, draft, c.sel, c.exp, c.u) = Holders(doc, c.sel)

(* The use cases the user is asked to confirm are the ones the backend      *)
(* derives, which refuses any other set.                                    *)
Confirmed ==
  phase = "routes" => \A s \in {c.sel : c \in Routes(draft)} : ConfirmationSet(s) = Affected(base, draft, s)

(* A plan is gated on nothing the draft did not say it governs, and on all  *)
(* of it when the apply goes through.                                       *)
GatesForeseen ==
  \A s \in {c.sel : c \in Routes(draft)} :
    /\ gated[s] \subseteq Governed(base, draft, s)
    /\ phase = "done" => Governed(base, draft, s) = gated[s] \cup {c.u : c \in Onto(draft, s)}

(* A plan that is refused over a floor is refused for use cases that the    *)
(* picker had named, each with the chain by which it reaches the model.     *)
RefusalForeseen ==
  phase \in {"routes", "overrides"} /\ todo # {} =>
    LET c == PlanOf(First(todo)) IN
    (Action(c) = "override" <=> phase = "overrides") =>
      \A u \in Failing(doc, c) :
        /\ u \in FloorShortfalls(c.exp, Governed(base, draft, c.sel))
        /\ u \notin {x.u : x \in Onto(draft, c.sel)} => ReachOf(base, u, c.sel) > 0

(* The finished document routes, exposes and thinks as the draft said, and  *)
(* a route that nobody edited, or what it falls back to on a selector of    *)
(* the draft, changes only where its row says so; and whoever is said to    *)
(* use a provider reaches it, a route that nobody edited no other.          *)
Moved(r) == Exposed(doc, r) # Exposed(base, r) \/ doc.models[r].think # base.models[r].think
ValuesForeseen ==
  phase = "done" =>
    /\ \A u \in UseCases :
         (IF u \in DOMAIN EffectiveRoutes(base, draft) THEN EffectiveRoutes(base, draft)[u] ELSE "")
           = (IF RoleOf(doc, u) = 0 THEN "" ELSE doc.models[RoleOf(doc, u)].sel)
    /\ \A s \in Selectors : LET reaches == UNION {RoutedUseCases(doc, r) : r \in On(doc, s)} IN
         /\ ProviderUsage(base, draft, s) \subseteq reaches
         /\ Bystanders(base, draft) \cap reaches \subseteq ProviderUsage(base, draft, s)
    /\ \A s \in {c.sel : c \in Routes(draft)} :
         /\ \A r \in RolesOn(base, draft, s) : Exposed(doc, r) = ExposedAfter(base, draft, s, r)
         /\ \A u \in Bystanders(base, draft) :
              /\ base.models[base.defaults[u]].sel = s =>
                   (u \in SameModel(base, draft, s) <=> Moved(base.defaults[u]))
              /\ u \in Fallback(base, draft, s) <=>
                   /\ u \notin SameModel(base, draft, s)
                   /\ \E r \in RolesOn(base, draft, s) \ {base.defaults[u]} :
                        u \in RoutedUseCases(base, r) /\ Moved(r)
ReachSound == HoldersMirrored /\ Confirmed /\ GatesForeseen /\ RefusalForeseen /\ ValuesForeseen
=============================================================================
