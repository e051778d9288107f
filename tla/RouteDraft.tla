------------------------------ MODULE RouteDraft ------------------------------
(***************************************************************************)
(* The routes of the Golem configuration: what the draft says that Apply   *)
(* will do (types/golemConfig.ts, GolemConfig/RouteEditor.tsx) and what    *)
(* Apply does (internal/ai/settings_apply.go).                             *)
(*                                                                         *)
(* A document binds use cases to roles; a role names a model (a selector   *)
(* and a type, which stands for every model fact), may hold an explicit    *)
(* capability list and a Think mode, and lists the roles it falls back to. *)
(* Use cases are numbered in the order of their stable IDs.  What go-llm   *)
(* does to a document is modelled from how the service uses it.            *)
(***************************************************************************)
EXTENDS Integers, FiniteSets

CONSTANTS
  UseCases,   \* 1 .. N, in the order in which the service runs their changes
  Floor,      \* use case -> the capabilities it requires; {} when Firn has no floor for it
  Agent,      \* the use case that may not be unassigned
  Selectors, Types,
  Derived,    \* type -> the capabilities it derives
  Exposures,  \* type -> the capability sets that the editor may stage
  Thinks,     \* Think modes; Default is one of them
  Default,
  Documents,  \* documents to begin with
  MaxChanges, \* changes that a draft may hold
  MaxApplies  \* times that a draft is applied

VARIABLES
  doc,      \* [roles, bound]: the applied document
  draft,    \* the staged changes, in staging order
  applied,  \* how often a draft was applied
  withdrawn   \* history: a staged change was withdrawn while others stayed

vars == <<doc, draft, applied, withdrawn>>

NoRole == 0
NoList == {}

Roles(d) == DOMAIN d.roles
On(d, s) == {r \in Roles(d) : d.roles[r].sel = s}

-----------------------------------------------------------------------------
(* What both sides read from a document.                                    *)

\* The roles that a use case may run on: its own, and those that it falls back to.
Chain(d, u) ==
  LET reach[k \in 0 .. Cardinality(Roles(d))] ==
        IF k = 0 THEN {d.bound[u]} \cap Roles(d)
        ELSE reach[k - 1] \cup UNION {d.roles[r].falls : r \in reach[k - 1]} IN
  reach[Cardinality(Roles(d))]

Routed(d, r) == {u \in UseCases : r \in Chain(d, u)}

FallbackTarget(d, r) == \E q \in Roles(d) : r \in d.roles[q].falls

\* More than one use case runs on the role, or another role falls back to it.
Shared(d, r) == Cardinality(Routed(d, r)) > 1 \/ FallbackTarget(d, r)

\* The selector's list, which its holders agree on.
Owners(d, s) == {r \in On(d, s) : d.roles[r].list # NoList}
Owned(d, s) == IF Owners(d, s) = {} THEN NoList ELSE d.roles[CHOOSE r \in Owners(d, s) : TRUE].list

\* The capabilities that a role shows: those of its selector's list, or those its type derives.
Exposed(d, r) ==
  LET s == d.roles[r].sel IN IF Owned(d, s) # NoList THEN Owned(d, s) ELSE Derived[d.roles[r].type]

Applied(d, r) == [caps |-> Exposed(d, r), think |-> d.roles[r].think]

SameFacts(d, c) ==
  /\ d.bound[c.uc] # NoRole
  /\ LET r == d.roles[d.bound[c.uc]] IN r.sel = c.sel /\ r.type = c.type

-----------------------------------------------------------------------------
(* The draft.                                                               *)

Staged(D) == {D[i] : i \in {j \in DOMAIN D : D[j].kind = "route"}}
Unassigned(D) == {D[i].uc : i \in {j \in DOMAIN D : D[j].kind = "unassign"}}
Changed(D) == {D[i].uc : i \in DOMAIN D}

\* The staged routes onto a selector; the latest staging is the authority of the group.
Group(D, s) == {c \in Staged(D) : c.sel = s}
Targets(D) == {c.sel : c \in Staged(D)}
Authority(D, s) ==
  D[CHOOSE i \in DOMAIN D : D[i] \in Group(D, s) /\ \A j \in DOMAIN D : D[j] \in Group(D, s) => j <= i]

\* A change replaces the one that the same use case has staged.
Without(D, u) ==
  LET keep == {i \in DOMAIN D : D[i].uc # u}
      nth[n \in 1 .. Cardinality(keep)] == CHOOSE i \in keep : Cardinality({j \in keep : j <= i}) = n IN
  [n \in 1 .. Cardinality(keep) |-> D[nth[n]]]

StageChange(D, c) ==
  LET E == Without(D, c.uc) IN [i \in 1 .. Cardinality(DOMAIN E) + 1 |-> IF i \in DOMAIN E THEN E[i] ELSE c]

\* Mutant: every change keeps the values that it was staged with.
KeepsOwn(D) == D

\* projectDraft: the selector's values are those of the group's authority.
Projected(D) ==
  [i \in DOMAIN D |->
     IF D[i].kind # "route" THEN D[i]
     ELSE LET a == Authority(D, D[i].sel) IN [D[i] EXCEPT !.caps = a.caps, !.think = a.think]]

\* Staged routes that take a use case away from the selector its own role is on.
Leaving(d, D, r) ==
  {c \in Staged(D) : c.uc \in Routed(d, r) /\ c.sel # d.roles[r].sel /\ d.bound[c.uc] = r}

\* A role that only one use case reaches leaves with it; any other one is forked and stays.
Departs(d, D, r) == ~Shared(d, r) /\ Leaving(d, D, r) # {}

Overrides(d, D, s) == \E c \in Group(D, s) : SameFacts(d, c)

\* The roles that hold a list on the selector when the change of use case "before" runs.  A role
\* that a join creates is named by its use case, as a negative number.
ListHoldersAt(d, D, s, exposure, before) ==
  LET after[u \in 0 .. before - 1] ==
        IF u = 0 THEN [r \in Owners(d, s) |-> d.roles[r].list]
        ELSE LET was == after[u - 1]
                 c == CHOOSE x \in Staged(D) : x.uc = u
                 r == d.bound[u]
                 from == r # NoRole /\ d.roles[r].sel = s
                 inPlace == from /\ ~Shared(d, r)
                 asserts == \/ exposure # Derived[c.type]
                            \/ \E h \in DOMAIN was : was[h] # Derived[c.type]
                            \/ inPlace /\ DOMAIN was = {r}
                 holder == IF r = NoRole \/ Shared(d, r) THEN -u ELSE r
                 dropped == [h \in DOMAIN was \ {r} |-> was[h]] IN
             IF \A x \in Staged(D) : x.uc # u THEN was
             ELSE IF ~from /\ c.sel # s THEN was
             ELSE IF from /\ c.sel # s THEN IF Shared(d, r) THEN was ELSE dropped
             ELSE IF from /\ SameFacts(d, c) THEN was
             ELSE IF asserts THEN [h \in DOMAIN was \cup {holder} |-> IF h = holder THEN exposure ELSE was[h]]
             ELSE IF inPlace THEN dropped
             ELSE was
  IN after[before - 1]

\* The change is sent with an explicit list, which widens the gate to the whole selector.
AssertsOverride(d, D, c) ==
  LET held == ListHoldersAt(d, D, c.sel, c.caps, c.uc)
      r == d.bound[c.uc] IN
  \/ c.caps # Derived[c.type]
  \/ \E h \in DOMAIN held : held[h] # Derived[c.type]
  \/ r # NoRole /\ d.roles[r].sel = c.sel /\ ~Shared(d, r) /\ DOMAIN held = {r}

As(c, a) == [c EXCEPT !.caps = a.caps, !.think = a.think]

GatingJoins(d, D, s) ==
  {c \in Group(D, s) : ~SameFacts(d, c) /\ AssertsOverride(d, D, As(c, Authority(D, s)))}

\* What the user is asked to confirm: everything the group's changes could reach.
Affected(d, D, s) ==
  {c.uc : c \in Group(D, s)}
    \cup UNION {Routed(d, d.bound[c.uc]) : c \in {x \in Group(D, s) : d.bound[x.uc] # NoRole}}
    \cup UNION {Routed(d, r) : r \in On(d, s)}

\* Mutant: a use case that leaves the selector is never gated there.
GatesRemaining(d, D, s) ==
  {c.uc : c \in Group(D, s)}
    \cup {u \in UNION {Routed(d, r) : r \in On(d, s)} :
            /\ Overrides(d, D, s) \/ GatingJoins(d, D, s) # {}
            /\ \A r \in On(d, s) : \A c \in Leaving(d, D, r) : c.uc # u}

\* What the group gates: a use case that leaves is gated only by a join that runs before it left.
Governed(d, D, s) ==
  {c.uc : c \in Group(D, s)} \cup
  UNION {{u \in Routed(d, r) :
            LET out == {c \in Leaving(d, D, r) : c.uc = u} IN
            IF out = {} THEN Overrides(d, D, s) \/ GatingJoins(d, D, s) # {}
            ELSE \E j \in GatingJoins(d, D, s) : j.uc < u} : r \in On(d, s)}

\* The group writes a list onto the selector.
WritesCaps(d, D, s) == Group(D, s) # {} /\ (Overrides(d, D, s) \/ GatingJoins(d, D, s) # {})

\* The type that a role on the selector will have.
TypeThen(d, D, r) ==
  LET own == {c \in Staged(D) : d.bound[c.uc] = r /\ c.sel = d.roles[r].sel} IN
  IF Shared(d, r) \/ own = {} THEN d.roles[r].type ELSE (CHOOSE c \in own : TRUE).type

\* What a role on the selector shows once the draft is applied.
SelectorValues(d, D, s, r) ==
  LET exposure == IF Group(D, s) = {} THEN {} ELSE Authority(D, s).caps
      listless == DOMAIN ListHoldersAt(d, D, s, exposure, 1 + Cardinality(UseCases)) = {} IN
  [caps |-> IF WritesCaps(d, D, s) THEN exposure
            ELSE IF listless /\ (Owners(d, s) # {} \/ TypeThen(d, D, r) # d.roles[r].type)
                 THEN Derived[TypeThen(d, D, r)]
            ELSE Exposed(d, r),
   think |-> IF Overrides(d, D, s) THEN Authority(D, s).think ELSE d.roles[r].think]

\* The roles on a staged selector whose values the draft changes.
Reached(d, D, s) ==
  {r \in On(d, s) : ~Departs(d, D, r) /\ SelectorValues(d, D, s, r) # Applied(d, r)}

\* Routes whose own values change though nothing is staged for them, and those whose fallback does.
SameModel(d, D, s) ==
  {u \in UseCases \ Changed(D) : d.bound[u] # NoRole /\ d.bound[u] \in Reached(d, D, s)}
FallsBack(d, D, s) ==
  {u \in UseCases \ Unassigned(D) :
     /\ d.bound[u] # NoRole /\ u \notin {c.uc : c \in Group(D, s)} \cup SameModel(d, D, s)
     /\ \E r \in Reached(d, D, s) : r # d.bound[u] /\ u \in Routed(d, r)}

\* The model that every use case will run on.
EffectiveRoutes(d, D) ==
  [u \in UseCases |->
     IF \E c \in Staged(D) : c.uc = u THEN (CHOOSE c \in Staged(D) : c.uc = u).sel
     ELSE IF u \in Unassigned(D) \/ d.bound[u] = NoRole THEN "none"
     ELSE d.roles[d.bound[u]].sel]

-----------------------------------------------------------------------------
(* Done, in the editor of a route: "others" is the draft without the        *)
(* route's own staging.                                                     *)

\* What the row holds without its own staging.
Held(d, others, u) ==
  LET r == d.bound[u]
      s == d.roles[r].sel IN
  [caps |-> IF Group(others, s) = {} THEN Exposed(d, r) ELSE Authority(others, s).caps,
   think |-> IF Overrides(d, others, s) THEN Authority(others, s).think ELSE d.roles[r].think]

Unchanged(d, others, c) == SameFacts(d, c) /\ Held(d, others, c.uc) = [caps |-> c.caps, think |-> c.think]

GovernedBy(d, others, c) ==
  IF Unchanged(d, others, c) THEN {c.uc} ELSE Governed(d, StageChange(others, c), c.sel)

Short(d, others, c) == \E u \in GovernedBy(d, others, c) : ~(Floor[u] \subseteq c.caps)

\* The use cases whose plans change the group's selector while the route plans run.
Mutations(d, others, c) == {c.uc} \cup {x.uc : x \in {y \in Group(others, c.sel) : ~SameFacts(d, y)}}
RunsFirst(d, others, c, u) == \A v \in Mutations(d, others, c) \ {u} : u < v

\* The role's own values are gone, or were replaced, before any plan of the group meets them.
Gone(d, others, c, r) ==
  \/ \E x \in Group(others, c.sel) :
        /\ Routed(d, r) = {x.uc} /\ d.bound[x.uc] = r /\ ~FallbackTarget(d, r)
        /\ ~SameFacts(d, x) /\ RunsFirst(d, others, c, x.uc)
  \/ r = d.bound[c.uc] /\ Routed(d, r) = {c.uc} /\ ~FallbackTarget(d, r) /\ RunsFirst(d, others, c, c.uc)
  \/ r # d.bound[c.uc] /\ Departs(d, others, r) /\ \A x \in Leaving(d, others, r) : RunsFirst(d, others, c, x.uc)

\* A role that stays on the selector holds another list, or sets another Think mode.
Locked(d, others, c) ==
  /\ ~SameFacts(d, c)
  /\ \E r \in On(d, c.sel) :
       /\ \/ d.roles[r].list \notin {NoList, c.caps}
          \/ Default \notin {c.think, d.roles[r].think} /\ d.roles[r].think # c.think
       /\ ~Gone(d, others, c, r)

Candidates ==
  UNION {[kind : {"route"}, uc : UseCases, sel : Selectors, type : {t}, caps : Exposures[t], think : Thinks] : t \in Types}

Withdraws(u) ==
  withdrawn' = (DOMAIN Without(draft, u) # {} /\ (withdrawn \/ u \in Changed(draft)))

\* Done stages the candidate, or drops what was staged when it would change nothing.
Done(c) ==
  LET others == Without(draft, c.uc) IN
  /\ ~Short(doc, others, c) /\ ~Locked(doc, others, c)
  /\ draft' = IF Unchanged(doc, others, c) THEN others ELSE StageChange(draft, c)
  /\ Cardinality(DOMAIN draft') <= MaxChanges /\ draft' # draft
  /\ Withdraws(c.uc) /\ applied < MaxApplies /\ UNCHANGED <<doc, applied>>

Unassign(u) ==
  /\ u # Agent /\ doc.bound[u] # NoRole /\ u \notin Unassigned(draft)
  /\ draft' = StageChange(draft, [kind |-> "unassign", uc |-> u])
  /\ Cardinality(DOMAIN draft') <= MaxChanges
  /\ Withdraws(u) /\ applied < MaxApplies /\ UNCHANGED <<doc, applied>>

Discard(u) ==
  /\ u \in Changed(draft) /\ draft' = Without(draft, u)
  /\ Withdraws(u) /\ applied < MaxApplies /\ UNCHANGED <<doc, applied>>

-----------------------------------------------------------------------------
(* Apply, in the service: a run is the document so far, whether it was      *)
(* refused, and the use cases that were gated, by selector.                 *)

Action(base, c) ==
  IF base.bound[c.uc] = NoRole THEN "create"
  ELSE IF SameFacts(base, c) THEN "override"
  ELSE IF Shared(base, base.bound[c.uc]) THEN "fork"
  ELSE "retarget"

SoleListHolder(d, r, s) == d.roles[r].sel = s /\ Owners(d, s) = {r}

\* The list that the change is sent with, or none when the document says the same without it.
AssertedCapabilities(base, d, c) ==
  IF \/ c.caps # Derived[c.type]
     \/ Owned(d, c.sel) \notin {NoList, Derived[c.type]}
     \/ Action(base, c) = "retarget" /\ SoleListHolder(d, base.bound[c.uc], c.sel)
  THEN c.caps ELSE NoList

Siblings(base, d, c) == On(d, c.sel) \ (IF Action(base, c) = "retarget" THEN {base.bound[c.uc]} ELSE {})

GateRoles(base, d, c, asserted) ==
  (IF Action(base, c) = "override" \/ asserted # NoList THEN Siblings(base, d, c) ELSE {})
    \cup (IF Action(base, c) = "retarget" THEN {base.bound[c.uc]} ELSE {})

Gated(base, d, c, asserted) == UNION {Routed(d, r) : r \in GateRoles(base, d, c, asserted)}

Evaluated(base, d, c, asserted) ==
  LET owned == {d.roles[r].list : r \in Siblings(base, d, c)} \ {NoList} IN
  IF asserted # NoList THEN asserted ELSE IF owned # {} THEN CHOOSE l \in owned : TRUE ELSE Derived[c.type]

Ineligible(base, d, c, asserted) ==
  \E u \in Gated(base, d, c, asserted) : ~(Floor[u] \subseteq Evaluated(base, d, c, asserted))

\* go-llm: the roles of one selector agree on the lists and Think modes that they set.
PairConflict(d) ==
  \E r, q \in Roles(d) :
    /\ d.roles[r].sel = d.roles[q].sel
    /\ \/ NoList \notin {d.roles[r].list, d.roles[q].list} /\ d.roles[r].list # d.roles[q].list
       \/ Default \notin {d.roles[r].think, d.roles[q].think} /\ d.roles[r].think # d.roles[q].think

\* go-llm: AddRoleModel and ForkRoleModel with the binding, and SetRoleModel.
Mutated(base, d, c, asserted) ==
  LET old == base.bound[c.uc]
      r == IF Action(base, c) = "retarget" THEN old
           ELSE CHOOSE n \in 1 .. Cardinality(Roles(d)) + 1 : n \notin Roles(d)
      role == [sel |-> c.sel, type |-> c.type, list |-> asserted, think |-> c.think,
               falls |-> IF old = NoRole THEN {} ELSE d.roles[old].falls] IN
  [roles |-> [q \in Roles(d) \cup {r} |-> IF q = r THEN role ELSE d.roles[q]],
   bound |-> [d.bound EXCEPT ![c.uc] = r]]

Refuses(run) == [run EXCEPT !.refused = TRUE]

RunPlan(base, run, c) ==
  LET asserted == AssertedCapabilities(base, run.doc, c)
      d == Mutated(base, run.doc, c, asserted) IN
  IF run.refused \/ Action(base, c) = "override" THEN run
  ELSE IF Ineligible(base, run.doc, c, asserted) \/ PairConflict(d) THEN Refuses(run)
  ELSE [run EXCEPT !.doc = d, !.gated[c.sel] = @ \cup Gated(base, run.doc, c, asserted)]

\* One override of a selector: every role on it takes the list and the Think mode.
RunOverride(base, run, c) ==
  IF run.refused THEN run
  ELSE IF Ineligible(base, run.doc, c, c.caps) THEN Refuses(run)
  ELSE [run EXCEPT !.doc.roles = [r \in DOMAIN @ |->
                                    IF @[r].sel = c.sel THEN [@[r] EXCEPT !.list = c.caps, !.think = c.think] ELSE @[r]],
                   !.gated[c.sel] = @ \cup Gated(base, run.doc, c, c.caps)]

\* The finished document still meets the floor of every use case it binds.
Prepared(d) ==
  /\ d.bound[Agent] # NoRole
  /\ \A u \in UseCases : d.bound[u] # NoRole =>
       LET r == d.roles[d.bound[u]] IN Floor[u] \subseteq (IF r.list # NoList THEN r.list ELSE Derived[r.type])

\* applyStagedChanges: the route plans in the order of their stable IDs, the overrides, the unassigns.
ApplyStagedChanges(base, D) ==
  LET N == Cardinality(UseCases)
      Of(u) == {c \in Staged(D) : c.uc = u}
      start == [doc |-> base, refused |-> FALSE, gated |-> [s \in Selectors |-> {}]]
      plans[u \in 0 .. N] ==
        IF u = 0 THEN start ELSE IF Of(u) = {} THEN plans[u - 1] ELSE RunPlan(base, plans[u - 1], CHOOSE c \in Of(u) : TRUE)
      over[u \in 0 .. N] ==
        IF u = 0 THEN plans[N]
        ELSE IF \E c \in Of(u) : SameFacts(base, c) THEN RunOverride(base, over[u - 1], CHOOSE c \in Of(u) : TRUE)
        ELSE over[u - 1]
      out == [over[N] EXCEPT !.doc.bound = [u \in DOMAIN @ |-> IF u \in Unassigned(D) THEN NoRole ELSE @[u]]] IN
  IF Prepared(out.doc) THEN out ELSE Refuses(out)

Outcome == ApplyStagedChanges(doc, Projected(draft))

Apply ==
  /\ DOMAIN draft # {} /\ applied < MaxApplies /\ applied' = applied + 1
  /\ IF Outcome.refused THEN UNCHANGED <<doc, draft, withdrawn>>
     ELSE doc' = Outcome.doc /\ draft' = [i \in {} |-> 0] /\ withdrawn' = FALSE

Init == doc \in Documents /\ draft = [i \in {} |-> 0] /\ applied = 0 /\ withdrawn = FALSE

Next ==
  \/ \E c \in Candidates : Done(c)
  \/ \E u \in UseCases : Unassign(u) \/ Discard(u)
  \/ Apply

Spec == Init /\ [][Next]_vars

-----------------------------------------------------------------------------
(* Properties.                                                              *)

\* The service gates exactly the use cases that the draft says its changes govern.
GateMirrored ==
  ~Outcome.refused => \A s \in Targets(draft) : Governed(doc, draft, s) = {c.uc : c \in Group(draft, s)} \cup Outcome.gated[s]

\* What the draft shows is what Apply leaves: a route whose values change though nothing is staged for
\* it is marked, and a marked one changes; a role shows the values it was said to; and every use case
\* runs on the model it was said to.
ReachMirrored ==
  \A s \in Targets(draft) : \A u \in UseCases \ Changed(draft) :
    doc.bound[u] # NoRole /\ doc.roles[doc.bound[u]].sel = s =>
      (u \in SameModel(doc, draft, s) <=> Applied(doc, doc.bound[u]) # Applied(Outcome.doc, doc.bound[u]))

ValuesMirrored ==
  \A s \in Targets(draft) : \A r \in On(doc, s) :
    ~Departs(doc, draft, r) /\ (\A c \in Group(draft, s) : doc.bound[c.uc] # r) =>
      SelectorValues(doc, draft, s, r) = Applied(Outcome.doc, r)

RoutesMirrored ==
  EffectiveRoutes(doc, draft) =
    [u \in UseCases |-> IF Outcome.doc.bound[u] = NoRole THEN "none" ELSE Outcome.doc.roles[Outcome.doc.bound[u]].sel]

DraftMirrored == ~Outcome.refused => ReachMirrored /\ ValuesMirrored /\ RoutesMirrored

\* Apply does not refuse what Done let through, unless a staging that Done had counted on was
\* withdrawn or replaced since.
DoneApplies == DOMAIN draft # {} /\ ~withdrawn => ~Outcome.refused
=============================================================================
