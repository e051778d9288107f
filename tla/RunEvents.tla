------------------------------ MODULE RunEvents ------------------------------
(***************************************************************************)
(* What the IDE store keeps of the runs (stores/ideStore.ts) while the     *)
(* events of the backend arrive through hooks/useRunOutput.ts and the      *)
(* workspace is replaced by hooks/useRunProfiles.ts.                       *)
(*                                                                         *)
(* The events of one run arrive in the order they were emitted, but for    *)
(* the last status and the last snapshot of a compound; those of different *)
(* runs interleave in every way, and events of a superseded epoch may      *)
(* still arrive.  Every event carries its launch sequence and its epoch,   *)
(* as those of the executor do.  Text, timestamps, exit codes and the      *)
(* estimates drawn from them are left out; a terminal state is "done".     *)
(***************************************************************************)
EXTENDS Integers, FiniteSets, FiniteSetsExt

CONSTANTS Runs,         \* run instances of every profile
          Profiles,     \* profiles, those of type compound included
          Compounds,    \* the profiles of type compound
          ProfileOf,    \* the profile of a run instance
          SeqOf,        \* its launch sequence, unique and rising
          EpochOf,      \* the workspace epoch it was launched in
          Steps,        \* the steps of a compound
          Casts,        \* bounds of a behaviour: its runs, epochs, clear gestures, stop and
                        \* restart requests, and whether the user selects outputs and quits
          MaxRetained,  \* MAX_RETAINED_RUNS
          MaxDiscarded, \* MAX_DISCARDED_RUN_SEQS
          NoRun,        \* no run
          All           \* ALL_PROFILES_ID, the timeline of every profile

RunAssumption ==
  /\ Compounds \subseteq Profiles
  /\ ProfileOf \in [Runs -> Profiles]
  /\ SeqOf \in [Runs -> Nat \ {0}]
  /\ EpochOf \in [Runs -> Nat \ {0}]
  /\ \A i, j \in Runs : SeqOf[i] = SeqOf[j] => i = j
  /\ IsFiniteSet(Steps) /\ MaxRetained \in Nat \ {0} /\ MaxDiscarded \in Nat
  /\ NoRun \notin Runs /\ All \notin Runs /\ NoRun # All

VARIABLES
  store,     \* the run part of the IDE store
  pending,   \* pendingCompoundEvents: terminal snapshots that came early
  todo,      \* per run, the events still to arrive
  launched,  \* runs the executor has started
  ended,     \* runs the executor has ended, their last events may be due
  halted,    \* the runs a drain found live, and whether the application shuts down
  load,      \* the profile loader: "ready" | "draining" | "loading" | "failed"
  epoch,     \* the epoch of the backend
  calls,     \* stop and restart requests without an answer
  cast,      \* the bounds of this behaviour
  clears,    \* clear gestures so far
  asked,     \* stop and restart requests so far
  archived   \* per run, the records of its end given to the history queue

vars == <<store, pending, todo, launched, ended, halted, load, epoch, calls, cast,
          clears, asked, archived>>

Live == {"idle", "running"}
RunStates == Live \cup {"none", "done"}
RunsOf(p) == {i \in Runs : ProfileOf[i] = p}
IsCompound(i) == ProfileOf[i] \in Compounds
Newest(S) == CHOOSE i \in S : \A j \in S : SeqOf[j] <= SeqOf[i]
Oldest(S) == CHOOSE i \in S : \A j \in S : SeqOf[i] <= SeqOf[j]

NoCompound == [run |-> NoRun, state |-> "none", steps |-> [k \in Steps |-> "none"],
               tail |-> NoRun]

\* The events of a run.  A compound's end is told by a status and a snapshot.
Script(i) ==
  IF IsCompound(i) THEN {"running", "began", "part", "done", "ended"}
                   ELSE {"running", "part", "done"}
Rank(e) == CASE e = "running" -> 1 [] e = "began" -> 2 [] e = "part" -> 3
             [] OTHER -> 4
Due(i) == {e \in todo[i] : /\ \A f \in todo[i] : Rank(e) <= Rank(f)
                           /\ Rank(e) = 4 => i \in ended}

\* The last events of a run that a drain found live carry the reason of the drain; of
\* its other events the reason changes nothing.
IsAdministrativeStop(i) == i \in halted.runs

EmptyRuns(s) ==
  [s EXCEPT !.state = [i \in Runs |-> "none"], !.tail = {}, !.ids = {},
            !.known = {}, !.discarded = [p \in Profiles |-> {}],
            !.through = [p \in Profiles |-> 0],
            !.latest = [p \in Profiles |-> NoRun],
            !.compound = [c \in Compounds |-> NoCompound], !.owned = {},
            !.active = NoRun, !.stopping = {}, !.restarting = {},
            !.pstopping = {}, !.prestarting = {}]

Init ==
  /\ store = [state |-> [i \in Runs |-> "none"], tail |-> {}, ids |-> {}, known |-> {},
              discarded |-> [p \in Profiles |-> {}],
              through |-> [p \in Profiles |-> 0],
              latest |-> [p \in Profiles |-> NoRun],
              compound |-> [c \in Compounds |-> NoCompound], owned |-> {},
              active |-> NoRun, stopping |-> {}, restarting |-> {},
              pstopping |-> {}, prestarting |-> {}, paused |-> FALSE, epoch |-> 1]
  /\ pending = {} /\ todo = [i \in Runs |-> {}] /\ launched = {} /\ ended = {}
  /\ halted = [runs |-> {}, shut |-> FALSE]
  /\ load = "ready" /\ epoch = 1 /\ calls = {}
  /\ cast \in Casts /\ clears = 0 /\ asked = 0
  /\ archived = [i \in Runs |-> 0]

-----------------------------------------------------------------------------
(* Retention.                                                               *)

LiveOf(s, p) == {i \in s.ids : ProfileOf[i] = p /\ s.state[i] \in Live}
Representative(s, p) ==
  LET known == {i \in s.ids : ProfileOf[i] = p}
  IN IF LiveOf(s, p) # {} THEN Newest(LiveOf(s, p))
     ELSE IF known # {} THEN Newest(known) ELSE NoRun

\* A slip: the epoch of an event is not looked at.
AcceptsAnyEpoch(s, i) ==
  /\ ~s.paused
  /\ \/ s.state[i] # "none" \/ i \in s.ids \/ i \in s.owned
     \/ /\ SeqOf[i] \notin s.discarded[ProfileOf[i]]
        /\ SeqOf[i] > s.through[ProfileOf[i]]

AcceptsRunEvent(s, i) ==
  /\ ~s.paused
  /\ EpochOf[i] = s.epoch
  /\ \/ s.state[i] # "none" \/ i \in s.ids \/ i \in s.owned
     \/ /\ SeqOf[i] \notin s.discarded[ProfileOf[i]]
        /\ SeqOf[i] > s.through[ProfileOf[i]]

\* The newest MaxDiscarded sequences are kept one by one, older ones by a mark.
Discard(s, p, X) ==
  LET seqs == s.discarded[p] \cup {SeqOf[i] : i \in X \cap s.known}
      kept == {n \in seqs : Cardinality({m \in seqs : m > n}) < MaxDiscarded}
  IN IF X \cap s.known = {} THEN s
     ELSE [s EXCEPT !.discarded[p] = kept,
                    !.through[p] = Max({@} \cup (seqs \ kept))]

\* A slip: the oldest run goes, live or not.
PrunedOldest(s, ids) == IF Cardinality(ids) <= MaxRetained THEN {} ELSE {Oldest(ids)}

Pruned(s, ids) ==
  LET done == {i \in ids : s.state[i] = "done"}
  IN IF Cardinality(ids) <= MaxRetained THEN {}
     ELSE {Oldest(IF done # {} THEN done ELSE ids)}

LatestSeq(s, p) ==
  IF s.latest[p] \in s.known THEN SeqOf[s.latest[p]]
  ELSE Max({s.through[p]} \cup s.discarded[p])

RetainRunOutput(s, i, state) ==
  LET p == ProfileOf[i]
      set == [s EXCEPT !.state[i] = state, !.ids = @ \cup {i}, !.known = @ \cup {i}]
      pruned == Pruned(set, {j \in set.ids : ProfileOf[j] = p})
      newer == s.latest[p] = NoRun \/ SeqOf[i] >= LatestSeq(set, p)
  IN [Discard(set, p, pruned) EXCEPT
        !.state = [j \in Runs |-> IF j \in pruned THEN "none" ELSE set.state[j]],
        !.tail = @ \ pruned, !.ids = @ \ pruned, !.known = @ \ pruned,
        !.latest[p] = IF newer THEN i ELSE @,
        !.active = IF @ \in pruned THEN i ELSE @]

SelectionProfile(s, sel) ==
  IF sel \in Runs /\ (s.state[sel] # "none" \/ sel \in s.owned)
  THEN {ProfileOf[sel]} ELSE {}

\* A run that starts takes the selection unless another profile is shown.
Selects(s, i) ==
  s.active \in {NoRun, All} \/ SelectionProfile(s, s.active) = {ProfileOf[i]}

-----------------------------------------------------------------------------
(* Statuses.                                                                *)

AcceptsOrdinary(s, i, new) ==
  IF s.state[i] # "none"
  THEN ~(s.state[i] = "done" \/ (new = "running" /\ s.state[i] = "running"))
  ELSE new = "running" /\ Cardinality(LiveOf(s, ProfileOf[i])) < MaxRetained

AcceptsAggregate(s, i, new) ==
  LET p == ProfileOf[i]
      last == s.latest[p]
      current == s.compound[p]
  IN \/ last = NoRun /\ new = "running" /\ i \notin s.owned
     \/ last = i /\ i \in s.owned /\ current.run = i /\ current.state = "running" /\ new = "done"
     \/ /\ last \notin {NoRun, i}
        /\ new = "running" /\ i \notin s.owned
        /\ \/ last \in s.owned /\ current.run = last /\ current.state = "done"
           \/ last \notin s.owned /\ current.run = NoRun
        /\ last \in s.known \/ current.run # NoRun
        /\ SeqOf[i] > SeqOf[IF last \in s.known THEN last ELSE current.run]

\* A flag of a profile outlives the run that ended while a sibling has one.
FlagsAfter(s, i, new) ==
  LET p == ProfileOf[i]
      stopping == IF new = "done" THEN s.stopping \ {i} ELSE s.stopping
      restarting == s.restarting \ {i}
      has(S) == \E j \in S : s.state[j] # "none" /\ ProfileOf[j] = p
  IN [s EXCEPT !.stopping = stopping, !.restarting = restarting,
        !.pstopping = IF new = "done" /\ ~has(stopping) THEN @ \ {p} ELSE @,
        !.prestarting = IF ~has(restarting) THEN @ \ {p} ELSE @]

OrdinaryStatus(s, i, new) ==
  LET kept == RetainRunOutput(FlagsAfter(s, i, new), i, new)
  IN [kept EXCEPT !.tail = IF new = "done" THEN @ \ {i} ELSE @,
                  !.active = IF new = "running" /\ Selects(s, i) THEN i ELSE @]

\* A slip: half a line of the last run stays.
KeepsTail(s, i) == [s.compound[ProfileOf[i]] EXCEPT !.run = i, !.state = "running"]

\* The record of a new run of a compound starts without the output of the last one.
FreshCompound(s, i) == [NoCompound EXCEPT !.run = i, !.state = "running"]

AggregateStatus(s, i, new) ==
  LET p == ProfileOf[i]
      last == s.latest[p]
      rotates == last \notin {NoRun, i}
      old == IF rotates THEN {last} ELSE {}
      fresh == new = "running" /\ s.compound[p].run # i
  IN [FlagsAfter(s, i, new) EXCEPT
        !.known = (@ \cup {i}) \ old,
        !.latest[p] = i,
        !.owned = IF fresh THEN (@ \ old) \cup {i} ELSE @,
        !.compound[p] = IF fresh THEN FreshCompound(s, i)
                        ELSE [@ EXCEPT !.state = new],
        !.active = IF new = "running" /\ (Selects(s, i) \/ (rotates /\ @ = last))
                   THEN i ELSE @]

HandleRunStatus(s, i, new) ==
  IF ~AcceptsRunEvent(s, i) THEN s
  ELSE IF IsCompound(i)
       THEN IF AcceptsAggregate(s, i, new) THEN AggregateStatus(s, i, new) ELSE s
       ELSE IF AcceptsOrdinary(s, i, new) THEN OrdinaryStatus(s, i, new) ELSE s

\* A slip: the reason of the end is not looked at.
EndsAnyhow(s, t, i, new) ==
  /\ new = "done"
  /\ IF IsCompound(i)
     THEN s.compound[ProfileOf[i]].state # "done" /\ t.compound[ProfileOf[i]].state = "done"
     ELSE s.state[i] \in Live /\ t.state[i] = "done"

\* The last status of a run gives one record to the history queue, but not when the
\* workspace or the application was left.
Ends(s, t, i, new) ==
  /\ new = "done" /\ ~IsAdministrativeStop(i)
  /\ IF IsCompound(i)
     THEN LET c == ProfileOf[i] IN
          /\ s.compound[c].run = i /\ s.compound[c].state # "done"
          /\ t.compound[c].run = i /\ t.compound[c].state = "done"
     ELSE s.state[i] \in Live /\ t.state[i] = "done"

-----------------------------------------------------------------------------
(* Snapshots of a compound.                                                 *)

AcceptsSnapshot(s, i, new) ==
  LET c == ProfileOf[i] IN
  /\ ~s.paused /\ EpochOf[i] = s.epoch
  /\ s.latest[c] = i /\ i \in s.owned
  /\ s.compound[c].run = i /\ s.compound[c].state = new

HandleCompoundRun(s, i, new) ==
  LET c == ProfileOf[i] IN
  [s EXCEPT !.compound[c].steps = [k \in Steps |-> new],
            !.compound[c].tail = IF new = "done" THEN NoRun ELSE @,
            !.active = IF @ = i \/ (new = "running" /\ Selects(s, i)) THEN i ELSE @]

StepsEnding(s, i, new) ==
  IF new = "done" /\ ~IsAdministrativeStop(i)
  THEN {k \in Steps : s.compound[ProfileOf[i]].steps[k] # "done"} ELSE {}

\* A slip: it is dropped.
NeverEarly(s, i, new) == FALSE

\* A terminal snapshot that overtook its status waits for it.
Early(s, i, new) ==
  LET c == ProfileOf[i] IN
  /\ ~s.paused /\ EpochOf[i] = s.epoch /\ new = "done" /\ ~IsAdministrativeStop(i)
  /\ s.compound[c].run = i /\ s.compound[c].state # "done"

-----------------------------------------------------------------------------
(* Events.                                                                  *)

Env == <<launched, ended, halted, load, epoch, calls, cast, clears, asked>>

Arrive(i, e) ==
  /\ e \in Due(i)
  /\ todo' = [todo EXCEPT ![i] = @ \ {e}]

\* EventsOn('run:status'), the waiting snapshot included.
OnStatus(i, new) ==
  /\ Arrive(i, new)
  /\ LET s == HandleRunStatus(store, i, new)
         waiting == IF IsAdministrativeStop(i) THEN pending \ {i} ELSE pending
         resume == i \in waiting /\ s.compound[ProfileOf[i]].run = i
                                 /\ s.compound[ProfileOf[i]].state = "done"
         records == (IF Ends(store, s, i, new) THEN 1 ELSE 0)
                      + (IF resume THEN Cardinality(StepsEnding(s, i, "done")) ELSE 0)
     IN /\ store' = IF resume THEN HandleCompoundRun(s, i, "done") ELSE s
        /\ pending' = IF resume THEN waiting \ {i} ELSE waiting
        /\ archived' = [archived EXCEPT ![i] = @ + records]
  /\ UNCHANGED Env

\* EventsOn('run:compound').
OnSnapshot(i, e) ==
  LET new == IF e = "began" THEN "running" ELSE "done" IN
  /\ Arrive(i, e)
  /\ IF AcceptsSnapshot(store, i, new)
     THEN /\ store' = HandleCompoundRun(store, i, new)
          /\ pending' = pending \ {i}
          /\ archived' = [archived EXCEPT ![i] = @ + Cardinality(StepsEnding(store, i, new))]
     ELSE /\ pending' = IF Early(store, i, new) THEN pending \cup {i} ELSE pending
          /\ UNCHANGED <<store, archived>>
  /\ UNCHANGED Env

\* EventsOn('run:output') for the step of a compound: half a line, kept apart.
AppendStepOutput(s, i) ==
  LET c == ProfileOf[i] IN
  IF ~s.paused /\ EpochOf[i] = s.epoch /\ i \in s.owned /\ s.compound[c].run = i
  THEN [s EXCEPT !.compound[c].tail = i] ELSE s

\* EventsOn('run:output'): output that comes before the status provisions the run.
AppendRunOutput(s, i) ==
  LET p == ProfileOf[i] IN
  IF /\ AcceptsRunEvent(s, i)
     /\ ~(s.latest[p] = i /\ s.state[i] = "none")
     /\ s.state[i] # "done"
     /\ s.state[i] = "none" => Cardinality(LiveOf(s, p)) < MaxRetained
  THEN LET r == IF s.state[i] = "none" THEN RetainRunOutput(s, i, "idle") ELSE s
       IN [r EXCEPT !.tail = @ \cup ({i} \cap r.ids)]
  ELSE s

OnOutput(i) ==
  /\ Arrive(i, "part")
  /\ store' = IF IsCompound(i) THEN AppendStepOutput(store, i) ELSE AppendRunOutput(store, i)
  /\ UNCHANGED <<pending, archived>> /\ UNCHANGED Env

-----------------------------------------------------------------------------
(* Gestures.                                                                *)

ClearGesture ==
  /\ clears < cast.clears /\ clears' = clears + 1
  /\ UNCHANGED <<pending, todo, launched, ended, halted, load, epoch, calls, cast, asked, archived>>

ClearedCompounds(s, C) ==
  [s EXCEPT !.compound = [c \in Compounds |->
       IF c \in C THEN [@[c] EXCEPT !.tail = NoRun] ELSE @[c]]]

\* A slip: the run itself is still among its siblings.
NextItself(s, i) == {Newest({j \in s.ids : ProfileOf[j] = ProfileOf[i]})}

\* Where the selection goes when the run it shows is discarded.
NextActive(s, i) ==
  LET siblings == {j \in s.ids \ {i} : ProfileOf[j] = ProfileOf[i]}
      others == {j \in s.ids \ {i} : s.state[j] # "none"}
      aggregates == {s.compound[c].run : c \in {d \in Compounds : s.compound[d].run # NoRun}}
  IN IF siblings # {} THEN {Newest(siblings)}
     ELSE IF others # {} THEN others
     ELSE IF aggregates # {} THEN aggregates ELSE {NoRun}

ClearRunOutput(i) ==
  /\ ClearGesture
  /\ \/ /\ i \in store.owned
        /\ store' = ClearedCompounds(store, {ProfileOf[i]})
     \/ /\ i \notin store.owned /\ store.state[i] \in Live
        /\ store' = [store EXCEPT !.tail = @ \ {i}]
     \/ /\ i \notin store.owned /\ store.state[i] = "done"
        /\ \E next \in NextActive(store, i) :
             store' = [Discard(store, ProfileOf[i], {i}) EXCEPT
                         !.state[i] = "none", !.tail = @ \ {i}, !.ids = @ \ {i},
                         !.known = @ \ {i},
                         !.active = IF @ = i THEN next ELSE @,
                         !.stopping = @ \ {i}, !.restarting = @ \ {i}]

DiscardAll(s, X) ==
  [s EXCEPT
     !.discarded = [p \in Profiles |-> Discard(s, p, X \cap RunsOf(p)).discarded[p]],
     !.through = [p \in Profiles |-> Discard(s, p, X \cap RunsOf(p)).through[p]]]

\* Running compounds stay, a finished one leaves its sequence as a tombstone.
ClearAllRunOutputs ==
  /\ ClearGesture
  /\ LET live == {i \in store.ids : store.state[i] \in Live}
         done == {i \in store.ids : store.state[i] = "done"}
         kept == {c \in Compounds : store.compound[c].state = "running"}
         keptRuns == {store.compound[c].run : c \in kept}
         tombs == {store.compound[c].run : c \in
                     {d \in Compounds : /\ store.compound[d].state = "done"
                                        /\ store.latest[d] = store.compound[d].run}}
         first == IF live # {} THEN live ELSE IF keptRuns # {} THEN keptRuns ELSE {NoRun}
     IN \E next \in first :
          store' = [DiscardAll(store, done) EXCEPT
                      !.state = [i \in Runs |-> IF i \in live THEN @[i] ELSE "none"],
                      !.tail = {}, !.ids = live, !.known = live \cup keptRuns \cup tombs,
                      !.compound = [c \in Compounds |->
                         IF c \in kept THEN [@[c] EXCEPT !.tail = NoRun] ELSE NoCompound],
                      !.owned = keptRuns,
                      !.active = IF @ \in live \cup keptRuns THEN @ ELSE next,
                      !.stopping = @ \cap live, !.restarting = @ \cap live]

\* The output tab a user selects.
SetActiveRunOutput(i) ==
  /\ cast.picks /\ i \in {All} \cup store.ids \cup store.owned
  /\ store' = [store EXCEPT !.active = i]
  /\ UNCHANGED <<pending, todo, archived>> /\ UNCHANGED Env

Request(p, i, kind) == [profile |-> p, run |-> i, kind |-> kind]

FlagsSet(s, r) ==
  IF r.kind = "stop"
  THEN [s EXCEPT !.pstopping = @ \cup {r.profile}, !.stopping = @ \cup ({r.run} \ {NoRun})]
  ELSE [s EXCEPT !.prestarting = @ \cup {r.profile}, !.restarting = @ \cup ({r.run} \ {NoRun})]

\* A slip: the answer takes the flag of the profile only.
FlagsOfProfile(s, r) ==
  IF r.kind = "stop" THEN [s EXCEPT !.pstopping = @ \ {r.profile}]
                     ELSE [s EXCEPT !.prestarting = @ \ {r.profile}]

FlagsCleared(s, r) ==
  IF r.kind = "stop"
  THEN [s EXCEPT !.pstopping = @ \ {r.profile}, !.stopping = @ \ {r.run}]
  ELSE [s EXCEPT !.prestarting = @ \ {r.profile}, !.restarting = @ \ {r.run}]

\* stopProfile, restartProfile: the flags are set before the request leaves.
RunControl(p, kind) ==
  /\ asked < cast.calls /\ asked' = asked + 1
  /\ ~store.paused /\ load = "ready"
  /\ LET r == Request(p, Representative(store, p), kind)
     IN calls' = calls \cup {r} /\ store' = FlagsSet(store, r)
  /\ UNCHANGED <<pending, todo, launched, ended, halted, load, epoch, cast, clears, archived>>

\* The answer of a request, or its failure, takes its flags away.
ControlAnswered(r) ==
  /\ r \in calls
  /\ calls' = calls \ {r}
  /\ store' = FlagsCleared(store, r)
  /\ UNCHANGED <<pending, todo, launched, ended, halted, load, epoch, cast, clears, asked,
                 archived>>

-----------------------------------------------------------------------------
(* The workspace.                                                           *)

Runs0 == <<todo, launched, ended, calls, cast, clears, asked, archived>>

\* The effect of useRunProfilesLoader, on a new workspace or a reload.
PauseRunEvents ==
  /\ cast.epochs > 1
  /\ store' = [store EXCEPT !.paused = TRUE] /\ pending' = {} /\ load' = "draining"
  /\ UNCHANGED <<halted, epoch>> /\ UNCHANGED Runs0

\* The history queue is drained, or given up: resetWorkspaceRunState.
ResetWorkspaceRunState ==
  /\ load = "draining"
  /\ store' = EmptyRuns(store) /\ load' = "loading"
  /\ UNCHANGED <<pending, halted, epoch>> /\ UNCHANGED Runs0

\* LoadRunProfiles of another root begins a drain, that of the root which is open
\* keeps the epoch and the runs.
Drained == [halted EXCEPT !.runs = @ \cup (launched \ ended)]
EpochTaken ==
  \/ epoch' = epoch + 1 /\ epoch' <= cast.epochs /\ halted' = Drained
  \/ UNCHANGED <<epoch, halted>>

\* LoadRunProfiles answers, and its snapshot with the epoch is taken over.
SetRunProfilesSnapshot ==
  /\ load = "loading" /\ EpochTaken /\ load' = "ready"
  /\ store' = [EmptyRuns(store) EXCEPT !.epoch = epoch', !.paused = FALSE]
  /\ UNCHANGED pending /\ UNCHANGED Runs0

\* LoadRunProfiles fails, before or after the backend took a new epoch.
SetProfilesError ==
  /\ load = "loading" /\ EpochTaken
  /\ load' = "failed" /\ store' = EmptyRuns(store)
  /\ UNCHANGED pending /\ UNCHANGED Runs0

-----------------------------------------------------------------------------
(* The executor, from how its events reach the store.                       *)

Launch(i) ==
  /\ i \in cast.runs \ launched /\ ~store.paused /\ load = "ready" /\ ~halted.shut
  /\ EpochOf[i] = epoch
  /\ \A j \in cast.runs \ launched : SeqOf[i] <= SeqOf[j]
  /\ Cardinality({j \in launched \ ended : ProfileOf[j] = ProfileOf[i]})
       < IF IsCompound(i) THEN 1 ELSE MaxRetained
  /\ launched' = launched \cup {i} /\ todo' = [todo EXCEPT ![i] = Script(i)]
  /\ UNCHANGED <<store, pending, ended, halted, load, epoch, calls, cast, clears, asked, archived>>

End(i) ==
  /\ i \in launched \ ended
  /\ ended' = ended \cup {i}
  /\ UNCHANGED <<store, pending, todo, launched, halted, load, epoch, calls, cast, clears, asked,
                 archived>>

\* beginRunShutdown: nothing is launched any more, while the page still hears how runs end.
BeginRunShutdown ==
  /\ cast.quits /\ ~halted.shut
  /\ halted' = [Drained EXCEPT !.shut = TRUE] /\ epoch' = epoch + 1
  /\ UNCHANGED <<store, pending, todo, launched, ended, load, calls, cast, clears, asked, archived>>

Next ==
  \/ \E i \in Runs : \/ Launch(i) \/ End(i)
                     \/ \E e \in {"running", "done"} : OnStatus(i, e)
                     \/ OnOutput(i) \/ ClearRunOutput(i)
  \/ \E i \in Runs : IsCompound(i) /\ \E e \in {"began", "ended"} : OnSnapshot(i, e)
  \/ \E i \in Runs \cup {All} : SetActiveRunOutput(i)
  \/ \E p \in Profiles \ Compounds, k \in {"stop", "restart"} : RunControl(p, k)
  \/ \E r \in calls : ControlAnswered(r)
  \/ ClearAllRunOutputs \/ PauseRunEvents \/ ResetWorkspaceRunState
  \/ SetRunProfilesSnapshot \/ SetProfilesError \/ BeginRunShutdown

Spec == Init /\ [][Next]_vars
-----------------------------------------------------------------------------
(* Properties.                                                              *)

\* Type correctness, and the indexes of the store agree with each other.
TypeOK ==
  /\ store.state \in [Runs -> RunStates]
  /\ {i \in Runs : store.state[i] # "none"} = store.ids /\ store.ids \subseteq store.known
  /\ store.tail \subseteq store.ids
  /\ store.latest \in [Profiles -> Runs \cup {NoRun}]
  /\ \A c \in Compounds : store.compound[c].run # NoRun => store.compound[c].run \in store.owned
  /\ store.owned \subseteq {store.compound[c].run : c \in Compounds}
  /\ pending \subseteq store.owned

\* Output of a live run leaves the store with its workspace only: not when a newer
\* run is retained, not on a clear gesture (retainRunOutput, clearAllRunOutputs).
LiveStays ==
  \A i \in Runs : store.state[i] \in Live /\ store'.state[i] = "none"
     => load \in {"draining", "loading"}

\* Every ending that the store shows was given to the history exactly once, and one
\* record per step of a compound, also when its last snapshot overtook its status
\* (pendingCompoundEvents in useRunOutputListener). The end of a run that was stopped
\* because its workspace or the application was left is never given, though the store
\* may show it (isAdministrativeStop).
ArchivedOnce ==
  \A i \in Runs :
    IF IsAdministrativeStop(i) THEN archived[i] = 0
    ELSE IF IsCompound(i)
    THEN LET c == ProfileOf[i] IN
         /\ archived[i] <= 1 + Cardinality(Steps)
         /\ store.compound[c].run = i /\ store.compound[c].state = "done"
            /\ todo[i] = {} /\ ~store.paused
              => archived[i] = 1 + Cardinality(Steps)
    ELSE archived[i] <= 1 /\ (store.state[i] = "done" => archived[i] = 1)

\* The selected output exists: what is shown is never a run that was pruned,
\* cleared or rotated away (retainRunOutput, clearRunOutput, handleRunStatus).
ActiveRetained == store.active \in {NoRun, All} \cup store.ids \cup store.owned

\* Half a line of a compound's step is completed by the same run only: the key of
\* its assembler names the compound and not the run (compoundStepAssemblerKey).
TailOwned == \A c \in Compounds : store.compound[c].tail \in {NoRun, store.compound[c].run}

\* Nothing of a superseded workspace is shown once its successor is loaded.
EpochClean == ~store.paused => \A i \in store.ids \cup store.owned : EpochOf[i] = store.epoch

\* A spinner turns only while a request of its profile waits for an answer, so that
\* none turns for ever (stopProfile, restartProfile, handleRunStatus).
FlagsHaveCall ==
  /\ \A i \in store.stopping : \E r \in calls : r.run = i /\ r.kind = "stop"
  /\ \A p \in store.pstopping : \E r \in calls : r.profile = p /\ r.kind = "stop"
  /\ \A i \in store.restarting : \E r \in calls : r.run = i /\ r.kind = "restart"
=============================================================================
