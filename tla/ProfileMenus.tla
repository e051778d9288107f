---------------------------- MODULE ProfileMenus ----------------------------
(***************************************************************************)
(* The two menus of the Golem configuration that name a profile: Save as   *)
(* profile (SaveProfileButton), which creates one or, after a collision,   *)
(* replaces the revision the user was asked about, and the Source picker   *)
(* (SourcePicker), which lists what may be edited.  Both work on a store   *)
(* that other processes write, and both hand the keyboard focus around     *)
(* controls that are disabled and unmounted under it.                      *)
(***************************************************************************)
EXTENDS Integers, Sequences, FiniteSets, SequencesExt

CONSTANTS
  Curated,  \* the curated profiles, in order
  Users,    \* the names that a user profile may have, in order
  Taken,    \* the sets of names that may be taken to begin with
  Casts     \* how often each kind of thing may happen:
            \* [flows, leaves, others, reloads, locks, picks, moves, faults, tabs], and limit,
            \* which is maxProjectionEntries

VARIABLES
  disk,    \* the applied revision (Missing, Invalid or above 0) and the user profiles by name
  ui,      \* the state of the two menus and what the workspace gives them, see Init
  lists,   \* the ListGolemProfiles under way: [gen, rows], rows once they were read
  listGen, \* listGeneration
  task,    \* the call of a save flow that is under way, or NoTask
  gen,     \* flowGeneration
  focus,   \* the control that has the focus; "elsewhere", or "body" for none
  want,    \* pendingFocus and held of SaveProfileButton: [target, held]
  boot,    \* bootstrapFocusPending
  asked,   \* the tuple that the user was last asked about (history)
  dropped, \* the focus went to the body by no doing of the menus (history)
  left     \* what is left of the cast

vars == <<disk, ui, lists, listGen, task, gen, focus, want, boot, asked, dropped, left>>

Missing == 0
Invalid == -1
Absent == 0
Due == {""}       \* rows that were not read yet
NoTask == [leg |-> "none", gen |-> 0, answer |-> "due"]
NoTuple == [slug |-> "", applied |-> 0, expected |-> Absent]
Names == {Users[i] : i \in DOMAIN Users}

Spend(kind) == left[kind] > 0 /\ left' = [left EXCEPT ![kind] = @ - 1]
-----------------------------------------------------------------------------
\* The gates of the two menus.
SourceLocked(u) == u.lock = "write" \/ u.adopting # ""
PickerBlocked(u) == SourceLocked(u) \/ u.saving
FlowBusy(u) == SourceLocked(u) \/ u.lock # "none" \/ u.saving \/ u.pending
OverwriteBlocked(u) == FlowBusy(u) \/ u.applied <= Missing
CreateBlocked(u) == OverwriteBlocked(u) \/ u.list.kind = "limited"

Mounted(u, control) ==
  CASE control \in {"name", "submit"} -> u.step = "naming"
    [] control = "confirm" -> u.step = "overwrite"
    [] control = "done" -> u.step = "notice"
    [] control = "list" -> u.open
    [] OTHER -> TRUE
Disabled(u, control) ==
  CASE control \in {"save", "submit"} -> CreateBlocked(u)
    [] control = "confirm" -> OverwriteBlocked(u)
    [] control = "picker" -> PickerBlocked(u)
    [] OTHER -> FALSE
\* An element that goes away or is disabled drops the focus to the body.
Kept(u, f) == IF Mounted(u, f) /\ ~Disabled(u, f) THEN f ELSE "body"

NoWant == [target |-> "", held |-> ""]
Stale(goal, f) == want.held = goal /\ f # "body"
(* The effect of SaveProfileButton, which runs when a focus is asked for or *)
(* its gate has changed: a disabled target is waited for unless something   *)
(* else has the focus, and a request that has waited is spent only if       *)
(* nothing has taken the focus meanwhile.                                   *)
SaveEffect(u, f, target) ==
  LET goal == IF target # "" THEN target ELSE want.target IN
  CASE target = "" /\ (goal = "" \/ CreateBlocked(u) = CreateBlocked(ui)) -> [focus |-> f, want |-> want]
    [] Mounted(u, goal) /\ Disabled(u, goal) ->
         [focus |-> f, want |-> IF f = "body" THEN [target |-> goal, held |-> goal] ELSE NoWant]
    [] OTHER -> [focus |-> IF Stale(goal, f) \/ ~Mounted(u, goal) THEN f ELSE goal, want |-> NoWant]

\* The effect of bootstrapFrom: the trigger takes the focus that nothing holds.
BootEffect(u, f, starts) ==
  IF ~starts /\ ~(boot /\ PickerBlocked(u) # PickerBlocked(ui)) THEN [focus |-> f, boot |-> boot]
  ELSE IF f # "body" THEN [focus |-> f, boot |-> FALSE]
  ELSE [focus |-> IF PickerBlocked(u) THEN f ELSE "picker", boot |-> PickerBlocked(u)]

(* A step ends with the commit of u: the focus is at f by then, target is   *)
(* what the step asks the focus for, starts whether a source was started.   *)
Commit(u, f, target, starts) ==
  LET opens == u.open /\ ~ui.open
      s == SaveEffect(u, Kept(u, f), target)
      b == BootEffect(u, IF opens THEN "list" ELSE s.focus, starts)
  IN ui' = u /\ want' = s.want /\ boot' = b.boot /\ focus' = b.focus
\* A step of the workspace or of the user, which may leave the focus nowhere.
Lets == dropped' = (focus' = "body" /\ (dropped \/ focus # "body"))
Keeps == dropped' = (dropped /\ focus' = "body")
-----------------------------------------------------------------------------
Limit == left.limit

\* ListGolemProfiles: the first rows in order, and whether there are more.
OnDisk == Curated \o SelectSeq(Users, LAMBDA n : disk.profiles[n] # Absent)
RefreshList == listGen' = listGen + 1 /\ lists' = lists \cup {[gen |-> listGen + 1, rows |-> Due]}
ReadList(l) ==
  /\ l.rows = Due
  /\ lists' = (lists \ {l}) \cup {[gen |-> l.gen, rows |-> ToSet(OnDisk)]}
  /\ UNCHANGED <<disk, ui, listGen, task, gen, focus, want, boot, asked, dropped, left>>
NewestAlways(l) == TRUE
Newest(l) == l.gen = listGen
Shown(l) ==
  LET ordered == SelectSeq(Curated \o Users, LAMBDA n : n \in l.rows)
      more == Len(ordered) > Limit
  IN [kind |-> IF more THEN "limited" ELSE "loaded", from |-> l.gen,
      rows |-> IF more THEN ToSet(SubSeq(ordered, 1, Limit)) ELSE l.rows]
ListAnswered(l) ==
  /\ l.rows # Due /\ lists' = lists \ {l}
  /\ Commit(IF Newest(l) THEN [ui EXCEPT !.list = Shown(l)] ELSE ui, focus, "", FALSE) /\ Lets
  /\ UNCHANGED <<disk, listGen, task, gen, asked, left>>
ListFails(l) ==
  /\ Spend("faults") /\ lists' = lists \ {l}
  /\ Commit(IF Newest(l) THEN [ui EXCEPT !.list = [kind |-> "unavailable", from |-> l.gen, rows |-> {}]]
                         ELSE ui, focus, "", FALSE)
  /\ Lets
  /\ UNCHANGED <<disk, listGen, task, gen, asked>>
-----------------------------------------------------------------------------
\* invalidateFlow; close; gotoNotice
Left(u) == [u EXCEPT !.pending = FALSE]
Closed(u) == [Left(u) EXCEPT !.menu = FALSE, !.step = "idle", !.slug = "", !.frozen = NoTuple]
Naming(u, name) == [u EXCEPT !.step = "naming", !.slug = name, !.frozen = NoTuple]
Notice(u) == [u EXCEPT !.step = "notice", !.slug = "", !.frozen = NoTuple]

\* A click of the trigger, which takes the focus first.
ClickSave ==
  /\ ~CreateBlocked(ui)
  /\ IF ui.menu THEN /\ Spend("leaves") /\ gen' = gen + 1 /\ Commit(Closed(ui), "save", "", FALSE)
                ELSE /\ Spend("flows") /\ gen' = gen
                     /\ Commit([Naming(ui, "") EXCEPT !.menu = TRUE, !.open = FALSE], "save", "name", FALSE)
  /\ Keeps
  /\ UNCHANGED <<disk, lists, listGen, task, asked>>
TypeName(name) ==
  /\ focus = "name" /\ ui.slug # name
  /\ Commit(Naming(ui, name), focus, "", FALSE) /\ Keeps
  /\ UNCHANGED <<disk, lists, listGen, task, gen, asked, left>>

\* The request of a flow: what is saved under which name, over which revision.
CreateRequest == [slug |-> ui.slug, applied |-> ui.applied, expected |-> Absent]
OverwriteOfShown(frozen) == [frozen EXCEPT !.applied = ui.applied]
OverwriteRequest(frozen) == frozen
Started(request) ==
  /\ gen' = gen + 1
  /\ task' = [leg |-> "save", gen |-> gen + 1, request |-> request, doc |-> Absent, answer |-> "due"]
  /\ asked' = IF ui.step = "overwrite" THEN ui.frozen ELSE request
InvalidName == ui.slug \notin Names

\* submitName, by Enter or by its button.
SubmitName(control) ==
  /\ ui.step = "naming" /\ ~CreateBlocked(ui) /\ ~InvalidName
  /\ control \in {"name", "submit"} /\ (control = "name" => focus = "name")
  /\ Started(CreateRequest)
  /\ Commit([ui EXCEPT !.pending = TRUE, !.saving = TRUE, !.open = FALSE], control, "", FALSE) /\ Keeps
  /\ UNCHANGED <<disk, lists, listGen, left>>
ConfirmOverwrite ==
  /\ ui.step = "overwrite" /\ ~OverwriteBlocked(ui)
  /\ Started(OverwriteRequest(ui.frozen))
  /\ Commit([ui EXCEPT !.pending = TRUE, !.saving = TRUE, !.open = FALSE], "confirm", "", FALSE) /\ Keeps
  /\ UNCHANGED <<disk, lists, listGen, left>>

\* Back, Done and Escape restore the focus, a click elsewhere does not.
Escapes == focus # "list"
CloseMenu ==
  /\ ui.menu /\ Spend("leaves") /\ Escapes
  /\ gen' = gen + 1
  /\ Commit(Closed(ui), focus, "save", FALSE) /\ Keeps
  /\ UNCHANGED <<disk, lists, listGen, task, asked>>
BackToNaming ==
  /\ ui.step = "overwrite" /\ Spend("leaves")
  /\ gen' = gen + 1
  /\ Commit(Naming(Left(ui), ui.slug), "body", "name", FALSE) /\ Keeps
  /\ UNCHANGED <<disk, lists, listGen, task, asked>>
\* The pointer goes down outside of both menus, on something that takes the focus or not.
ClickOutside(f) ==
  /\ ui.menu \/ ui.open
  /\ Spend("leaves") /\ f \in {"elsewhere", "body"}
  /\ gen' = IF ui.menu THEN gen + 1 ELSE gen
  /\ Commit([(IF ui.menu THEN Closed(ui) ELSE ui) EXCEPT !.open = FALSE], f, "", FALSE)
  /\ dropped' = (focus' = "body")
  /\ UNCHANGED <<disk, lists, listGen, task, asked>>
-----------------------------------------------------------------------------
(* SaveGolemProfileAs: the applied document is read, then the store creates *)
(* the profile or replaces the revision that is expected.                   *)
ReadApplied ==
  /\ task.leg = "save" /\ task.answer = "due" /\ task.doc = Absent
  /\ task' = IF disk.applied <= Missing THEN [task EXCEPT !.answer = "diagnostics"]
             ELSE IF disk.applied # task.request.applied THEN [task EXCEPT !.answer = "active"]
             ELSE [task EXCEPT !.doc = disk.applied]
  /\ UNCHANGED <<disk, ui, lists, listGen, gen, focus, want, boot, asked, dropped, left>>
TargetMoved(request) == disk.profiles[request.slug] # request.expected
Crowded(request) == request.expected = Absent /\ Len(OnDisk) >= Limit
SaveAs ==
  /\ task.leg = "save" /\ task.answer = "due" /\ task.doc # Absent
  /\ LET r == task.request IN
     IF Crowded(r) THEN task' = [task EXCEPT !.answer = "diagnostics"] /\ disk' = disk
     ELSE IF TargetMoved(r) THEN task' = [task EXCEPT !.answer = "target"] /\ disk' = disk
     ELSE /\ task' = [task EXCEPT !.answer = "saved"]
          /\ disk' = [disk EXCEPT !.profiles[r.slug] = task.doc]
  /\ UNCHANGED <<ui, lists, listGen, gen, focus, want, boot, asked, dropped, left>>
LoadProfile ==
  /\ task.leg = "acquire" /\ task.answer = "due"
  /\ task' = [task EXCEPT !.answer = IF disk.profiles[task.request.slug] = Absent THEN "unloadable" ELSE "loaded",
                          !.doc = disk.profiles[task.request.slug]]
  /\ UNCHANGED <<disk, ui, lists, listGen, gen, focus, want, boot, asked, dropped, left>>
\* A call is lost, before or after it was served.
Rejected ==
  /\ task.leg # "none" /\ Spend("faults")
  /\ task' = [task EXCEPT !.answer = "lost"]
  /\ UNCHANGED <<disk, ui, lists, listGen, gen, focus, want, boot, asked, dropped>>

\* The continuations of submitName, confirmOverwrite and beginOverwrite.
AliveAlways == TRUE
Alive == task.gen = gen
Settled == [ui EXCEPT !.saving = FALSE, !.pending = @ /\ ~Alive]
Frozen == [slug |-> task.request.slug, applied |-> ui.applied, expected |-> task.doc]
Acquires ==
  /\ task.answer = "target" /\ Alive
  /\ task' = [task EXCEPT !.leg = "acquire", !.answer = "due", !.doc = Absent]
  /\ UNCHANGED <<disk, ui, lists, listGen, gen, focus, want, boot, asked, dropped, left>>
Answered ==
  /\ task.leg # "none" /\ task.answer # "due" /\ ~(task.answer = "target" /\ Alive)
  /\ task' = NoTask
  /\ IF task.answer = "saved" THEN RefreshList ELSE UNCHANGED <<lists, listGen>>
  /\ IF ~Alive THEN Commit(Settled, focus, "", FALSE)
     ELSE IF task.answer = "loaded" /\ ui.applied > Missing
          THEN Commit([Settled EXCEPT !.step = "overwrite", !.slug = task.request.slug, !.frozen = Frozen],
                      focus, "confirm", FALSE)
          ELSE Commit(Notice(Settled), focus, "done", FALSE)
  /\ Keeps
  /\ UNCHANGED <<disk, gen, asked, left>>
-----------------------------------------------------------------------------
(* The rows of the picker, in order.  A profile that is the source and is   *)
(* not listed is retained; without a configuration none is listed.          *)
Row(group, id, on) == [group |-> group, id |-> id, on |-> on]
Listed == IF ui.applied = Missing THEN {} ELSE ui.list.rows
IsProfile(id) == id \notin {"applied", "blank"}
Retained == IF IsProfile(ui.source) /\ ui.source \notin Listed THEN <<Row("source", ui.source, FALSE)>> ELSE <<>>
Unselectable == ui.applied = Invalid
Rows ==
  LET profiles == SelectSeq(Curated \o Users, LAMBDA n : n \in Listed)
      starts == SelectSeq(Curated, LAMBDA n : n \in ui.list.rows)
  IN <<Row("source", "applied", ~(ui.applied = Missing /\ ui.source = "applied"))>>
       \o (IF ui.source = "blank" THEN <<Row("source", "blank", TRUE)>> ELSE <<>>)
       \o Retained
       \o [i \in DOMAIN profiles |-> Row("source", profiles[i], ui.applied > Missing)]
       \o <<Row("start", "blank", ~Unselectable)>>
       \o [i \in DOMAIN starts |-> Row("start", starts[i], ~Unselectable)]
Identity(row) == <<row.group, row.id>>
RowAt(identity) == SelectInSeq(Rows, LAMBDA r : Identity(r) = identity)

\* openList, by click or arrow: the focus moves to the list, and its rows are asked for anew.
OpenPicker(click) ==
  /\ ~ui.open /\ ~PickerBlocked(ui) /\ Spend("picks") /\ (~click => focus = "picker")
  /\ LET outside == click /\ ui.menu
         first == RowAt(<<"source", ui.source>>)
     IN /\ gen' = IF outside THEN gen + 1 ELSE gen
        /\ Commit([(IF outside THEN Closed(ui) ELSE ui) EXCEPT
                     !.open = TRUE, !.active = Identity(Rows[IF first = 0 THEN 1 ELSE first])],
                  focus, "", FALSE)
  /\ RefreshList /\ Keeps
  /\ UNCHANGED <<disk, task, asked>>
\* Arrows, type-ahead and the pointer move the active row.
MoveActive(i) ==
  /\ ui.open /\ i \in DOMAIN Rows /\ Identity(Rows[i]) # ui.active /\ Spend("moves")
  /\ Commit([ui EXCEPT !.active = Identity(Rows[i])], focus, "", FALSE) /\ Keeps
  /\ UNCHANGED <<disk, lists, listGen, task, gen, asked>>
\* Escape, Tab and a click of the trigger go back to the trigger, and Tab on from there.
LeaveList(how) ==
  /\ ui.open /\ Spend("leaves")
  /\ IF how = "click" THEN ~PickerBlocked(ui) ELSE focus = "list"
  /\ LET outside == how = "click" /\ ui.menu
     IN /\ gen' = IF outside THEN gen + 1 ELSE gen
        /\ Commit([(IF outside THEN Closed(ui) ELSE ui) EXCEPT !.open = FALSE],
                  IF how = "tab" THEN "elsewhere" ELSE "picker", "", FALSE)
  /\ Keeps
  /\ UNCHANGED <<disk, lists, listGen, task, asked>>

\* choose: the active row, if it is still listed and enabled.
Choosable == ui.open /\ RowAt(ui.active) # 0 /\ Rows[RowAt(ui.active)].on
Choose ==
  /\ focus = "list" /\ Choosable
  /\ LET row == Rows[RowAt(ui.active)]
         shut == [ui EXCEPT !.open = FALSE]
         again == row.group = "source" /\ row.id = ui.source
     IN IF again THEN Commit(shut, "picker", "", FALSE)
        ELSE IF ~IsProfile(row.id) THEN Commit([shut EXCEPT !.source = row.id], "picker", "", TRUE)
        ELSE Commit([shut EXCEPT !.adopting = row.id], "picker", "", FALSE)
  /\ Keeps
  /\ UNCHANGED <<disk, lists, listGen, task, gen, asked, left>>
\* adoptProfile answers: the source moves, or stays with a notice.
Adopted ==
  /\ ui.adopting # ""
  /\ LET there == ui.adopting \notin Names \/ disk.profiles[ui.adopting] # Absent
     IN Commit([ui EXCEPT !.adopting = "", !.source = IF there THEN ui.adopting ELSE @], focus, "", TRUE)
  /\ Keeps
  /\ UNCHANGED <<disk, lists, listGen, task, gen, asked, left>>
-----------------------------------------------------------------------------
\* The workspace: its configuration is read again, it writes or asks for an approval.
Reload ==
  /\ ui.applied # disk.applied /\ ui.lock = "none" /\ Spend("reloads")
  /\ Commit([ui EXCEPT !.applied = disk.applied], focus, "", FALSE) /\ Lets
  /\ UNCHANGED <<disk, lists, listGen, task, gen, asked>>
Lock(kind) ==
  /\ ui.lock # kind
  /\ IF ui.lock = "none" THEN Spend("locks") ELSE kind = "none" /\ left' = left
  /\ Commit([ui EXCEPT !.lock = kind], focus, "", FALSE) /\ Lets
  /\ UNCHANGED <<disk, lists, listGen, task, gen, asked>>
\* The user moves the focus with the keyboard.
TabTo(control) ==
  /\ focus # "list" /\ control # focus /\ Spend("tabs")
  /\ Mounted(ui, control) /\ ~Disabled(ui, control)
  /\ Commit(ui, control, "", FALSE) /\ Keeps
  /\ UNCHANGED <<disk, lists, listGen, task, gen, asked>>

\* Other processes write the configuration and the profiles.
OthersApply(revision) ==
  /\ disk.applied # revision /\ Spend("others")
  /\ disk' = [disk EXCEPT !.applied = revision]
  /\ UNCHANGED <<ui, lists, listGen, task, gen, focus, want, boot, asked, dropped>>
OthersSave(name, revision) ==
  /\ disk.profiles[name] # revision /\ Spend("others")
  /\ disk' = [disk EXCEPT !.profiles[name] = revision]
  /\ UNCHANGED <<ui, lists, listGen, task, gen, focus, want, boot, asked, dropped>>
-----------------------------------------------------------------------------
Revisions == 1..2
\* Profiles are what some revision of the configuration was, or what somebody else wrote.
Contents == {Absent, 1, 9}

Init ==
  /\ disk \in [applied : {Missing, 1}, profiles : {[n \in Names |-> IF n \in taken THEN 9 ELSE Absent] : taken \in Taken}]
  /\ ui = [menu |-> FALSE, step |-> "idle", slug |-> "", frozen |-> NoTuple, pending |-> FALSE,
           saving |-> FALSE, lock |-> "none", adopting |-> "", applied |-> disk.applied,
           source |-> "applied", list |-> [kind |-> "unloaded", from |-> 0, rows |-> {}],
           open |-> FALSE, active |-> <<"source", "applied">>]
  /\ lists = {[gen |-> 1, rows |-> Due]} /\ listGen = 1
  /\ task = NoTask /\ gen = 0
  /\ focus = "elsewhere" /\ want = NoWant /\ boot = FALSE
  /\ asked = NoTuple /\ dropped = FALSE
  /\ left \in Casts

Next ==
  \/ ClickSave \/ ConfirmOverwrite \/ CloseMenu \/ BackToNaming
  \/ \E name \in Names : TypeName(name)
  \/ \E control \in {"name", "submit"} : SubmitName(control)
  \/ \E f \in {"elsewhere", "body"} : ClickOutside(f)
  \/ ReadApplied \/ SaveAs \/ LoadProfile \/ Rejected \/ Acquires \/ Answered
  \/ \E l \in lists : ReadList(l) \/ ListAnswered(l) \/ ListFails(l)
  \/ Choose \/ Adopted
  \/ \E i \in 1..8 : MoveActive(i)
  \/ \E click \in BOOLEAN : OpenPicker(click)
  \/ \E how \in {"escape", "tab", "click"} : LeaveList(how)
  \/ Reload
  \/ \E kind \in {"none", "challenge", "write"} : Lock(kind)
  \/ \E control \in {"save", "picker", "elsewhere"} : TabTo(control)
  \/ \E revision \in {Invalid} \cup Revisions : OthersApply(revision)
  \/ \E name \in Names, revision \in Contents : OthersSave(name, revision)

Spec == Init /\ [][Next]_vars
-----------------------------------------------------------------------------
(* A flow is pending exactly while its own call is under way, and a menu    *)
(* that is closed, or left by Back, is not taken on by a late answer.       *)
FlowOwned ==
  /\ ui.pending <=> (task.leg # "none" /\ Alive)
  /\ task.leg # "none" => ui.saving
  /\ ~ui.menu <=> ui.step = "idle"

(* The keyboard is never stranded by the menus: when nothing is under way,  *)
(* no focus means that the workspace or the user took it away, or that the  *)
(* trigger is waited for.                                                   *)
FocusHeld == focus = "body" => ui.pending \/ ui.adopting # "" \/ want # NoWant \/ boot \/ dropped

(* What is edited has exactly one row of its own in the picker, whatever is *)
(* listed, and the list is that of the newest request.                      *)
SourceNamed ==
  /\ Cardinality({i \in DOMAIN Rows : Identity(Rows[i]) = <<"source", ui.source>>}) = 1
  /\ lists = {} => ui.list.from = listGen

ProfilesSound == FlowOwned /\ FocusHeld /\ SourceNamed

(* A save changes nothing but what the user confirmed: it creates a profile *)
(* that was not there, or replaces the revision that the user was asked     *)
(* about, by the configuration that was shown then; and an answer that      *)
(* nobody waits for moves no menu.                                          *)
ConfirmedOnly ==
  /\ SaveAs /\ disk' # disk =>
       /\ disk'.profiles[asked.slug] = asked.applied
       /\ disk.profiles[asked.slug] = asked.expected
  /\ ui'.step # ui.step /\ ui'.step \in {"overwrite", "notice"} => ui.pending
=============================================================================
