------------------------------ MODULE GitMerge ------------------------------
(***************************************************************************)
(* The merge resolution of the git store (stores/gitStore.ts) and of its   *)
(* surface (components/Editor/MergeResolutionView.tsx): opening a          *)
(* conflicted file, deciding its conflict, noticing that the file moved    *)
(* under the session, writing and staging the resolution, and the hand-off *)
(* to the next file of the queue.                                          *)
(*                                                                         *)
(* A file has one conflict region.  Its source version is the pair of its  *)
(* index stages (the operation heads included) and its bytes; the same     *)
(* version may come back.  Every backend call is atomic where it answers   *)
(* a write, and a read answers what was there when it started or what is   *)
(* there when it is answered.                                              *)
(***************************************************************************)
EXTENDS Integers, Sequences

CONSTANTS Paths,       \* conflicted files
          TextStages,  \* stages that leave markers in the file
          SideStages,  \* stages where one side replaces the whole file
          LostStages,  \* stages left by an operation whose heads are gone
          Queue,       \* the conflicted files as the panel lists them
          Starting,    \* the stages of the files at first: path -> stages
          Busy,        \* the files other programs and the editor's tabs touch
          Moves,       \* what others may make of a file: [stages, text]
          Casts        \* bounds of a behaviour: [outside, edits, gitOps, switches, failures, opens]

Gone == 0              \* no stages: not conflicted
Stages == TextStages \cup SideStages \cup LostStages

\* Bytes of a file: marked by the merge, by someone else, by the editor's tab; resolved by
\* someone else or by this session; one side.
Marked == {"merged", "outside", "typed"}
Sides == {"ours", "theirs"}
Texts == Marked \cup Sides \cup {"settled", "result"}

MergeAssumption ==
  /\ Gone \notin Stages /\ Starting \subseteq [Paths -> TextStages \cup SideStages]
  /\ Busy \subseteq Paths /\ Moves \subseteq [stages : Stages \cup {Gone}, text : Texts]
  /\ \A i \in 1..Len(Queue) : Queue[i] \in Paths

VARIABLES
  repo,       \* path -> [stages, text]: what git and the disk hold
  staged,     \* path -> what was staged for it, "no" before
  writes,     \* path -> getFileWriteRevision
  tab,        \* path -> [state, text, queued]: the editor's tab and its queued save
  session,    \* mergeSession
  revision,   \* mergeRequestRevision
  epoch,      \* of the workspace
  open,       \* the openMergeResolution that may still install
  check,      \* the revalidation that may still act
  final,      \* the finalize under way
  gitOp,      \* opInFlight
  advancing,  \* mergeAdvancePending
  left        \* what is left of the behaviour's bounds

vars == <<repo, staged, writes, tab, session, revision, epoch, open, check, final, gitOp,
          advancing, left>>
Disk == <<repo, staged, writes, tab>>

NoSession == [path |-> "none"]
NoOpen == [phase |-> "no", rev |-> 0]
NoCheck == [on |-> FALSE]
Idle == [phase |-> "idle"]
NoNotice == [kind |-> "none"]
NotApplied == [side |-> "none", stages |-> Gone, text |-> "merged"]

Init ==
  /\ left \in Casts
  /\ \E s \in Starting : repo = [p \in Paths |-> [stages |-> s[p], text |-> "merged"]]
  /\ staged = [p \in Paths |-> "no"]
  /\ writes = [p \in Paths |-> 0]
  /\ tab = [p \in Paths |-> [state |-> IF p \in Busy /\ left.edits > 0 THEN "clean" ELSE "none",
                             text |-> "merged", queued |-> FALSE]]
  /\ session = NoSession /\ revision = 0 /\ epoch = 0
  /\ open = NoOpen /\ check = NoCheck /\ final = Idle
  /\ gitOp = FALSE /\ advancing = FALSE

Has(what) == left[what] > 0
Spend(what) == left' = [left EXCEPT ![what] = @ - 1]

InSession == session # NoSession
InFlight == final.phase \in {"lock", "write", "stage"}   \* mergeFinalizeInFlight
Finalizing == InFlight \/ final.phase = "fresh"         \* what the surface shows
Blocked == Finalizing \/ session.reloading
Overwritable == session.notice.kind = "changed" /\ session.notice.scope = "worktree"

\* The notice with its Reload or Retry; a hidden one shows nothing.
NoticeShown == \/ session.notice.kind = "changed" /\ ~session.notice.hidden
               \/ session.notice.kind = "failed"

\* One side replaces the file: the read has no snapshot.
Kind(state) == IF state.stages \in SideStages THEN "sides" ELSE "text"
Resolved(state) == \/ state.stages = Gone
                   \/ Kind(state) = "text" /\ state.text \notin Marked

-----------------------------------------------------------------------------
(* What happens outside the surface.                                        *)

\* Another program changes the file or its index, or ends the operation.
Outside(p) ==
  /\ Has("outside") /\ Spend("outside")
  /\ \E m \in Moves \ {repo[p]} : repo' = [repo EXCEPT ![p] = m]
  /\ UNCHANGED <<staged, writes, tab, session, revision, epoch, open, check, final, gitOp,
                 advancing>>

TabEdit(p) ==
  /\ Has("edits") /\ Spend("edits") /\ tab[p].state # "none"
  /\ tab' = [tab EXCEPT ![p].state = "dirty", ![p].text = "typed"]
  /\ UNCHANGED <<repo, staged, writes, session, revision, epoch, open, check, final, gitOp,
                 advancing>>

\* An autosave queues its write; a modified tab that is closed does, too.
TabSaves(p) ==
  /\ tab[p].state = "dirty" /\ ~tab[p].queued
  /\ \E s \in {"dirty", "none"} :
       tab' = [tab EXCEPT ![p] = [@ EXCEPT !.state = s, !.queued = TRUE]]
  /\ UNCHANGED <<repo, staged, writes, session, revision, epoch, open, check, final, gitOp,
                 advancing, left>>

Locks(p) == final.phase \in {"write", "stage"} /\ final.path = p

\* The queue of the path runs the save, unless a finalize holds the path's lock.
TabWritten(p) ==
  /\ tab[p].queued /\ ~Locks(p)
  /\ repo' = [repo EXCEPT ![p].text = "typed"]
  /\ writes' = [writes EXCEPT ![p] = @ + 1]
  /\ tab' = [tab EXCEPT ![p] = [@ EXCEPT !.queued = FALSE,
                                         !.state = IF tab[p].state = "dirty" THEN "clean"
                                                   ELSE tab[p].state]]
  /\ UNCHANGED <<staged, session, revision, epoch, open, check, final, gitOp, advancing,
                 left>>

\* The watcher reads a clean tab again.
TabReloads(p) ==
  /\ tab[p].state = "clean" /\ tab[p].text # repo[p].text
  /\ tab' = [tab EXCEPT ![p].text = repo[p].text]
  /\ UNCHANGED <<repo, staged, writes, session, revision, epoch, open, check, final, gitOp,
                 advancing, left>>

\* Another git operation (runOp): one at a time.
GitOpStarts ==
  /\ ~gitOp /\ Has("gitOps") /\ Spend("gitOps") /\ gitOp' = TRUE
  /\ UNCHANGED <<Disk, session, revision, epoch, open, check, final, advancing>>

GitOpEnds ==
  /\ gitOp /\ final.phase # "stage" /\ gitOp' = FALSE
  /\ UNCHANGED <<Disk, session, revision, epoch, open, check, final, advancing, left>>

ResetForWorkspace ==
  /\ Has("switches") /\ Spend("switches")
  /\ session' = NoSession /\ advancing' = FALSE /\ gitOp' = FALSE
  /\ epoch' = epoch + 1
  /\ UNCHANGED <<Disk, revision, open, check, final>>

-----------------------------------------------------------------------------
(* Opening.                                                                 *)

\* rotateMergeQueue.
Rotated(queue, p) ==
  LET i == CHOOSE k \in 1..Len(queue) : queue[k] = p
  IN SubSeq(queue, i, Len(queue)) \o SubSeq(queue, 1, i - 1)

Opening(p, queue) ==
  /\ revision' = revision + 1
  /\ open' = [phase |-> "save", path |-> p, rev |-> revision + 1, epoch |-> epoch, queue |-> queue]

\* Refused during a finalize and beside another session; a newer one supersedes.
OpenMergeResolution(p) ==
  /\ Has("opens") /\ Spend("opens")
  /\ ~InFlight /\ ~InSession
  /\ Opening(p, Queue)
  /\ UNCHANGED <<Disk, session, epoch, check, final, gitOp, advancing>>

\* Mutant: the workspace is not compared.
OpenNewest == open.rev = revision

OpenCurrent == open.epoch = epoch /\ open.rev = revision

\* The unsaved tab is on disk before the conflict is read.
OpenSaves ==
  /\ open.phase = "save"
  /\ LET p == open.path
         dirty == tab[p].state = "dirty"
         text == IF dirty \/ tab[p].queued THEN "typed" ELSE repo[p].text
     IN /\ ~Locks(p)
        /\ repo' = [repo EXCEPT ![p].text = text]
        /\ writes' = [writes EXCEPT ![p] = @ + (IF dirty \/ tab[p].queued THEN 1 ELSE 0)]
        /\ tab' = [tab EXCEPT ![p] = [@ EXCEPT !.queued = FALSE,
                                               !.state = IF dirty THEN "clean" ELSE tab[p].state]]
        /\ open' = IF OpenCurrent
                   THEN [phase |-> "read", path |-> p, rev |-> open.rev, epoch |-> open.epoch,
                         queue |-> open.queue, writes |-> writes'[p], seen |-> repo'[p]]
                   ELSE NoOpen
  /\ UNCHANGED <<staged, session, revision, epoch, check, final, gitOp, advancing, left>>

Fresh(base, state) ==
  [path |-> base.path, rev |-> base.rev, epoch |-> base.epoch, queue |-> base.queue,
   writes |-> base.writes, stages |-> state.stages, text |-> state.text, kind |-> Kind(state),
   decided |-> FALSE, side |-> "none", applied |-> NotApplied, shown |-> state,
   dirty |-> FALSE, reloading |-> FALSE, closing |-> FALSE, notice |-> NoNotice]

\* No session without stages, without heads, without markers, or after another write.
Installable(state) == ~Resolved(state) /\ state.stages \notin LostStages

OpenReads ==
  /\ open.phase = "read" /\ open' = NoOpen
  /\ \E state \in {open.seen, repo[open.path]} :
       session' = IF OpenCurrent /\ open.writes = writes[open.path] /\ Installable(state)
                  THEN Fresh(open, state) ELSE session
  /\ UNCHANGED <<Disk, revision, epoch, check, final, gitOp, advancing, left>>

OpenFails ==
  /\ open.phase # "no" /\ Has("failures") /\ Spend("failures") /\ open' = NoOpen
  /\ UNCHANGED <<Disk, session, revision, epoch, check, final, gitOp, advancing>>

-----------------------------------------------------------------------------
(* Deciding and closing.                                                    *)

Edited(s) ==
  /\ session' = s
  /\ UNCHANGED <<Disk, revision, epoch, open, check, final, gitOp, advancing, left>>

RecordDecision ==
  /\ InSession /\ session.kind = "text" /\ ~Blocked
  /\ Edited([session EXCEPT !.decided = TRUE, !.dirty = TRUE])

ReopenDecision ==
  /\ InSession /\ session.kind = "text" /\ ~Blocked /\ session.decided
  /\ Edited([session EXCEPT !.decided = FALSE, !.dirty = TRUE])

\* Another side than the applied one has to be applied again.
SideChosen(s, side) ==
  [s EXCEPT !.side = side, !.dirty = TRUE,
            !.applied = IF @.side = side THEN @ ELSE NotApplied]

SelectMergeSide(side) ==
  /\ InSession /\ session.kind = "sides" /\ ~Blocked /\ session.side # side
  /\ Edited(SideChosen(session, side))

AcknowledgeMergeExternal ==
  /\ InSession /\ ~Blocked /\ Overwritable /\ ~session.notice.hidden
  /\ Edited([session EXCEPT !.notice.hidden = TRUE])

\* Any open on its way is superseded: a closed surface does not come back.
CloseMergeResolution ==
  /\ revision' = revision + 1
  /\ session' = NoSession /\ advancing' = FALSE

RequestMergeClose ==
  /\ InSession /\ ~Blocked /\ ~session.closing
  /\ IF session.dirty
     THEN /\ session' = [session EXCEPT !.closing = TRUE]
          /\ UNCHANGED <<revision, advancing>>
     ELSE CloseMergeResolution
  /\ UNCHANGED <<Disk, epoch, open, check, final, gitOp, left>>

AnswerMergeClose ==
  /\ InSession /\ session.closing
  /\ \/ CloseMergeResolution
     \/ session' = [session EXCEPT !.closing = FALSE] /\ UNCHANGED <<revision, advancing>>
  /\ UNCHANGED <<Disk, epoch, open, check, final, gitOp, left>>

-----------------------------------------------------------------------------
(* Revalidation.                                                            *)

Version(s) == [stages |-> s.stages, text |-> s.text]

\* setMergeExternal: resolved outside is not taken back by a lesser notice.
Noticed(s, notice) ==
  IF s.notice.kind = "resolved" /\ notice.kind # "resolved" THEN s ELSE [s EXCEPT !.notice = notice]

Changed(s, state, scope) ==
  [kind |-> "changed", scope |-> scope, version |-> state,
   hidden |-> s.notice.kind = "changed" /\ s.notice.hidden /\ s.notice.version = state]

Conflict(state) == [kind |-> "changed", scope |-> "conflict", version |-> state, hidden |-> FALSE]

\* Mutant: the stages are not compared.
HeadsOnlyConflict(s, state) == state.stages \notin LostStages

\* sameConflictIdentity.
SameConflict(s, state) == s.stages = state.stages /\ state.stages \notin LostStages

Checking(s, force) ==
  check' = [on |-> TRUE, rev |-> s.rev, epoch |-> s.epoch, path |-> s.path, force |-> force,
            seen |-> repo[s.path]]

\* notifyMergeFileChanged, and the status refresh after an index-only resolution.  A
\* signal that finds the session's own version has nothing to do.
MergeFileChanged ==
  /\ InSession /\ ~InFlight /\ ~session.reloading
  /\ repo[session.path] # Version(session) \/ session.notice # NoNotice
  /\ Checking(session, FALSE)
  /\ UNCHANGED <<Disk, session, revision, epoch, open, final, gitOp, advancing, left>>

ApplyMergeReload ==
  /\ InSession /\ ~Blocked /\ ~InFlight
  /\ NoticeShown
  /\ session' = [session EXCEPT !.reloading = TRUE]
  /\ Checking(session, TRUE)
  /\ UNCHANGED <<Disk, revision, epoch, open, final, gitOp, advancing, left>>

CheckLive == /\ InSession /\ session.path = check.path /\ session.rev = check.rev
             /\ epoch = check.epoch

\* Mutant: the frozen surface is left to the next reload.
StaysFrozen(s) == s

Settled(s) == IF check.force THEN [s EXCEPT !.reloading = FALSE] ELSE s

\* The read fails: a session nobody could verify does not stay writable.
CheckFails ==
  /\ check.on /\ Has("failures") /\ Spend("failures") /\ check' = NoCheck
  /\ session' = IF CheckLive THEN Noticed(Settled(session), [kind |-> "failed"]) ELSE session
  /\ UNCHANGED <<Disk, revision, epoch, open, final, gitOp, advancing>>

Reconciled(s, state) ==
  IF Resolved(state) /\ (state.stages = Gone \/ state # Version(s))
  THEN Noticed(s, [kind |-> "resolved"])
  ELSE IF state = Version(s) THEN [s EXCEPT !.notice = NoNotice]
  ELSE IF state.stages \in LostStages THEN Noticed(s, [kind |-> "failed"])
  ELSE Noticed(s, Changed(s, state, IF SameConflict(s, state) THEN "worktree" ELSE "conflict"))

\* A session the user has not touched, or asked to reload, is replaced as a whole.
Replaces(s, state) ==
  /\ ~Resolved(state) /\ state # Version(s) /\ state.stages \notin LostStages
  /\ check.force \/ ~s.dirty

CheckAnswered ==
  /\ check.on
  /\ \E state \in {check.seen, repo[check.path]} :
       IF ~CheckLive
       THEN check' = NoCheck /\ UNCHANGED <<session, revision>>
       ELSE IF ~Replaces(session, state)
       THEN /\ session' = Settled(Reconciled(session, state))
            /\ check' = NoCheck /\ UNCHANGED revision
       ELSE LET base == [path |-> session.path, rev |-> revision + 1, epoch |-> session.epoch,
                         queue |-> session.queue, writes |-> writes[session.path]]
            IN /\ revision' = revision + 1
               /\ session' = Fresh(base, state)
               /\ IF check.force /\ ~InFlight THEN Checking(session', FALSE) ELSE check' = NoCheck
  /\ UNCHANGED <<Disk, epoch, open, final, gitOp, advancing, left>>

-----------------------------------------------------------------------------
(* Write and stage.                                                         *)

FinalCurrent == epoch = final.epoch /\ final.rev = revision
SameWorkspace == epoch = final.epoch
FinalLive == InSession /\ session.rev = final.rev
Stable(s) == writes[s.path] = s.writes

Finalize(s, expected) ==
  [phase |-> "lock", rev |-> s.rev, epoch |-> s.epoch, path |-> s.path, kind |-> s.kind,
   side |-> s.side, base |-> s.text, writes |-> s.writes, expected |-> expected,
   shown |-> s.shown, applied |-> s.applied, queue |-> s.queue,
   over |-> expected # Version(s)]

\* clearCapturedSession: the session that was finalized is invalid.
Invalidated ==
  IF SameWorkspace /\ FinalLive
  THEN session' = NoSession /\ revision' = revision + 1
  ELSE UNCHANGED <<session, revision>>

TextReady == session.kind = "text" /\ session.decided
SidesReady == session.kind = "sides" /\ session.side # "none"
Ready == ~Blocked /\ (TextReady \/ SidesReady)

\* runFinalize up to its first await.
Begins(s, expected) ==
  IF ~Stable(s)
  THEN session' = NoSession /\ revision' = revision + 1 /\ final' = Idle
  ELSE /\ UNCHANGED <<session, revision>>
       /\ final' = IF gitOp THEN Idle ELSE Finalize(s, expected)

MergeFinalizeAndStage ==
  /\ InSession /\ Ready /\ session.notice = NoNotice /\ final = Idle
  /\ Begins(session, Version(session))
  /\ UNCHANGED <<Disk, epoch, open, check, gitOp, advancing, left>>

\* The user confirms the overwrite; the conflict is read again.
MergeOverwriteAndStage ==
  /\ InSession /\ Ready /\ Overwritable /\ final = Idle
  /\ final' = [phase |-> "fresh", rev |-> session.rev, path |-> session.path,
               seen |-> repo[session.path]]
  /\ UNCHANGED <<Disk, session, revision, epoch, open, check, gitOp, advancing, left>>

OverwriteRead ==
  /\ final.phase = "fresh"
  /\ \E state \in {final.seen, repo[final.path]} :
       IF ~FinalLive
       THEN final' = Idle /\ UNCHANGED <<session, revision>>
       ELSE IF state.stages = Gone
       THEN /\ session' = Noticed(session, [kind |-> "resolved"])
            /\ final' = Idle /\ UNCHANGED revision
       ELSE IF ~SameConflict(session, state) \/ Kind(state) # session.kind
       THEN /\ session' = Noticed(session, Conflict(state))
            /\ final' = Idle /\ UNCHANGED revision
       ELSE IF Resolved(state)
       THEN /\ session' = Noticed(session, [kind |-> "resolved"])
            /\ final' = Idle /\ UNCHANGED revision
       ELSE Begins(session, Version(state))
  /\ UNCHANGED <<Disk, epoch, open, check, gitOp, advancing, left>>

\* What a finalize leaves behind: the refused version has to be classified.
Ended(revalidate) ==
  /\ final' = Idle
  /\ IF revalidate /\ session' # NoSession /\ ~session'.reloading
     THEN Checking(session', FALSE) ELSE UNCHANGED check

\* Mutant: the bytes of the worktree are not part of the version.
AppliesOnStages(state, expected) == state.stages = expected.stages

\* guardedConflictMutation: the backend acts only on the version it is given.
Applies(state, expected) == state = expected

\* Mutant: the modified flag of the tab is not looked at.
ForeignText(t) == t.state = "clean" /\ t.text \notin {"result", final.base}

\* The tab was edited, or shows neither what the session was built from nor the result.
Foreign(t) ==
  \/ t.state = "dirty"
  \/ t.state = "clean" /\ t.text \notin {"result", final.base}

\* A stage that failed is tried again on what the apply produced.
AlreadyApplied ==
  /\ final.kind = "sides" /\ final.applied.side = final.side
  /\ Version(final.applied) = final.expected

\* The path's lock, after the writes queued before it.
FinalizeLocked ==
  /\ final.phase = "lock" /\ ~tab[final.path].queued
  /\ LET p == final.path
     IN IF ~FinalCurrent \/ gitOp
        THEN UNCHANGED <<session, revision, check, gitOp>> /\ final' = Idle
        ELSE IF writes[p] # final.writes
        THEN Invalidated /\ Ended(FALSE) /\ UNCHANGED gitOp
        ELSE IF tab[p].state = "dirty" \/ (final.kind = "text" /\ Foreign(tab[p]))
        THEN UNCHANGED <<session, revision, check, gitOp>> /\ final' = Idle
        ELSE /\ final' = [final EXCEPT !.phase = IF AlreadyApplied THEN "stage" ELSE "write"]
             /\ gitOp' = AlreadyApplied /\ UNCHANGED <<session, revision, check>>
  /\ UNCHANGED <<Disk, epoch, open, advancing, left>>

\* runOp of the stage: refused beside another git operation.
Staging(version) ==
  IF gitOp THEN Ended(FALSE) /\ UNCHANGED gitOp
  ELSE /\ gitOp' = TRUE /\ UNCHANGED check
       /\ final' = [final EXCEPT !.phase = "stage", !.expected = version]

SideApplied(state) == [side |-> final.side, stages |-> state.stages, text |-> state.text]

FinalizeWrites ==
  /\ final.phase = "write"
  /\ LET p == final.path
         text == IF final.kind = "sides" THEN final.side ELSE "result"
         written == [repo[p] EXCEPT !.text = text]
     IN IF ~Applies(repo[p], final.expected)
        THEN UNCHANGED <<Disk, session, revision, gitOp>> /\ Ended(TRUE)
        ELSE /\ repo' = [repo EXCEPT ![p] = written]
             /\ writes' = [writes EXCEPT ![p] = @ + 1]
             /\ UNCHANGED staged
             /\ IF ~SameWorkspace
                THEN UNCHANGED <<tab, session, revision, gitOp>> /\ Ended(FALSE)
                ELSE IF final.kind = "text" /\ (tab[p].queued \/ Foreign(tab[p]))
                THEN Invalidated /\ Ended(FALSE) /\ UNCHANGED <<tab, gitOp>>
                ELSE /\ tab' = IF final.kind = "text" /\ tab[p].state # "none"
                               THEN [tab EXCEPT ![p].text = "result", ![p].state = "clean"]
                               ELSE tab
                     /\ session' = IF ~FinalLive THEN session
                                   ELSE [session EXCEPT
                                     !.text = text, !.writes = writes'[p],
                                     !.stages = written.stages,
                                     !.applied = IF final.kind = "text" THEN @
                                                 ELSE SideApplied(written)]
                     /\ UNCHANGED revision
                     /\ Staging(written)
  /\ UNCHANGED <<epoch, open, advancing, left>>

WriteFails ==
  /\ final.phase = "write" /\ Has("failures") /\ Spend("failures")
  /\ Invalidated /\ Ended(FALSE)
  /\ UNCHANGED <<Disk, epoch, open, gitOp, advancing>>

Remaining == SelectSeq(final.queue, LAMBDA q : q # final.path)

\* The finalized session closes in the step that announces the hand-off.
Advance ==
  /\ session' = NoSession
  /\ IF Remaining = <<>>
     THEN final' = Idle /\ advancing' = FALSE /\ UNCHANGED <<revision, open>>
     ELSE /\ advancing' = TRUE /\ Opening(Head(Remaining), Rotated(Remaining, Head(Remaining)))
          /\ final' = [phase |-> "advance", rev |-> revision + 1]

\* A clean tab of a file that one side replaced is closed, an edited one is kept.
SideStaged(t) == IF t.state = "clean" THEN [t EXCEPT !.state = "none"] ELSE t

FinalizeStages ==
  /\ final.phase = "stage"
  /\ gitOp' = IF SameWorkspace THEN FALSE ELSE gitOp
  /\ LET p == final.path
         sides == final.kind = "sides"
     IN IF ~Applies(repo[p], final.expected)
        THEN /\ UNCHANGED <<repo, staged, tab, advancing, open>>
             /\ IF ~sides /\ tab[p].queued THEN Invalidated ELSE UNCHANGED <<session, revision>>
             /\ Ended(TRUE)
        ELSE /\ repo' = [repo EXCEPT ![p].stages = Gone]
             /\ staged' = [staged EXCEPT ![p] = repo[p].text]
             /\ tab' = IF SameWorkspace /\ sides THEN [tab EXCEPT ![p] = SideStaged(@)] ELSE tab
             /\ UNCHANGED check
             /\ IF FinalCurrent THEN Advance
                ELSE final' = Idle /\ UNCHANGED <<session, revision, open, advancing>>
  /\ UNCHANGED <<writes, epoch, left>>

StageFails ==
  /\ final.phase = "stage" /\ Has("failures") /\ Spend("failures")
  /\ gitOp' = IF SameWorkspace THEN FALSE ELSE gitOp
  /\ IF final.kind = "text" /\ tab[final.path].queued
     THEN Invalidated ELSE UNCHANGED <<session, revision>>
  /\ Ended(FALSE)
  /\ UNCHANGED <<Disk, epoch, open, advancing>>

\* Mutant: the flag is left to the next session.
AdvanceForgets ==
  /\ final.phase = "advance" /\ open.rev # final.rev /\ final' = Idle
  /\ UNCHANGED <<Disk, session, revision, epoch, open, check, gitOp, advancing, left>>

\* The open of the hand-off is over, whatever became of it.
AdvanceSettles ==
  /\ final.phase = "advance" /\ open.rev # final.rev
  /\ final' = Idle /\ advancing' = FALSE
  /\ UNCHANGED <<Disk, session, revision, epoch, open, check, gitOp, left>>

Next ==
  \/ \E p \in Busy : \/ Outside(p) \/ TabEdit(p) \/ TabSaves(p) \/ TabWritten(p)
                     \/ TabReloads(p)
  \/ \E p \in Paths : OpenMergeResolution(p)
  \/ GitOpStarts \/ GitOpEnds \/ ResetForWorkspace
  \/ OpenSaves \/ OpenReads \/ OpenFails
  \/ RecordDecision \/ ReopenDecision \/ (\E side \in Sides : SelectMergeSide(side))
  \/ AcknowledgeMergeExternal \/ RequestMergeClose \/ AnswerMergeClose
  \/ MergeFileChanged \/ ApplyMergeReload \/ CheckFails \/ CheckAnswered
  \/ MergeFinalizeAndStage \/ MergeOverwriteAndStage \/ OverwriteRead
  \/ FinalizeLocked \/ FinalizeWrites \/ WriteFails \/ FinalizeStages \/ StageFails
  \/ AdvanceSettles

\* Calls are answered, and the queue of a path moves.
Fairness ==
  /\ WF_vars(OpenSaves) /\ WF_vars(OpenReads) /\ WF_vars(CheckAnswered)
  /\ WF_vars(\E p \in Busy : TabWritten(p))
  /\ WF_vars(OverwriteRead) /\ WF_vars(FinalizeLocked) /\ WF_vars(FinalizeWrites)
  /\ WF_vars(FinalizeStages) /\ WF_vars(AdvanceSettles)

Spec == Init /\ [][Next]_vars
FairSpec == Spec /\ Fairness

-----------------------------------------------------------------------------
(* Properties.                                                              *)

\* The conflict a finalize settles is the one that was decided, and the bytes it writes
\* over are those the session showed or wrote itself, unless the user confirmed the
\* overwrite of what others wrote (finalizeMergeSession).
WriteReviewed ==
  final.phase = "write" /\ final'.phase # "write" /\ writes' # writes =>
    /\ repo[final.path].stages = final.shown.stages
    /\ final.over \/ repo[final.path].text \in {final.shown.text, "result"} \cup Sides

\* The bytes that are staged are this session's resolution, never those of an autosave, of
\* another program or of a side chosen before.
StageChosen ==
  staged' # staged => staged'[final.path] = IF final.kind = "sides" THEN final.side ELSE "result"

\* A session belongs to the workspace that is open, and to the newest request.
SessionCurrent == InSession => session.epoch = epoch /\ session.rev = revision

\* An edit in the file's own tab leaves it only through a save of that edit.
TabKept ==
  \A p \in Paths : tab[p].state = "dirty" /\ tab'[p].state # "dirty" =>
    tab'[p].queued \/ repo'[p].text = "typed"

\* The hand-off flag never outlives the hand-off it belongs to.
AdvanceOwned == advancing => final.phase = "advance"

\* A reload that the user asked for settles: the surface does not stay frozen.
ReloadSettles == (InSession /\ session.reloading) ~> ~(InSession /\ session.reloading)

\* Resolved outside is terminal for the session that observed it.
ResolvedIsTerminal ==
  [][InSession /\ session.notice.kind = "resolved" /\ session' # NoSession
     /\ session'.rev = session.rev => session'.notice.kind = "resolved"]_vars
=============================================================================
