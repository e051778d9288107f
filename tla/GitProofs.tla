------------------------------- MODULE GitProofs -------------------------------
(*****************************************************************************)
(* Proofs about GitParts: the panel and the pane of the git status, the      *)
(* merge session and the problems, for every value of the parameters.  The   *)
(* steps of the others leave `part`, which names the component, as it is.    *)
(*****************************************************************************)
EXTENDS GitParts, FiniteSetTheorems, WellFoundedInduction, TLAPS

-----------------------------------------------------------------------------
(* The status: requests.                                                    *)

Counted == epoch \in Nat /\ rev \in Nat

\* Operations of an earlier workspace stay of it.
Ops == S!PanelCurrent /\ \A o \in running : o.epoch \in Nat /\ o.epoch <= epoch

\* A request is of a file, and known by its revision.
Requests ==
  /\ \A r \in requests : /\ r.rev \in Nat /\ r.rev <= rev
                         /\ r.epoch \in Nat /\ r.epoch <= epoch
                         /\ r.path \in RepoFiles
  /\ \A r, q \in requests : r.rev = q.rev => r = q
  /\ diff # S!NoDiff => diff.path \in RepoFiles

\* The newest request is for the file that was clicked last, and when it is none of the
\* user's, that file is already shown.
Clicked ==
  /\ \A r \in requests : S!Current(r) /\ wanted # "none" => r.path = wanted
  /\ wanted # "none" =>
       diff.path \in {wanted, "none"} \/ \E r \in S!UserRequests : S!Current(r)

\* A request that a step adds, which reads its file from texts.
Adds(q, texts) ==
  /\ requests' = requests \cup {q} /\ rev' = rev + 1
  /\ q.rev = rev + 1 /\ q.epoch = epoch /\ q.path \in RepoFiles /\ q.seen = texts[q.path]

\* A refresh of the diff that is shown, unless it yields to a click.
Refreshes(texts) ==
  \/ UNCHANGED <<requests, rev>>
  \/ \E q : /\ Adds(q, texts) /\ S!UserRequests = {}
            /\ diff # S!NoDiff /\ q.path = diff.path

LEMMA RefreshingRefreshes ==
  ASSUME Requests, NEW snapshot, NEW texts, S!Refreshing(snapshot, texts)
  PROVE  Refreshes(texts)
<1>1. CASE diff = S!NoDiff \/ S!Yields
  BY <1>1 DEF S!Refreshing, Refreshes
<1>2. CASE ~(diff = S!NoDiff \/ S!Yields)
  <2> DEFINE c == snapshot.class[diff.path]
             q == S!Request(diff.path, S!Retargeted(diff.context, c), FALSE, texts)
  <2>1. requests' = requests \cup {q} /\ rev' = rev + 1
    BY <1>2 DEF S!Refreshing
  <2>2. q.rev = rev + 1 /\ q.epoch = epoch /\ q.path = diff.path /\ q.seen = texts[diff.path]
    BY DEF S!Request
  <2> HIDE DEF q
  <2>3. diff.path \in RepoFiles /\ S!UserRequests = {} /\ diff # S!NoDiff
    BY <1>2 DEF Requests, S!Yields
  <2> QED BY <2>1, <2>2, <2>3 DEF Refreshes, Adds
<1> QED BY <1>1, <1>2

\* What each step of the status does to the requests, the diff and the file that is wanted.
Quiet == UNCHANGED <<epoch, rev, requests, diff, wanted>>
ClickStep ==
  /\ \E q : Adds(q, text) /\ q.focus /\ q.path = wanted'
  /\ UNCHANGED <<epoch, diff>>
RefreshStep == (Refreshes(text) \/ Refreshes(text')) /\ UNCHANGED <<epoch, diff, wanted>>
AnswerStep ==
  \E r \in requests :
    /\ requests' = requests \ {r}
    /\ \/ ~S!Current(r) /\ UNCHANGED diff
       \/ S!Current(r) /\ diff'.path = r.path
    /\ UNCHANGED <<epoch, rev, wanted>>
FailStep ==
  \E r \in requests :
    /\ requests' = requests \ {r}
    /\ wanted' = IF S!Current(r) /\ r.focus THEN diff.path ELSE wanted
    /\ UNCHANGED <<epoch, rev, diff>>
CloseStep ==
  /\ diff' = S!NoDiff /\ wanted' \in {wanted, "none"}
  /\ UNCHANGED <<epoch, rev, requests>>
ResetStep ==
  /\ epoch' = epoch + 1 /\ diff' = S!NoDiff /\ wanted' = "none"
  /\ UNCHANGED <<rev, requests>>
RequestStep ==
  \/ Quiet \/ ClickStep \/ RefreshStep \/ AnswerStep \/ FailStep \/ CloseStep \/ ResetStep

LEMMA OpenIsClick ==
  ASSUME NEW f \in RepoFiles, NEW context, S!OpenDiff(f, context) PROVE ClickStep
<1> DEFINE q == S!Request(f, context, TRUE, text)
<1>1. /\ requests' = requests \cup {q} /\ rev' = rev + 1 /\ wanted' = f
      /\ UNCHANGED <<epoch, diff>>
  BY DEF S!OpenDiff
<1>2. q.rev = rev + 1 /\ q.epoch = epoch /\ q.path = f /\ q.seen = text[f] /\ q.focus
  BY DEF S!Request
<1> HIDE DEF q
<1> QED BY <1>1, <1>2 DEF ClickStep, Adds

LEMMA AnswerAnswers == ASSUME NEW r \in requests, S!DiffAnswered(r) PROVE AnswerStep
<1>1. CASE ~S!Current(r)
  BY <1>1 DEF S!DiffAnswered, AnswerStep
<1>2. CASE S!Current(r)
  <2>1. PICK t : diff' = [path |-> r.path, context |-> r.context, text |-> t, rev |-> r.rev]
    BY <1>2 DEF S!DiffAnswered
  <2>2. diff'.path = r.path
    BY <2>1
  <2> QED BY <1>2, <2>2 DEF S!DiffAnswered, AnswerStep
<1> QED BY <1>1, <1>2

\* Every step of the status is one of them.
LEMMA StatusSteps == ASSUME Requests, [S!Next]_(S!vars) PROVE RequestStep
<1> USE DEF RequestStep
<1>1. ASSUME NEW f \in RepoFiles, NEW c, S!OpenDiff(f, c) PROVE RequestStep
  BY <1>1, OpenIsClick
<1>2. ASSUME NEW r \in requests, S!DiffAnswered(r) PROVE RequestStep
  BY <1>2, AnswerAnswers
<1>3. ASSUME NEW r \in requests, S!DiffFails(r) PROVE RequestStep
  BY <1>3 DEF S!DiffFails, FailStep
<1>4. CASE S!CloseDiff
  BY <1>4 DEF S!CloseDiff, CloseStep
<1>5. CASE S!TypeInPane
  <2>1. UNCHANGED <<requests, rev>> \/ S!Refreshing(status, text')
    BY <1>5 DEF S!TypeInPane
  <2>2. UNCHANGED <<epoch, diff, wanted>>
    BY <1>5 DEF S!TypeInPane
  <2> QED BY <2>1, <2>2, RefreshingRefreshes DEF RefreshStep, Refreshes
<1>6. ASSUME NEW f \in RepoFiles, S!EditWritten(f) PROVE RequestStep
  <2>1. UNCHANGED <<requests, rev>> \/ S!Refreshing(status, text')
    BY <1>6 DEF S!EditWritten
  <2>2. UNCHANGED <<epoch, diff, wanted>>
    BY <1>6 DEF S!EditWritten
  <2> QED BY <2>1, <2>2, RefreshingRefreshes DEF RefreshStep, Refreshes
<1>7. ASSUME NEW r \in refreshes, S!RefreshDone(r) PROVE RequestStep
  <2>1. UNCHANGED <<requests, rev>> \/ S!Refreshing(status', text)
    BY <1>7 DEF S!RefreshDone
  <2>2. UNCHANGED <<epoch, diff, wanted>>
    BY <1>7 DEF S!RefreshDone
  <2> QED BY <2>1, <2>2, RefreshingRefreshes DEF RefreshStep, Refreshes
<1>8. CASE S!Refresh \/ (\E r \in refreshes : S!RefreshFails(r)) \/ S!TypeMessage \/ S!UseSuggestion
  BY <1>8 DEF S!Refresh, S!RefreshFails, S!TypeMessage, S!UseSuggestion, S!Diff, Quiet
<1>9. CASE \E k \in S!Kinds, f \in RepoFiles : S!RunOp(k, f)
  BY <1>9 DEF S!RunOp, S!Diff, Quiet
<1>10. CASE \E o \in running : S!OpDone(o) \/ S!OpFails(o)
  BY <1>10 DEF S!OpDone, S!OpFails, S!Diff, Quiet
<1>11. CASE S!ResetForWorkspace
  BY <1>11 DEF S!ResetForWorkspace, ResetStep
<1>12. CASE UNCHANGED S!vars
  BY <1>12 DEF S!vars, Quiet
<1> QED BY <1>1, <1>2, <1>3, <1>4, <1>5, <1>6, <1>7, <1>8, <1>9, <1>10, <1>11, <1>12 DEF S!Next

LEMMA RequestsKept == ASSUME Counted, Requests, RequestStep PROVE Counted' /\ Requests'
<1> USE DEF Counted, Requests
<1>1. S!NoDiff.path = "none" /\ S!NoDiff' = S!NoDiff
  BY DEF S!NoDiff
<1>2. ASSUME NEW q, NEW texts, Adds(q, texts), UNCHANGED <<epoch, diff>> PROVE Counted' /\ Requests'
  BY <1>1, <1>2 DEF Adds
<1>3. CASE Quiet \/ ClickStep \/ RefreshStep
  BY <1>1, <1>2, <1>3 DEF Quiet, ClickStep, RefreshStep, Refreshes
<1>4. CASE AnswerStep \/ FailStep
  BY <1>1, <1>4 DEF AnswerStep, FailStep
<1>5. CASE CloseStep \/ ResetStep
  BY <1>1, <1>5 DEF CloseStep, ResetStep
<1> QED BY <1>3, <1>4, <1>5 DEF RequestStep

\* Once the revision or the workspace moved on, no earlier request is current.
LEMMA Superseded ==
  ASSUME Counted, Requests, NEW r \in requests,
         (rev' = rev + 1 /\ epoch' = epoch) \/ (epoch' = epoch + 1 /\ rev' = rev)
  PROVE  ~S!Current(r)'
BY DEF Counted, Requests, S!Current

LEMMA ClickedKept == ASSUME Counted, Requests, Clicked, RequestStep PROVE Clicked'
<1>1. "none" \notin RepoFiles /\ S!NoDiff.path = "none"
  BY StatusAssumption DEF S!StatusAssumption, S!NoDiff
<1>2. CASE Quiet
  BY <1>2 DEF Quiet, Clicked, S!Current, S!UserRequests
<1>3. CASE ClickStep
  <2>1. PICK q : Adds(q, text) /\ q.focus /\ q.path = wanted'
    BY <1>3 DEF ClickStep
  <2>2. \A r \in requests : ~S!Current(r)'
    BY <1>3, <2>1, Superseded DEF ClickStep, Adds
  <2>3. q \in S!UserRequests' /\ S!Current(q)'
    BY <1>3, <2>1 DEF S!UserRequests, Adds, S!Current, ClickStep
  <2> QED BY <2>1, <2>2, <2>3 DEF Clicked, Adds
<1>4. CASE RefreshStep /\ UNCHANGED <<requests, rev>>
  BY <1>4 DEF RefreshStep, Clicked, S!Current, S!UserRequests
<1>5. ASSUME NEW texts, NEW q, Adds(q, texts), S!UserRequests = {}, diff # S!NoDiff,
             q.path = diff.path, UNCHANGED <<epoch, diff, wanted>>
      PROVE  Clicked'
  <2>1. \A r \in requests : ~S!Current(r)'
    BY <1>5, Superseded DEF Adds
  <2>2. wanted # "none" => diff.path = wanted
    BY <1>1, <1>5 DEF Clicked, Requests
  <2> QED BY <1>5, <2>1, <2>2 DEF Clicked, Adds
<1>6. CASE RefreshStep
  BY <1>4, <1>5, <1>6 DEF RefreshStep, Refreshes
<1>7. CASE AnswerStep
  <2>1. PICK r \in requests :
          /\ requests' = requests \ {r}
          /\ \/ ~S!Current(r) /\ UNCHANGED diff
             \/ S!Current(r) /\ diff'.path = r.path
          /\ UNCHANGED <<epoch, rev, wanted>>
    BY <1>7 DEF AnswerStep
  <2>2. \A s \in requests' : s \in requests /\ (S!Current(s)' <=> S!Current(s))
    BY <2>1 DEF S!Current
  <2>3. S!UserRequests' = S!UserRequests \ {r}
    BY <2>1 DEF S!UserRequests
  <2> QED BY <2>1, <2>2, <2>3 DEF Clicked, S!UserRequests
<1>8. CASE FailStep
  <2>1. PICK r \in requests :
          /\ requests' = requests \ {r}
          /\ wanted' = IF S!Current(r) /\ r.focus THEN diff.path ELSE wanted
          /\ UNCHANGED <<epoch, rev, diff>>
    BY <1>8 DEF FailStep
  <2>2. \A s \in requests' : s \in requests /\ s # r /\ (S!Current(s)' <=> S!Current(s))
    BY <2>1 DEF S!Current
  <2>3. S!UserRequests' = S!UserRequests \ {r}
    BY <2>1 DEF S!UserRequests
  <2>4. \A s \in requests' : S!Current(s) => ~S!Current(r)
    BY <2>1, <2>2 DEF S!Current, Requests
  <2>5. CASE S!Current(r) /\ r.focus
    BY <2>1, <2>2, <2>4, <2>5 DEF Clicked
  <2>6. CASE ~(S!Current(r) /\ r.focus)
    BY <2>1, <2>2, <2>3, <2>6 DEF Clicked, S!UserRequests
  <2> QED BY <2>5, <2>6
<1>9. CASE CloseStep
  <2>1. \A r : S!Current(r)' <=> S!Current(r)
    BY <1>9 DEF CloseStep, S!Current
  <2> QED BY <1>1, <1>9, <2>1 DEF CloseStep, Clicked
<1>10. CASE ResetStep
  BY <1>10 DEF ResetStep, Clicked
<1> QED BY <1>2, <1>3, <1>6, <1>7, <1>8, <1>9, <1>10 DEF RequestStep

-----------------------------------------------------------------------------
(* The status: the snapshot and the operations.                             *)

Started(o) == o.epoch = epoch /\ running' = running \cup {o} /\ opFlag' # "none"

LEMMA RunStarts ==
  ASSUME NEW k \in S!Kinds, NEW f, S!RunOp(k, f) PROVE opFlag = "none" /\ \E o : Started(o)
<1> DEFINE o == [epoch |-> epoch, kind |-> k, file |-> f]
<1>1. o.epoch = epoch
  OBVIOUS
<1>2. running' = running \cup {o} /\ opFlag' = k /\ opFlag = "none"
  BY DEF S!RunOp
<1>3. k # "none"
  BY DEF S!Kinds
<1> HIDE DEF o
<1> QED BY <1>1, <1>2, <1>3 DEF Started

LEMMA OpsKept == ASSUME Counted, Ops, [S!Next]_(S!vars) PROVE Ops'
<1> USE DEF Ops, Counted, S!PanelCurrent, S!OpCurrent
<1>1. CASE UNCHANGED <<epoch, status, running, opFlag>>
  BY <1>1
<1>2. CASE \E f \in RepoFiles, c \in {"staged", "unstaged"} : S!OpenDiff(f, c)
  BY <1>1, <1>2 DEF S!OpenDiff, S!Panel
<1>3. CASE (\E r \in requests : S!DiffAnswered(r) \/ S!DiffFails(r)) \/ S!CloseDiff
  BY <1>1, <1>3 DEF S!DiffAnswered, S!DiffFails, S!CloseDiff, S!Panel
<1>4. CASE S!TypeInPane \/ (\E f \in RepoFiles : S!EditWritten(f)) \/ S!Refresh
  BY <1>1, <1>4 DEF S!TypeInPane, S!EditWritten, S!Refresh, S!Panel
<1>5. ASSUME NEW r \in refreshes, S!RefreshDone(r) PROVE Ops'
  <2>1. UNCHANGED <<epoch, running, opFlag>>
    BY <1>5 DEF S!RefreshDone, S!Panel
  <2>2. UNCHANGED status \/ status'.epoch = epoch
    <3>1. CASE r.epoch # epoch
      BY <1>5, <3>1 DEF S!RefreshDone
    <3>2. CASE r.epoch = epoch
      <4>1. PICK c : status' = [epoch |-> epoch, class |-> c]
        BY <1>5, <3>2 DEF S!RefreshDone
      <4> QED BY <4>1
    <3> QED BY <3>1, <3>2
  <2> QED BY <2>1, <2>2 DEF S!NoStatus
<1>6. CASE (\E r \in refreshes : S!RefreshFails(r)) \/ S!TypeMessage \/ S!UseSuggestion
  BY <1>1, <1>6 DEF S!RefreshFails, S!TypeMessage, S!UseSuggestion, S!Panel
<1>7. ASSUME NEW k \in S!Kinds, NEW f \in RepoFiles, S!RunOp(k, f) PROVE Ops'
  <2>1. opFlag = "none" /\ \E o : Started(o)
    BY <1>7, RunStarts
  <2>2. PICK o : Started(o)
    BY <2>1
  <2>3. UNCHANGED <<epoch, status>>
    BY <1>7 DEF S!RunOp
  <2>4. \A p \in running : p.epoch # epoch
    BY <2>1
  <2> QED BY <2>2, <2>3, <2>4 DEF Started, S!NoStatus
<1>8. ASSUME NEW o \in running, S!OpDone(o) \/ S!OpFails(o) PROVE Ops'
  <2>1. UNCHANGED <<epoch, status>> /\ running' = running \ {o}
    BY <1>8 DEF S!OpDone, S!OpFails, S!OpSettled
  <2>2. CASE o.epoch = epoch
    <3>1. opFlag' = "none"
      BY <1>8, <2>2 DEF S!OpDone, S!OpFails, S!OpSettled
    <3> QED BY <2>1, <2>2, <3>1 DEF S!NoStatus
  <2>3. CASE o.epoch # epoch
    <3>1. UNCHANGED opFlag
      BY <1>8, <2>3 DEF S!OpDone, S!OpFails, S!OpSettled
    <3> QED BY <2>1, <2>3, <3>1 DEF S!NoStatus
  <2> QED BY <2>2, <2>3
<1>9. CASE S!ResetForWorkspace
  <2>1. /\ epoch' = epoch + 1 /\ status' = S!NoStatus /\ opFlag' = "none"
        /\ UNCHANGED running
    BY <1>9 DEF S!ResetForWorkspace
  <2> QED BY <2>1 DEF S!NoStatus
<1>10. CASE UNCHANGED S!vars
  BY <1>1, <1>10 DEF S!vars
<1> QED BY <1>2, <1>3, <1>4, <1>5, <1>6, <1>7, <1>8, <1>9, <1>10 DEF S!Next

StatusInv == Counted /\ Ops /\ Requests /\ Clicked

LEMMA StatusInit == ASSUME S!Init PROVE StatusInv
BY DEF S!Init, StatusInv, Counted, Ops, S!PanelCurrent, S!OpCurrent, S!NoStatus, Requests, S!NoDiff,
       Clicked, S!UserRequests

LEMMA StatusKept == ASSUME StatusInv, [S!Next]_(S!vars) PROVE StatusInv'
BY StatusSteps, RequestsKept, ClickedKept, OpsKept DEF StatusInv

\* A step of another component leaves the status to its own behaviours.
LEMMA StatusAlone == ASSUME [Next]_vars, part = "status" PROVE part' = part /\ [S!Next]_(S!vars)
BY DEF Next, SStep, MStep, EStep, GStep, LStep, QStep, VStep, SRest, vars, S!vars

LEMMA PartKept == ASSUME [Next]_vars PROVE part' = part
BY DEF Next, SStep, MStep, EStep, GStep, LStep, QStep, VStep, SRest, MRest, ERest, GRest, LRest,
       QRest, VRest, vars

(* A click on a change is never dead, whatever refreshes and clicks overlap  *)
(* it, and the panel shows the workspace that is open and the one operation  *)
(* that runs in it, for any files and any number of clicks, refreshes,      *)
(* operations, switches and failures.                                       *)
THEOREM PanelSoundAlways == Spec => []PanelSound
<1> DEFINE I == part = "status" => StatusInv
<1>1. Init => I
  BY StatusInit DEF Init
<1>2. I /\ [Next]_vars => I'
  BY StatusAlone, StatusKept, PartKept
<1>3. I => PanelSound
  BY DEF StatusInv, Ops, Clicked, PanelSound, S!ClickWins
<1> QED BY <1>1, <1>2, <1>3, PTL DEF Spec

-----------------------------------------------------------------------------
(* The status: the pane.                                                    *)

Keys == 1..typed
Pane == [path : RepoFiles \cup {"none"}, doc : SUBSET Keys, edits : Nat, barrier : Nat, born : 0..typed]

PaneType ==
  /\ typed \in Nat /\ text \in [RepoFiles -> SUBSET Keys] /\ pane \in Pane
  /\ \A r \in requests : r.seen \in SUBSET Keys

\* While the files are open in the editor nothing waits for the disk; the buffer has of the
\* keystrokes since the pane was built what the pane has; and so does a request that may
\* replace its text.
PaneInv ==
  /\ PaneType
  /\ \A f \in RepoFiles : pending[f] = S!NoText
  /\ pane.path = "none" => pane.doc = {}
  /\ pane.path # "none" => S!Since(text[pane.path]) = S!Since(pane.doc)
  /\ \A r \in requests :
       S!Current(r) /\ r.path = pane.path /\ (pane.edits = 0 \/ r.rev > pane.barrier) =>
         S!Since(r.seen) = S!Since(pane.doc)

\* Steps that leave the texts and the pane alone, and those that build it anew.
PaneRests == UNCHANGED <<text, pending, pane, typed>>
PaneGone == pane' = S!NoPane /\ UNCHANGED <<text, pending, typed>>

LEMMA NoPaneType == ASSUME typed \in Nat PROVE S!NoPane \in Pane /\ S!NoPane.path = "none" /\ S!NoPane.doc = {}
BY DEF S!NoPane, Pane

\* A new request has read the buffer; requests that are left stay as they were.
LEMMA PaneRestsKeeps ==
  ASSUME Counted, Requests, PaneInv, RequestStep, PaneRests PROVE PaneInv'
<1> USE DEF PaneInv, PaneType, PaneRests
<1>0. "none" \notin RepoFiles
  BY StatusAssumption DEF S!StatusAssumption
<1>1. /\ PaneType' <=> (\A r \in requests' : r.seen \in SUBSET Keys)
      /\ \A d : S!Since(d)' = S!Since(d)
  BY DEF Pane, Keys, S!Since
<1>2. ASSUME requests' \subseteq requests, \A r \in requests' : S!Current(r)' => S!Current(r)
      PROVE  PaneInv'
  BY <1>1, <1>2 DEF S!Since, S!NoText
<1>3. ASSUME NEW q, Adds(q, text) \/ Adds(q, text'), UNCHANGED epoch PROVE PaneInv'
  <2>1. \A r \in requests : ~S!Current(r)'
    BY <1>3, Superseded DEF Adds
  <2>2. q.seen = text[q.path] /\ q.path \in RepoFiles /\ requests' = requests \cup {q}
    BY <1>3 DEF Adds
  <2>3. q.seen \in SUBSET Keys
    BY <2>2
  <2> QED BY <1>0, <1>1, <2>1, <2>2, <2>3 DEF S!Since, S!NoText
<1>4. CASE Quiet \/ AnswerStep \/ FailStep \/ CloseStep
  BY <1>2, <1>4 DEF Quiet, AnswerStep, FailStep, CloseStep, S!Current
<1>5. CASE ClickStep \/ RefreshStep
  BY <1>2, <1>3, <1>5 DEF ClickStep, RefreshStep, Refreshes, S!Current
<1>6. CASE ResetStep
  <2>1. \A r \in requests : ~S!Current(r)'
    BY <1>6, Superseded DEF ResetStep
  <2> QED BY <1>2, <1>6, <2>1 DEF ResetStep
<1> QED BY <1>4, <1>5, <1>6 DEF RequestStep

LEMMA PaneGoneKeeps ==
  ASSUME Counted, Requests, PaneInv, PaneGone, requests' = requests PROVE PaneInv'
<1>1. "none" \notin RepoFiles
  BY StatusAssumption DEF S!StatusAssumption
<1>2. pane' \in Pane' /\ pane'.path = "none" /\ pane'.doc = {}
  BY NoPaneType DEF PaneGone, PaneInv, PaneType, Pane, Keys
<1> QED BY <1>1, <1>2 DEF PaneGone, PaneInv, PaneType, Keys, S!NoText, Requests

\* What an answer makes of the pane: it is built anew, or shows the text that was read, or
\* keeps what was typed.
Makes(p, d) ==
  /\ p \in Pane
  /\ \/ p = S!NoPane
     \/ p.path = d.path /\ d.path # pane.path /\ p.doc = d.text /\ p.born = typed
     \/ p.path = pane.path /\ p.born = pane.born /\ p.doc = pane.doc
     \/ /\ p.path = pane.path /\ p.born = pane.born /\ p.doc = d.text
        /\ pane.path = d.path /\ (pane.edits = 0 \/ d.rev > pane.barrier)

LEMMA ReconciledMakes ==
  ASSUME NEW d, PaneInv, d.path \in RepoFiles, d.text \in SUBSET Keys
  PROVE  Makes(S!Reconciled(pane, d), d)
<1> DEFINE p == S!Reconciled(pane, d)
<1> SUFFICES Makes(p, d)
  OBVIOUS
<1>0. typed \in Nat /\ pane \in Pane
  BY DEF PaneInv, PaneType
<1>1. CASE ~S!Editable(d)
  <2>1. p = S!NoPane
    BY <1>1 DEF S!Reconciled
  <2> HIDE DEF p
  <2> QED BY <1>0, <2>1, NoPaneType DEF Makes
<1>2. CASE S!Editable(d) /\ ~S!SameFile(pane, d)
  <2>1. p = [path |-> d.path, doc |-> d.text, edits |-> 0, barrier |-> pane.barrier, born |-> typed]
    BY <1>2 DEF S!Reconciled, S!Rebuilt
  <2> HIDE DEF p
  <2>2. p.path = d.path /\ p.doc = d.text /\ p.born = typed /\ d.path # pane.path
    BY <1>2, <2>1 DEF S!SameFile
  <2>3. pane.barrier \in Nat /\ typed \in 0..typed
    BY <1>0 DEF Pane
  <2>4. p \in Pane
    BY <2>1, <2>3 DEF Pane
  <2> QED BY <2>2, <2>4 DEF Makes
<1>3. CASE S!Editable(d) /\ S!SameFile(pane, d) /\ pane.doc = d.text
  <2>1. p = [pane EXCEPT !.edits = 0]
    BY <1>3 DEF S!Reconciled
  <2> HIDE DEF p
  <2>2. p \in Pane /\ p.path = pane.path /\ p.born = pane.born /\ p.doc = pane.doc
    BY <1>0, <2>1 DEF Pane
  <2> QED BY <1>3, <2>2 DEF Makes
<1>4. CASE /\ S!Editable(d) /\ S!SameFile(pane, d) /\ pane.doc # d.text
           /\ pane.edits = 0 \/ S!PostEdit(d)
  <2>1. p = [pane EXCEPT !.doc = d.text, !.edits = 0]
    BY <1>4 DEF S!Reconciled
  <2> HIDE DEF p
  <2>2. p \in Pane /\ p.path = pane.path /\ p.born = pane.born /\ p.doc = d.text
    BY <1>0, <2>1 DEF Pane
  <2> QED BY <1>4, <2>2 DEF Makes, S!SameFile, S!PostEdit
<1>5. CASE /\ S!Editable(d) /\ S!SameFile(pane, d) /\ pane.doc # d.text
           /\ ~(pane.edits = 0 \/ S!PostEdit(d))
  <2>1. p = pane
    BY <1>5 DEF S!Reconciled
  <2> HIDE DEF p
  <2> QED BY <1>0, <2>1 DEF Makes
<1> QED BY <1>1, <1>2, <1>3, <1>4, <1>5

Forward == pane'.path = pane.path => S!Since(pane.doc) \subseteq pane'.doc

LEMMA AnswerKeepsPane ==
  ASSUME Counted, Requests, PaneInv, NEW r \in requests, S!DiffAnswered(r)
  PROVE  PaneInv' /\ Forward
<1> USE DEF PaneInv, PaneType
<1>0. "none" \notin RepoFiles
  BY StatusAssumption DEF S!StatusAssumption
<1>1. /\ requests' = requests \ {r}
      /\ UNCHANGED <<epoch, rev, text, pending, typed>>
  BY DEF S!DiffAnswered, S!World
<1>2. \A s : S!Current(s)' <=> S!Current(s)
  BY <1>1 DEF S!Current
<1>3. CASE ~S!Current(r)
  <2>1. UNCHANGED pane
    BY <1>3 DEF S!DiffAnswered
  <2> QED BY <1>1, <1>2, <2>1 DEF S!Since, Pane, Keys, Forward, S!NoText
<1>4. CASE S!Current(r)
  <2>1. PICK t \in {r.seen, text[r.path]} :
          LET d == [path |-> r.path, context |-> r.context, text |-> t, rev |-> r.rev]
          IN pane' = S!Reconciled(pane, d)
    BY <1>4 DEF S!DiffAnswered
  <2> DEFINE d == [path |-> r.path, context |-> r.context, text |-> t, rev |-> r.rev]
  <2>2. d.path = r.path /\ d.text = t /\ d.rev = r.rev /\ pane' = S!Reconciled(pane, d)
    BY <2>1
  <2> HIDE DEF d
  <2>3. r.path \in RepoFiles /\ t \in SUBSET Keys
    BY DEF Requests
  <2>4. \A s \in requests' : ~S!Current(s)'
    BY <1>1, <1>2, <1>4 DEF Requests, S!Current
  <2>5. pane' \in Pane
    BY <2>2, <2>3, ReconciledMakes DEF Makes
  <2>6. PaneType'
    BY <1>1, <2>5 DEF Pane, Keys
  <2>7. ASSUME pane' = S!NoPane PROVE PaneInv' /\ Forward
    BY <1>1, <2>4, <2>6, <2>7, NoPaneType DEF Forward, S!Since, S!NoText
  <2>8. ASSUME pane'.path = r.path, r.path # pane.path, pane'.doc = t, pane'.born = typed
        PROVE  PaneInv' /\ Forward
    <3>1. S!Since(text[pane.path])' = S!Since(pane.doc)'
      BY <1>1, <2>3, <2>8 DEF S!Since, Keys
    <3> QED BY <1>0, <1>1, <2>3, <2>4, <2>6, <2>8, <3>1 DEF Forward, S!NoText
  <2>9. ASSUME pane'.path = pane.path, pane'.doc = pane.doc, pane'.born = pane.born
        PROVE  PaneInv' /\ Forward
    BY <1>1, <2>4, <2>6, <2>9 DEF Forward, S!Since, S!NoText
  <2>10. ASSUME pane'.path = pane.path, pane'.born = pane.born, pane'.doc = t, pane.path = r.path,
                pane.edits = 0 \/ r.rev > pane.barrier
         PROVE  PaneInv' /\ Forward
    <3>1. S!Since(t) = S!Since(pane.doc)
      BY <1>0, <1>4, <2>3, <2>10
    <3>2. S!Since(pane.doc)' = S!Since(t) /\ S!Since(text[pane.path])' = S!Since(text[pane.path])
      BY <1>1, <2>10 DEF S!Since
    <3> QED BY <1>0, <1>1, <2>3, <2>4, <2>6, <2>10, <3>1, <3>2 DEF Forward, S!Since, S!NoText
  <2> QED BY <2>2, <2>3, <2>7, <2>8, <2>9, <2>10, ReconciledMakes DEF Makes
<1> QED BY <1>3, <1>4

LEMMA TypingKeepsPane ==
  ASSUME Counted, Requests, PaneInv, S!TypeInPane, buffered PROVE PaneInv' /\ Forward
<1> DEFINE new == pane.doc \cup {typed + 1}
           f == diff.path
<1>0. PaneType /\ rev \in Nat /\ (\A p \in RepoFiles : pending[p] = S!NoText)
  BY DEF PaneInv, Counted
<1>1. /\ f \in RepoFiles /\ pane.path = f /\ typed' = typed + 1
      /\ pane' = [pane EXCEPT !.doc = new, !.edits = @ + 1, !.barrier = rev]
      /\ text' = [text EXCEPT ![f] = new] /\ UNCHANGED <<pending, epoch, diff>>
      /\ S!Refreshing(status, text')
  BY DEF S!TypeInPane, S!Editable, Requests
<1>2. /\ pane'.doc = new /\ pane'.path = f /\ pane'.born = pane.born
      /\ pane'.edits = pane.edits + 1 /\ pane'.barrier = rev /\ text'[f] = new
  BY <1>0, <1>1 DEF Pane, PaneType
<1>3. Keys \subseteq Keys' /\ typed' \in Nat /\ 0..typed \subseteq 0..typed' /\ new \in SUBSET Keys'
  BY <1>0, <1>1 DEF Pane, PaneType, Keys
<1> HIDE DEF new, f
<1>4. pane.path \in RepoFiles \cup {"none"} /\ pane.edits \in Nat /\ pane.born \in 0..typed
  BY <1>0 DEF Pane, PaneType
<1>5. pane' \in [path : RepoFiles \cup {"none"}, doc : SUBSET Keys', edits : Nat, barrier : Nat,
                 born : 0..typed']
  <2>1. /\ pane \in Pane /\ new \in SUBSET Keys' /\ pane.edits + 1 \in Nat /\ rev \in Nat
        /\ pane.path \in RepoFiles \cup {"none"} /\ pane.born \in 0..typed'
    BY <1>0, <1>3, <1>4 DEF PaneType
  <2> QED BY <1>1, <2>1 DEF Pane
<1>6. text' \in [RepoFiles -> SUBSET Keys']
  BY <1>0, <1>1, <1>3 DEF PaneType
<1>7. (\A r \in requests' : r.seen \in SUBSET Keys') => PaneType'
  BY <1>3, <1>5, <1>6 DEF PaneType, Pane, Keys
<1>8. S!Since(text[pane.path])' = S!Since(pane.doc)'
  BY <1>2 DEF S!Since
<1>9. Forward
  BY <1>2 DEF Forward, S!Since, new
<1>10. pane'.path \in RepoFiles /\ (\A p \in RepoFiles : pending'[p] = S!NoText) /\ pane'.path # "none"
  BY <1>0, <1>1, <1>2, StatusAssumption DEF S!StatusAssumption
<1>11. PaneType' /\ (\A r \in requests' :
         S!Current(r)' /\ r.path = pane'.path /\ (pane'.edits = 0 \/ r.rev > pane'.barrier) =>
           S!Since(r.seen)' = S!Since(pane.doc)') => PaneInv'
  BY <1>8, <1>10 DEF PaneInv, S!NoText
<1>12. CASE UNCHANGED <<requests, rev>>
  <2>1. \A r \in requests' : ~(r.rev > pane'.barrier) /\ pane'.edits # 0
    BY <1>2, <1>4, <1>12, <1>0 DEF Requests
  <2>2. PaneType'
    BY <1>0, <1>3, <1>7, <1>12 DEF PaneType
  <2> QED BY <1>9, <1>11, <2>1, <2>2
<1>13. ASSUME NEW q, Adds(q, text') PROVE PaneInv' /\ Forward
  <2>1. \A r \in requests : ~S!Current(r)'
    BY <1>1, <1>13, Superseded DEF Adds
  <2>2. q.seen \in SUBSET Keys' /\ (q.path = f => q.seen = pane'.doc)
    BY <1>2, <1>6, <1>13 DEF Adds
  <2>3. PaneType'
    BY <1>0, <1>3, <1>7, <1>13, <2>2 DEF Adds, PaneType
  <2>4. q.path = pane'.path => S!Since(q.seen)' = S!Since(pane.doc)'
    BY <1>2, <2>2 DEF S!Since
  <2>5. \A r \in requests' : r \in requests \/ r = q
    BY <1>13 DEF Adds
  <2> QED BY <1>9, <1>11, <2>1, <2>3, <2>4, <2>5
<1> QED BY <1>1, <1>12, <1>13, RefreshingRefreshes DEF Refreshes

\* Every step of the status keeps the pane and takes nothing from it, while the files are
\* open in the editor.
LEMMA PaneKept ==
  ASSUME Counted, Requests, PaneInv, buffered, [S!Next]_(S!vars) PROVE PaneInv' /\ Forward /\ buffered'
<1>0. RequestStep
  BY StatusSteps
<1>1. ASSUME PaneRests, UNCHANGED buffered PROVE PaneInv' /\ Forward /\ buffered'
  BY <1>0, <1>1, PaneRestsKeeps DEF Forward, PaneRests, S!Since
<1>2. ASSUME PaneGone, UNCHANGED <<buffered, requests>> PROVE PaneInv' /\ Forward /\ buffered'
  <2>1. pane.path # "none" \/ S!Since(pane.doc) = {}
    BY DEF PaneInv, S!Since
  <2>2. pane'.path = "none"
    BY <1>2 DEF PaneGone, S!NoPane
  <2> QED BY <1>2, <2>1, <2>2, PaneGoneKeeps DEF Forward
<1> USE DEF PaneRests, S!World, S!Diff
<1>3. CASE \E f \in RepoFiles, c \in {"staged", "unstaged"} : S!OpenDiff(f, c)
  BY <1>1, <1>3 DEF S!OpenDiff
<1>4. ASSUME NEW r \in requests, S!DiffAnswered(r) PROVE PaneInv' /\ Forward /\ buffered'
  BY <1>4, AnswerKeepsPane DEF S!DiffAnswered
<1>5. CASE \E r \in requests : S!DiffFails(r)
  BY <1>1, <1>5 DEF S!DiffFails
<1>6. CASE S!CloseDiff
  BY <1>2, <1>6 DEF S!CloseDiff, PaneGone
<1>7. CASE S!TypeInPane
  BY <1>7, TypingKeepsPane DEF S!TypeInPane
<1>8. ASSUME NEW f \in RepoFiles, S!EditWritten(f) PROVE FALSE
  BY <1>8 DEF S!EditWritten, PaneInv
<1>9. CASE S!Refresh \/ \E r \in refreshes : S!RefreshDone(r) \/ S!RefreshFails(r)
  BY <1>1, <1>9 DEF S!Refresh, S!RefreshDone, S!RefreshFails
<1>10. CASE \E k \in S!Kinds, f \in RepoFiles : S!RunOp(k, f)
  BY <1>1, <1>10 DEF S!RunOp
<1>11. CASE \E o \in running : S!OpDone(o) \/ S!OpFails(o)
  BY <1>1, <1>11 DEF S!OpDone, S!OpFails
<1>12. CASE S!TypeMessage \/ S!UseSuggestion
  BY <1>1, <1>12 DEF S!TypeMessage, S!UseSuggestion
<1>13. CASE S!ResetForWorkspace
  BY <1>2, <1>13 DEF S!ResetForWorkspace, PaneGone
<1>14. CASE UNCHANGED S!vars
  BY <1>1, <1>14 DEF S!vars
<1> QED BY <1>3, <1>4, <1>5, <1>6, <1>7, <1>8, <1>9, <1>10, <1>11, <1>12, <1>13, <1>14 DEF S!Next

\* Where files are not open in the editor, they never are.
LEMMA BufferedKept == ASSUME [S!Next]_(S!vars) PROVE buffered' = buffered
BY DEF S!Next, S!vars, S!World, S!OpenDiff, S!DiffAnswered, S!DiffFails, S!CloseDiff, S!TypeInPane,
       S!EditWritten, S!Refresh, S!RefreshDone, S!RefreshFails, S!RunOp, S!OpDone, S!OpFails,
       S!TypeMessage, S!UseSuggestion, S!ResetForWorkspace

LEMMA PaneInit == ASSUME S!Init PROVE PaneInv
<1>1. typed = 0 /\ text = [f \in RepoFiles |-> {}] /\ pending = [f \in RepoFiles |-> S!NoText]
      /\ pane = S!NoPane /\ requests = {}
  BY DEF S!Init
<1> QED BY <1>1, NoPaneType DEF PaneInv, PaneType

(* A keystroke that went into the pane since it was built stays in it for as  *)
(* long as the pane shows the file, whatever clicks, refreshes, switches and  *)
(* late answers overlap it: no answer that read the file before the keystroke *)
(* replaces the text.                                                         *)
THEOREM PaneForwardAlways == Spec => PaneForward
<1> DEFINE J == part = "status" => StatusInv /\ (buffered => PaneInv)
           A == part = "status" /\ pane'.path = pane.path /\ buffered =>
                  S!Since(pane.doc) \subseteq pane'.doc
<1>1. Init => J
  BY StatusInit, PaneInit DEF Init
<1>2. J /\ [Next]_vars => J' /\ A
  <2> SUFFICES ASSUME J, [Next]_vars, part = "status" PROVE J' /\ A
    BY PartKept
  <2>1. StatusInv' /\ [S!Next]_(S!vars)
    BY StatusAlone, StatusKept
  <2>2. CASE buffered
    BY <2>1, <2>2, PaneKept DEF StatusInv, Forward
  <2>3. CASE ~buffered
    BY <2>1, <2>3, BufferedKept
  <2> QED BY <2>1, <2>2, <2>3
<1> QED BY <1>1, <1>2, PTL DEF Spec, PaneForward

-----------------------------------------------------------------------------
(* The merge session: what a step does to it.                               *)

SessionRecord(s) ==
  s = [path |-> s.path, rev |-> s.rev, epoch |-> s.epoch, queue |-> s.queue, writes |-> s.writes,
       stages |-> s.stages, text |-> s.text, kind |-> s.kind, decided |-> s.decided,
       side |-> s.side, applied |-> s.applied, shown |-> s.shown, dirty |-> s.dirty,
       reloading |-> s.reloading, closing |-> s.closing, notice |-> s.notice]

\* The bytes of a session are those it showed or wrote itself; a side it applied is what it
\* wrote then.
SideSound(s) == s.applied.side # "none" => s.applied.text = s.applied.side
Reviewed(text1, shown1) == text1 \in {shown1.text, "result"} \cup M!Sides
Sound(s) ==
  /\ SessionRecord(s) /\ SideSound(s)
  /\ s.stages = s.shown.stages /\ Reviewed(s.text, s.shown)
  /\ s.side \in M!Sides \cup {"none"} /\ s.kind \in {"text", "sides"}

\* Of the same request, and built from the same version; a side that was chosen stays chosen.
Follows(s, t) ==
  /\ t.rev = s.rev /\ t.epoch = s.epoch /\ t.shown = s.shown /\ t.kind = s.kind
  /\ s.side # "none" => t.side # "none"

Continues(s, t) == Sound(t) /\ Follows(s, t)

LEMMA MarksFollow ==
  ASSUME NEW s, Sound(s), NEW b
  PROVE  /\ Continues(s, [s EXCEPT !.reloading = b]) /\ Continues(s, [s EXCEPT !.closing = b])
         /\ Continues(s, [s EXCEPT !.notice = b]) /\ Continues(s, [s EXCEPT !.notice.hidden = b])
         /\ Continues(s, [s EXCEPT !.decided = b]) /\ Continues(s, [s EXCEPT !.dirty = b])
<1> DEFINE t1 == [s EXCEPT !.reloading = b]
           t2 == [s EXCEPT !.closing = b]
           t3 == [s EXCEPT !.notice = b]
           t4 == [s EXCEPT !.notice.hidden = b]
           t5 == [s EXCEPT !.decided = b]
           t6 == [s EXCEPT !.dirty = b]
<1> USE DEF SessionRecord
<1>0. SessionRecord(s)
  BY DEF Sound
<1>1. ASSUME NEW t, SessionRecord(t), t.rev = s.rev, t.epoch = s.epoch, t.shown = s.shown,
             t.applied = s.applied, t.kind = s.kind, t.stages = s.stages, t.text = s.text, t.side = s.side
      PROVE  Continues(s, t)
  BY <1>1 DEF Sound, Follows, SideSound, Continues
<1>2. Continues(s, t1)
  BY <1>0, <1>1
<1>3. Continues(s, t2)
  BY <1>0, <1>1
<1>4. Continues(s, t3)
  BY <1>0, <1>1
<1>5. Continues(s, t4)
  BY <1>0, <1>1
<1>6. Continues(s, t5)
  BY <1>0, <1>1
<1>7. Continues(s, t6)
  BY <1>0, <1>1
<1> QED BY <1>2, <1>3, <1>4, <1>5, <1>6, <1>7

LEMMA ContinueOn == ASSUME NEW s, NEW t, NEW u, Continues(s, t), Continues(t, u) PROVE Continues(s, u)
BY DEF Continues, Follows

LEMMA DecidedFollows ==
  ASSUME NEW s, Sound(s), NEW b PROVE Continues(s, [s EXCEPT !.decided = b, !.dirty = TRUE])
<1> DEFINE t == [s EXCEPT !.decided = b]
<1>1. Continues(s, t) /\ [s EXCEPT !.decided = b, !.dirty = TRUE] = [t EXCEPT !.dirty = TRUE]
  BY MarksFollow
<1> HIDE DEF t
<1> QED BY <1>1, MarksFollow, ContinueOn DEF Continues

LEMMA NoticedFollows == ASSUME NEW s, Sound(s), NEW n PROVE Continues(s, M!Noticed(s, n))
BY MarksFollow DEF M!Noticed, Follows, Continues

LEMMA SettledFollows == ASSUME NEW s, Sound(s) PROVE Continues(s, M!Settled(s))
BY MarksFollow DEF M!Settled, Follows, Continues

LEMMA ReconciledFollows ==
  ASSUME NEW s, Sound(s), NEW state PROVE Continues(s, M!Reconciled(s, state))
<1> DEFINE r == M!Reconciled(s, state)
<1> SUFFICES Continues(s, r)
  OBVIOUS
<1>1. Continues(s, [s EXCEPT !.notice = M!NoNotice])
  BY MarksFollow
<1>2. \/ r = [s EXCEPT !.notice = M!NoNotice]
      \/ r = M!Noticed(s, [kind |-> "resolved"]) \/ r = M!Noticed(s, [kind |-> "failed"])
      \/ r = M!Noticed(s, M!Changed(s, state, IF M!SameConflict(s, state) THEN "worktree" ELSE "conflict"))
  BY DEF M!Reconciled
<1>3. ASSUME NEW n PROVE Continues(s, M!Noticed(s, n))
  BY NoticedFollows
<1> HIDE DEF r
<1> QED BY <1>1, <1>2, <1>3

LEMMA DirtyRecord ==
  ASSUME NEW s, SessionRecord(s), NEW b
  PROVE  LET t == [s EXCEPT !.dirty = b]
         IN /\ SessionRecord(t) /\ t.side = s.side /\ t.rev = s.rev /\ t.epoch = s.epoch
            /\ t.shown = s.shown /\ t.stages = s.stages /\ t.text = s.text /\ t.kind = s.kind
<1> DEFINE t == [s EXCEPT !.dirty = b]
<1>1. SessionRecord(t)
  BY DEF SessionRecord
<1>2. /\ t.side = s.side /\ t.rev = s.rev /\ t.epoch = s.epoch
      /\ t.shown = s.shown /\ t.stages = s.stages /\ t.text = s.text /\ t.kind = s.kind
  BY DEF SessionRecord
<1> QED BY <1>1, <1>2

LEMMA SideFollows ==
  ASSUME NEW s, Sound(s), NEW side \in M!Sides PROVE Continues(s, M!SideChosen(s, side))
<1> DEFINE a == IF s.applied.side = side THEN s.applied ELSE M!NotApplied
           t1 == [s EXCEPT !.side = side]
           t2 == [t1 EXCEPT !.dirty = TRUE]
           t == [t2 EXCEPT !.applied = a]
<1>1. M!SideChosen(s, side) = t
  BY DEF M!SideChosen
<1>2. /\ SessionRecord(t1) /\ t1.side = side /\ t1.rev = s.rev /\ t1.epoch = s.epoch
      /\ t1.shown = s.shown /\ t1.stages = s.stages /\ t1.text = s.text /\ t1.kind = s.kind
  BY DEF Sound, SessionRecord
<1> HIDE DEF t1
<1>3. /\ SessionRecord(t2) /\ t2.side = side /\ t2.rev = s.rev /\ t2.epoch = s.epoch
      /\ t2.shown = s.shown /\ t2.stages = s.stages /\ t2.text = s.text /\ t2.kind = s.kind
  BY <1>2, DirtyRecord
<1>4. a.side # "none" => a.text = a.side
  BY DEF Sound, SideSound, M!NotApplied
<1>5. /\ SessionRecord(t) /\ t.side = side /\ t.rev = s.rev /\ t.epoch = s.epoch
      /\ t.shown = s.shown /\ t.stages = s.stages /\ t.text = s.text /\ t.kind = s.kind /\ t.applied = a
  <2> HIDE DEF t2, a
  <2> QED BY <1>3 DEF SessionRecord
<1> HIDE DEF t, a
<1> QED BY <1>1, <1>4, <1>5 DEF Sound, Follows, SideSound, Continues, M!Sides

LEMMA FreshSound ==
  ASSUME NEW base, NEW state
  PROVE  /\ Sound(M!Fresh(base, state))
         /\ M!Fresh(base, state).rev = base.rev /\ M!Fresh(base, state).epoch = base.epoch
<1> DEFINE t == M!Fresh(base, state)
<1> SUFFICES Sound(t) /\ t.rev = base.rev /\ t.epoch = base.epoch
  OBVIOUS
<1>1. SessionRecord(t)
  BY DEF M!Fresh, SessionRecord
<1>2. /\ t.rev = base.rev /\ t.epoch = base.epoch /\ t.stages = state.stages /\ t.text = state.text
      /\ t.shown = state /\ t.side = "none" /\ t.applied = M!NotApplied
      /\ t.kind \in {"text", "sides"}
  BY DEF M!Fresh, M!Kind
<1>3. M!NotApplied.side = "none"
  BY DEF M!NotApplied
<1> HIDE DEF t
<1> QED BY <1>1, <1>2, <1>3 DEF Sound, SideSound, Reviewed

-----------------------------------------------------------------------------
(* The merge session: requests.                                             *)

\* A request on its way is not the session's, and the session is the newest one's.
OpenInv ==
  /\ revision \in Nat
  /\ open.phase # "no" => open.rev \in Nat /\ open.rev <= revision
  /\ open.phase # "no" /\ M!InSession => open.rev # revision
SessionInv == M!InSession => Sound(session) /\ session.rev = revision /\ session.epoch = epoch

\* A finalize under way is of a decision; what it was built from is what its session showed.
FinalRecord(f) ==
  f = [phase |-> f.phase, rev |-> f.rev, epoch |-> f.epoch, path |-> f.path, kind |-> f.kind,
       side |-> f.side, base |-> f.base, writes |-> f.writes, expected |-> f.expected,
       shown |-> f.shown, applied |-> f.applied, queue |-> f.queue, over |-> f.over]
Chosen(f) == IF f.kind = "sides" THEN f.side ELSE "result"
FinalSound(f) ==
  /\ FinalRecord(f) /\ SideSound(f)
  /\ f.kind \in {"text", "sides"} /\ (f.kind = "sides" => f.side \in M!Sides)
  /\ f.phase = "stage" => f.expected.text = Chosen(f)
  /\ f.phase # "stage" => /\ f.expected = M!Version(f.expected)
                          /\ f.expected.stages = f.shown.stages
                          /\ f.over \/ Reviewed(f.expected.text, f.shown)
FinalInv ==
  /\ M!Finalizing => /\ final.rev \in Nat /\ final.rev <= revision
                     /\ open.phase # "no" => open.rev # final.rev
  /\ M!InFlight =>
       FinalSound(final) /\ (M!InSession /\ session.rev = final.rev => session.shown = final.shown)
  /\ final.phase = "fresh" =>
       (M!InSession /\ session.rev = final.rev => session.kind # "sides" \/ session.side # "none")

AdvanceInv == advancing => final.phase = "advance"

\* What a step makes of the session, where it leaves the requests alone.
Keeps == UNCHANGED <<session, revision, epoch>>
Edits ==
  M!InSession /\ Continues(session, session') /\ UNCHANGED <<revision, epoch>>
Drops == session' = M!NoSession /\ revision' \in {revision, revision + 1}
Renews ==
  /\ M!InSession /\ Sound(session') /\ session'.epoch = session.epoch
  /\ session'.rev = revision + 1 /\ revision' = revision + 1 /\ UNCHANGED epoch
Turns == (Keeps \/ Edits \/ Drops \/ Renews) /\ UNCHANGED open

LEMMA TurnKeeps == ASSUME OpenInv, SessionInv, Turns PROVE OpenInv' /\ SessionInv'
<1> USE DEF OpenInv, SessionInv, Turns, M!InSession
<1>1. M!NoSession' = M!NoSession
  BY DEF M!NoSession
<1>2. CASE Keeps \/ Drops
  BY <1>1, <1>2 DEF Keeps, Drops, Sound, SessionRecord, SideSound, Reviewed, M!Sides
<1>3. CASE Edits \/ Renews
  BY <1>1, <1>3 DEF Edits, Renews, Continues, Follows, Sound, SessionRecord, SideSound, Reviewed, M!Sides
<1> QED BY <1>2, <1>3

\* A finalize that goes on, or is over.
FinalRests == UNCHANGED final \/ ~M!Finalizing'

LEMMA RestKeepsFinal ==
  ASSUME OpenInv, SessionInv, FinalInv, Turns, FinalRests PROVE FinalInv'
<1>1. CASE ~M!Finalizing'
  BY <1>1 DEF FinalInv, M!Finalizing
<1>2. CASE UNCHANGED final /\ M!Finalizing
  <2>1. revision' \in Nat /\ revision' >= revision
    BY DEF Turns, Keeps, Edits, Drops, Renews, OpenInv
  <2>2. M!InFlight => FinalSound(final)'
    BY <1>2 DEF FinalInv, FinalSound, FinalRecord, SideSound, Chosen, Reviewed, M!Sides, M!Version
  <2>3. M!InSession' /\ session'.rev = final.rev =>
          /\ M!InSession /\ session.rev = final.rev /\ session'.shown = session.shown
          /\ session'.kind = session.kind /\ (session.side # "none" => session'.side # "none")
    BY <1>2 DEF FinalInv, Turns, Keeps, Edits, Drops, Renews, OpenInv, Continues, Follows,
                M!InSession, M!NoSession
  <2> QED BY <1>2, <2>1, <2>2, <2>3 DEF FinalInv, Turns, OpenInv, M!InFlight, M!Finalizing
<1> QED BY <1>1, <1>2 DEF FinalRests, M!InFlight, M!Finalizing

-----------------------------------------------------------------------------
(* The merge session: the steps.                                            *)

MergeInv == OpenInv /\ SessionInv /\ FinalInv /\ AdvanceInv
Rests == Turns /\ FinalRests

LEMMA RestsKeep ==
  ASSUME OpenInv, SessionInv, FinalInv, Rests PROVE OpenInv' /\ SessionInv' /\ FinalInv'
BY TurnKeeps, RestKeepsFinal DEF Rests

LEMMA IdleNotInFlight == M!Idle.phase = "idle" /\ M!Idle' = M!Idle
BY DEF M!Idle

\* Steps outside the surface, and those of the user on it.
LEMMA OutsideRests ==
  ASSUME \/ \E p \in Busy : M!Outside(p) \/ M!TabEdit(p) \/ M!TabSaves(p) \/ M!TabWritten(p) \/ M!TabReloads(p)
         \/ M!GitOpStarts \/ M!GitOpEnds \/ M!MergeFileChanged
  PROVE  Rests
BY DEF M!Outside, M!TabEdit, M!TabSaves, M!TabWritten, M!TabReloads, M!GitOpStarts, M!GitOpEnds,
       M!MergeFileChanged, Rests, Turns, Keeps, FinalRests

LEMMA DecisionRests ==
  ASSUME SessionInv,
         \/ M!RecordDecision \/ M!ReopenDecision \/ (\E side \in M!Sides : M!SelectMergeSide(side))
         \/ M!AcknowledgeMergeExternal \/ M!RequestMergeClose \/ M!AnswerMergeClose
         \/ M!ApplyMergeReload \/ M!ResetForWorkspace
  PROVE  Rests
<1> USE DEF Rests, Turns, FinalRests
<1>0. M!InSession => Sound(session)
  BY DEF SessionInv
<1>1. CASE M!RecordDecision
  BY <1>0, <1>1, DecidedFollows DEF M!RecordDecision, M!Edited, Edits
<1>2. CASE M!ReopenDecision
  BY <1>0, <1>2, DecidedFollows DEF M!ReopenDecision, M!Edited, Edits
<1>3. ASSUME NEW side \in M!Sides, M!SelectMergeSide(side) PROVE Rests
  BY <1>0, <1>3, SideFollows DEF M!SelectMergeSide, M!Edited, Edits
<1>4. CASE M!AcknowledgeMergeExternal
  BY <1>0, <1>4, MarksFollow DEF M!AcknowledgeMergeExternal, M!Edited, Edits
<1>5. CASE M!RequestMergeClose
  <2>1. Continues(session, [session EXCEPT !.closing = TRUE])
    BY <1>0, <1>5, MarksFollow DEF M!RequestMergeClose
  <2>2. UNCHANGED <<open, final, epoch>> /\ M!InSession
    BY <1>5 DEF M!RequestMergeClose
  <2>3. \/ session' = [session EXCEPT !.closing = TRUE] /\ UNCHANGED revision
        \/ session' = M!NoSession /\ revision' = revision + 1
    BY <1>5 DEF M!RequestMergeClose, M!CloseMergeResolution
  <2> QED BY <2>1, <2>2, <2>3 DEF Edits, Drops
<1>8. CASE M!AnswerMergeClose
  <2>1. Continues(session, [session EXCEPT !.closing = FALSE])
    BY <1>0, <1>8, MarksFollow DEF M!AnswerMergeClose
  <2>2. UNCHANGED <<open, final, epoch>> /\ M!InSession
    BY <1>8 DEF M!AnswerMergeClose
  <2>3. \/ session' = [session EXCEPT !.closing = FALSE] /\ UNCHANGED revision
        \/ session' = M!NoSession /\ revision' = revision + 1
    BY <1>8 DEF M!AnswerMergeClose, M!CloseMergeResolution
  <2> QED BY <2>1, <2>2, <2>3 DEF Edits, Drops
<1>6. CASE M!ApplyMergeReload
  BY <1>0, <1>6, MarksFollow DEF M!ApplyMergeReload, Edits
<1>7. CASE M!ResetForWorkspace
  BY <1>7 DEF M!ResetForWorkspace, Drops
<1> QED BY <1>1, <1>2, <1>3, <1>4, <1>5, <1>6, <1>7, <1>8

LEMMA CheckRests ==
  ASSUME OpenInv, SessionInv, M!CheckFails \/ M!CheckAnswered PROVE Rests
<1> USE DEF Rests, Turns, FinalRests
<1>0. M!InSession => Sound(session)
  BY DEF SessionInv
<1>1. CASE M!CheckFails
  <2>1. CASE M!CheckLive
    <3> DEFINE s1 == M!Settled(session)
               s2 == M!Noticed(s1, [kind |-> "failed"])
    <3>1. M!InSession /\ session' = s2 /\ UNCHANGED <<revision, epoch, open, final>>
      BY <1>1, <2>1 DEF M!CheckFails, M!CheckLive
    <3>2. Continues(session, s1)
      BY <1>0, <3>1, SettledFollows
    <3>3. Continues(s1, s2)
      BY <3>2, NoticedFollows DEF Continues
    <3>4. Continues(session, session')
      BY <3>1, <3>2, <3>3, ContinueOn
    <3> QED BY <3>1, <3>4 DEF Edits
  <2>2. CASE ~M!CheckLive
    BY <1>1, <2>2 DEF M!CheckFails, Keeps
  <2> QED BY <2>1, <2>2
<1>2. CASE M!CheckAnswered
  <2>0. UNCHANGED <<epoch, open, final>>
    BY <1>2 DEF M!CheckAnswered
  <2>1. CASE UNCHANGED <<session, revision>>
    BY <2>0, <2>1 DEF Keeps
  <2>2. ASSUME NEW state, M!InSession, session' = M!Settled(M!Reconciled(session, state)),
               UNCHANGED revision
        PROVE  Rests
    <3> DEFINE s1 == M!Reconciled(session, state)
               s2 == M!Settled(s1)
    <3>1. Continues(session, s1)
      BY <1>0, <2>2, ReconciledFollows
    <3>2. Continues(s1, s2)
      BY <3>1, SettledFollows DEF Continues
    <3>3. Continues(session, session')
      BY <2>2, <3>1, <3>2, ContinueOn
    <3> QED BY <2>0, <2>2, <3>3 DEF Edits
  <2>3. ASSUME NEW state, NEW base, base.rev = revision + 1, base.epoch = session.epoch,
               M!InSession, session' = M!Fresh(base, state), revision' = revision + 1
        PROVE  Rests
    BY <2>0, <2>3, FreshSound DEF Renews
  <2>4. PICK state \in {check.seen, repo[check.path]} :
          \/ UNCHANGED <<session, revision>>
          \/ /\ M!InSession /\ session' = M!Settled(M!Reconciled(session, state))
             /\ UNCHANGED revision
          \/ LET base == [path |-> session.path, rev |-> revision + 1, epoch |-> session.epoch,
                          queue |-> session.queue, writes |-> writes[session.path]]
             IN /\ M!InSession /\ session' = M!Fresh(base, state)
                /\ revision' = revision + 1
    BY <1>2 DEF M!CheckAnswered, M!CheckLive
  <2> QED BY <2>1, <2>2, <2>3, <2>4
<1> QED BY <1>1, <1>2

\* Steps that open, read or give up a file.
LEMMA OpenKeeps ==
  ASSUME OpenInv, SessionInv, FinalInv,
         \/ \E p \in Paths : M!OpenMergeResolution(p)
         \/ M!OpenSaves \/ M!OpenReads \/ M!OpenFails
  PROVE  OpenInv' /\ SessionInv' /\ FinalInv'
<1>0. M!NoOpen.phase = "no" /\ M!NoOpen' = M!NoOpen
  BY DEF M!NoOpen
<1>1. CASE \E p \in Paths : M!OpenMergeResolution(p)
  <2>1. PICK p \in Paths : M!OpenMergeResolution(p)
    BY <1>1
  <2>2. /\ ~M!InFlight /\ ~M!InSession /\ UNCHANGED <<session, epoch, final>>
        /\ revision' = revision + 1 /\ open'.rev = revision + 1
    BY <2>1 DEF M!OpenMergeResolution, M!Opening
  <2> QED BY <2>2 DEF OpenInv, SessionInv, FinalInv, M!InSession, M!InFlight, M!Finalizing, M!NoSession
<1>2. ASSUME UNCHANGED <<session, revision, epoch, final>>,
             open'.phase = "no" \/ (open.phase # "no" /\ open'.rev = open.rev)
      PROVE  OpenInv' /\ SessionInv' /\ FinalInv'
  <2>1. OpenInv'
    BY <1>2 DEF OpenInv, M!InSession, M!NoSession
  <2>2. SessionInv'
    BY <1>2, TurnKeeps DEF SessionInv, M!InSession, M!NoSession, Sound, SessionRecord, SideSound,
                           Reviewed, M!Sides
  <2>3. FinalInv'
    BY <1>2 DEF FinalInv, FinalSound, FinalRecord, SideSound, Chosen, Reviewed, M!Sides, M!Version,
                M!InFlight, M!Finalizing, M!InSession, M!NoSession
  <2> QED BY <2>1, <2>2, <2>3
<1>3. CASE M!OpenSaves
  <2>1. open.phase # "no" /\ UNCHANGED <<session, revision, epoch, final>>
    BY <1>3 DEF M!OpenSaves
  <2>2. open'.rev = open.rev \/ open' = M!NoOpen
    BY <1>3 DEF M!OpenSaves
  <2> QED BY <1>0, <1>2, <2>1, <2>2
<1>4. CASE M!OpenFails
  BY <1>0, <1>2, <1>4 DEF M!OpenFails
<1>5. CASE M!OpenReads
  <2>1. open.phase # "no" /\ open' = M!NoOpen /\ UNCHANGED <<revision, epoch, final>>
    BY <1>5 DEF M!OpenReads
  <2>2. PICK state \in {open.seen, repo[open.path]} :
          \/ UNCHANGED session
          \/ M!OpenCurrent /\ session' = M!Fresh(open, state)
    BY <1>5 DEF M!OpenReads
  <2>3. CASE UNCHANGED session
    BY <1>0, <1>2, <2>1, <2>3
  <2>4. CASE M!OpenCurrent /\ session' = M!Fresh(open, state)
    <3>1. Sound(session') /\ session'.rev = open.rev /\ session'.epoch = epoch /\ open.rev = revision
      BY <2>4, FreshSound DEF M!OpenCurrent
    <3>2. OpenInv'
      BY <1>0, <2>1 DEF OpenInv
    <3>3. SessionInv'
      BY <2>1, <3>1 DEF SessionInv, Sound, SessionRecord, SideSound, Reviewed, M!Sides
    <3>4. M!Finalizing => session'.rev # final.rev
      BY <2>1, <3>1 DEF FinalInv
    <3>5. FinalInv'
      BY <1>0, <2>1, <3>4 DEF FinalInv, FinalSound, FinalRecord, SideSound, Chosen, Reviewed,
                              M!Sides, M!Version, M!InFlight, M!Finalizing
    <3> QED BY <3>2, <3>3, <3>5
  <2> QED BY <2>2, <2>3, <2>4
<1> QED BY <1>1, <1>3, <1>4, <1>5

\* A finalize begins on a session that was decided.
LEMMA BeginsKeeps ==
  ASSUME OpenInv, SessionInv, M!InSession, session.kind # "sides" \/ session.side # "none",
         NEW e, M!Begins(session, e), e = M!Version(e), e.stages = session.stages,
         UNCHANGED <<epoch, open>>
  PROVE  OpenInv' /\ SessionInv' /\ FinalInv'
<1>1. CASE ~M!InFlight'
  <2>1. Turns
    BY DEF M!Begins, Turns, Keeps, Drops
  <2>2. ~M!Finalizing'
    BY <1>1, IdleNotInFlight DEF M!Begins, M!Finalize, M!Finalizing, M!InFlight
  <2> QED BY <2>1, <2>2, TurnKeeps DEF FinalInv, M!Finalizing
<1>2. CASE M!InFlight'
  <2>1. Keeps /\ final' = M!Finalize(session, e)
    BY <1>2, IdleNotInFlight DEF M!Begins, Keeps, M!InFlight
  <2> DEFINE f == M!Finalize(session, e)
  <2>2. FinalRecord(f)
    BY DEF M!Finalize, FinalRecord
  <2>3. /\ f.phase = "lock" /\ f.rev = session.rev /\ f.kind = session.kind /\ f.side = session.side
        /\ f.expected = e /\ f.shown = session.shown /\ f.applied = session.applied
        /\ f.over \/ e = M!Version(session)
    BY DEF M!Finalize
  <2>10. Keeps /\ final' = f
    BY <2>1
  <2> HIDE DEF f
  <2>4. Sound(session) /\ session.rev = revision
    BY DEF SessionInv
  <2>5. SideSound(f) /\ (f.kind = "sides" => f.side \in M!Sides)
    BY <2>3, <2>4 DEF Sound, SideSound
  <2>6. f.over \/ Reviewed(f.expected.text, f.shown)
    <3>1. M!Version(session).text = session.text
      BY DEF M!Version
    <3> QED BY <2>3, <2>4, <3>1 DEF Sound
  <2>7. FinalSound(f)
    BY <2>2, <2>3, <2>4, <2>5, <2>6 DEF FinalSound, Sound
  <2>8. OpenInv' /\ SessionInv'
    BY <2>1, TurnKeeps DEF Turns
  <2>9. FinalSound(final)'
    BY <2>10, <2>7 DEF FinalSound, FinalRecord, SideSound, Chosen, Reviewed, M!Sides, M!Version
  <2> QED BY <2>10, <2>3, <2>4, <2>8, <2>9 DEF FinalInv, Keeps, OpenInv, M!InSession, M!Finalizing, M!InFlight
<1> QED BY <1>1, <1>2

LEMMA FinalizeBeginsKeeps ==
  ASSUME OpenInv, SessionInv, FinalInv, M!MergeFinalizeAndStage \/ M!MergeOverwriteAndStage
  PROVE  OpenInv' /\ SessionInv' /\ FinalInv'
<1>0. /\ M!InSession /\ UNCHANGED <<epoch, open>>
      /\ session.kind # "sides" \/ session.side # "none"
  BY DEF M!MergeFinalizeAndStage, M!MergeOverwriteAndStage, M!Ready, M!TextReady, M!SidesReady
<1>1. CASE M!MergeFinalizeAndStage
  <2>1. M!Version(session) = M!Version(M!Version(session)) /\ M!Version(session).stages = session.stages
    BY DEF M!Version
  <2>2. M!Begins(session, M!Version(session))
    BY <1>1 DEF M!MergeFinalizeAndStage
  <2> QED BY <1>0, <2>1, <2>2, BeginsKeeps
<1>2. CASE M!MergeOverwriteAndStage
  <2>1. final'.phase = "fresh" /\ final'.rev = session.rev /\ UNCHANGED <<session, revision>>
    BY <1>2 DEF M!MergeOverwriteAndStage
  <2>2. OpenInv' /\ SessionInv'
    BY <1>0, <2>1, TurnKeeps DEF Turns, Keeps
  <2> QED BY <1>0, <2>1, <2>2 DEF FinalInv, SessionInv, OpenInv, M!InFlight, M!Finalizing, M!InSession
<1> QED BY <1>1, <1>2

LEMMA OverwriteReadKeeps ==
  ASSUME OpenInv, SessionInv, FinalInv, M!OverwriteRead PROVE OpenInv' /\ SessionInv' /\ FinalInv'
<1>0. UNCHANGED <<epoch, open>> /\ ~M!InFlight
  BY DEF M!OverwriteRead, M!InFlight
<1>1. PICK state \in {final.seen, repo[final.path]} :
        \/ final' = M!Idle /\ UNCHANGED <<session, revision>>
        \/ /\ M!FinalLive /\ final' = M!Idle /\ UNCHANGED revision
           /\ \E n : session' = M!Noticed(session, n)
        \/ M!FinalLive /\ M!SameConflict(session, state) /\ M!Begins(session, M!Version(state))
  BY DEF M!OverwriteRead
<1>2. CASE final' = M!Idle /\ UNCHANGED <<session, revision>>
  BY <1>0, <1>2, RestsKeep, IdleNotInFlight DEF Rests, Turns, Keeps, FinalRests, M!InFlight, M!Finalizing
<1>3. CASE /\ M!FinalLive /\ final' = M!Idle /\ UNCHANGED revision
           /\ \E n : session' = M!Noticed(session, n)
  <2>1. Sound(session) /\ M!InSession
    BY <1>3 DEF SessionInv, M!FinalLive
  <2>2. Continues(session, session')
    BY <1>3, <2>1, NoticedFollows
  <2> QED BY <1>0, <1>3, <2>1, <2>2, RestsKeep, IdleNotInFlight
      DEF Rests, Turns, Edits, FinalRests, M!InFlight, M!Finalizing
<1>4. CASE M!FinalLive /\ M!SameConflict(session, state) /\ M!Begins(session, M!Version(state))
  <2>1. M!Version(state) = M!Version(M!Version(state)) /\ M!Version(state).stages = session.stages
    BY <1>4 DEF M!Version, M!SameConflict
  <2>2. session.kind # "sides" \/ session.side # "none"
    BY <1>4 DEF FinalInv, M!FinalLive, M!OverwriteRead
  <2> QED BY <1>0, <1>4, <2>1, <2>2, BeginsKeeps DEF M!FinalLive
<1> QED BY <1>1, <1>2, <1>3, <1>4

\* A finalize that is given up.
LEMMA GivenUpRests ==
  ASSUME SessionInv, NEW b, M!Invalidated \/ UNCHANGED <<session, revision>>, M!Ended(b) \/ final' = M!Idle,
         UNCHANGED <<epoch, open>>
  PROVE  Rests
<1>1. ~M!Finalizing'
  BY IdleNotInFlight DEF M!Ended, M!Finalizing, M!InFlight
<1> QED BY <1>1 DEF Rests, FinalRests, Turns, Keeps, Drops, M!Invalidated

LEMMA FailsRests ==
  ASSUME SessionInv, M!WriteFails \/ M!StageFails \/ M!AdvanceSettles PROVE Rests
<1>1. CASE M!WriteFails \/ M!StageFails
  BY <1>1, GivenUpRests DEF M!WriteFails, M!StageFails
<1>2. CASE M!AdvanceSettles
  BY <1>2, GivenUpRests DEF M!AdvanceSettles
<1> QED BY <1>1, <1>2

\* The fields of a finalize that goes on.
FinalLike(f, g) ==
  /\ FinalRecord(g) /\ g.rev = f.rev /\ g.kind = f.kind /\ g.side = f.side
  /\ g.shown = f.shown /\ g.applied = f.applied /\ g.over = f.over

LEMMA PhaseFields ==
  ASSUME NEW f, FinalRecord(f), NEW p
  PROVE  LET g == [f EXCEPT !.phase = p]
         IN FinalLike(f, g) /\ g.phase = p /\ g.expected = f.expected
<1> DEFINE g == [f EXCEPT !.phase = p]
<1>1. FinalRecord(g)
  BY DEF FinalRecord
<1>2. /\ g.phase = p /\ g.rev = f.rev /\ g.kind = f.kind /\ g.side = f.side
      /\ g.expected = f.expected /\ g.shown = f.shown /\ g.applied = f.applied /\ g.over = f.over
  BY DEF FinalRecord
<1> QED BY <1>1, <1>2 DEF FinalLike

LEMMA StageFields ==
  ASSUME NEW f, FinalRecord(f), NEW e
  PROVE  LET g == [f EXCEPT !.phase = "stage", !.expected = e]
         IN FinalLike(f, g) /\ g.phase = "stage" /\ g.expected = e
<1> DEFINE h == [f EXCEPT !.phase = "stage"]
           g == [h EXCEPT !.expected = e]
<1>1. FinalLike(f, h) /\ h.phase = "stage"
  BY PhaseFields
<1>2. [f EXCEPT !.phase = "stage", !.expected = e] = g
  OBVIOUS
<1> HIDE DEF h
<1>3. FinalRecord(g)
  BY <1>1 DEF FinalRecord, FinalLike
<1>4. /\ g.phase = "stage" /\ g.rev = h.rev /\ g.kind = h.kind /\ g.side = h.side
      /\ g.expected = e /\ g.shown = h.shown /\ g.applied = h.applied /\ g.over = h.over
  BY <1>1 DEF FinalRecord, FinalLike
<1> HIDE DEF g
<1> QED BY <1>1, <1>2, <1>3, <1>4 DEF FinalLike

LEMMA FinalSoundNext ==
  ASSUME NEW f, FinalSound(f), final' = f PROVE FinalSound(final)'
BY DEF FinalSound, FinalRecord, SideSound, Chosen, Reviewed, M!Sides, M!Version

LEMMA LockedKeeps ==
  ASSUME OpenInv, SessionInv, FinalInv, M!FinalizeLocked PROVE OpenInv' /\ SessionInv' /\ FinalInv'
<1>0. final.phase = "lock" /\ UNCHANGED <<epoch, open>>
  BY DEF M!FinalizeLocked
<1>1. CASE final' = M!Idle /\ (M!Invalidated \/ UNCHANGED <<session, revision>>)
  BY <1>0, <1>1, GivenUpRests, RestsKeep
<1>2. CASE final' # M!Idle
  <2>1. UNCHANGED <<session, revision>>
    BY <1>2 DEF M!FinalizeLocked, M!Ended
  <2>2. PICK p \in {"stage", "write"} :
          final' = [final EXCEPT !.phase = p] /\ (p = "stage" => M!AlreadyApplied)
    BY <1>2 DEF M!FinalizeLocked, M!Ended
  <2> DEFINE g == [final EXCEPT !.phase = p]
  <2>3. FinalSound(final) /\ final.rev \in Nat /\ final.rev <= revision
    BY <1>0 DEF FinalInv, M!InFlight, M!Finalizing
  <2>4. FinalLike(final, g) /\ g.phase = p /\ g.expected = final.expected
    BY <2>3, PhaseFields DEF FinalSound
  <2>5. final' = g
    BY <2>2
  <2> HIDE DEF g
  <2>6. p = "stage" => g.expected.text = Chosen(g)
    <3>1. ASSUME p = "stage" PROVE final.expected.text = final.side /\ final.kind = "sides"
      <4>1. /\ final.kind = "sides" /\ final.applied.side = final.side
            /\ final.expected = M!Version(final.applied)
        BY <2>2, <3>1 DEF M!AlreadyApplied
      <4>2. final.side # "none" /\ final.applied.text = final.applied.side
        BY <2>3, <4>1 DEF FinalSound, SideSound, M!Sides
      <4>3. M!Version(final.applied).text = final.applied.text
        BY DEF M!Version
      <4> QED BY <4>1, <4>2, <4>3
    <3> QED BY <2>4, <3>1 DEF Chosen, FinalLike
  <2>7. FinalSound(g)
    BY <1>0, <2>3, <2>4, <2>6 DEF FinalSound, SideSound, FinalLike
  <2>8. FinalSound(final)'
    BY <2>5, <2>7, FinalSoundNext
  <2>9. OpenInv' /\ SessionInv'
    BY <1>0, <2>1, TurnKeeps DEF Turns, Keeps
  <2>10. final'.phase # "fresh" /\ final'.rev = final.rev /\ final'.shown = final.shown
    BY <2>4, <2>5 DEF FinalLike
  <2> QED BY <1>0, <2>1, <2>8, <2>9, <2>10 DEF FinalInv, M!InFlight, M!Finalizing, M!InSession, M!NoSession
<1>3. final' = M!Idle => M!Invalidated \/ UNCHANGED <<session, revision>>
  BY DEF M!FinalizeLocked
<1> QED BY <1>1, <1>2, <1>3

\* The session of a finalize that wrote: its bytes are what was written.
LEMMA WrittenFollows ==
  ASSUME NEW s, Sound(s), NEW t, NEW n, NEW g, NEW a, Reviewed(t, s.shown), g = s.stages,
         a.side # "none" => a.text = a.side
  PROVE  Continues(s, [s EXCEPT !.text = t, !.writes = n, !.stages = g, !.applied = a])
<1> DEFINE s1 == [s EXCEPT !.text = t]
           s2 == [s1 EXCEPT !.writes = n]
           s3 == [s2 EXCEPT !.stages = g]
           s4 == [s3 EXCEPT !.applied = a]
           Like(u) == /\ SessionRecord(u) /\ u.rev = s.rev /\ u.epoch = s.epoch
                      /\ u.shown = s.shown /\ u.kind = s.kind /\ u.side = s.side
<1>1. [s EXCEPT !.text = t, !.writes = n, !.stages = g, !.applied = a] = s4
  OBVIOUS
<1>2. Like(s1) /\ s1.text = t /\ s1.stages = s.stages
  BY DEF Sound, SessionRecord
<1> HIDE DEF s1
<1>3. Like(s2) /\ s2.text = t /\ s2.stages = s.stages
  BY <1>2 DEF SessionRecord
<1> HIDE DEF s2
<1>4. Like(s3) /\ s3.text = t /\ s3.stages = g
  BY <1>3 DEF SessionRecord
<1> HIDE DEF s3
<1>5. Like(s4) /\ s4.text = t /\ s4.stages = g /\ s4.applied = a
  BY <1>4 DEF SessionRecord
<1> HIDE DEF s4
<1>6. Sound(s4) /\ Follows(s, s4)
  BY <1>5 DEF Sound, SideSound, Follows
<1> QED BY <1>1, <1>6 DEF Continues

\* What the write of a finalize makes of the session and of the finalize.
LEMMA WriteCases ==
  ASSUME M!FinalizeWrites
  PROVE  LET p == final.path
             written == [repo[p] EXCEPT !.text = Chosen(final)]
         IN /\ final.phase = "write" /\ UNCHANGED <<epoch, open>>
            /\ \/ final' = M!Idle /\ (M!Invalidated \/ UNCHANGED <<session, revision>>)
               \/ /\ repo[p] = final.expected /\ UNCHANGED revision
                  /\ \/ UNCHANGED session
                     \/ /\ M!FinalLive
                        /\ session' = [session EXCEPT !.text = Chosen(final), !.writes = writes'[p],
                             !.stages = written.stages,
                             !.applied = IF final.kind = "text" THEN @ ELSE M!SideApplied(written)]
                  /\ final' = M!Idle \/ final' = [final EXCEPT !.phase = "stage", !.expected = written]
BY DEF M!FinalizeWrites, M!Ended, M!Staging, M!Applies, Chosen

LEMMA WritesKeeps ==
  ASSUME OpenInv, SessionInv, FinalInv, M!FinalizeWrites PROVE OpenInv' /\ SessionInv' /\ FinalInv'
<1> DEFINE p == final.path
           written == [repo[p] EXCEPT !.text = Chosen(final)]
<1>0. final.phase = "write" /\ UNCHANGED <<epoch, open>>
  BY WriteCases
<1>1. CASE final' = M!Idle /\ (M!Invalidated \/ UNCHANGED <<session, revision>>)
  BY <1>0, <1>1, GivenUpRests, RestsKeep
<1>2. ASSUME repo[p] = final.expected, UNCHANGED revision,
             \/ UNCHANGED session
             \/ /\ M!FinalLive
                /\ session' = [session EXCEPT !.text = Chosen(final), !.writes = writes'[p],
                     !.stages = written.stages,
                     !.applied = IF final.kind = "text" THEN @ ELSE M!SideApplied(written)],
             final' = M!Idle \/ final' = [final EXCEPT !.phase = "stage", !.expected = written]
      PROVE  OpenInv' /\ SessionInv' /\ FinalInv'
  <2>1. FinalSound(final) /\ final.rev \in Nat /\ final.rev <= revision
    BY <1>0 DEF FinalInv, M!InFlight, M!Finalizing
  <2>2. written.stages = final.shown.stages /\ written.text = Chosen(final)
    <3>1. repo[p] = M!Version(repo[p]) /\ repo[p].stages = final.shown.stages
      BY <1>0, <1>2, <2>1 DEF FinalSound
    <3> QED BY <3>1 DEF M!Version
  <2> HIDE DEF written
  <2>3. Chosen(final) \in {"result"} \cup M!Sides
    BY <2>1 DEF FinalSound, Chosen
  <2>4. Turns
    <3>1. CASE UNCHANGED session
      BY <1>0, <1>2, <3>1 DEF Turns, Keeps
    <3>2. CASE ~UNCHANGED session
      <4> DEFINE a == IF final.kind = "text" THEN session.applied ELSE M!SideApplied(written)
      <4>1. /\ M!FinalLive
            /\ session' = [session EXCEPT !.text = Chosen(final), !.writes = writes'[p],
                     !.stages = written.stages, !.applied = a]
        BY <1>2, <3>2
      <4>2. Sound(session) /\ M!InSession
        BY <4>1 DEF SessionInv, M!FinalLive
      <4>3. session.shown = final.shown
        BY <1>0, <4>1 DEF FinalInv, M!FinalLive, M!InFlight
      <4>4. a.side # "none" => a.text = a.side
        <5>1. CASE final.kind = "text"
          BY <4>2, <5>1 DEF Sound, SideSound
        <5>2. CASE final.kind = "sides"
          BY <2>2, <5>2 DEF M!SideApplied, Chosen
        <5> QED BY <2>1, <5>1, <5>2 DEF FinalSound
      <4> HIDE DEF a
      <4>5. Reviewed(Chosen(final), session.shown) /\ written.stages = session.stages
        BY <2>2, <2>3, <4>2, <4>3 DEF Reviewed, Sound
      <4>6. Continues(session, session')
        BY <4>1, <4>2, <4>4, <4>5, WrittenFollows
      <4> QED BY <1>0, <1>2, <4>2, <4>6 DEF Turns, Edits
    <3> QED BY <3>1, <3>2
  <2>5. CASE final' = M!Idle
    BY <2>4, <2>5, IdleNotInFlight, RestsKeep DEF Rests, FinalRests, M!Finalizing, M!InFlight
  <2>6. CASE final' = [final EXCEPT !.phase = "stage", !.expected = written]
    <3> DEFINE g == [final EXCEPT !.phase = "stage", !.expected = written]
    <3>1. FinalLike(final, g) /\ g.phase = "stage" /\ g.expected = written
      BY <2>1, StageFields DEF FinalSound
    <3>2. final' = g
      BY <2>6
    <3> HIDE DEF g
    <3>3. FinalSound(g)
      BY <2>1, <2>2, <3>1 DEF FinalSound, FinalLike, SideSound, Chosen
    <3>4. FinalSound(final)'
      BY <3>2, <3>3, FinalSoundNext
    <3>5. OpenInv' /\ SessionInv'
      BY <2>4, TurnKeeps
    <3>6. final'.phase = "stage" /\ final'.rev = final.rev /\ final'.shown = final.shown
      BY <3>1, <3>2 DEF FinalLike
    <3>7. M!InSession' /\ session'.rev = final.rev =>
            M!InSession /\ session.rev = final.rev /\ session'.shown = session.shown
      BY <1>2, <2>1, <2>4 DEF Turns, Keeps, Edits, Drops, Renews, OpenInv, Continues, Follows,
                                M!InSession, M!NoSession
    <3> QED BY <1>0, <1>2, <3>4, <3>5, <3>6, <3>7 DEF FinalInv, M!InFlight, M!Finalizing
  <2> QED BY <1>2, <2>5, <2>6
<1> QED BY <1>1, <1>2, WriteCases

LEMMA StagesKeeps ==
  ASSUME OpenInv, SessionInv, FinalInv, M!FinalizeStages PROVE OpenInv' /\ SessionInv' /\ FinalInv'
<1>0. UNCHANGED epoch
  BY DEF M!FinalizeStages
<1>1. CASE /\ final' = M!Idle /\ UNCHANGED open
           /\ \/ M!Invalidated \/ UNCHANGED <<session, revision>>
              \/ session' = M!NoSession /\ UNCHANGED revision
  <2>1. ~M!Finalizing'
    BY <1>1, IdleNotInFlight DEF M!Finalizing, M!InFlight
  <2>2. Turns
    BY <1>0, <1>1 DEF Turns, Keeps, Drops, M!Invalidated
  <2> QED BY <2>1, <2>2, RestsKeep DEF Rests, FinalRests
<1>2. CASE /\ session' = M!NoSession /\ final'.phase = "advance"
           /\ revision' = revision + 1 /\ open'.rev = revision + 1
  BY <1>2 DEF OpenInv, SessionInv, FinalInv, M!InSession, M!InFlight, M!Finalizing, M!NoSession
<1>3. CASE M!Advance
  <2>1. CASE M!Remaining = <<>>
    BY <1>1, <1>3, <2>1 DEF M!Advance
  <2>2. CASE M!Remaining # <<>>
    BY <1>2, <1>3, <2>2 DEF M!Advance, M!Opening
  <2> QED BY <2>1, <2>2
<1>4. CASE ~M!Advance
  BY <1>1, <1>4 DEF M!FinalizeStages, M!Ended
<1> QED BY <1>3, <1>4

LEMMA MergeStays == ASSUME OpenInv, SessionInv, FinalInv, UNCHANGED M!vars PROVE Rests
BY DEF M!vars, Rests, Turns, Keeps, FinalRests

LEMMA RequestsKeep ==
  ASSUME OpenInv, SessionInv, FinalInv, [M!Next]_(M!vars) PROVE OpenInv' /\ SessionInv' /\ FinalInv'
BY OutsideRests, DecisionRests, CheckRests, FailsRests, MergeStays, RestsKeep, OpenKeeps,
   FinalizeBeginsKeeps, OverwriteReadKeeps, LockedKeeps, WritesKeeps, StagesKeeps DEF M!Next

-----------------------------------------------------------------------------
(* The merge session: the hand-off.                                         *)

\* The flag is set with the hand-off, and taken back with its end.
AdvanceStep ==
  \/ ~advancing' \/ final'.phase = "advance"
  \/ UNCHANGED advancing /\ (UNCHANGED final \/ final.phase # "advance")

LEMMA AdvanceSteps == ASSUME [M!Next]_(M!vars) PROVE AdvanceStep
<1> USE DEF AdvanceStep
<1>1. CASE UNCHANGED <<advancing, final>>
  BY <1>1
<1>2. CASE UNCHANGED advancing /\ final.phase # "advance"
  BY <1>2
<1>3. M!Idle.phase # "advance"
  BY DEF M!Idle
<1>4. CASE \E p \in Busy : M!Outside(p) \/ M!TabEdit(p) \/ M!TabSaves(p) \/ M!TabWritten(p) \/ M!TabReloads(p)
  BY <1>1, <1>4 DEF M!Outside, M!TabEdit, M!TabSaves, M!TabWritten, M!TabReloads
<1>5. CASE M!GitOpStarts \/ M!GitOpEnds \/ M!ResetForWorkspace
  BY <1>1, <1>5 DEF M!GitOpStarts, M!GitOpEnds, M!ResetForWorkspace
<1>6. CASE (\E p \in Paths : M!OpenMergeResolution(p)) \/ M!OpenSaves \/ M!OpenReads \/ M!OpenFails
  BY <1>1, <1>6 DEF M!OpenMergeResolution, M!OpenSaves, M!OpenReads, M!OpenFails
<1>7. CASE M!RecordDecision \/ M!ReopenDecision \/ (\E side \in M!Sides : M!SelectMergeSide(side))
           \/ M!AcknowledgeMergeExternal
  BY <1>1, <1>7 DEF M!RecordDecision, M!ReopenDecision, M!SelectMergeSide,
                    M!AcknowledgeMergeExternal, M!Edited
<1>8. CASE M!RequestMergeClose
  BY <1>1, <1>8 DEF M!RequestMergeClose, M!CloseMergeResolution
<1>9. CASE M!AnswerMergeClose
  BY <1>1, <1>9 DEF M!AnswerMergeClose, M!CloseMergeResolution
<1>10. CASE M!MergeFileChanged \/ M!ApplyMergeReload \/ M!CheckFails \/ M!CheckAnswered
  BY <1>1, <1>10 DEF M!MergeFileChanged, M!ApplyMergeReload, M!CheckFails, M!CheckAnswered
<1>11. CASE M!MergeFinalizeAndStage \/ M!MergeOverwriteAndStage
  BY <1>2, <1>3, <1>11 DEF M!MergeFinalizeAndStage, M!MergeOverwriteAndStage
<1>12. CASE M!OverwriteRead \/ M!FinalizeLocked \/ M!FinalizeWrites \/ M!WriteFails \/ M!StageFails
  BY <1>2, <1>12 DEF M!OverwriteRead, M!FinalizeLocked, M!FinalizeWrites, M!WriteFails, M!StageFails
<1>13. CASE M!FinalizeStages
  <2>1. CASE M!Advance
    BY <1>13, <2>1 DEF M!Advance
  <2>2. CASE ~M!Advance
    BY <1>2, <1>13, <2>2 DEF M!FinalizeStages
  <2> QED BY <2>1, <2>2
<1>14. CASE M!AdvanceSettles
  BY <1>14 DEF M!AdvanceSettles
<1>15. CASE UNCHANGED M!vars
  BY <1>1, <1>15 DEF M!vars
<1> QED BY <1>4, <1>5, <1>6, <1>7, <1>8, <1>9, <1>10, <1>11, <1>12, <1>13, <1>14, <1>15 DEF M!Next

LEMMA MergeKept == ASSUME MergeInv, [M!Next]_(M!vars) PROVE MergeInv'
BY RequestsKeep, AdvanceSteps DEF MergeInv, AdvanceInv, AdvanceStep

LEMMA MergeInit == ASSUME M!Init PROVE MergeInv
BY DEF M!Init, MergeInv, OpenInv, SessionInv, FinalInv, AdvanceInv, M!InSession, M!InFlight,
       M!Finalizing, M!NoOpen, M!Idle

LEMMA MergeAlone == ASSUME [Next]_vars, part = "merge" PROVE part' = part /\ [M!Next]_(M!vars)
BY DEF Next, SStep, MStep, EStep, GStep, LStep, QStep, VStep, MRest, vars, M!vars

MergeInvariant == part = "merge" => MergeInv

LEMMA MergeAlways == Spec => []MergeInvariant
<1>1. Init => MergeInvariant
  BY MergeInit DEF Init, MergeInvariant
<1>2. MergeInvariant /\ [Next]_vars => MergeInvariant'
  BY MergeAlone, MergeKept, PartKept DEF MergeInvariant
<1> QED BY <1>1, <1>2, PTL DEF Spec

(* A merge session belongs to the workspace that is open and to the newest   *)
(* request, and the hand-off flag to the hand-off under way, for any files   *)
(* and any number of openings, reloads, finalizes, failures and switches.    *)
THEOREM SessionCurrentAlways == Spec => []SessionCurrent
<1>1. MergeInvariant => SessionCurrent
  BY DEF MergeInvariant, MergeInv, SessionInv, AdvanceInv, SessionCurrent, M!SessionCurrent,
         M!AdvanceOwned
<1> QED BY <1>1, MergeAlways, PTL

-----------------------------------------------------------------------------
(* The merge session: what is written and staged, and the tabs.             *)

Version == [stages : M!Stages \cup {M!Gone}, text : M!Texts]
Tab == [state : {"none", "clean", "dirty"}, text : M!Texts, queued : BOOLEAN]
DiskInv ==
  /\ repo \in [Paths -> Version] /\ tab \in [Paths -> Tab]
  /\ staged \in [Paths -> M!Texts \cup {"no"}]

Known == {"merged", "typed", "ours", "theirs", "result"} \subseteq M!Texts
LEMMA TextsKnown == Known
BY DEF Known, M!Texts, M!Marked, M!Sides

\* What a step may make of a tab, and of the file it shows.
DiskNext ==
  /\ repo' \in [Paths -> Version] /\ tab' \in [Paths -> Tab]
  /\ \A p \in Paths : tab[p].state = "dirty" /\ tab'[p].state # "dirty" =>
                        tab'[p].queued \/ repo'[p].text = "typed"

LEMMA DiskRests == ASSUME DiskInv, UNCHANGED <<repo, tab>> PROVE DiskNext
BY DEF DiskInv, DiskNext

\* A step that changes one file, or its tab.
LEMMA OneFile ==
  ASSUME DiskInv, NEW p, NEW r, NEW t,
         repo' = [repo EXCEPT ![p] = r], tab' = [tab EXCEPT ![p] = t],
         p \in Paths => /\ r \in Version /\ t \in Tab
                        /\ tab[p].state = "dirty" /\ t.state # "dirty" => t.queued \/ r.text = "typed"
  PROVE  DiskNext
<1>1. CASE p \in Paths
  BY <1>1 DEF DiskInv, DiskNext
<1>2. CASE p \notin Paths
  <2>1. repo' = repo /\ tab' = tab
    BY <1>2 DEF DiskInv
  <2> QED BY <2>1, DiskRests
<1> QED BY <1>1, <1>2

LEMMA TabFields ==
  ASSUME NEW t \in Tab, NEW s, NEW q \in BOOLEAN, NEW x
  PROVE  /\ [t EXCEPT !.state = s].state = s /\ [t EXCEPT !.state = s].queued = t.queued
         /\ s \in {"none", "clean", "dirty"} => [t EXCEPT !.state = s] \in Tab
         /\ x \in M!Texts => [t EXCEPT !.text = x] \in Tab
         /\ [t EXCEPT !.text = x].state = t.state /\ [t EXCEPT !.queued = q] \in Tab
         /\ [t EXCEPT !.queued = q].state = t.state /\ [t EXCEPT !.queued = q].queued = q
BY DEF Tab

LEMMA TabSteps ==
  ASSUME DiskInv, NEW p \in Busy,
         M!Outside(p) \/ M!TabEdit(p) \/ M!TabSaves(p) \/ M!TabWritten(p) \/ M!TabReloads(p)
  PROVE  DiskNext
<1>0. p \in Paths /\ tab[p] \in Tab /\ repo[p] \in Version /\ Known
  BY MergeAssumption, TextsKnown DEF M!MergeAssumption, DiskInv
<1>1. CASE M!Outside(p)
  <2>1. PICK m \in Moves : repo' = [repo EXCEPT ![p] = m] /\ UNCHANGED tab
    BY <1>1 DEF M!Outside
  <2>2. m \in Version
    BY MergeAssumption DEF M!MergeAssumption, Version
  <2>3. tab' = [tab EXCEPT ![p] = tab[p]]
    BY <2>1 DEF DiskInv
  <2> QED BY <1>0, <2>1, <2>2, <2>3, OneFile
<1>2. CASE M!TabEdit(p)
  <2> DEFINE t == [[tab[p] EXCEPT !.state = "dirty"] EXCEPT !.text = "typed"]
  <2>1. tab' = [tab EXCEPT ![p] = t] /\ repo' = [repo EXCEPT ![p] = repo[p]]
    BY <1>2, <1>0 DEF M!TabEdit, DiskInv
  <2>2. t \in Tab /\ t.state = "dirty"
    BY <1>0 DEF Tab, Known
  <2> HIDE DEF t
  <2> QED BY <1>0, <2>1, <2>2, OneFile
<1>3. CASE M!TabSaves(p)
  <2>1. PICK s \in {"dirty", "none"} :
          tab' = [tab EXCEPT ![p] = [@ EXCEPT !.state = s, !.queued = TRUE]] /\ UNCHANGED repo
    BY <1>3 DEF M!TabSaves
  <2> DEFINE t == [[tab[p] EXCEPT !.state = s] EXCEPT !.queued = TRUE]
  <2>2. tab' = [tab EXCEPT ![p] = t] /\ repo' = [repo EXCEPT ![p] = repo[p]]
    BY <2>1 DEF DiskInv
  <2>3. t \in Tab /\ t.queued
    BY <1>0, TabFields
  <2> HIDE DEF t
  <2> QED BY <1>0, <2>2, <2>3, OneFile
<1>4. CASE M!TabWritten(p)
  <2> DEFINE s == IF tab[p].state = "dirty" THEN "clean" ELSE tab[p].state
             t == [[tab[p] EXCEPT !.queued = FALSE] EXCEPT !.state = s]
             r == [repo[p] EXCEPT !.text = "typed"]
  <2>1. repo' = [repo EXCEPT ![p] = r]
    BY <1>4 DEF M!TabWritten
  <2>2. tab' = [tab EXCEPT ![p] = t]
    <3> DEFINE u == [tab[p] EXCEPT !.queued = FALSE, !.state = IF tab[p].state = "dirty" THEN "clean" ELSE tab[p].state]
    <3>1. tab' = [tab EXCEPT ![p] = u]
      BY <1>4 DEF M!TabWritten
    <3>2. u = t
      BY <1>0 DEF Tab
    <3> QED BY <3>1, <3>2
  <2>3. t \in Tab
    BY <1>0, TabFields DEF Tab
  <2>4. r \in Version /\ r.text = "typed"
    BY <1>0 DEF Version, Known
  <2> HIDE DEF t, r
  <2> QED BY <1>0, <2>1, <2>2, <2>3, <2>4, OneFile
<1>5. CASE M!TabReloads(p)
  <2> DEFINE t == [tab[p] EXCEPT !.text = repo[p].text]
  <2>1. tab' = [tab EXCEPT ![p] = t] /\ repo' = [repo EXCEPT ![p] = repo[p]]
    BY <1>5, <1>0 DEF M!TabReloads, DiskInv
  <2>2. t \in Tab /\ t.state = tab[p].state
    BY <1>0 DEF Tab, Version
  <2> HIDE DEF t
  <2> QED BY <1>0, <2>1, <2>2, OneFile
<1> QED BY <1>1, <1>2, <1>3, <1>4, <1>5

LEMMA OpenSavesTab == ASSUME DiskInv, M!OpenSaves PROVE DiskNext
<1> DEFINE p == open.path
           d == tab[p].state = "dirty"
           x == IF d \/ tab[p].queued THEN "typed" ELSE repo[p].text
           t == [[tab[p] EXCEPT !.queued = FALSE] EXCEPT !.state = IF d THEN "clean" ELSE tab[p].state]
           r == [repo[p] EXCEPT !.text = x]
<1>1. repo' = [repo EXCEPT ![p] = r]
  BY DEF M!OpenSaves
<1>2. p \in Paths => tab' = [tab EXCEPT ![p] = t]
  <2> DEFINE u == [tab[p] EXCEPT !.queued = FALSE, !.state = IF d THEN "clean" ELSE tab[p].state]
  <2>1. tab' = [tab EXCEPT ![p] = u]
    BY DEF M!OpenSaves
  <2>2. ASSUME p \in Paths PROVE u = t
    BY <2>2 DEF DiskInv, Tab
  <2> QED BY <2>1, <2>2
<1>3. p \notin Paths => tab' = tab
  BY DEF M!OpenSaves, DiskInv
<1>4. ASSUME p \in Paths
      PROVE  /\ t \in Tab /\ r \in Version
             /\ tab[p].state = "dirty" /\ t.state # "dirty" => r.text = "typed"
  <2>1. tab[p] \in Tab /\ repo[p] \in Version /\ Known
    BY <1>4, TextsKnown DEF DiskInv
  <2>2. t \in Tab
    BY <2>1, TabFields DEF Tab
  <2>3. r \in Version /\ (d => r.text = "typed")
    BY <2>1 DEF Version, Known
  <2> QED BY <2>2, <2>3
<1> HIDE DEF t, r
<1>5. CASE p \in Paths
  BY <1>1, <1>2, <1>4, <1>5, OneFile
<1>6. CASE p \notin Paths
  <2>1. repo' = repo
    BY <1>1, <1>6 DEF DiskInv
  <2> QED BY <1>3, <1>6, <2>1, DiskRests
<1> QED BY <1>5, <1>6

LEMMA WritesTab ==
  ASSUME DiskInv, FinalInv, M!FinalizeWrites PROVE DiskNext
<1> DEFINE p == final.path
           r == [repo[p] EXCEPT !.text = Chosen(final)]
<1>1. FinalSound(final)
  BY DEF M!FinalizeWrites, FinalInv, M!InFlight
<1>2. Chosen(final) \in M!Texts
  BY <1>1 DEF FinalSound, Chosen, M!Texts
<1>3. \/ UNCHANGED <<repo, tab>>
      \/ /\ repo' = [repo EXCEPT ![p] = r]
         /\ \/ UNCHANGED tab
            \/ /\ final.kind = "text" /\ tab[p].state \notin {"none", "dirty"}
               /\ tab' = [tab EXCEPT ![p].text = "result", ![p].state = "clean"]
  <2>1. CASE ~M!Applies(repo[p], final.expected)
    BY <2>1 DEF M!FinalizeWrites, M!Disk
  <2>2. CASE M!Applies(repo[p], final.expected)
    <3>1. repo' = [repo EXCEPT ![p] = r]
      BY <2>2 DEF M!FinalizeWrites, Chosen
    <3>2. UNCHANGED tab \/ (final.kind = "text" /\ ~M!Foreign(tab[p])
            /\ tab' = IF final.kind = "text" /\ tab[p].state # "none"
                      THEN [tab EXCEPT ![p].text = "result", ![p].state = "clean"] ELSE tab)
      BY <2>2 DEF M!FinalizeWrites
    <3> QED BY <3>1, <3>2 DEF M!Foreign
  <2> QED BY <2>1, <2>2
<1>4. p \in Paths => r \in Version
  BY <1>2 DEF DiskInv, Version
<1>5. CASE UNCHANGED <<repo, tab>>
  BY <1>5, DiskRests
<1> HIDE DEF r
<1>6. CASE repo' = [repo EXCEPT ![p] = r] /\ UNCHANGED tab
  <2>1. CASE p \in Paths
    <3>1. tab' = [tab EXCEPT ![p] = tab[p]] /\ tab[p] \in Tab
      BY <1>6, <2>1 DEF DiskInv
    <3> QED BY <1>4, <1>6, <3>1, OneFile
  <2>2. CASE p \notin Paths
    BY <1>6, <2>2, DiskRests DEF DiskInv
  <2> QED BY <2>1, <2>2
<1>7. CASE /\ repo' = [repo EXCEPT ![p] = r]
           /\ final.kind = "text" /\ tab[p].state \notin {"none", "dirty"}
           /\ tab' = [tab EXCEPT ![p].text = "result", ![p].state = "clean"]
  <2>1. CASE p \in Paths
    <3> DEFINE t == [[tab[p] EXCEPT !.text = "result"] EXCEPT !.state = "clean"]
    <3>1. tab' = [tab EXCEPT ![p] = t]
      BY <1>7, <2>1 DEF DiskInv
    <3>2. t \in Tab
      BY <2>1, TextsKnown DEF DiskInv, Tab, Known
    <3> HIDE DEF t
    <3> QED BY <1>4, <1>7, <3>1, <3>2, OneFile
  <2>2. CASE p \notin Paths
    BY <1>7, <2>2, DiskRests DEF DiskInv
  <2> QED BY <2>1, <2>2
<1> QED BY <1>3, <1>5, <1>6, <1>7

LEMMA StagesTab ==
  ASSUME DiskInv, M!FinalizeStages PROVE DiskNext
<1> DEFINE p == final.path
           r == [repo[p] EXCEPT !.stages = M!Gone]
<1>1. \/ UNCHANGED <<repo, tab>>
      \/ /\ repo' = [repo EXCEPT ![p] = r]
         /\ UNCHANGED tab \/ tab' = [tab EXCEPT ![p] = M!SideStaged(tab[p])]
  BY DEF M!FinalizeStages
<1>2. p \in Paths => r \in Version
  BY DEF DiskInv, Version
<1>3. p \in Paths => /\ M!SideStaged(tab[p]) \in Tab
                     /\ tab[p].state = "dirty" => M!SideStaged(tab[p]).state = "dirty"
  BY DEF DiskInv, M!SideStaged, Tab
<1>4. p \in Paths => tab[p] \in Tab /\ tab = [tab EXCEPT ![p] = tab[p]]
  BY DEF DiskInv
<1>5. CASE UNCHANGED <<repo, tab>>
  BY <1>5, DiskRests
<1> HIDE DEF r
<1>6. ASSUME NEW t, repo' = [repo EXCEPT ![p] = r], tab' = [tab EXCEPT ![p] = t],
             p \in Paths => t \in Tab /\ (tab[p].state = "dirty" => t.state = "dirty")
      PROVE  DiskNext
  BY <1>2, <1>6, OneFile
<1>7. CASE repo' = [repo EXCEPT ![p] = r] /\ UNCHANGED tab /\ p \in Paths
  BY <1>4, <1>6, <1>7
<1>8. CASE repo' = [repo EXCEPT ![p] = r] /\ tab' = [tab EXCEPT ![p] = M!SideStaged(tab[p])]
  BY <1>3, <1>6, <1>8
<1>9. CASE repo' = [repo EXCEPT ![p] = r] /\ UNCHANGED tab /\ p \notin Paths
  BY <1>9, DiskRests DEF DiskInv
<1> QED BY <1>1, <1>5, <1>7, <1>8, <1>9

\* Every other step leaves the files and the tabs alone.
LEMMA DiskSteps == ASSUME DiskInv, FinalInv, [M!Next]_(M!vars) PROVE DiskNext
<1>1. CASE UNCHANGED <<repo, tab>>
  BY <1>1, DiskRests
<1> USE DEF M!Disk
<1>2. CASE \E p \in Busy : M!Outside(p) \/ M!TabEdit(p) \/ M!TabSaves(p) \/ M!TabWritten(p) \/ M!TabReloads(p)
  BY <1>2, TabSteps
<1>3. CASE M!OpenSaves \/ M!FinalizeWrites \/ M!FinalizeStages
  BY <1>3, OpenSavesTab, WritesTab, StagesTab
<1>4. CASE M!GitOpStarts \/ M!GitOpEnds \/ M!ResetForWorkspace
  BY <1>1, <1>4 DEF M!GitOpStarts, M!GitOpEnds, M!ResetForWorkspace
<1>5. CASE (\E p \in Paths : M!OpenMergeResolution(p)) \/ M!OpenReads \/ M!OpenFails
  BY <1>1, <1>5 DEF M!OpenMergeResolution, M!OpenReads, M!OpenFails
<1>6. CASE M!RecordDecision \/ M!ReopenDecision \/ (\E side \in M!Sides : M!SelectMergeSide(side))
           \/ M!AcknowledgeMergeExternal \/ M!RequestMergeClose \/ M!AnswerMergeClose
  BY <1>1, <1>6 DEF M!RecordDecision, M!ReopenDecision, M!SelectMergeSide,
                    M!AcknowledgeMergeExternal, M!Edited, M!RequestMergeClose, M!AnswerMergeClose
<1>7. CASE M!MergeFileChanged \/ M!ApplyMergeReload \/ M!CheckFails \/ M!CheckAnswered
  BY <1>1, <1>7 DEF M!MergeFileChanged, M!ApplyMergeReload, M!CheckFails, M!CheckAnswered
<1>8. CASE M!MergeFinalizeAndStage \/ M!MergeOverwriteAndStage \/ M!OverwriteRead
  BY <1>1, <1>8 DEF M!MergeFinalizeAndStage, M!MergeOverwriteAndStage, M!OverwriteRead
<1>9. CASE M!FinalizeLocked \/ M!WriteFails \/ M!StageFails \/ M!AdvanceSettles
  BY <1>1, <1>9 DEF M!FinalizeLocked, M!WriteFails, M!StageFails, M!AdvanceSettles
<1>10. CASE UNCHANGED M!vars
  BY <1>1, <1>10 DEF M!vars
<1> QED BY <1>2, <1>3, <1>4, <1>5, <1>6, <1>7, <1>8, <1>9, <1>10 DEF M!Next

\* What is staged, and the bytes that a write replaces.
LEMMA StagedSteps ==
  ASSUME [M!Next]_(M!vars)
  PROVE  \/ UNCHANGED staged
         \/ /\ final.phase = "stage" /\ repo[final.path] = final.expected
            /\ staged' = [staged EXCEPT ![final.path] = repo[final.path].text]
<1>1. CASE M!FinalizeStages
  BY <1>1 DEF M!FinalizeStages, M!Applies
<1>2. CASE ~M!FinalizeStages
  BY <1>2 DEF M!Next, M!vars, M!Disk, M!Outside, M!TabEdit, M!TabSaves, M!TabWritten, M!TabReloads,
              M!GitOpStarts, M!GitOpEnds, M!ResetForWorkspace, M!OpenMergeResolution, M!OpenSaves,
              M!OpenReads, M!OpenFails, M!RecordDecision, M!ReopenDecision, M!SelectMergeSide,
              M!AcknowledgeMergeExternal, M!Edited, M!RequestMergeClose, M!AnswerMergeClose,
              M!MergeFileChanged, M!ApplyMergeReload, M!CheckFails, M!CheckAnswered,
              M!MergeFinalizeAndStage, M!MergeOverwriteAndStage, M!OverwriteRead,
              M!FinalizeLocked, M!FinalizeWrites, M!WriteFails, M!StageFails, M!AdvanceSettles
<1> QED BY <1>1, <1>2

LEMMA StageChosenStep ==
  ASSUME DiskInv, FinalInv, [M!Next]_(M!vars) PROVE M!StageChosen /\ staged' \in [Paths -> M!Texts \cup {"no"}]
<1>1. CASE UNCHANGED staged
  BY <1>1 DEF M!StageChosen, DiskInv
<1>2. CASE /\ final.phase = "stage" /\ repo[final.path] = final.expected
           /\ staged' = [staged EXCEPT ![final.path] = repo[final.path].text]
  <2>1. final.expected.text = Chosen(final)
    BY <1>2 DEF FinalInv, M!InFlight, FinalSound
  <2>2. CASE final.path \in Paths
    <3>1. repo[final.path].text \in M!Texts
      BY <2>2 DEF DiskInv, Version
    <3> QED BY <1>2, <2>1, <2>2, <3>1 DEF DiskInv, M!StageChosen, Chosen
  <2>3. CASE final.path \notin Paths
    BY <1>1, <1>2, <2>3 DEF DiskInv
  <2> QED BY <2>2, <2>3
<1> QED BY <1>1, <1>2, StagedSteps

LEMMA WriteReviewedStep ==
  ASSUME FinalInv, [M!Next]_(M!vars) PROVE M!WriteReviewed
<1> SUFFICES ASSUME final.phase = "write", final'.phase # "write", writes' # writes
             PROVE  /\ repo[final.path].stages = final.shown.stages
                    /\ final.over \/ repo[final.path].text \in {final.shown.text, "result"} \cup M!Sides
  BY DEF M!WriteReviewed
<1>1. FinalSound(final)
  BY DEF FinalInv, M!InFlight
<1>2. repo[final.path] = final.expected
  <2>1. CASE M!FinalizeWrites
    BY <2>1 DEF M!FinalizeWrites, M!Applies, M!Disk
  <2>2. CASE ~M!FinalizeWrites
    BY <2>2 DEF M!Next, M!vars, M!Disk, M!Outside, M!TabEdit, M!TabSaves, M!TabWritten, M!TabReloads,
              M!GitOpStarts, M!GitOpEnds, M!ResetForWorkspace, M!OpenMergeResolution, M!OpenSaves,
              M!OpenReads, M!OpenFails, M!RecordDecision, M!ReopenDecision, M!SelectMergeSide,
              M!AcknowledgeMergeExternal, M!Edited, M!RequestMergeClose, M!AnswerMergeClose,
              M!MergeFileChanged, M!ApplyMergeReload, M!CheckFails, M!CheckAnswered,
              M!MergeFinalizeAndStage, M!MergeOverwriteAndStage, M!OverwriteRead,
              M!FinalizeLocked, M!WriteFails, M!FinalizeStages, M!StageFails, M!AdvanceSettles
  <2> QED BY <2>1, <2>2
<1> QED BY <1>1, <1>2 DEF FinalSound, Reviewed

LEMMA DiskInit == ASSUME M!Init PROVE DiskInv
<1>1. PICK s \in Starting : repo = [p \in Paths |-> [stages |-> s[p], text |-> "merged"]]
  BY DEF M!Init
<1>2. \A p \in Paths : s[p] \in M!Stages
  BY MergeAssumption DEF M!MergeAssumption, M!Stages
<1>3. repo \in [Paths -> Version]
  BY <1>1, <1>2, TextsKnown DEF Version, Known
<1>4. tab \in [Paths -> Tab]
  BY TextsKnown DEF M!Init, Tab, Known
<1>5. staged \in [Paths -> M!Texts \cup {"no"}]
  BY DEF M!Init
<1> QED BY <1>3, <1>4, <1>5 DEF DiskInv

(* The conflict that a finalize settles is the one that was decided; it      *)
(* writes over the bytes that the session showed or wrote itself, or those   *)
(* that the user agreed to overwrite; what is staged is the resolution of    *)
(* the finalize that stages it; and an edit in the file's own tab leaves it   *)
(* only through a save: whatever other programs, tabs, reloads, failures,    *)
(* hand-offs and switches come between.                                      *)
THEOREM WritesReviewedAlways == Spec => WritesReviewed
<1> DEFINE J == part = "merge" => MergeInv /\ DiskInv
           A == part = "merge" => M!WriteReviewed /\ M!StageChosen /\ M!TabKept
<1>1. Init => J
  BY MergeInit, DiskInit DEF Init
<1>2. J /\ [Next]_vars => J' /\ A
  <2> SUFFICES ASSUME J, [Next]_vars, part = "merge" PROVE J' /\ A
    BY PartKept
  <2>1. MergeInv' /\ [M!Next]_(M!vars)
    BY MergeAlone, MergeKept
  <2>2. DiskNext /\ M!TabKept
    BY <2>1, DiskSteps DEF DiskNext, M!TabKept, MergeInv
  <2>3. M!StageChosen /\ staged' \in [Paths -> M!Texts \cup {"no"}]
    BY <2>1, StageChosenStep DEF MergeInv
  <2>4. M!WriteReviewed
    BY <2>1, WriteReviewedStep DEF MergeInv
  <2>5. DiskInv'
    BY <2>2, <2>3 DEF DiskInv, DiskNext, Version, Tab, M!Texts, M!Marked, M!Sides, M!Stages, M!Gone
  <2> QED BY <2>1, <2>2, <2>3, <2>4, <2>5
<1> QED BY <1>1, <1>2, PTL DEF Spec, WritesReviewed

-----------------------------------------------------------------------------
(* The totals of the problems.  A sum over a finite set is a recursive      *)
(* function over its subsets; that there is one, and that there is only     *)
(* one, follows from the order of the subsets being well-founded.           *)

\* What the sum takes first.
First(U) == CHOOSE x \in U : TRUE

Rest(U) == U \ {First(U)}

Sums(g, f, U) == g = [A \in SUBSET U |-> IF A = {} THEN 0 ELSE f[First(A)] + g[Rest(A)]]

LEMMA Taken == ASSUME NEW U, U # {} PROVE First(U) \in U /\ Rest(U) \subseteq U /\ Rest(U) # U
BY DEF First, Rest

LEMMA SumStep ==
  ASSUME NEW g, NEW f, NEW U, Sums(g, f, U), NEW A \in SUBSET U
  PROVE  g[A] = IF A = {} THEN 0 ELSE f[First(A)] + g[Rest(A)]
<1> DEFINE body == [B \in SUBSET U |-> IF B = {} THEN 0 ELSE f[First(B)] + g[Rest(B)]]
<1>1. body[A] = IF A = {} THEN 0 ELSE f[First(A)] + g[Rest(A)]
  OBVIOUS
<1>2. g = body
  BY DEF Sums
<1> HIDE DEF body
<1> QED BY <1>1, <1>2

\* Of the subsets of a finite set with some property, one has no smaller one beside it.
LEMMA Smallest ==
  ASSUME NEW U, IsFiniteSet(U), NEW Bad, Bad \subseteq SUBSET U, Bad # {}
  PROVE  \E A \in Bad : \A B \in Bad : ~(B \subseteq A /\ B # A)
<1>1. Bad \subseteq FiniteSubsetsOf(U)
  BY FS_FiniteSubsetsOfFinite
<1>2. PICK A \in Bad : \A B \in Bad : ~(<<B, A>> \in StrictSubsetOrdering(U))
  BY <1>1, FS_StrictSubsetOrderingWellFounded, WFMin
<1> QED BY <1>2 DEF StrictSubsetOrdering

LEMMA OneSum ==
  ASSUME NEW f, NEW U, IsFiniteSet(U), NEW V1 \in SUBSET U,
         NEW g, Sums(g, f, U), NEW h, Sums(h, f, V1), NEW A \in SUBSET V1
  PROVE  g[A] = h[A]
<1> DEFINE Bad == {B \in SUBSET V1 : g[B] # h[B]}
<1> SUFFICES ASSUME Bad # {} PROVE FALSE
  OBVIOUS
<1>1. PICK B \in Bad : \A C \in Bad : ~(C \subseteq B /\ C # B)
  <2>1. IsFiniteSet(V1) /\ Bad \subseteq SUBSET V1
    BY FS_Subset
  <2> HIDE DEF Bad
  <2> QED BY <2>1, Smallest
<1>2. B \in SUBSET V1 /\ B \in SUBSET U /\ g[B] # h[B]
  OBVIOUS
<1>3. /\ g[B] = IF B = {} THEN 0 ELSE f[First(B)] + g[Rest(B)]
      /\ h[B] = IF B = {} THEN 0 ELSE f[First(B)] + h[Rest(B)]
  BY <1>2, SumStep
<1>4. B # {} => Rest(B) \in SUBSET V1 /\ Rest(B) \notin Bad
  BY <1>1, <1>2, Taken
<1> QED BY <1>2, <1>3, <1>4

LEMMA SumExists == ASSUME NEW f, NEW U, IsFiniteSet(U) PROVE \E g : Sums(g, f, U)
<1> DEFINE Bad == {A \in SUBSET U : ~\E g : Sums(g, f, A)}
<1> SUFFICES ASSUME Bad # {} PROVE FALSE
  OBVIOUS
<1>1. PICK A \in Bad : \A B \in Bad : ~(B \subseteq A /\ B # A)
  <2>1. Bad \subseteq SUBSET U
    OBVIOUS
  <2> HIDE DEF Bad
  <2> QED BY <2>1, Smallest
<1> DEFINE of(B) == CHOOSE g : Sums(g, f, B)
           now == IF A = {} THEN 0 ELSE f[First(A)] + of(Rest(A))[Rest(A)]
           g == [B \in SUBSET A |-> IF B = A THEN now ELSE of(B)[B]]
<1>2. ASSUME NEW B \in SUBSET A, B # A PROVE Sums(of(B), f, B) /\ IsFiniteSet(B)
  <2>1. B \notin Bad /\ B \in SUBSET U
    BY <1>1, <1>2
  <2>2. \E k : Sums(k, f, B)
    BY <2>1
  <2> QED BY <2>1, <2>2, FS_Subset
<1>3. ASSUME NEW B \in SUBSET A PROVE g[B] = IF B = {} THEN 0 ELSE f[First(B)] + g[Rest(B)]
  <2>1. B # {} => Rest(B) \in SUBSET A /\ Rest(B) # A /\ Rest(B) \in SUBSET B
    BY Taken
  <2>2. B # {} => g[Rest(B)] = of(Rest(B))[Rest(B)]
    BY <2>1
  <2>3. CASE B = A
    BY <2>2, <2>3
  <2>4. CASE B # A
    <3>1. g[B] = of(B)[B] /\ B \in SUBSET B
      BY <2>4
    <3>2. of(B)[B] = IF B = {} THEN 0 ELSE f[First(B)] + of(B)[Rest(B)]
      BY <1>2, <2>4, <3>1, SumStep
    <3>3. B # {} => of(B)[Rest(B)] = of(Rest(B))[Rest(B)]
      <4> HAVE B # {}
      <4>1. Sums(of(B), f, B) /\ IsFiniteSet(B) /\ Sums(of(Rest(B)), f, Rest(B))
        BY <1>2, <2>1, <2>4
      <4> HIDE DEF of
      <4>2. Rest(B) \in SUBSET B /\ Rest(B) \in SUBSET Rest(B)
        BY <2>1
      <4> QED BY <4>1, <4>2, OneSum
    <3> QED BY <2>2, <3>1, <3>2, <3>3
  <2> QED BY <2>3, <2>4
<1>4. Sums(g, f, A)
  <2>1. g = [B \in SUBSET A |-> g[B]]
    OBVIOUS
  <2> HIDE DEF g
  <2> QED BY <1>3, <2>1 DEF Sums
<1> QED BY <1>4

\* The sum of the module is the last value of that function.
LEMMA SumOf ==
  ASSUME NEW f, IsFiniteSet(DOMAIN f)
  PROVE  \E g : Sums(g, f, DOMAIN f) /\ Q!Sum(f) = g[DOMAIN f]
<1> DEFINE g == CHOOSE h : h = [A \in SUBSET DOMAIN f |->
                                  IF A = {} THEN 0 ELSE f[CHOOSE x \in A : TRUE] + h[A \ {CHOOSE x \in A : TRUE}]]
<1>1. Q!Sum(f) = g[DOMAIN f]
  BY DEF Q!Sum, Q!MapThenSumSet, Q!MapThenFoldSet
<1>2. \E h : h = [A \in SUBSET DOMAIN f |->
                    IF A = {} THEN 0 ELSE f[CHOOSE x \in A : TRUE] + h[A \ {CHOOSE x \in A : TRUE}]]
  <2>1. PICK h : Sums(h, f, DOMAIN f)
    BY SumExists
  <2> QED BY <2>1 DEF Sums, First, Rest
<1>3. Sums(g, f, DOMAIN f)
  BY <1>2 DEF Sums, First, Rest
<1> QED BY <1>1, <1>3

\* The values of that function.
Takes(g, f) ==
  /\ Q!Sum(f) = g[DOMAIN f]
  /\ \A A \in SUBSET DOMAIN f : g[A] = IF A = {} THEN 0 ELSE f[First(A)] + g[Rest(A)]

LEMMA SumTakes == ASSUME NEW f, IsFiniteSet(DOMAIN f) PROVE \E g : Takes(g, f)
<1>1. PICK g : Sums(g, f, DOMAIN f) /\ Q!Sum(f) = g[DOMAIN f]
  BY SumOf
<1>2. \A A \in SUBSET DOMAIN f : g[A] = IF A = {} THEN 0 ELSE f[First(A)] + g[Rest(A)]
  BY <1>1, SumStep
<1> QED BY <1>1, <1>2 DEF Takes

LEMMA SumInt ==
  ASSUME NEW f, IsFiniteSet(DOMAIN f), \A x \in DOMAIN f : f[x] \in Int PROVE Q!Sum(f) \in Int
<1> DEFINE U == DOMAIN f
<1>1. PICK g : Takes(g, f)
  BY SumTakes
<1> DEFINE Bad == {A \in SUBSET U : g[A] \notin Int}
<1> SUFFICES ASSUME Bad # {} PROVE FALSE
  BY <1>1 DEF Takes
<1>2. PICK A \in Bad : \A B \in Bad : ~(B \subseteq A /\ B # A)
  <2>1. Bad \subseteq SUBSET U
    OBVIOUS
  <2> HIDE DEF Bad
  <2> QED BY <2>1, Smallest
<1>3. A \in SUBSET U /\ g[A] \notin Int
  OBVIOUS
<1>4. g[A] = IF A = {} THEN 0 ELSE f[First(A)] + g[Rest(A)]
  BY <1>1, <1>3 DEF Takes
<1>5. A # {} => f[First(A)] \in Int /\ g[Rest(A)] \in Int
  <2> HAVE A # {}
  <2>1. First(A) \in U /\ Rest(A) \in SUBSET U /\ Rest(A) \notin Bad
    BY <1>2, <1>3, Taken
  <2> QED BY <2>1
<1> QED BY <1>3, <1>4, <1>5

\* Three sums over the same things are the sum of what the three add up to for each.
Totalled(U, a, b, c, d) ==
  /\ a \in [U -> Int] /\ b \in [U -> Int] /\ c \in [U -> Int] /\ d \in [U -> Int]
  /\ \A x \in U : d[x] = a[x] + b[x] + c[x]

LEMMA SumOfThree ==
  ASSUME NEW U, IsFiniteSet(U), NEW a, NEW b, NEW c, NEW d, Totalled(U, a, b, c, d)
  PROVE  Q!Sum(d) = Q!Sum(a) + Q!Sum(b) + Q!Sum(c)
<1> USE DEF Totalled
<1>1. DOMAIN a = U /\ DOMAIN b = U /\ DOMAIN c = U /\ DOMAIN d = U
  OBVIOUS
<1>2. PICK ga : Takes(ga, a)
  BY <1>1, SumTakes
<1>3. PICK gb : Takes(gb, b)
  BY <1>1, SumTakes
<1>4. PICK gc : Takes(gc, c)
  BY <1>1, SumTakes
<1>5. PICK gd : Takes(gd, d)
  BY <1>1, SumTakes
<1> DEFINE Fine(A) == /\ ga[A] \in Int /\ gb[A] \in Int /\ gc[A] \in Int
                      /\ gd[A] = ga[A] + gb[A] + gc[A]
           Bad == {A \in SUBSET U : ~Fine(A)}
<1> SUFFICES ASSUME Bad # {} PROVE FALSE
  BY <1>1, <1>2, <1>3, <1>4, <1>5 DEF Takes
<1>6. PICK A \in Bad : \A B \in Bad : ~(B \subseteq A /\ B # A)
  <2>1. Bad \subseteq SUBSET U
    OBVIOUS
  <2> HIDE DEF Bad
  <2> QED BY <2>1, Smallest
<1>7. A \in SUBSET U /\ ~Fine(A)
  OBVIOUS
<1>8. /\ ga[A] = IF A = {} THEN 0 ELSE a[First(A)] + ga[Rest(A)]
      /\ gb[A] = IF A = {} THEN 0 ELSE b[First(A)] + gb[Rest(A)]
      /\ gc[A] = IF A = {} THEN 0 ELSE c[First(A)] + gc[Rest(A)]
      /\ gd[A] = IF A = {} THEN 0 ELSE d[First(A)] + gd[Rest(A)]
  BY <1>1, <1>2, <1>3, <1>4, <1>5, <1>7 DEF Takes
<1>9. A # {} => First(A) \in U /\ Fine(Rest(A))
  <2> HAVE A # {}
  <2>1. First(A) \in U /\ Rest(A) \in SUBSET U /\ Rest(A) \notin Bad
    BY <1>6, <1>7, Taken
  <2> QED BY <2>1
<1>10. CASE A = {}
  BY <1>7, <1>8, <1>10
<1>11. CASE A # {}
  <2> DEFINE x == First(A)
             R == Rest(A)
  <2>1. a[x] \in Int /\ b[x] \in Int /\ c[x] \in Int /\ d[x] = a[x] + b[x] + c[x]
    BY <1>9, <1>11
  <2>2. /\ ga[A] = a[x] + ga[R] /\ gb[A] = b[x] + gb[R] /\ gc[A] = c[x] + gc[R]
        /\ gd[A] = d[x] + gd[R]
    BY <1>8, <1>11
  <2>3. ga[R] \in Int /\ gb[R] \in Int /\ gc[R] \in Int /\ gd[R] = ga[R] + gb[R] + gc[R]
    BY <1>9, <1>11
  <2> HIDE DEF x, R
  <2>4. Fine(A)
    BY <2>1, <2>2, <2>3
  <2> QED BY <1>7, <2>4
<1> QED BY <1>10, <1>11

\* The severities, in whatever order they are taken.
LEMMA SumOfSeverities ==
  ASSUME NEW f \in [Q!Severities -> Int]
  PROVE  Q!Sum(f) = f["error"] + f["warning"] + f["info"]
<1> DEFINE U == {"error", "warning", "info"}
           x == First(U)
           y == First(Rest(U))
           z == First(Rest(Rest(U)))
<1>1. DOMAIN f = U /\ IsFiniteSet(U)
  <2>1. IsFiniteSet({} \cup {"error"} \cup {"warning"} \cup {"info"})
    BY FS_EmptySet, FS_AddElement
  <2>2. U = {} \cup {"error"} \cup {"warning"} \cup {"info"}
    OBVIOUS
  <2> QED BY <2>1, <2>2 DEF Q!Severities
<1>2. PICK g : Takes(g, f)
  BY <1>1, SumTakes
<1>3. /\ x \in U /\ Rest(U) = U \ {x}
      /\ y \in U \ {x} /\ Rest(Rest(U)) = U \ {x, y}
      /\ z \in U \ {x, y} /\ Rest(Rest(Rest(U))) = U \ {x, y, z}
  <2>1. x \in U
    BY Taken
  <2>2. Rest(U) = U \ {x} /\ Rest(U) # {}
    BY <2>1 DEF Rest
  <2>3. y \in Rest(U)
    BY <2>2, Taken
  <2>4. Rest(Rest(U)) = U \ {x, y} /\ Rest(Rest(U)) # {}
    BY <2>1, <2>2, <2>3 DEF Rest
  <2>5. z \in Rest(Rest(U))
    BY <2>4, Taken
  <2>6. Rest(Rest(Rest(U))) = U \ {x, y, z}
    BY <2>4 DEF Rest
  <2> QED BY <2>1, <2>2, <2>3, <2>4, <2>5, <2>6
<1> HIDE DEF x, y, z
<1>4. /\ g[U] = f[x] + g[U \ {x}] /\ g[U \ {x}] = f[y] + g[U \ {x, y}]
      /\ g[U \ {x, y}] = f[z] + g[{}] /\ g[{}] = 0
  <2>1. U \ {x, y, z} = {}
    BY <1>3
  <2>2. U \in SUBSET U /\ U # {} /\ U \ {x} # {} /\ U \ {x, y} # {}
    BY <1>3
  <2>3. g[U] = f[x] + g[Rest(U)]
    BY <1>1, <1>2, <2>2 DEF x, Takes
  <2>4. g[Rest(U)] = f[y] + g[Rest(Rest(U))]
    BY <1>1, <1>2, <1>3, <2>2 DEF y, Takes
  <2>5. g[Rest(Rest(U))] = f[z] + g[Rest(Rest(Rest(U)))]
    BY <1>1, <1>2, <1>3, <2>2 DEF z, Takes
  <2>6. g[{}] = 0
    BY <1>2 DEF Takes
  <2> QED BY <1>3, <2>1, <2>3, <2>4, <2>5, <2>6
<1>5. f["error"] \in Int /\ f["warning"] \in Int /\ f["info"] \in Int
  BY DEF Q!Severities
<1>6. Q!Sum(f) = g[U]
  BY <1>1, <1>2 DEF Takes
<1> QED BY <1>3, <1>4, <1>5, <1>6

-----------------------------------------------------------------------------
(* The problems.                                                            *)

\* What was published is canonical, and there is finitely much of it.
Uri(u) == u \in [host : {"", "remote"}, file : ProblemFiles]
Counts(c) == c \in [Q!Severities -> Int]

Event ==
  [kind : {"diagnostics"}, root : Roots, uri : Q!Uris, counts : Q!Diagnostics]
    \cup [kind : {"status"}, root : Roots, state : {"ready", "error"}, typed : BOOLEAN]

Published ==
  /\ IsFiniteSet(DOMAIN published)
  /\ \A u \in DOMAIN published : Uri(u) /\ Counts(published[u].counts)

\* A read that may still land is for what the effect last ran for.
Numbers ==
  /\ epoch \in Nat /\ left.refreshes \in Nat /\ "refreshes" \in DOMAIN left
  /\ rendered.epoch \in Nat /\ rendered.epoch <= epoch
  /\ rendered.status = 0 \/ (rendered.status \in Nat /\ rendered.status > left.refreshes)
  /\ status.object = 0 \/ (status.object \in Nat /\ status.object > left.refreshes)

Unresolved ==
  /\ disk \in [ProblemFiles -> [unmerged : BOOLEAN, regions : Nat]]
  /\ status.unmerged \subseteq ProblemFiles
  /\ status.repo # "" => status.repo = root /\ (~moved => status.unmerged = Q!Unmerged(root))
  /\ DOMAIN kept.conflicts \subseteq ProblemFiles
  /\ \A f \in DOMAIN kept.conflicts : kept.conflicts[f] \in Nat

\* An answer that a read has had is what the disk still has, unless that has moved.
Answered(r) ==
  /\ {"for", "cancelled", "answers"} \subseteq DOMAIN r /\ DOMAIN r.answers \subseteq ProblemFiles
  /\ \A f \in DOMAIN r.answers : r.answers[f] \in {Q!Pending, Q!Failed} \cup Nat
  /\ ~r.cancelled => r.for = rendered
  /\ ~r.cancelled /\ r.for = Q!Now =>
       /\ DOMAIN r.answers = status.unmerged
       /\ \A f \in status.unmerged :
            r.answers[f] \in {Q!Pending, Q!Failed} \/ moved \/ r.answers[f] = disk[f].regions

Landed ==
  rendered = Q!Now /\ ~moved /\ (\A r \in reads : r.cancelled) /\ status.unmerged # {} =>
    /\ kept.epoch = epoch
    /\ \A f \in status.unmerged \ kept.failed :
         IF disk[f].regions > 0 THEN f \in DOMAIN kept.conflicts /\ kept.conflicts[f] = disk[f].regions
         ELSE f \notin DOMAIN kept.conflicts

ProblemsInv ==
  /\ events \in Seq(Event) /\ Published /\ Q!OfWorkspace
  /\ Numbers /\ Unresolved /\ (\A r \in reads : Answered(r)) /\ Landed

\* What the events of the servers have left in the store.
Store == events \in Seq(Event) /\ Published /\ Q!OfWorkspace

LEMMA DiagnosticsCounted == \A d \in Q!Diagnostics : Counts(d)
BY DEF Q!Diagnostics, Q!None, Q!Severities, Counts

LEMMA UriCanonical == \A u \in Q!Uris : Uri(Q!CanonicalizeFileURI(u))
BY DEF Q!Uris, Q!CanonicalizeFileURI, Uri

LEMMA ReceiveKeeps == ASSUME Store, Q!Receive PROVE Store'
<1> USE DEF Store
<1> DEFINE e == Head(events)
<1>1. e \in Event /\ events' \in Seq(Event) /\ root' = root
  BY DEF Q!Receive
<1>2. CASE UNCHANGED <<published, statuses, toasted>>
  BY <1>1, <1>2 DEF Published, Q!OfWorkspace
<1>3. CASE /\ Q!IsActiveWorkspaceEvent(e.root) /\ e.kind = "diagnostics"
           /\ published' = Q!With(published, Q!CanonicalizeFileURI(e.uri), [root |-> e.root, counts |-> e.counts])
           /\ UNCHANGED <<statuses, toasted>>
  <2> DEFINE u == Q!CanonicalizeFileURI(e.uri)
  <2>1. e.uri \in Q!Uris /\ e.counts \in Q!Diagnostics
    BY <1>1, <1>3 DEF Event
  <2>2. Uri(u) /\ Counts(e.counts)
    BY <2>1, UriCanonical, DiagnosticsCounted
  <2> HIDE DEF u
  <2>3. /\ DOMAIN published' = DOMAIN published \cup {u}
        /\ published'[u].root = e.root /\ published'[u].counts = e.counts
        /\ \A v \in DOMAIN published : v # u => published'[v] = published[v]
    <3> DEFINE y == [root |-> e.root, counts |-> e.counts]
    <3>1. published' = Q!With(published, u, y)
      BY <1>3 DEF u
    <3>2. y.root = e.root /\ y.counts = e.counts
      OBVIOUS
    <3> HIDE DEF e, y
    <3>3. /\ DOMAIN published' = DOMAIN published \cup {u} /\ published'[u] = y
          /\ \A v \in DOMAIN published : v # u => published'[v] = published[v]
      BY <3>1 DEF Q!With
    <3> QED BY <3>2, <3>3
  <2>4. IsFiniteSet(DOMAIN published')
    BY <2>3, FS_AddElement DEF Published
  <2>5. Published'
    BY <2>2, <2>3, <2>4 DEF Published
  <2>6. Q!OfWorkspace'
    <3> SUFFICES ASSUME root # "" PROVE Q!OfWorkspace'
      BY <1>1 DEF Q!OfWorkspace
    <3>1. e.root \in Inside[root]
      BY <1>3 DEF Q!IsActiveWorkspaceEvent
    <3> HIDE DEF e
    <3>2. \A v \in DOMAIN published' : published'[v].root \in Inside[root]
      BY <2>3, <3>1 DEF Q!OfWorkspace
    <3> QED BY <1>1, <1>3, <3>2 DEF Q!OfWorkspace
  <2> QED BY <1>1, <2>5, <2>6
<1>4. CASE /\ Q!IsActiveWorkspaceEvent(e.root) /\ e.kind = "status"
           /\ statuses' = Q!With(statuses, e.root, [state |-> e.state, typed |-> e.typed])
           /\ toasted' = IF e.state = "ready" THEN toasted \ {e.root}
                         ELSE IF e.typed THEN toasted ELSE toasted \cup {e.root}
           /\ UNCHANGED published
  <2>1. /\ DOMAIN statuses' = DOMAIN statuses \cup {e.root}
        /\ statuses'[e.root].state = e.state /\ statuses'[e.root].typed = e.typed
        /\ \A r \in DOMAIN statuses : r # e.root => statuses'[r] = statuses[r]
    <3> DEFINE y == [state |-> e.state, typed |-> e.typed]
    <3>1. statuses' = Q!With(statuses, e.root, y)
      BY <1>4
    <3>2. y.state = e.state /\ y.typed = e.typed
      OBVIOUS
    <3> HIDE DEF e, y
    <3>3. /\ DOMAIN statuses' = DOMAIN statuses \cup {e.root} /\ statuses'[e.root] = y
          /\ \A r \in DOMAIN statuses : r # e.root => statuses'[r] = statuses[r]
      BY <3>1 DEF Q!With
    <3> QED BY <3>2, <3>3
  <2>2. e.state \in {"ready", "error"} /\ e.typed \in BOOLEAN
    BY <1>1, <1>4 DEF Event
  <2> HIDE DEF e
  <2>3. Q!OfWorkspace'
    <3> SUFFICES ASSUME root # "" PROVE Q!OfWorkspace'
      BY <1>1 DEF Q!OfWorkspace
    <3>1. e.root \in Inside[root]
      BY <1>4 DEF Q!IsActiveWorkspaceEvent
    <3>2. /\ \A u \in DOMAIN published' : published'[u].root \in Inside[root]
          /\ DOMAIN statuses' \subseteq Inside[root] /\ toasted' \subseteq DOMAIN statuses'
      BY <1>4, <2>1, <3>1 DEF Q!OfWorkspace
    <3>3. ASSUME NEW r \in DOMAIN statuses'
          PROVE  /\ statuses'[r].state = "ready" => r \notin toasted'
                 /\ statuses'[r].state = "error" /\ ~statuses'[r].typed => r \in toasted'
      <4>1. CASE r = e.root
        <5>1. statuses'[r].state = e.state /\ statuses'[r].typed = e.typed
          BY <2>1, <4>1
        <5>2. e.state = "ready" => r \notin toasted'
          BY <1>4, <4>1
        <5>3. e.state = "error" /\ ~e.typed => r \in toasted'
          BY <1>4, <4>1
        <5> QED BY <5>1, <5>2, <5>3
      <4>2. CASE r # e.root
        <5>1. r \in DOMAIN statuses /\ statuses'[r] = statuses[r]
          BY <2>1, <4>2
        <5>2. r \in toasted' <=> r \in toasted
          BY <1>4, <4>2
        <5> QED BY <5>1, <5>2 DEF Q!OfWorkspace
      <4> QED BY <4>1, <4>2
    <3> QED BY <1>1, <3>2, <3>3 DEF Q!OfWorkspace
  <2> QED BY <1>1, <1>4, <2>3 DEF Published
<1>5. \/ ~Q!IsActiveWorkspaceEvent(e.root) \/ e.kind = "diagnostics" \/ e.kind = "status"
  BY <1>1 DEF Event
<1> QED BY <1>2, <1>3, <1>4 DEF Q!Receive

LEMMA StoreKept == ASSUME Store, [Q!Next]_(Q!vars) PROVE Store'
<1> USE DEF Store
<1>1. CASE Q!Emit
  <2>1. UNCHANGED <<root, published, statuses, toasted>>
    BY <1>1 DEF Q!Emit
  <2>2. \E e \in Event : events' = Append(events, e)
    <3>1. CASE \E r \in Roots : \E uri \in Q!Uris, d \in Q!Diagnostics :
                 events' = Append(events, [kind |-> "diagnostics", root |-> r, uri |-> uri, counts |-> d])
      BY <3>1 DEF Event
    <3>2. CASE \E r \in Roots : \E state \in {"ready", "error"}, typed_ \in BOOLEAN :
                 events' = Append(events, [kind |-> "status", root |-> r, state |-> state, typed |-> typed_])
      BY <3>2 DEF Event
    <3> QED BY <1>1, <3>1, <3>2 DEF Q!Emit
  <2>3. events' \in Seq(Event)
    BY <2>2
  <2> QED BY <2>1, <2>3 DEF Published, Q!OfWorkspace
<1>2. CASE Q!Receive
  BY <1>2, ReceiveKeeps
<1>3. CASE Q!Switch
  <2>1. UNCHANGED events /\ published' = <<>> /\ statuses' = <<>> /\ toasted' = {}
    BY <1>3 DEF Q!Switch, Q!ClearAll
  <2>2. DOMAIN published' = {} /\ DOMAIN statuses' = {}
    BY <2>1
  <2> QED BY <2>1, <2>2, FS_EmptySet DEF Published, Q!OfWorkspace
<1>4. CASE Q!MergeGoesOn \/ Q!Refresh \/ Q!Effect \/ Q!ReadFile \/ Q!ReadDone \/ UNCHANGED Q!vars
  <2>1. UNCHANGED <<root, events, published, statuses, toasted>>
    BY <1>4 DEF Q!MergeGoesOn, Q!Refresh, Q!Effect, Q!ReadFile, Q!ReadDone, Q!vars
  <2> QED BY <2>1 DEF Published, Q!OfWorkspace
<1> QED BY <1>1, <1>2, <1>3, <1>4 DEF Q!Next

\* What the effect has read of the conflicts.
Conflicted == Numbers /\ Unresolved /\ (\A r \in reads : Answered(r)) /\ Landed

LEMMA SpendKeeps ==
  ASSUME Numbers, NEW what, Q!Spend(what)
  PROVE  /\ "refreshes" \in DOMAIN left' /\ left'.refreshes \in Nat /\ left'.refreshes <= left.refreshes
         /\ what = "refreshes" => left'.refreshes = left.refreshes - 1
BY DEF Numbers, Q!Spend

\* Steps of the events, which the reads do not see.
LEMMA EventsPass ==
  ASSUME Conflicted, Q!Emit \/ Q!Receive \/ UNCHANGED Q!vars PROVE Conflicted'
<1> USE DEF Conflicted
<1>1. UNCHANGED <<root, moved, disk, status, epoch, rendered, reads, kept>>
  BY DEF Q!Emit, Q!Receive, Q!vars
<1>2. /\ "refreshes" \in DOMAIN left' /\ left'.refreshes \in Nat /\ left'.refreshes <= left.refreshes
  BY SpendKeeps DEF Q!Emit, Q!Receive, Q!vars, Numbers
<1>3. Numbers'
  BY <1>1, <1>2 DEF Numbers
<1>4. Unresolved'
  BY <1>1 DEF Unresolved, Q!Unmerged
<1>5. \A r \in reads' : Answered(r)'
  BY <1>1 DEF Answered, Q!Now
<1>6. Landed'
  BY <1>1 DEF Landed, Q!Now
<1> QED BY <1>3, <1>4, <1>5, <1>6

LEMMA SwitchKeeps == ASSUME Conflicted, Q!Switch PROVE Conflicted'
<1> USE DEF Conflicted
<1>1. /\ status' = Q!NoStatus /\ epoch' = epoch + 1
      /\ UNCHANGED <<moved, disk, rendered, reads, kept>>
  BY DEF Q!Switch
<1>2. /\ "refreshes" \in DOMAIN left' /\ left'.refreshes \in Nat /\ left'.refreshes <= left.refreshes
  BY SpendKeeps DEF Q!Switch
<1>3. Numbers'
  <2>1. status'.object = 0
    BY <1>1 DEF Q!NoStatus
  <2> QED BY <1>1, <1>2, <2>1 DEF Numbers
<1>4. rendered # Q!Now'
  BY <1>1 DEF Numbers, Q!Now
<1>5. Unresolved'
  BY <1>1 DEF Unresolved, Q!NoStatus
<1> QED BY <1>1, <1>3, <1>4, <1>5 DEF Answered, Landed

LEMMA MoveKeeps == ASSUME Conflicted, Q!MergeGoesOn PROVE Conflicted'
<1> USE DEF Conflicted
<1>1. moved' = TRUE /\ UNCHANGED <<root, status, epoch, rendered, reads, kept>>
  BY DEF Q!MergeGoesOn
<1>2. /\ "refreshes" \in DOMAIN left' /\ left'.refreshes \in Nat /\ left'.refreshes <= left.refreshes
  BY SpendKeeps DEF Q!MergeGoesOn
<1>3. Numbers'
  BY <1>1, <1>2 DEF Numbers
<1>4. disk' \in [ProblemFiles -> [unmerged : BOOLEAN, regions : Nat]]
  <2>1. PICK f \in ProblemFiles, n \in 0..2 :
          disk' = [disk EXCEPT ![f] = [unmerged |-> n # 0 \/ (@.unmerged /\ @.regions # 0), regions |-> n]]
    BY DEF Q!MergeGoesOn
  <2> DEFINE d == [unmerged |-> n # 0 \/ (disk[f].unmerged /\ disk[f].regions # 0), regions |-> n]
  <2>2. d \in [unmerged : BOOLEAN, regions : Nat]
    OBVIOUS
  <2>3. disk' = [disk EXCEPT ![f] = d]
    BY <2>1
  <2> HIDE DEF d
  <2> QED BY <2>2, <2>3 DEF Unresolved
<1> QED BY <1>1, <1>3, <1>4 DEF Unresolved, Answered, Q!Now, Landed

LEMMA RefreshKeeps == ASSUME Conflicted, Q!Refresh PROVE Conflicted'
<1> USE DEF Conflicted
<1>1. /\ status' = [object |-> left.refreshes, repo |-> root, unmerged |-> Q!Unmerged(root)]
      /\ left.refreshes > 0
      /\ UNCHANGED <<root, disk, epoch, rendered, reads, kept>>
  BY DEF Q!Refresh, Q!Spend
<1>2. /\ "refreshes" \in DOMAIN left' /\ left'.refreshes \in Nat /\ left'.refreshes = left.refreshes - 1
  BY SpendKeeps DEF Q!Refresh
<1>3. status'.object = left.refreshes /\ status'.repo = root /\ status'.unmerged = Q!Unmerged(root)
  BY <1>1
<1>4. left.refreshes \in Nat
  BY DEF Numbers
<1>5. Numbers'
  BY <1>1, <1>2, <1>3, <1>4 DEF Numbers
<1>6. rendered # Q!Now'
  BY <1>1, <1>3, <1>4 DEF Numbers, Q!Now
<1>7. Unresolved'
  BY <1>1, <1>3 DEF Unresolved, Q!Unmerged
<1> QED BY <1>1, <1>5, <1>6, <1>7 DEF Answered, Landed

LEMMA EffectKeeps == ASSUME Conflicted, Q!Effect PROVE Conflicted'
<1> USE DEF Conflicted
<1> DEFINE new == [for |-> Q!Now, cancelled |-> FALSE, answers |-> [f \in status.unmerged |-> Q!Pending]]
<1>1. /\ rendered' = Q!Now
      /\ reads' = Q!Cancelled \cup (IF status.unmerged = {} THEN {} ELSE {new})
      /\ UNCHANGED <<root, moved, disk, status, epoch, kept, left>>
  BY DEF Q!Effect
<1>2. Numbers'
  BY <1>1 DEF Numbers, Q!Now
<1>3. Unresolved'
  BY <1>1 DEF Unresolved, Q!Unmerged
<1>4. Q!Now' = Q!Now
  BY <1>1 DEF Q!Now
<1>5. ASSUME NEW r \in Q!Cancelled PROVE Answered(r)' /\ r.cancelled
  <2>1. PICK q \in reads : r = [q EXCEPT !.cancelled = TRUE]
    BY <1>5 DEF Q!Cancelled
  <2>2. Answered(q)
    OBVIOUS
  <2>3. /\ {"for", "cancelled", "answers"} \subseteq DOMAIN r
        /\ r.cancelled /\ r.answers = q.answers
    BY <2>1, <2>2 DEF Answered
  <2> QED BY <2>2, <2>3 DEF Answered
<1>6. ASSUME NEW r, r = new PROVE Answered(r)' /\ ~r.cancelled
  <2>1. /\ r.for = Q!Now /\ ~r.cancelled /\ DOMAIN r.answers = status.unmerged
        /\ \A f \in status.unmerged : r.answers[f] = Q!Pending
        /\ {"for", "cancelled", "answers"} \subseteq DOMAIN r
    BY <1>6
  <2> HIDE DEF new
  <2> QED BY <1>1, <1>4, <2>1 DEF Answered, Unresolved
<1> HIDE DEF new
<1>7. \A r \in reads' : Answered(r)'
  BY <1>1, <1>5, <1>6
<1>8. Landed'
  BY <1>1, <1>6 DEF Landed
<1> QED BY <1>2, <1>3, <1>7, <1>8

LEMMA ReadKeeps == ASSUME Conflicted, Q!ReadFile PROVE Conflicted'
<1> USE DEF Conflicted
<1>1. UNCHANGED <<root, moved, disk, status, epoch, rendered, kept>>
  BY DEF Q!ReadFile
<1>2. /\ "refreshes" \in DOMAIN left' /\ left'.refreshes \in Nat /\ left'.refreshes <= left.refreshes
  BY SpendKeeps DEF Q!ReadFile, Numbers
<1>3. Numbers' /\ Unresolved'
  <2>1. Numbers'
    BY <1>1, <1>2 DEF Numbers
  <2>2. Unresolved'
    BY <1>1 DEF Unresolved, Q!Unmerged
  <2> QED BY <2>1, <2>2
<1>4. PICK r \in reads : \E f \in DOMAIN r.answers : \E n \in {disk[f].regions, Q!Failed} :
        r.answers[f] = Q!Pending /\ reads' = (reads \ {r}) \cup {[r EXCEPT !.answers[f] = n]}
  BY DEF Q!ReadFile
<1>5. PICK f \in DOMAIN r.answers : \E n \in {disk[f].regions, Q!Failed} :
        r.answers[f] = Q!Pending /\ reads' = (reads \ {r}) \cup {[r EXCEPT !.answers[f] = n]}
  BY <1>4
<1>6. PICK n \in {disk[f].regions, Q!Failed} :
        r.answers[f] = Q!Pending /\ reads' = (reads \ {r}) \cup {[r EXCEPT !.answers[f] = n]}
  BY <1>5
<1> DEFINE q == [r EXCEPT !.answers[f] = n]
<1>7. Answered(r)
  OBVIOUS
<1>8. /\ {"for", "cancelled", "answers"} \subseteq DOMAIN q
      /\ q.for = r.for /\ q.cancelled = r.cancelled /\ DOMAIN q.answers = DOMAIN r.answers
      /\ q.answers[f] = n /\ \A g \in DOMAIN r.answers : g # f => q.answers[g] = r.answers[g]
  BY <1>7 DEF Answered
<1> HIDE DEF q
<1>9. Answered(q)'
  <2>1. /\ ~q.cancelled => q.for = rendered'
        /\ Q!Now' = Q!Now
    BY <1>1, <1>7, <1>8 DEF Answered, Q!Now
  <2>2. n \in {Q!Failed} \cup Nat /\ (n = Q!Failed \/ n = disk[f].regions)
    <3>1. f \in ProblemFiles
      BY <1>5, <1>7 DEF Answered
    <3>2. disk[f] \in [unmerged : BOOLEAN, regions : Nat]
      BY <3>1 DEF Unresolved
    <3>3. disk[f].regions \in Nat
      BY <3>2
    <3> QED BY <1>6, <3>3
  <2>3. \A g \in DOMAIN q.answers : q.answers[g] \in {Q!Pending, Q!Failed} \cup Nat
    BY <1>7, <1>8, <2>2 DEF Answered
  <2> QED BY <1>1, <1>7, <1>8, <2>1, <2>2, <2>3 DEF Answered
<1>10. \A p \in reads' : Answered(p)'
  BY <1>1, <1>6, <1>9 DEF Answered, Q!Now, q
<1>11. Landed'
  BY <1>1, <1>6, <1>8 DEF Landed, Q!Now, q
<1> QED BY <1>3, <1>10, <1>11

LEMMA DoneKeeps == ASSUME Conflicted, Q!ReadDone PROVE Conflicted'
<1> USE DEF Conflicted
<1>1. UNCHANGED <<root, moved, disk, status, epoch, rendered, left>>
  BY DEF Q!ReadDone
<1>2. Q!Now' = Q!Now /\ Q!Unmerged(root)' = Q!Unmerged(root)
  BY <1>1 DEF Q!Now, Q!Unmerged
<1>3. PICK r \in reads :
        /\ \A f \in DOMAIN r.answers : r.answers[f] # Q!Pending
        /\ reads' = reads \ {r}
        /\ LET counted == {f \in DOMAIN r.answers : r.answers[f] > 0} IN
           kept' = IF Q!Lands(r) THEN [epoch |-> r.for.epoch, conflicts |-> [f \in counted |-> r.answers[f]],
                                       failed |-> {f \in DOMAIN r.answers : r.answers[f] = Q!Failed}]
                   ELSE kept
  BY DEF Q!ReadDone
<1>4. Numbers' /\ \A q \in reads' : Answered(q)'
  BY <1>1, <1>2, <1>3 DEF Numbers, Answered
<1>5. CASE ~Q!Lands(r)
  <2>1. kept' = kept
    BY <1>3, <1>5
  <2>2. Unresolved'
    BY <1>1, <1>2, <2>1 DEF Unresolved
  <2>3. Landed'
    <3>1. rendered # Q!Now \/ r.cancelled
      BY <1>5 DEF Q!Lands, Answered
    <3> QED BY <1>1, <1>2, <1>3, <2>1, <3>1 DEF Landed
  <2> QED BY <1>4, <2>2, <2>3
<1>6. CASE Q!Lands(r)
  <2> DEFINE counted == {f \in DOMAIN r.answers : r.answers[f] > 0}
  <2>1. /\ kept'.epoch = r.for.epoch /\ DOMAIN kept'.conflicts = counted
        /\ \A f \in counted : kept'.conflicts[f] = r.answers[f]
        /\ kept'.failed = {f \in DOMAIN r.answers : r.answers[f] = Q!Failed}
    BY <1>3, <1>6
  <2>2. /\ r.for = Q!Now /\ DOMAIN r.answers = status.unmerged
        /\ status.unmerged \subseteq ProblemFiles
        /\ \A f \in status.unmerged :
             /\ r.answers[f] = Q!Failed \/ r.answers[f] \in Nat
             /\ r.answers[f] = Q!Failed \/ moved \/ r.answers[f] = disk[f].regions
    BY <1>3, <1>6 DEF Q!Lands, Answered, Unresolved
  <2>3. \A f \in counted : f \in ProblemFiles /\ r.answers[f] \in Nat
    BY <2>2 DEF Q!Failed
  <2>4. Unresolved'
    BY <1>1, <1>2, <2>1, <2>3 DEF Unresolved
  <2>5. Landed'
    <3> SUFFICES ASSUME ~moved
                 PROVE  /\ kept'.epoch = epoch
                        /\ \A f \in status.unmerged \ kept'.failed :
                             IF disk[f].regions > 0
                             THEN f \in DOMAIN kept'.conflicts /\ kept'.conflicts[f] = disk[f].regions
                             ELSE f \notin DOMAIN kept'.conflicts
      BY <1>1 DEF Landed
    <3>1. kept'.epoch = epoch
      BY <2>1, <2>2 DEF Q!Now
    <3>2. ASSUME NEW f \in status.unmerged \ kept'.failed
          PROVE  r.answers[f] = disk[f].regions /\ (f \in counted <=> disk[f].regions > 0)
      BY <2>1, <2>2, <3>2
    <3> QED BY <2>1, <3>1, <3>2
  <2> QED BY <1>4, <2>4, <2>5
<1> QED BY <1>5, <1>6

LEMMA ConflictsKept == ASSUME Conflicted, [Q!Next]_(Q!vars) PROVE Conflicted'
BY EventsPass, SwitchKeeps, MoveKeeps, RefreshKeeps, EffectKeeps, ReadKeeps, DoneKeeps DEF Q!Next

LEMMA ProblemsInit == ASSUME Q!Init PROVE ProblemsInv
<1>1. /\ events = <<>> /\ published = <<>> /\ statuses = <<>> /\ toasted = {}
      /\ status = Q!NoStatus /\ epoch = 1 /\ rendered = [status |-> 0, epoch |-> 1]
      /\ reads = {} /\ kept = Q!NoRead /\ left \in ReportCasts
      /\ disk \in [ProblemFiles -> [unmerged : {TRUE}, regions : {1}]]
  BY DEF Q!Init
<1>2. DOMAIN published = {} /\ DOMAIN statuses = {} /\ DOMAIN kept.conflicts = {}
  BY <1>1 DEF Q!NoRead
<1>3. events \in Seq(Event)
  BY <1>1
<1>4. Published /\ Q!OfWorkspace
  BY <1>1, <1>2, FS_EmptySet DEF Published, Q!OfWorkspace
<1>5. Numbers
  <2>1. "refreshes" \in DOMAIN left /\ left.refreshes \in Nat
    BY <1>1, ProblemsAssumption DEF Q!ProblemsAssumption
  <2>2. status.object = 0 /\ rendered.epoch = 1 /\ rendered.status = 0
    BY <1>1 DEF Q!NoStatus
  <2> QED BY <1>1, <2>1, <2>2 DEF Numbers
<1>6. Unresolved
  <2>1. disk \in [ProblemFiles -> [unmerged : BOOLEAN, regions : Nat]]
    <3>1. ASSUME NEW x \in [unmerged : {TRUE}, regions : {1}]
          PROVE  x \in [unmerged : BOOLEAN, regions : Nat]
      <4>1. x = [unmerged |-> TRUE, regions |-> 1]
        OBVIOUS
      <4> QED BY <4>1
    <3> QED BY <1>1, <3>1
  <2>2. status.unmerged = {} /\ status.repo = ""
    BY <1>1 DEF Q!NoStatus
  <2> QED BY <1>2, <2>1, <2>2 DEF Unresolved
<1>7. Landed /\ \A r \in reads : Answered(r)
  BY <1>1 DEF Landed, Q!NoStatus
<1> QED BY <1>3, <1>4, <1>5, <1>6, <1>7 DEF ProblemsInv

LEMMA ProblemsKept == ASSUME ProblemsInv, [Q!Next]_(Q!vars) PROVE ProblemsInv'
BY StoreKept, ConflictsKept DEF ProblemsInv, Store, Conflicted

LEMMA Finite == /\ IsFiniteSet(ProblemFiles)
                /\ \A A : Published /\ A \subseteq DOMAIN published => IsFiniteSet(A)
<1>1. IsFiniteSet(ProblemFiles)
  BY ProblemsAssumption DEF Q!ProblemsAssumption, Q!IsFiniteSet, IsFiniteSet
<1> QED BY <1>1, FS_Subset DEF Published

\* The status bar adds up what the badge counts, in another order.
LEMMA TotalsAgree == ASSUME ProblemsInv PROVE Q!Sum(Q!Totals) = Q!Count
<1> USE DEF ProblemsInv
<1> DEFINE of(s) == [u \in Q!Groups |-> published[u].counts[s]]
           all == [u \in Q!Groups |-> Q!Sum(published[u].counts)]
           c == Q!Sum(Q!Conflicts)
<1>1. Q!Groups \subseteq DOMAIN published /\ IsFiniteSet(Q!Groups)
  BY Finite DEF Q!Groups, Q!GroupedDiagnostics
<1>2. c \in Int
  <2>1. IsFiniteSet(DOMAIN Q!Conflicts) /\ \A f \in DOMAIN Q!Conflicts : Q!Conflicts[f] \in Int
    <3>1. CASE Q!Conflicts = <<>>
      BY <3>1, FS_EmptySet
    <3>2. CASE Q!Conflicts = [f \in DOMAIN kept.conflicts \cap status.unmerged |-> kept.conflicts[f]]
      <4>1. DOMAIN Q!Conflicts \subseteq ProblemFiles
        BY <3>2 DEF Unresolved
      <4>2. ASSUME NEW f \in DOMAIN Q!Conflicts PROVE Q!Conflicts[f] \in Int
        <5>1. f \in DOMAIN kept.conflicts /\ Q!Conflicts[f] = kept.conflicts[f]
          BY <3>2
        <5>2. kept.conflicts[f] \in Nat
          BY <5>1 DEF Unresolved
        <5> QED BY <5>1, <5>2
      <4> QED BY <4>1, <4>2, Finite, FS_Subset
    <3> QED BY <3>1, <3>2 DEF Q!Conflicts
  <2> QED BY <2>1, SumInt
<1>3. \A u \in Q!Groups : Counts(published[u].counts)
  BY <1>1 DEF Published
<1>4. ASSUME NEW s \in Q!Severities PROVE of(s) \in [Q!Groups -> Int] /\ Q!Sum(of(s)) \in Int
  <2>1. of(s) \in [Q!Groups -> Int]
    BY <1>3 DEF Counts
  <2> HIDE DEF of
  <2>2. DOMAIN of(s) = Q!Groups /\ \A u \in Q!Groups : of(s)[u] \in Int
    BY <2>1
  <2> QED BY <1>1, <2>1, <2>2, SumInt
<1>5. "error" \in Q!Severities /\ "warning" \in Q!Severities /\ "info" \in Q!Severities
  BY DEF Q!Severities
<1>6. /\ all \in [Q!Groups -> Int]
      /\ \A u \in Q!Groups : all[u] = of("error")[u] + of("warning")[u] + of("info")[u]
  <2>1. ASSUME NEW u \in Q!Groups
        PROVE  /\ all[u] = of("error")[u] + of("warning")[u] + of("info")[u]
               /\ all[u] \in Int
    <3>1. published[u].counts \in [Q!Severities -> Int]
      BY <1>3 DEF Counts
    <3>2. Q!Sum(published[u].counts) =
            published[u].counts["error"] + published[u].counts["warning"] + published[u].counts["info"]
      BY <3>1, SumOfSeverities
    <3> QED BY <1>5, <3>1, <3>2
  <2> QED BY <2>1
<1>7. Q!Totals = [s \in Q!Severities |-> Q!Sum(of(s)) + (IF s = "warning" THEN c ELSE 0)]
  BY DEF Q!Totals
<1>8. Q!Count = c + Q!Sum(all)
  BY DEF Q!Count
<1> HIDE DEF of, all, c
<1>9. Q!Sum(all) = Q!Sum(of("error")) + Q!Sum(of("warning")) + Q!Sum(of("info"))
  <2> DEFINE a == of("error")
             b == of("warning")
             d == of("info")
  <2>1. a \in [Q!Groups -> Int] /\ b \in [Q!Groups -> Int] /\ d \in [Q!Groups -> Int]
    BY <1>4, <1>5
  <2>2. all \in [Q!Groups -> Int] /\ \A u \in Q!Groups : all[u] = a[u] + b[u] + d[u]
    BY <1>6
  <2> HIDE DEF a, b, d
  <2>3. Totalled(Q!Groups, a, b, d, all)
    BY <2>1, <2>2 DEF Totalled
  <2>4. Q!Sum(all) = Q!Sum(a) + Q!Sum(b) + Q!Sum(d)
    BY <1>1, <2>3, SumOfThree
  <2> QED BY <2>4 DEF a, b, d
<1>10. /\ Q!Totals \in [Q!Severities -> Int]
       /\ Q!Totals["error"] = Q!Sum(of("error")) /\ Q!Totals["info"] = Q!Sum(of("info"))
       /\ Q!Totals["warning"] = Q!Sum(of("warning")) + c
  BY <1>2, <1>4, <1>5, <1>7
<1>11. Q!Sum(Q!Totals) = Q!Totals["error"] + Q!Totals["warning"] + Q!Totals["info"]
  BY <1>10, SumOfSeverities
<1> QED BY <1>2, <1>4, <1>5, <1>8, <1>9, <1>10, <1>11

LEMMA ShownFollows == ASSUME ProblemsInv PROVE Q!ProblemsSound
<1> USE DEF ProblemsInv
<1>1. ASSUME NEW u \in Q!Groups, NEW v \in Q!Groups,
             Q!FileURIToPath(u) = Q!FileURIToPath(v), Q!FileURIToPath(u) # ""
      PROVE  u = v
  <2>1. Uri(u) /\ Uri(v)
    BY DEF Q!Groups, Q!GroupedDiagnostics, Published
  <2>2. u.host = "" /\ v.host = "" /\ u.file = v.file
    BY <1>1, <2>1 DEF Uri, Q!FileURIToPath
  <2>3. u = [host |-> u.host, file |-> u.file] /\ v = [host |-> v.host, file |-> v.file]
    BY <2>1 DEF Uri
  <2> QED BY <2>2, <2>3
<1>2. ASSUME NEW f \in DOMAIN Q!Conflicts
      PROVE  f \in status.unmerged /\ \A u \in Q!Groups : u.host = "" => u.file # f
  <2>1. f \in status.unmerged
    <3>1. CASE Q!Conflicts = <<>>
      BY <3>1
    <3>2. CASE Q!Conflicts = [g \in DOMAIN kept.conflicts \cap status.unmerged |-> kept.conflicts[g]]
      BY <3>2
    <3> QED BY <3>1, <3>2 DEF Q!Conflicts
  <2>2. \A u \in Q!Groups : u.host = "" => u.file # f
    BY DEF Q!Groups, Q!FileURIToPath
  <2> QED BY <2>1, <2>2
<1>3. Q!ShownOnce
  BY <1>1, <1>2, TotalsAgree DEF Q!ShownOnce
<1>4. Q!ConflictsConverge
  <2> SUFFICES ASSUME Q!Settled, NEW f \in ProblemFiles \ kept.failed
               PROVE  IF f \in Q!Unmerged(root) /\ disk[f].regions > 0
                      THEN f \in DOMAIN Q!Conflicts /\ Q!Conflicts[f] = disk[f].regions
                      ELSE f \notin DOMAIN Q!Conflicts
    BY DEF Q!ConflictsConverge
  <2>1. status.unmerged = Q!Unmerged(root) /\ status.repo # ""
    BY DEF Q!Settled, Unresolved
  <2>2. CASE f \notin status.unmerged
    BY <1>2, <2>1, <2>2
  <2>3. CASE f \in status.unmerged
    <3>1. /\ kept.epoch = epoch
          /\ IF disk[f].regions > 0 THEN f \in DOMAIN kept.conflicts /\ kept.conflicts[f] = disk[f].regions
             ELSE f \notin DOMAIN kept.conflicts
      BY <2>3 DEF Landed, Q!Settled
    <3>2. Q!Conflicts = [g \in DOMAIN kept.conflicts \cap status.unmerged |-> kept.conflicts[g]]
      BY <2>1, <3>1 DEF Q!Conflicts
    <3> QED BY <2>1, <2>3, <3>1, <3>2
  <2> QED BY <2>2, <2>3
<1> QED BY <1>3, <1>4 DEF Q!ProblemsSound

LEMMA ProblemsAlone == ASSUME [Next]_vars, part = "problems" PROVE part' = part /\ [Q!Next]_(Q!vars)
BY DEF Next, SStep, MStep, EStep, GStep, LStep, QStep, VStep, QRest, vars, Q!vars

(* The problems shown are those of the workspace, each once, the totals of  *)
(* the status bar are those of the badge, and the conflicts are those of    *)
(* the disk once the reads have ended, whatever order events, switches,     *)
(* refreshes and answers come in, for any finite set of files.              *)
THEOREM ProblemsShownAlways == Spec => []ProblemsShown
<1> DEFINE I == part = "problems" => ProblemsInv
<1>1. Init => I
  BY ProblemsInit DEF Init
<1>2. I /\ [Next]_vars => I'
  BY ProblemsAlone, ProblemsKept, PartKept
<1>3. I => ProblemsShown
  BY ShownFollows DEF ProblemsShown
<1> QED BY <1>1, <1>2, <1>3, PTL DEF Spec
================================================================================
