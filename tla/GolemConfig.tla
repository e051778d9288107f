---------------------------- MODULE GolemConfig ----------------------------
(***************************************************************************)
(* The configuration tab (components/GolemConfig/GolemConfigWorkspace.tsx) *)
(* and the draft it stages (types/golemConfig.ts): loads that may be       *)
(* superseded, one settings call at a time, a destination challenge that   *)
(* is confirmed by resending the same request, outcomes that nobody knows, *)
(* a source that replaces the document under the draft, and the guard that *)
(* closing the tab or quitting the application has to pass.                *)
(*                                                                         *)
(* A draft is a set of staged items; some of them are API keys, whose      *)
(* values are in a vault beside the draft.  A document is its revision.    *)
(***************************************************************************)
EXTENDS Integers, FiniteSets

CONSTANTS
  Rows,      \* changes that are not keys
  Keys,      \* changes that set an API key
  Profiles,  \* profiles a draft may start from
  Casts      \* bounds of a behaviour: [stages, applies, grants, sources, quits, failures, moves]

ConfigAssumption == Rows \cap Keys = {} /\ {"applied", "blank"} \cap Profiles = {}

VARIABLES
  phase,     \* "loading" | "ready" | "error"
  draft,     \* [source, changes, review, target, drops]
  vault,     \* the keys whose value is held
  preview,   \* the document the cards paint: "none" is the active one
  editors,   \* an editor holds fields that are not staged
  outcome,   \* what the last call left: [challenge, drops, conflict, busy, unknown]
  pending,   \* pendingRequestRef: the request Confirm and Retry resend
  gen,       \* the generation of loads
  loads,     \* loads in flight: [gen, kind, ...]
  inFlight,  \* a reload is in flight
  sourceLoading,
  call,      \* the settings call in flight, NoCall if none
  prompt,    \* the transition the discard dialog asks about, NoPrompt if none
  closing,   \* "no" | "torn": the draft is gone and the quit goes on | "revived" | "closed"
  disk,      \* revision of the active document
  token,     \* the challenges the backend honours: "settings" and "grants", the prompt's, and
             \* "lost", of a call whose answer was lost
  unsure,    \* a write may have landed and no reload has since
  left       \* what is left of the behaviour's bounds

vars == <<phase, draft, vault, preview, editors, outcome, pending, gen, loads, inFlight,
          sourceLoading, call, prompt, closing, disk, token, unsure, left>>
Loading == <<gen, loads, inFlight, sourceLoading>>
Drafting == <<draft, vault, preview, editors, pending>>
Backend == <<disk, token, unsure>>

NoRequest == [target |-> -1]
NoCall == [kind |-> "none"]
NoPrompt == [then |-> "none", arg |-> "none"]
NoOutcome == [challenge |-> "none", drops |-> FALSE, conflict |-> "none", busy |-> FALSE,
              unknown |-> FALSE]
CleanDraft(target) ==
  [source |-> "applied", changes |-> {}, review |-> {}, target |-> target, drops |-> FALSE]

\* The tab mounts and loads the document.
Init ==
  /\ left \in Casts
  /\ phase = "loading" /\ draft = CleanDraft(0) /\ vault = {} /\ preview = "none"
  /\ editors = FALSE /\ outcome = NoOutcome /\ pending = NoRequest
  /\ gen = 1 /\ inFlight = TRUE /\ sourceLoading = FALSE
  /\ loads = {[gen |-> 1, kind |-> "reload", clears |-> FALSE]}
  /\ call = NoCall /\ prompt = NoPrompt /\ closing = "no"
  /\ disk = 1 /\ token = {} /\ unsure = FALSE

Has(what) == left[what] > 0
Spend(what) == left' = [left EXCEPT ![what] = @ - 1]

-----------------------------------------------------------------------------
(* What the surface allows.                                                 *)

Sending == call # NoCall
Idle == ~inFlight /\ ~sourceLoading /\ ~Sending
Alive == closing \in {"no", "revived"}
Open == Alive /\ prompt = NoPrompt
Shown == Open /\ phase = "ready"

\* Mutants: a busy result, or an unknown outcome, does not hold the surface.
LockedUnlessBusy == ~Idle \/ outcome.unknown \/ outcome.challenge # "none"
LockedUnlessUnknown == ~Idle \/ outcome.busy \/ outcome.challenge # "none"

\* While a challenge or a busy result holds the request, nothing it is made of changes.
Locked == ~Idle \/ outcome.unknown \/ outcome.busy \/ outcome.challenge # "none"
SourceLocked == ~Idle \/ outcome.unknown \/ outcome.busy

IsDirty(d) == d.changes # {} \/ d.source # "applied"
Unsaved == IsDirty(draft) \/ editors \/ outcome.challenge # "none"
CanEdit == Shown /\ ~Locked

\* A blank document needs a provider and a route before it can be written.
BootstrapComplete(d) == Rows \subseteq d.changes

CanApply ==
  /\ Shown /\ ~Locked /\ ~editors
  /\ IsDirty(draft) /\ draft.review = {}
  /\ draft.source = "blank" => BootstrapComplete(draft)

CanCheck ==
  /\ Shown /\ Idle /\ ~outcome.unknown /\ ~editors
  /\ outcome.challenge = "none" /\ ~outcome.drops /\ ~outcome.busy /\ outcome.conflict = "none"

-----------------------------------------------------------------------------
(* The draft.                                                               *)

\* Staging replaces: the item is no longer waiting for review.
Staged(d, i) == [d EXCEPT !.changes = @ \cup {i}, !.review = @ \ {i}, !.drops = FALSE]
Unstaged(d, i) == [d EXCEPT !.changes = @ \ {i}, !.review = @ \ {i}]

\* Mutant: keys survive in the draft once their values are gone.
KeepsKeys(d, review) == [d EXCEPT !.review = IF review THEN @ \cup d.changes ELSE @]

\* Nothing was written: the rows stay staged, the keys must be entered again.
RetainNonKeyChanges(d, review) ==
  [d EXCEPT !.changes = @ \cap Rows,
            !.review = IF review THEN d.changes \cap Rows ELSE @ \cap Rows]

Stage(i) ==
  /\ Has("stages") /\ Spend("stages") /\ CanEdit
  /\ draft' = Staged(draft, i) /\ vault' = vault \cup ({i} \cap Keys) /\ editors' = FALSE
  /\ UNCHANGED <<phase, preview, outcome, pending, Loading, call, prompt, closing, Backend>>

Unstage(i) ==
  /\ CanEdit /\ i \in draft.changes
  /\ draft' = Unstaged(draft, i) /\ vault' = vault \ {i}
  /\ UNCHANGED <<phase, preview, editors, outcome, pending, Loading, call, prompt, closing, Backend, left>>

\* An editor is opened and typed in.
Edit ==
  /\ CanEdit /\ ~editors /\ editors' = TRUE
  /\ Has("stages") /\ Spend("stages")
  /\ UNCHANGED <<phase, draft, vault, preview, outcome, pending, Loading, call, prompt, closing, Backend>>

\* Every event but the three that keep the request drops the keys, the request and the editors,
\* and supersedes whatever was loading.
Settle(d, out) ==
  /\ draft' = d /\ vault' = {} /\ pending' = NoRequest /\ editors' = FALSE /\ outcome' = out
  /\ gen' = gen + 1 /\ inFlight' = FALSE /\ sourceLoading' = FALSE /\ UNCHANGED loads

\* consent_required, drop_confirmation_required and busy are answered by resending.
Hold(out) ==
  /\ outcome' = out
  /\ gen' = gen + 1 /\ inFlight' = FALSE /\ sourceLoading' = FALSE
  /\ UNCHANGED <<draft, vault, pending, editors, preview, loads>>

-----------------------------------------------------------------------------
(* Loads.                                                                   *)

StartLoad(generation) ==
  /\ gen' = generation /\ inFlight' = TRUE /\ sourceLoading' = FALSE
  /\ loads' = loads \cup {[gen |-> generation, kind |-> "reload", clears |-> FALSE]}

Fresh(l) == l.gen = gen

\* A busy reload shows the document in effect and does not count as one.
Reloaded(l, busy) ==
  /\ l.kind = "reload"
  /\ loads' = loads \ {l}
  /\ IF Fresh(l)
     THEN /\ phase' = "ready" /\ inFlight' = FALSE
          /\ draft' = [draft EXCEPT !.target = disk]
          /\ unsure' = (unsure /\ busy)
          /\ outcome' = IF ~busy /\ l.clears THEN NoOutcome ELSE outcome
     ELSE UNCHANGED <<phase, inFlight, draft, unsure, outcome>>
  /\ UNCHANGED <<vault, preview, editors, pending, gen, sourceLoading, call, prompt, closing, disk,
                 token, left>>

ReloadFails(l) ==
  /\ l.kind = "reload" /\ Has("failures") /\ Spend("failures")
  /\ loads' = loads \ {l}
  /\ IF Fresh(l) THEN phase' = "error" /\ inFlight' = FALSE ELSE UNCHANGED <<phase, inFlight>>
  /\ UNCHANGED <<Drafting, outcome, gen, sourceLoading, call, prompt, closing, Backend>>

\* Retry of a failed load; Recover state and the review of a target conflict, whose outcome
\* stands until a reload lands.
LoadAgain(clears) ==
  /\ Open /\ Idle
  /\ IF clears THEN outcome.unknown \/ (outcome.conflict = "target" /\ phase = "ready") ELSE phase = "error"
  /\ Has("sources") /\ Spend("sources")
  /\ gen' = gen + 1 /\ inFlight' = TRUE /\ sourceLoading' = FALSE
  /\ loads' = loads \cup {[gen |-> gen + 1, kind |-> "reload", clears |-> clears]}
  /\ UNCHANGED <<phase, Drafting, outcome, call, prompt, closing, Backend>>

\* A profile replaces the source; unless it fails, and then the prior source is shown again.
AdoptProfile(p, keep, generation, d) ==
  /\ gen' = generation /\ inFlight' = FALSE /\ sourceLoading' = TRUE
  /\ loads' = loads \cup {[gen |-> generation, kind |-> "profile", profile |-> p, keep |-> keep,
                           source |-> d.source, preview |-> preview]}

\* Mutant: the prior source comes back without its document.
ForgetsPreview(l) == "none"

PriorPreview(l) == l.preview

ProfileLoaded(l) ==
  /\ l.kind = "profile" /\ loads' = loads \ {l}
  /\ IF Fresh(l)
     THEN /\ preview' = l.profile /\ draft' = [draft EXCEPT !.source = l.profile]
          /\ sourceLoading' = FALSE /\ editors' = FALSE
          /\ outcome' = IF l.keep THEN NoOutcome ELSE outcome
     ELSE UNCHANGED <<preview, draft, sourceLoading, editors, outcome>>
  /\ UNCHANGED <<phase, vault, pending, gen, inFlight, call, prompt, closing, Backend, left>>

ProfileFails(l) ==
  /\ l.kind = "profile" /\ Has("failures") /\ Spend("failures")
  /\ loads' = loads \ {l}
  /\ IF Fresh(l)
     THEN /\ sourceLoading' = FALSE
          /\ IF l.keep THEN UNCHANGED <<preview, draft, editors>>
             ELSE /\ preview' = PriorPreview(l) /\ draft' = [draft EXCEPT !.source = l.source]
                  /\ editors' = FALSE
     ELSE UNCHANGED <<preview, draft, sourceLoading, editors>>
  /\ UNCHANGED <<phase, vault, outcome, pending, gen, inFlight, call, prompt, closing, Backend>>

-----------------------------------------------------------------------------
(* Transitions that discard the draft.                                      *)

Discarded == CleanDraft(draft.target)

\* What a transition does once the draft may go.
Proceed(then, arg) ==
  CASE then = "refresh" ->
         /\ draft' = Discarded /\ vault' = {} /\ pending' = NoRequest /\ editors' = FALSE
         /\ outcome' = NoOutcome /\ preview' = "none" /\ UNCHANGED closing
         /\ StartLoad(gen + 2)
    [] then = "blank" ->
         /\ Settle([Discarded EXCEPT !.source = "blank"], NoOutcome)
         /\ preview' = "blank" /\ UNCHANGED closing
    [] then = "source" /\ arg = "applied" ->
         /\ Settle(Discarded, NoOutcome) /\ preview' = "none" /\ UNCHANGED closing
    [] then = "source" /\ arg # "applied" ->
         /\ draft' = Discarded /\ vault' = {} /\ pending' = NoRequest /\ editors' = FALSE
         /\ outcome' = NoOutcome /\ preview' = "none" /\ UNCHANGED closing
         /\ AdoptProfile(arg, FALSE, gen + 2, draft)
    [] then = "discard" ->
         /\ Settle(Discarded, NoOutcome) /\ preview' = "none" /\ UNCHANGED closing
    [] then = "reload" ->
         /\ draft' = Discarded /\ vault' = {} /\ pending' = NoRequest /\ editors' = FALSE
         /\ outcome' = NoOutcome /\ preview' = "none" /\ UNCHANGED closing
         /\ StartLoad(gen + 2)
    [] then = "close" ->
         /\ Settle(Discarded, NoOutcome) /\ UNCHANGED preview /\ closing' = "closed"
    [] then = "quit" ->
         /\ Settle(Discarded, NoOutcome) /\ UNCHANGED preview /\ closing' = "torn"
    [] then = "cancelled" ->
         /\ Settle(RetainNonKeyChanges(draft, FALSE), NoOutcome) /\ UNCHANGED <<preview, closing>>
    [] then = "dismiss" ->
         /\ outcome' = NoOutcome
         /\ UNCHANGED <<Drafting, Loading, closing>>

\* Mutant: the transition leaves the challenge to expire by itself.
AbandonsChallenge == FALSE

Challenged == outcome.challenge # "none"

\* The challenge is cancelled before the draft goes; a cancellation that fails keeps both.
CancelThen(then, arg) ==
  IF Challenged
  THEN /\ call' = [kind |-> "cancel", then |-> then, arg |-> arg]
       /\ UNCHANGED <<Drafting, outcome, Loading, closing>>
  ELSE Proceed(then, arg) /\ UNCHANGED call

Transition(then, arg) ==
  IF Unsaved
  THEN /\ prompt' = [then |-> then, arg |-> arg]
       /\ UNCHANGED <<Drafting, outcome, Loading, call, closing>>
  ELSE Proceed(then, arg) /\ UNCHANGED <<prompt, call>>

Refresh ==
  /\ Open /\ Idle /\ ~outcome.unknown /\ phase # "loading"
  /\ Has("sources") /\ Spend("sources")
  /\ IF Unsaved THEN Transition("refresh", "none")
     ELSE /\ StartLoad(gen + 1) /\ UNCHANGED <<Drafting, outcome, prompt, call, closing>>
  /\ UNCHANGED <<phase, Backend>>

SelectSource(s) ==
  /\ Shown /\ ~SourceLocked /\ s # draft.source
  /\ Has("sources") /\ Spend("sources")
  /\ Transition(IF s = "blank" THEN "blank" ELSE "source", s)
  /\ UNCHANGED <<phase, Backend>>

\* Start from a profile that is the source already: the draft goes and it is loaded again.
StartFromProfile(p) ==
  /\ Shown /\ ~SourceLocked /\ p = draft.source
  /\ Has("sources") /\ Spend("sources")
  /\ Transition("source", p)
  /\ UNCHANGED <<phase, Backend>>

\* Discard is its own confirmation; after a conflict the document is loaded again.
Discard ==
  /\ Shown /\ Idle /\ ~outcome.unknown /\ IsDirty(draft)
  /\ CancelThen(IF outcome.conflict = "none" THEN "discard" ELSE "reload", "none")
  /\ UNCHANGED <<phase, prompt, Backend, left>>

AnswerPrompt(yes) ==
  /\ prompt # NoPrompt /\ Alive /\ prompt' = NoPrompt
  /\ IF yes THEN CancelThen(prompt.then, prompt.arg)
     ELSE UNCHANGED <<Drafting, outcome, Loading, call, closing>>
  /\ UNCHANGED <<phase, Backend, left>>

\* Closing the tab or quitting waits for the calls in flight; with nothing to lose it goes on,
\* and otherwise it asks, in place of a question that is open.
RequestClose(then) ==
  /\ Alive /\ ~Sending /\ Has("quits") /\ Spend("quits")
  /\ IF Unsaved \/ then = "close" THEN Transition(then, "none")
     ELSE closing' = "torn" /\ UNCHANGED <<Drafting, outcome, Loading, prompt, call>>
  /\ UNCHANGED <<phase, Backend>>

\* The application stays: what had to be saved before the quit could not be.
QuitAbandoned ==
  /\ closing = "torn" /\ Has("abandons") /\ Spend("abandons")
  /\ closing' = "revived"
  /\ UNCHANGED <<phase, Drafting, outcome, Loading, call, prompt, Backend>>

-----------------------------------------------------------------------------
(* The write.                                                               *)

Request(d, keys) ==
  [target |-> d.target, source |-> d.source, changes |-> d.changes, drops |-> d.drops, keys |-> keys]

Send(kind, request) == call' = [kind |-> kind, request |-> request]

Apply ==
  /\ CanApply /\ Has("applies") /\ Spend("applies")
  /\ pending' = Request(draft, vault) /\ Send("apply", pending')
  /\ UNCHANGED <<phase, draft, vault, preview, editors, outcome, Loading, prompt, closing, Backend>>

\* Confirm resends the request that the challenge was issued for.
ConfirmDestination ==
  /\ Shown /\ Idle /\ outcome.challenge = "settings" /\ pending # NoRequest
  /\ Send("confirm", pending)
  /\ UNCHANGED <<phase, Drafting, outcome, Loading, prompt, closing, Backend, left>>

\* Retry resends a busy request as it was: a confirmation, or the first call.
Retry ==
  /\ Shown /\ Idle /\ outcome.busy /\ outcome.challenge = "none"
  /\ Has("applies") /\ Spend("applies")
  /\ Send("apply", pending)
  /\ UNCHANGED <<phase, Drafting, outcome, Loading, prompt, closing, Backend>>

Writing == Sending /\ call.kind \in {"apply", "confirm"}
Ends == call' = NoCall /\ UNCHANGED <<phase, prompt, closing>>

\* A confirmation that is answered, but for a busy result, used its challenge, as a
\* cancellation did.
Used == token \cap {"lost"}

\* What a call whose answer is lost may leave: a challenge that no prompt shows, or one whose
\* confirmation never arrived.
AfterLoss(written) == IF written THEN {Used} ELSE {Used, Used \cup {"lost"}}

\* The document is written and the draft is done.
Applied ==
  /\ Writing /\ call.request.target = disk /\ (call.kind = "confirm" => "settings" \in token)
  /\ disk' = disk + 1 /\ token' = Used
  /\ Settle(CleanDraft(disk'), NoOutcome) /\ preview' = "none"
  /\ Ends /\ unsure' = FALSE /\ UNCHANGED left

ConsentRequired ==
  /\ Writing /\ call.kind = "apply" /\ call.request.target = disk
  /\ token' = Used \cup {"settings"} /\ Hold([NoOutcome EXCEPT !.challenge = "settings"])
  /\ Ends /\ UNCHANGED <<disk, unsure, left>>

DropConfirmationRequired ==
  /\ Writing /\ call.request.changes \cap Rows # {} /\ ~call.request.drops
  /\ token' = Used /\ Hold([NoOutcome EXCEPT !.drops = TRUE])
  /\ Ends /\ UNCHANGED <<disk, unsure, left>>

Busy ==
  /\ Writing /\ Has("failures") /\ Spend("failures")
  /\ Hold([NoOutcome EXCEPT !.busy = TRUE, !.challenge = outcome.challenge])
  /\ Ends /\ UNCHANGED Backend

\* The document or the profile moved, or the challenge no longer matches the request.
Conflict(kind) ==
  /\ Writing
  /\ kind = "target" => call.request.target # disk
  /\ kind = "profile_source" => call.request.source \in Profiles
  /\ kind = "challenge" => call.kind = "confirm"
  /\ token' = Used
  /\ Settle(RetainNonKeyChanges(draft, TRUE), [NoOutcome EXCEPT !.conflict = kind])
  /\ Ends /\ UNCHANGED <<preview, disk, unsure, left>>

\* diagnostics and limited: nothing was written.
Refused ==
  /\ Writing /\ token' = Used
  /\ Settle(RetainNonKeyChanges(draft, FALSE), NoOutcome)
  /\ Ends /\ UNCHANGED <<preview, disk, unsure, left>>

\* The answer is lost, and with it whether the document was written.  The cancellation of a
\* challenge that is known is sent and not awaited (LostTokenGone).
Rejected ==
  /\ Writing /\ Has("failures") /\ Spend("failures")
  /\ disk' \in {disk} \cup (IF call.request.target = disk THEN {disk + 1} ELSE {})
  /\ token' \in AfterLoss(disk' # disk) /\ unsure' = TRUE
  /\ Settle([RetainNonKeyChanges(draft, TRUE) EXCEPT !.source = "applied"],
            [NoOutcome EXCEPT !.unknown = TRUE])
  /\ preview' = "none" /\ Ends

RestageDrops ==
  /\ Shown /\ Idle /\ outcome.drops
  /\ draft' = [draft EXCEPT !.drops = draft.changes \cap Rows # {},
                            !.review = @ \ (draft.changes \cap Rows)]
  /\ outcome' = NoOutcome
  /\ UNCHANGED <<phase, vault, preview, editors, pending, Loading, call, prompt, closing, Backend, left>>

\* A profile that moved is loaded again under the draft; a challenge needs nothing.
ReviewConflict ==
  /\ Shown /\ Idle /\ outcome.conflict \in {"profile_source", "challenge"}
  /\ IF outcome.conflict = "profile_source" /\ draft.source \in Profiles
     THEN AdoptProfile(draft.source, TRUE, gen + 1, draft) /\ UNCHANGED outcome
     ELSE outcome' = NoOutcome /\ UNCHANGED Loading
  /\ UNCHANGED <<phase, Drafting, call, prompt, closing, Backend, left>>

-----------------------------------------------------------------------------
(* Challenges.                                                              *)

\* The user's cancel.
CancelDestination ==
  /\ Shown /\ Idle /\ Challenged
  /\ CancelThen(IF outcome.challenge = "grants" THEN "dismiss" ELSE "cancelled", "none")
  /\ UNCHANGED <<phase, prompt, Backend, left>>

Cancelled ==
  /\ call.kind = "cancel" /\ token' = Used /\ call' = NoCall
  /\ Proceed(call.then, call.arg)
  /\ UNCHANGED <<phase, prompt, disk, unsure, left>>

\* The challenge stays on screen, also when only the answer was lost.
CancelFails ==
  /\ call.kind = "cancel" /\ Has("failures") /\ Spend("failures") /\ call' = NoCall
  /\ token' \in {token, Used}
  /\ UNCHANGED <<phase, Drafting, outcome, Loading, prompt, closing, disk, unsure>>

\* The cancellation that nobody waits for arrives, or the challenge runs out in the backend.
LostTokenGone ==
  /\ "lost" \in token /\ token' = token \ {"lost"}
  /\ UNCHANGED <<phase, Drafting, outcome, Loading, call, prompt, closing, disk, unsure, left>>

\* A settings challenge runs out, here and in the backend; a call in flight is waited for.
Expire ==
  /\ outcome.challenge = "settings" /\ ~Sending /\ closing # "closed"
  /\ token' = Used
  /\ Settle(RetainNonKeyChanges(draft, FALSE), NoOutcome)
  /\ UNCHANGED <<phase, preview, call, prompt, closing, disk, unsure, left>>

\* The grant-only flow: the draft and the keys are not part of it.
ApproveDestinations ==
  /\ CanCheck /\ Has("grants") /\ Spend("grants")
  /\ Send("prepare", NoRequest)
  /\ UNCHANGED <<phase, Drafting, outcome, Loading, prompt, closing, Backend>>

ConfirmGrants ==
  /\ Shown /\ Idle /\ outcome.challenge = "grants"
  /\ Send("grant", NoRequest)
  /\ UNCHANGED <<phase, Drafting, outcome, Loading, prompt, closing, Backend, left>>

GrantsAnswered ==
  /\ Sending /\ call.kind \in {"prepare", "grant"}
  /\ \/ /\ call.kind = "prepare" /\ token' = Used \cup {"grants"}
        /\ outcome' = [NoOutcome EXCEPT !.challenge = "grants"]
     \/ token' = Used /\ outcome' = NoOutcome
     \/ UNCHANGED <<token, outcome>>
  /\ Ends /\ UNCHANGED <<Drafting, Loading, disk, unsure, left>>

GrantsRejected ==
  /\ Sending /\ call.kind \in {"prepare", "grant"} /\ Has("failures") /\ Spend("failures")
  /\ token' \in AfterLoss(FALSE) /\ outcome' = NoOutcome
  /\ Ends /\ UNCHANGED <<Drafting, Loading, disk, unsure>>

\* Another writer of the configuration file.
DiskMoves ==
  /\ Has("moves") /\ Spend("moves") /\ disk' = disk + 1
  /\ UNCHANGED <<phase, Drafting, outcome, Loading, call, prompt, closing, token, unsure>>

Next ==
  \/ (\E i \in Rows \cup Keys : Stage(i) \/ Unstage(i)) \/ Edit
  \/ \E l \in loads : (\E b \in BOOLEAN : Reloaded(l, b)) \/ ReloadFails(l) \/ ProfileLoaded(l) \/ ProfileFails(l)
  \/ (\E b \in BOOLEAN : LoadAgain(b)) \/ Refresh \/ Discard
  \/ \E s \in Profiles \cup {"applied", "blank"} : SelectSource(s)
  \/ \E p \in Profiles : StartFromProfile(p)
  \/ \E yes \in BOOLEAN : AnswerPrompt(yes)
  \/ \E t \in {"close", "quit"} : RequestClose(t)
  \/ QuitAbandoned
  \/ Apply \/ ConfirmDestination \/ Retry
  \/ Applied \/ ConsentRequired \/ DropConfirmationRequired \/ Busy \/ Refused \/ Rejected
  \/ \E k \in {"target", "profile_source", "challenge"} : Conflict(k)
  \/ RestageDrops \/ ReviewConflict
  \/ CancelDestination \/ Cancelled \/ CancelFails \/ LostTokenGone \/ Expire
  \/ ApproveDestinations \/ ConfirmGrants \/ GrantsAnswered \/ GrantsRejected
  \/ DiskMoves

Spec == Init /\ [][Next]_vars

-----------------------------------------------------------------------------
(* Properties.                                                              *)

\* A key value is held exactly as long as its change is staged: no outcome, transition or
\* close leaves one behind, and none leaves a change whose value is gone (KeyVault).
KeysOwned == vault = draft.changes \cap Keys

\* What a challenge was issued for, a busy result will resend or a call carries is the draft
\* on screen: an edit would be neither confirmed nor kept (the locks of §4.6a).
RequestIsShown ==
  (outcome.challenge = "settings" \/ outcome.busy \/ Writing)
    => pending = Request(draft, vault)

\* No answer, cancellation, transition or close leaves a challenge behind: the backend honours
\* the one the prompt shows, that of a call that will settle it, and what a call whose answer
\* was lost has left to expire, its cancellation being one attempt that nobody waits for.
TokenOwned == token \subseteq {outcome.challenge, "lost"} \/ Sending

\* The cards paint the document the draft is a change of.
SourceAlwaysShown ==
  Alive => preview = IF draft.source = "applied" THEN "none" ELSE draft.source

\* So they do in a tab whose draft was not torn down for a quit that was then abandoned.
SourceShown == closing = "no" => SourceAlwaysShown

\* Nor is anything written on top of a write whose outcome nobody knows.
UnknownStops == closing = "no" /\ Writing => ~unsure
=============================================================================
