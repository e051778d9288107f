---------------------------- MODULE LspDocuments ----------------------------
(****************************************************************************)
(* One file and its language server: what utils/lspDocumentSync.ts and      *)
(* hooks/useLSPDocumentSync.ts tell the server of the tab's life, and the   *)
(* requests of the editor that have the server read the text first          *)
(* (codemirror/completion.ts, hover.ts).  The bindings handle the calls of  *)
(* one document in the order they are made and answer in that order; a call *)
(* and its answer take any time.  Nothing runs between the end of a promise *)
(* and the functions that wait for it.                                      *)
(****************************************************************************)
EXTENDS Integers, Sequences, FiniteSets
CONSTANTS
  Texts,  \* what the file may hold
  Casts   \* how often each kind of thing may happen: [edits, tabs, saves, asks, crashes, faults]

VARIABLES
  file,       \* the tab: open, its text and its number of edits, modified
  docs,       \* every TrackedDocument made, in order
  tracked,    \* documents.get(path) by number, 0 for none
  barrier,    \* closeBarriers.get(path) by the document it closes, 0 for none
  tasks,      \* the async functions that wait
  calls,      \* calls on their way to the server
  answers,    \* answers on their way back
  server,     \* the manager's docState and the text the server has
  reconnects, \* lsp:reconnect events on their way
  shown,      \* the answer on screen: the text it stands beside, the text it is about, and whether
              \* the server had the document on screen when it answered (Sure)
  known,      \* the causes by which the server may be behind the page or ahead of it:
              \* "skipped", a text was taken for synced while another was on its way, an old one was
              \* sent last, or the manager had the document already at an open and passed no text on;
              \* "lost", the last change failed; "kept", the manager holds a reference that no close
              \* will give back
  left        \* what is left of the cast
wire == <<server, reconnects>>
vars == <<file, docs, tracked, barrier, tasks, calls, answers, wire, shown, known, left>>

None == -1
NoAnswer == [text |-> None, about |-> None, sure |-> TRUE]
Opening(d) == docs[d].phase \in {"waits", "opening"}
\* A task that waits for an openPromise, and the promise has ended.
Runnable(t) == t.at \in {"flush", "save", "close"} /\ ~Opening(t.doc)
Quiet == \A t \in tasks : ~Runnable(t)

Init ==
  /\ left \in Casts
  /\ file = [open |-> FALSE, text |-> 0, edits |-> 0, modified |-> FALSE]
  /\ docs = <<>> /\ tracked = 0 /\ barrier = 0
  /\ tasks = {} /\ calls = <<>> /\ answers = <<>>
  /\ server = [refs |-> 0, text |-> 0]
  /\ reconnects = 0 /\ shown = NoAnswer /\ known = {}

Mark(cause, when) == IF when THEN {cause} ELSE {}
Spend(what) == Quiet /\ left[what] > 0 /\ left' = [left EXCEPT ![what] = @ - 1]
-----------------------------------------------------------------------------
(* What a step of an async function leaves: the documents, the calls it     *)
(* makes, and the function itself if it waits.                              *)
Ends(ds) == [docs |-> ds, send |-> <<>>, waits |-> {}]
Waits(ds, t, at) == [docs |-> ds, send |-> <<>>, waits |-> {[t EXCEPT !.at = at]}]
Calls(ds, t, op, text) ==
  LET now == [t EXCEPT !.at = op, !.text = text]
  IN [docs |-> ds, send |-> <<[op |-> op, text |-> text, task |-> now]>>, waits |-> {now}]
Leaves(t, e) ==
  /\ docs' = e.docs
  /\ calls' = calls \o e.send
  /\ tasks' = (tasks \ {t}) \cup e.waits

\* kind: flush (the timer), save, complete, hover or close; text: what it was given, or sent.
Task(kind, id, text) ==
  [kind |-> kind, id |-> id, doc |-> tracked, given |-> text, text |-> text, at |-> "new",
   edits |-> file.edits, before |-> None]
\* Weakened: only the close of the tab ends a request.
AbortedByClose(t) == ~file.open
Aborted(t) == ~file.open \/ file.edits # t.edits

(* After the flush: a save tells the server, a request asks it.             *)
AfterFlush(ds, t) ==
  CASE t.kind = "flush" -> Ends(ds)
    [] t.kind = "save" ->
         IF tracked # t.doc THEN Ends(ds)
         ELSE IF Opening(t.doc) THEN Waits(ds, t, "save")
         ELSE IF ds[t.doc].phase # "opened" THEN Ends(ds)
         ELSE Calls(ds, t, "didSave", None)
    [] OTHER -> IF Aborted(t) THEN Ends(ds) ELSE Calls(ds, t, "ask", file.text)

\* flushLSPDocumentChange once the document is open.
Flush(ds, t) ==
  LET d == ds[t.doc]
      explicit == t.given # None
      next == IF explicit THEN t.given ELSE d.pending
      sent == [d EXCEPT !.pending = IF ~explicit \/ @ = next THEN None ELSE @,
                        !.timer = IF explicit THEN @ ELSE FALSE]
      same == [d EXCEPT !.pending = IF ~explicit \/ @ \in {t.before, next} THEN None ELSE @,
                        !.timer = IF explicit THEN @ ELSE FALSE]
  IN IF tracked # t.doc \/ d.phase # "opened" THEN AfterFlush(ds, t)
     ELSE IF next \in {None, d.synced} THEN AfterFlush([ds EXCEPT ![t.doc] = same], t)
     ELSE Calls([ds EXCEPT ![t.doc] = sent], t, "didChange", next)

BeginFlush(t) ==
  LET d == docs[t.doc]
      next == IF t.given # None THEN t.given ELSE d.pending
      unset == [docs EXCEPT ![t.doc].timer = FALSE]
  IN IF t.doc = 0 THEN AfterFlush(docs, t)
     ELSE IF next \in {None, d.synced}
     THEN AfterFlush([unset EXCEPT ![t.doc].pending = None], t)
     ELSE IF Opening(t.doc) THEN Waits(unset, [t EXCEPT !.before = d.pending], "flush")
     ELSE Flush(unset, [t EXCEPT !.before = d.pending])

\* closeTrackedDocument: what is pending is sent before the close.
CloseTracked(ds, t) ==
  LET d == ds[t.doc] IN
  IF d.phase \in {"waits", "opening"} THEN Waits(ds, t, "close")
  ELSE IF d.phase # "opened" THEN Ends(ds)
  ELSE IF t.given # d.synced THEN Calls(ds, t, "didChange", t.given)
  ELSE Calls(ds, t, "didClose", None)
-----------------------------------------------------------------------------
\* A change of document d is on its way or about to be: synced is not what the server will have.
InFlight(d) == \E t \in tasks : t.doc = d /\ t.at \in {"flush", "didChange"}
TakenForSynced(d, text) == d # 0 /\ InFlight(d) /\ docs[d].synced = text

(* openLSPDocument: the open waits for the close of an earlier document.    *)
OpenCall(d, text) == [op |-> "didOpen", text |-> text, task |-> [doc |-> d]]
\* Weakened: an open does not wait for the close under way.
NoBarrier == 0
Barrier == barrier
OpenDocument(text, ds) ==
  /\ docs' = Append(ds, [synced |-> text, pending |-> None, timer |-> FALSE, opens |-> text,
                         waitsFor |-> Barrier, phase |-> IF Barrier = 0 THEN "opening" ELSE "waits"])
  /\ tracked' = Len(ds) + 1
  /\ calls' = IF Barrier = 0 THEN Append(calls, OpenCall(Len(ds) + 1, text)) ELSE calls

OpenTab ==
  /\ Spend("tabs") /\ ~file.open
  /\ \E text \in Texts :
       /\ file' = [open |-> TRUE, text |-> text, edits |-> file.edits + 1, modified |-> FALSE]
       /\ IF tracked = 0 THEN OpenDocument(text, docs) ELSE UNCHANGED <<docs, tracked, calls>>
  /\ UNCHANGED <<barrier, tasks, answers, wire, shown, known>>

\* The end of a close: the barrier falls, and the document that waits for it opens.
Released(ds, d) ==
  [e \in DOMAIN ds |->
     IF ds[e].phase = "waits" /\ ds[e].waitsFor = d
     THEN [ds[e] EXCEPT !.phase = IF tracked = e THEN "opening" ELSE "dropped"] ELSE ds[e]]
CloseEnds(ds, d) ==
  /\ docs' = Released(ds, d)
  /\ barrier' = IF barrier = d THEN 0 ELSE barrier
  /\ calls' = IF tracked # 0 /\ ds[tracked].phase = "waits" /\ ds[tracked].waitsFor = d
              THEN Append(calls, OpenCall(tracked, ds[tracked].opens)) ELSE calls

\* closeLSPDocument, at the close of the tab or at the switch to another workspace.
CloseTab ==
  /\ Spend("tabs") /\ file.open
  /\ file' = [file EXCEPT !.open = FALSE]
  /\ shown' = NoAnswer
  /\ IF tracked = 0 THEN UNCHANGED <<docs, tracked, barrier, tasks, calls>>
     ELSE LET t == Task("close", left.tabs, file.text)
              unset == [docs EXCEPT ![tracked].timer = FALSE]
          IN /\ tracked' = 0
             /\ barrier' = tracked
             /\ Leaves(t, CloseTracked(unset, t))
  /\ UNCHANGED <<answers, wire, known>>

\* Weakened: an edit back to what is synced leaves the earlier one pending.
SchedulesChanges(d, text) == IF text = d.synced THEN d ELSE [d EXCEPT !.pending = text, !.timer = TRUE]
\* The user types: scheduleLSPDocumentChange.
Scheduled(d, text) ==
  IF text = d.synced THEN [d EXCEPT !.pending = None, !.timer = FALSE]
  ELSE [d EXCEPT !.pending = text, !.timer = TRUE]
Edit ==
  /\ Spend("edits") /\ file.open
  /\ \E text \in Texts \ {file.text} :
       /\ file' = [file EXCEPT !.text = text, !.edits = @ + 1, !.modified = TRUE]
       /\ docs' = IF tracked = 0 THEN docs ELSE [docs EXCEPT ![tracked] = Scheduled(@, text)]
       /\ known' = known \cup Mark("skipped", TakenForSynced(tracked, text))
  /\ shown' = NoAnswer
  /\ UNCHANGED <<tracked, barrier, tasks, calls, answers, wire>>

\* DIDCHANGE_DEBOUNCE_MS after the last edit.
DebounceFires ==
  /\ Quiet
  /\ \E d \in DOMAIN docs :
       /\ docs[d].timer
       /\ LET t == [Task("flush", Len(calls), None) EXCEPT !.doc = tracked]
          IN IF tracked = 0 THEN docs' = [docs EXCEPT ![d].timer = FALSE] /\ UNCHANGED <<calls, tasks>>
             ELSE Leaves(t, BeginFlush(t))
       /\ known' = known \cup Mark("skipped", TakenForSynced(tracked, docs[d].pending))
  /\ UNCHANGED <<file, tracked, barrier, answers, wire, shown, left>>

\* A save is completed: saveLSPDocument.
SaveDone ==
  /\ Spend("saves") /\ file.open /\ file.modified
  /\ file' = [file EXCEPT !.modified = FALSE]
  /\ IF tracked = 0 THEN UNCHANGED <<docs, calls, tasks, known>>
     ELSE LET t == Task("save", left.saves, file.text)
          IN Leaves(t, BeginFlush(t)) /\ known' = known \cup Mark("skipped", TakenForSynced(tracked, file.text))
  /\ UNCHANGED <<tracked, barrier, answers, wire, shown>>

\* The completion source gives the text it asks about, the hover only flushes what is pending.
Ask ==
  /\ Spend("asks") /\ file.open
  /\ \E kind \in {"complete", "hover"} :
       LET t == Task(kind, left.asks, IF kind = "complete" THEN file.text ELSE None)
       IN /\ Leaves(t, BeginFlush(t))
          /\ known' = known \cup Mark("skipped", kind = "complete" /\ TakenForSynced(tracked, file.text))
  /\ UNCHANGED <<file, tracked, barrier, answers, wire, shown>>
-----------------------------------------------------------------------------
\* A text that was given before the document opened goes out after a newer one.
Outdated(t) ==
  /\ t.at = "flush" /\ t.given \notin {None, file.text}
  /\ tracked = t.doc /\ docs[t.doc].pending = None
\* A promise has ended, and the functions that wait for it go on.
Resume ==
  /\ \E t \in {x \in tasks : Runnable(x)} :
       /\ IF docs[t.doc].phase = "failed" /\ t.at # "close" THEN Leaves(t, Ends(docs)) /\ UNCHANGED barrier
          ELSE IF t.at = "flush" THEN Leaves(t, Flush(docs, t)) /\ UNCHANGED barrier
          ELSE IF t.at = "save" THEN Leaves(t, AfterFlush(docs, t)) /\ UNCHANGED barrier
          ELSE IF docs[t.doc].phase = "opened" THEN Leaves(t, CloseTracked(docs, t)) /\ UNCHANGED barrier
          ELSE tasks' = tasks \ {t} /\ CloseEnds(docs, t.doc)
       /\ known' = known \cup
            Mark("skipped", Outdated(t) \/ \E x \in tasks : x.doc = t.doc /\ x.at = "didChange")
  /\ UNCHANGED <<file, tracked, answers, wire, shown, left>>

(* The manager handles a call: only the first reference opens the document  *)
(* with a text, and a document that it does not have is left alone.         *)
Handled(c) ==
  CASE c.op = "didOpen" -> [refs |-> server.refs + 1, text |-> IF server.refs = 0 THEN c.text ELSE server.text]
    [] c.op = "didChange" -> IF server.refs = 0 THEN server ELSE [server EXCEPT !.text = c.text]
    [] c.op = "didClose" -> IF server.refs = 0 THEN server ELSE [server EXCEPT !.refs = @ - 1]
    [] OTHER -> server
\* sure: the document on screen is open at the server, which is not behind it for a known cause
\* and to which no later change is on its way.
Sure ==
  /\ known \cap {"skipped", "lost"} = {} /\ tracked # 0 /\ docs[tracked].phase = "opened"
  /\ \A i \in DOMAIN calls : calls[i].op # "didChange"
Answer(c, ok) ==
  answers' = Append(answers, [op |-> c.op, task |-> c.task, ok |-> ok, sure |-> Sure,
                              about |-> IF server.refs = 0 THEN None ELSE server.text])
Handle ==
  /\ Quiet /\ calls # <<>>
  /\ LET c == Head(calls) IN
       /\ server' = Handled(c)
       /\ Answer(c, TRUE)
       /\ known' = (known \ Mark("lost", c.op = "didChange"))
                    \cup Mark("skipped", c.op = "didOpen" /\ server'.text # c.text)
  /\ calls' = Tail(calls)
  /\ UNCHANGED <<file, docs, tracked, barrier, tasks, reconnects, shown, left>>

\* A call that fails has done nothing, but for an open: it may have been counted before the
\* server could be told.  An answer of a save or of a request fails without a trace.
HandleFails ==
  /\ Spend("faults") /\ calls # <<>>
  /\ LET c == Head(calls)
         closes == c.op = "didClose" \/ (c.op = "didChange" /\ c.task.kind = "close") IN
       /\ \/ /\ server' = server
             /\ known' = known \cup Mark("kept", closes /\ server.refs > 0)
                          \cup Mark("lost", c.op = "didChange" /\ ~closes)
          \/ /\ c.op = "didOpen" /\ server.refs = 0
             /\ server' = [refs |-> 1, text |-> None] /\ known' = known \cup {"kept"}
       /\ Answer(c, FALSE)
  /\ calls' = Tail(calls)
  /\ UNCHANGED <<file, docs, tracked, barrier, tasks, reconnects, shown>>

Answered ==
  /\ Quiet /\ answers # <<>>
  /\ answers' = Tail(answers)
  /\ LET a == Head(answers)
         d == a.task.doc
         t == a.task
     IN \/ /\ a.op = "didOpen"
           /\ docs' = [docs EXCEPT ![d].phase = IF a.ok THEN "opened" ELSE "failed",
                                   ![d].timer = @ /\ (a.ok \/ tracked # d)]
           /\ tracked' = IF ~a.ok /\ tracked = d THEN 0 ELSE tracked
           /\ UNCHANGED <<barrier, tasks, calls, shown>>
        \/ /\ a.op = "didChange" /\ t.kind # "close"
           /\ IF a.ok THEN Leaves(t, AfterFlush([docs EXCEPT ![d].synced = t.text], t))
              ELSE Leaves(t, Ends(docs))
           /\ UNCHANGED <<tracked, barrier, shown>>
        \/ /\ a.op = "didChange" /\ t.kind = "close" /\ a.ok
           /\ Leaves(t, Calls(docs, t, "didClose", None))
           /\ UNCHANGED <<tracked, barrier, shown>>
        \/ /\ a.op = "didClose" \/ (a.op = "didChange" /\ t.kind = "close" /\ ~a.ok)
           /\ tasks' = tasks \ {t}
           /\ CloseEnds(docs, d)
           /\ UNCHANGED <<tracked, shown>>
        \/ /\ a.op \in {"didSave", "ask"}
           /\ tasks' = tasks \ {t}
           /\ shown' = IF a.op = "ask" /\ a.ok /\ a.about # None /\ ~Aborted(t)
                       THEN [text |-> file.text, about |-> a.about, sure |-> a.sure] ELSE shown
           /\ UNCHANGED <<docs, tracked, barrier, calls>>
  /\ UNCHANGED <<file, wire, known, left>>

\* The server crashes and is started again; the manager names the documents it had.
Crash ==
  /\ Spend("crashes") /\ server.refs > 0
  /\ server' = [server EXCEPT !.refs = 0]
  /\ known' = known \ {"kept"}
  /\ reconnects' = reconnects + 1
  /\ UNCHANGED <<file, docs, tracked, barrier, tasks, calls, answers, shown>>

\* The open tab is opened anew, whether or not the new server has the document already.
OpenAgain == server.refs > 0 \/ \E i \in DOMAIN calls : calls[i].op = "didOpen"
Forgotten == IF tracked = 0 THEN docs ELSE [docs EXCEPT ![tracked].timer = FALSE]
Reconnect ==
  /\ Quiet /\ reconnects > 0
  /\ reconnects' = reconnects - 1
  /\ IF file.open THEN OpenDocument(file.text, Forgotten) /\ known' = known \cup Mark("kept", OpenAgain)
     ELSE UNCHANGED <<docs, tracked, calls, known>>
  /\ UNCHANGED <<file, barrier, tasks, answers, server, shown, left>>

Next ==
  OpenTab \/ CloseTab \/ Edit \/ DebounceFires \/ SaveDone \/ Ask
    \/ Resume \/ Handle \/ HandleFails \/ Answered \/ Crash \/ Reconnect

Spec == Init /\ [][Next]_vars
-----------------------------------------------------------------------------
Settled ==
  /\ tasks = {} /\ calls = <<>> /\ answers = <<>> /\ reconnects = 0
  /\ \A d \in DOMAIN docs : ~docs[d].timer

(* Once nothing is under way and the tab is open, the page's idea of what   *)
(* the server has is right, and what the server has is what is on screen,   *)
(* but for a change that failed, until one is handled.                      *)
(* The exceptions (skipped): a text that was taken for synced while another *)
(* was on its way; one that a completion gave before the document had       *)
(* opened and that went out after a newer one; a document opened anew that  *)
(* the manager still had, whose text it does not pass on.                   *)
TextFollows ==
  Settled /\ file.open /\ tracked # 0 /\ "skipped" \notin known =>
    /\ server.text = docs[tracked].synced
    /\ "lost" \in known \/ server.text = file.text

(* And it has the document: once if the tab is open, not at all if it is    *)
(* closed, however it was closed, reopened and reconnected.  The exceptions *)
(* (kept), until the server crashes: a reconnection that finds the document *)
(* opened again already, a failed close, an open that failed once counted;  *)
(* then the manager keeps a document too long, and still never too short.   *)
DocumentFollows ==
  Settled =>
    /\ file.open /\ tracked # 0 => server.refs >= 1
    /\ "kept" \notin known => server.refs = IF file.open /\ tracked # 0 THEN 1 ELSE 0

(* What a completion or a hover shows is about the text on screen, if the   *)
(* document on screen was open at the server: a request made while it waits *)
(* for the close of an earlier tab is answered about that tab's text.       *)
AnswersFresh == shown.sure => shown.about = shown.text

LspSound == TextFollows /\ DocumentFollows /\ AnswersFresh
=============================================================================
