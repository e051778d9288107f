------------------------------ MODULE Terminals ------------------------------
(***************************************************************************)
(* The terminals of the bottom panel (Terminal/Terminal.tsx): shells that  *)
(* the backend starts, the registry that routes their output to an xterm   *)
(* (Terminal/terminalRegistry.ts), the markers that an xterm draws of the  *)
(* commands (Terminal/shellIntegration.ts), and the tabs of the store.     *)
(*                                                                         *)
(* A shell writes the marks of shell integration: "A" a prompt, "C" a      *)
(* command begins, "D" it ended.  The answer of a call and the events of a *)
(* shell reach the page in any order; the events of one shell stay in      *)
(* theirs.  React runs the effects of a store update of a terminal before  *)
(* any other event, so a tab that is added to a panel that shows is opened *)
(* in the same step.                                                       *)
(***************************************************************************)
EXTENDS Integers, Sequences, FiniteSets, SequencesExt

CONSTANTS
  Ids,    \* 1 .. N: the shells, in the order in which the backend numbers them
  Casts   \* [marks, toggles, orders, renames, fails]: how often each may happen

VARIABLES
  shell,     \* [Ids -> "none", "asked", "live", "failed" or "gone"]: gone may write its rest
  output,    \* [Ids -> Seq of marks]: the events of the shell that have reached the page
  tabs,      \* terminalSessions: a sequence of [id, title]
  active,    \* activeTerminalSessionId, or 0
  buffers,   \* outputBuffers
  closed,    \* closedSessionIds
  xterms,    \* retainedTerminals: an xterm for the ids in its domain
  panel,     \* "terminal", "other" tab, or "collapsed"
  creating,  \* isCreatingRef of the panel that is mounted: the id it asked for, or 0
  wanted,    \* the requests since which the focus has not moved
  focus,     \* the shell that has the focus, or 0
  rename,    \* [id, title]: the tab that is being renamed (0: none) and what was typed
  cast       \* what may still happen

vars == <<shell, output, tabs, active, buffers, closed, xterms, panel, creating, wanted, focus,
          rename, cast>>

Custom == 0           \* the title that a user types
Marks == {"A", "C", "D"}
NotRenaming == [id |-> 0, title |-> Custom]
Listed == {tabs[i].id : i \in DOMAIN tabs}
IndexOf(id) == CHOOSE i \in DOMAIN tabs : tabs[i].id = id
Mounted == panel # "collapsed"
Spend(what) == /\ cast[what] > 0
               /\ cast' = [cast EXCEPT ![what] = @ - 1]

-----------------------------------------------------------------------------
(* The xterm of a session.                                                  *)

\* block: the prompt it is at ("none", or what became of it); bars: the commands it marked.
Blank == [text |-> <<>>, block |-> "none", bars |-> 0]

HandleTwice(x, m) ==
  [text  |-> Append(x.text, m),
   block |-> CASE m = "A" -> "prompt"
               [] m = "C" /\ x.block # "none" -> "ran"
               [] OTHER -> x.block,
   bars  |-> IF m = "D" /\ x.block = "ran" THEN x.bars + 1 ELSE x.bars]

\* A command that ended is marked by a bar at its prompt.
Decorate(x, m) == IF m = "D" /\ x.block = "ran" THEN x.bars + 1 ELSE x.bars

\* A prompt opens a block (that of a prompt which ran nothing is discarded), and the end of a
\* command decorates the block it ran in, once.
Handle(x, m) ==
  [text  |-> Append(x.text, m),
   block |-> CASE m = "A" -> "prompt"
               [] m = "C" /\ x.block = "prompt" -> "ran"
               [] m = "D" /\ x.block = "ran" -> "decorated"
               [] OTHER -> x.block,
   bars  |-> Decorate(x, m)]

\* Opening an xterm replays what was buffered.
Replayed(chunks) == FoldLeft(Handle, Blank, chunks)

\* The xterms once the tabs of ids are shown; one that is retained is moved, not opened again.
AcquireAfresh(ids) == [id \in ids |-> Replayed(buffers[id])]
Acquire(ids) == [id \in ids |-> IF id \in DOMAIN xterms THEN xterms[id] ELSE Replayed(buffers[id])]

-----------------------------------------------------------------------------
(* The registry.                                                            *)

DeliverAlways(id, m) ==
  IF id \in DOMAIN xterms
    THEN /\ xterms' = [xterms EXCEPT ![id] = Handle(@, m)]
         /\ UNCHANGED buffers
    ELSE /\ buffers' = [buffers EXCEPT ![id] = Append(@, m)]
         /\ UNCHANGED xterms

\* The global listener: to the xterm of the session, or into its buffer unless it was closed.
Deliver(id, m) ==
  IF id \in DOMAIN xterms
    THEN /\ xterms' = [xterms EXCEPT ![id] = Handle(@, m)]
         /\ UNCHANGED buffers
    ELSE /\ buffers' = IF id \in closed THEN buffers ELSE [buffers EXCEPT ![id] = Append(@, m)]
         /\ UNCHANGED xterms

\* The shell writes until it is gone, and what it still wrote then.
TerminalOutput(id, m) ==
  /\ shell[id] \in {"asked", "live", "gone"}
  /\ Spend("marks")
  /\ output' = [output EXCEPT ![id] = Append(@, m)]
  /\ Deliver(id, m)
  /\ UNCHANGED <<shell, tabs, active, closed, panel, creating, wanted, focus, rename>>

-----------------------------------------------------------------------------
(* Opening and closing.                                                     *)

\* The lowest number that no title carries.
NextTitle == CHOOSE n \in 1 .. Len(tabs) + 1 :
               /\ n \notin {tabs[i].title : i \in DOMAIN tabs}
               /\ \A k \in 1 .. n - 1 : k \in {tabs[i].title : i \in DOMAIN tabs}

CreateNewSession(id) ==
  /\ panel = "terminal" /\ creating = 0
  /\ shell[id] = "none" /\ \A k \in 1 .. id - 1 : shell[k] # "none"
  /\ shell' = [shell EXCEPT ![id] = "asked"]
  /\ creating' = id
  /\ wanted' = {id} /\ focus' = 0
  /\ UNCHANGED <<output, tabs, active, buffers, closed, xterms, panel, rename, cast>>

\* Only if the panel showed and the focus stayed where it was since the request.
FocusTerminal(id) == IF id \in wanted THEN id ELSE focus

\* The answer: a tab, an xterm if the panel shows, and the focus if it has not moved.
Created(id) ==
  /\ shell[id] = "asked"
  /\ shell' = [shell EXCEPT ![id] = "live"]
  /\ tabs' = Append(tabs, [id |-> id, title |-> NextTitle])
  /\ active' = id
  /\ creating' = IF creating = id THEN 0 ELSE creating
  /\ IF Mounted
       THEN /\ xterms' = Acquire(Listed \cup {id})
            /\ buffers' = [buffers EXCEPT ![id] = <<>>]
       ELSE UNCHANGED <<xterms, buffers>>
  /\ focus' = FocusTerminal(id)
  /\ wanted' = wanted \ {id}
  /\ UNCHANGED <<output, closed, panel, rename, cast>>

CreateFailed(id) ==
  /\ shell[id] = "asked" /\ output[id] = <<>>
  /\ Spend("fails")
  /\ shell' = [shell EXCEPT ![id] = "failed"]
  /\ creating' = IF creating = id THEN 0 ELSE creating
  /\ wanted' = wanted \ {id}
  /\ UNCHANGED <<output, tabs, active, buffers, closed, xterms, panel, focus, rename>>

\* cleanupSessionBuffers, and the xterm follows the session out of the store.
Cleanup(id) ==
  /\ closed' = closed \cup {id}
  /\ buffers' = [buffers EXCEPT ![id] = <<>>]
Pruned(id) == [k \in DOMAIN xterms \ {id} |-> xterms[k]]

RemoveKeepsActive(id) == IF active = id THEN 0 ELSE active

\* The neighbour to the left of the tab that closes, which is the one at its index or the last.
RemoveActive(id) ==
  LET rest == SelectSeq(tabs, LAMBDA t : t.id # id)
      at   == IF IndexOf(id) < Len(rest) THEN IndexOf(id) ELSE Len(rest) IN
  IF active # id THEN active ELSE IF at = 0 THEN 0 ELSE rest[at].id

\* The row leaves at once; the backend's answer only reports a failure.
CloseSession(id) ==
  /\ panel = "terminal" /\ id \in Listed
  /\ Cleanup(id)
  /\ shell' = [shell EXCEPT ![id] = "gone"]
  /\ tabs' = SelectSeq(tabs, LAMBDA t : t.id # id)
  /\ active' = RemoveActive(id)
  /\ xterms' = Pruned(id)
  /\ focus' = 0 /\ wanted' = {}
  /\ rename' = IF rename.id = id THEN NotRenaming ELSE rename
  /\ UNCHANGED <<output, panel, creating, cast>>

-----------------------------------------------------------------------------
(* The strip and the panel.                                                 *)

SetActive(id) ==
  /\ panel = "terminal" /\ id \in Listed /\ active # id
  /\ Spend("orders")
  /\ active' = id /\ focus' = 0 /\ wanted' = {}
  /\ UNCHANGED <<shell, output, tabs, buffers, closed, xterms, panel, creating, rename>>

\* A click into a shell, or into another part of the window.
MoveFocus(id) ==
  /\ focus # id
  /\ id # 0 => panel = "terminal" /\ active = id
  /\ Spend("orders")
  /\ focus' = id /\ wanted' = {}
  /\ UNCHANGED <<shell, output, tabs, active, buffers, closed, xterms, panel, creating, rename>>

\* handleDrop of a tab on another one.
Reorder(from, to) ==
  /\ panel = "terminal" /\ from # to
  /\ Spend("orders")
  /\ tabs' = InsertAt(RemoveAt(tabs, from), to, tabs[from])
  /\ UNCHANGED <<shell, output, active, buffers, closed, xterms, panel, creating, wanted, focus,
                 rename>>

StartRename(id) ==
  /\ panel = "terminal" /\ id \in Listed /\ rename.id # id
  /\ Spend("renames")
  /\ rename' = [id |-> id, title |-> tabs[IndexOf(id)].title]
  /\ focus' = 0 /\ wanted' = {}
  /\ UNCHANGED <<shell, output, tabs, active, buffers, closed, xterms, panel, creating>>

\* Enter, or the input loses the focus; Escape keeps the title, and so does the blur after it.
EndRename(title) ==
  /\ rename.id # 0
  /\ tabs' = [i \in DOMAIN tabs |-> IF tabs[i].id = rename.id THEN [tabs[i] EXCEPT !.title = title]
                                    ELSE tabs[i]]
  /\ rename' = NotRenaming
  /\ UNCHANGED <<shell, output, active, buffers, closed, xterms, panel, creating, wanted, focus, cast>>

\* A collapse unmounts the panel and not the xterms; an expand mounts a panel that asks for
\* nothing yet, and opens the sessions that were added in between.
Show(tab) ==
  /\ panel # tab
  /\ Spend("toggles")
  /\ panel' = tab
  /\ rename' = NotRenaming /\ focus' = 0 /\ wanted' = {}
  /\ creating' = IF tab = "collapsed" THEN 0 ELSE creating
  /\ xterms' = IF tab = "collapsed" THEN xterms ELSE Acquire(Listed)
  /\ buffers' = IF tab = "collapsed" THEN buffers
                ELSE [id \in Ids |-> IF id \in Listed THEN <<>> ELSE buffers[id]]
  /\ UNCHANGED <<shell, output, tabs, active, closed>>

-----------------------------------------------------------------------------
Init ==
  /\ shell = [id \in Ids |-> "none"]
  /\ output = [id \in Ids |-> <<>>]
  /\ tabs = <<>> /\ active = 0
  /\ buffers = [id \in Ids |-> <<>>]
  /\ closed = {} /\ xterms = <<>>
  /\ panel = "terminal" /\ creating = 0 /\ wanted = {} /\ focus = 0
  /\ rename = NotRenaming
  /\ cast \in Casts

Next ==
  \/ \E id \in Ids, m \in Marks : TerminalOutput(id, m)
  \/ \E id \in Ids : CreateNewSession(id) \/ Created(id) \/ CreateFailed(id) \/ CloseSession(id)
  \/ \E id \in Ids : SetActive(id) \/ StartRename(id)
  \/ \E id \in Ids \cup {0} : MoveFocus(id)
  \/ \E i, j \in DOMAIN tabs : Reorder(i, j)
  \/ EndRename(Custom)
  \/ rename.id # 0 /\ EndRename(tabs[IndexOf(rename.id)].title)
  \/ \E tab \in {"terminal", "other", "collapsed"} : Show(tab)

Spec == Init /\ [][Next]_vars

-----------------------------------------------------------------------------
\* The commands that a sequence of marks ends: a "D" whose prompt ran and has not ended yet.
Ended(marks) ==
  {d \in DOMAIN marks :
     /\ marks[d] = "D"
     /\ \E a \in 1 .. d : /\ marks[a] = "A"
                          /\ \E c \in a .. d : marks[c] = "C"
                          /\ \A k \in a + 1 .. d : marks[k] # "A"
                          /\ \A c, k \in a .. d - 1 : marks[c] = "C" /\ c < k => marks[k] # "D"}

(* What a shell wrote is in its xterm or waits in its buffer, whole and in  *)
(* order, however the panel was collapsed, and its commands are marked      *)
(* once; nothing is kept of a session that was closed.                      *)
OutputKept ==
  /\ \A id \in DOMAIN xterms : /\ xterms[id].text = output[id]
                               /\ xterms[id].bars = Cardinality(Ended(output[id]))
                               /\ id \in Listed
  /\ \A id \in Ids : buffers[id] = IF id \in DOMAIN xterms \cup closed THEN <<>> ELSE output[id]
  /\ Mounted => Listed \subseteq DOMAIN xterms

(* A session is selected whenever there is one, and titles that nobody      *)
(* typed are different.                                                     *)
StripSound ==
  /\ IF tabs = <<>> THEN active = 0 ELSE active \in Listed
  /\ \A i, j \in DOMAIN tabs : tabs[i].title = tabs[j].title /\ tabs[i].title # Custom => i = j

TerminalsSound == OutputKept /\ StripSound
=============================================================================
