------------------------------- MODULE LogTab -------------------------------
(***************************************************************************)
(* The log tab of pkg/panels/log_tab.go: an editor whose text is set by    *)
(* whatever goroutine logs a message, and cleared by the user.  The zap    *)
(* core writes to it without a lock (pkg/logs/logger.go), so writers       *)
(* interleave with each other, with a Clear and with the frames.           *)
(***************************************************************************)
EXTENDS ReadOnlyEditor

CONSTANT Writers    \* goroutines; each logs one message, which is itself
ASSUME WritersAssumption == Writers \subseteq Texts /\ Writers \subseteq Setters

VARIABLES
    buffer,     \* logBuffer.buffer
    content,    \* logBuffer.content
    pc,         \* pc[w]: the step of Write a goroutine takes next
    seen,       \* seen[w]: the buffer as w found it (strings.Builder has no lock),
                \* then the lines of the text that SetText has still to read
    clearing,   \* the step of a Clear the UI thread takes next
    since,      \* history: the messages logged since the last Clear
    clash       \* history: two of Write and Clear were under way at once

logVars == <<buffer, content, pc, seen, clearing, since, clash>>
vars == <<editorVars, logVars>>

LogInit ==
    /\ Init
    /\ buffer = <<>> /\ content = <<>>
    /\ pc = [w \in Writers |-> "start"]
    /\ seen = [w \in Writers |-> <<>>]
    /\ clearing = "no"
    /\ since = <<>> /\ clash = FALSE

Writing == {w \in Writers : pc[w] \notin {"start", "done"}}
Step(w, from, to) == pc[w] = from /\ pc' = [pc EXCEPT ![w] = to]

-----------------------------------------------------------------------------
(* Write.                                                                   *)

StartWrite(w) ==
    /\ Step(w, "start", "append")
    /\ seen' = [seen EXCEPT ![w] = buffer]
    /\ since' = Append(since, w)
    /\ clash' = (clash \/ Writing # {} \/ clearing # "no")
    /\ UNCHANGED <<editorVars, buffer, content, clearing>>

WriteString(w) ==
    /\ Step(w, "append", "setText")
    /\ buffer' = Append(seen[w], w)
    /\ content' = buffer'
    /\ UNCHANGED <<editorVars, seen, clearing, since, clash>>

WriteText(w) ==
    /\ Step(w, "setText", "lines")
    /\ ForgetSelected /\ UNCHANGED events
    /\ UNCHANGED <<buffer, content, seen, clearing, since, clash>>

StartLines(w) ==
    /\ Step(w, "lines", "scan")
    /\ seen' = [seen EXCEPT ![w] = content]
    /\ SetLines(<<>>)
    /\ UNCHANGED <<buffer, content, clearing, since, clash>>

ScanLine(w) ==
    /\ pc[w] = "scan" /\ seen[w] # <<>>
    /\ AddLine(w, Head(seen[w]), \A v \in Writers \ {w} : pc[v] # "scan")
    /\ seen' = [seen EXCEPT ![w] = Tail(@)]
    /\ UNCHANGED <<buffer, content, pc, clearing, since, clash>>

EndWrite(w) ==
    /\ Step(w, "scan", "done") /\ seen[w] = <<>>
    /\ SetOriginalContent
    /\ UNCHANGED <<buffer, content, seen, clearing, since, clash>>

Write(w) ==
    \/ StartWrite(w) \/ WriteString(w) \/ WriteText(w)
    \/ StartLines(w) \/ ScanLine(w) \/ EndWrite(w)

-----------------------------------------------------------------------------
(* The clear button: logEditor.Clear, then logBuffer.Reset.                 *)

\* A frame of the user's, too.
Clear ==
    /\ clearing = "no" /\ click = None /\ events < MaxEvents
    /\ clearing' = "lines"
    /\ ForgetSelected /\ events' = events + 1
    /\ since' = <<>>
    /\ clash' = (clash \/ Writing # {})
    /\ UNCHANGED <<buffer, content, pc, seen>>

ClearLines ==
    /\ clearing = "lines" /\ clearing' = "original"
    /\ SetLines(<<>>)
    /\ UNCHANGED <<buffer, content, pc, seen, since, clash>>

ClearOriginal ==
    /\ clearing = "original" /\ clearing' = "reset"
    /\ SetOriginalContent
    /\ UNCHANGED <<buffer, content, pc, seen, since, clash>>

\* A clear that leaves the buffer.
ForgetNothing ==
    /\ clearing = "reset" /\ clearing' = "no"
    /\ UNCHANGED <<editorVars, buffer, content, pc, seen, since, clash>>

ResetBuffer ==
    /\ clearing = "reset" /\ clearing' = "no"
    /\ buffer' = <<>>
    /\ UNCHANGED <<editorVars, content, pc, seen, since, clash>>

-----------------------------------------------------------------------------
UIStep == clearing = "no" /\ (Redraw \/ UserFrame) /\ UNCHANGED logVars

\* With the program its goroutines and its log end.
LogPanic ==
    /\ Panic
    /\ buffer' = <<>> /\ content' = <<>> /\ since' = <<>>
    /\ pc' = [w \in Writers |-> IF pc[w] = "start" THEN "start" ELSE "done"]
    /\ seen' = [w \in Writers |-> <<>>]
    /\ UNCHANGED <<clearing, clash>>

LogNext ==
    \/ \E w \in Writers : Write(w)
    \/ Clear \/ ClearLines \/ ClearOriginal \/ ResetBuffer
    \/ UIStep
    \/ UpdateSelections /\ UNCHANGED logVars
    \/ LogPanic
    \/ FilterContent /\ UNCHANGED logVars

\* Goroutines run; the UI thread ends what it has begun and draws invalidated
\* windows.
Fairness ==
    /\ \A w \in Writers : WF_vars(pc[w] # "start" /\ Write(w))
    /\ WF_vars(ClearLines \/ ClearOriginal \/ ResetBuffer)
    /\ WF_vars((UpdateSelections /\ UNCHANGED logVars) \/ LogPanic)
    /\ WF_vars(redraw /\ clearing = "no" /\ Redraw /\ UNCHANGED logVars)
    /\ WF_vars(FilterContent /\ UNCHANGED logVars)

LogSpec == LogInit /\ [][LogNext]_vars /\ Fairness

-----------------------------------------------------------------------------
TypeOK ==
    /\ EditorTypeOK
    /\ {buffer, content, since} \subseteq Seq(Writers)
    /\ pc \in [Writers -> {"start", "append", "setText", "lines", "scan", "done"}]
    /\ seen \in [Writers -> Seq(Writers)]
    /\ clearing \in {"no", "lines", "original", "reset"}
    /\ clash \in BOOLEAN

\* Whatever lines are drawn, of this text or of an earlier one, and whenever a
\* SetText runs into a click: the lines that are drawn as selected are those
\* that Copy Selection and Save Selection get, each of them once (Clicked and
\* updateSelections).  Only lines that were selected when a SetText forgot them
\* keep their mark, and once SetText is through none of them is in the text.
SelectionAsDrawn ==
    /\ click = None =>
          \A l \in (ToSet(lines) \union ToSet(Shown) \union marked \union ToSet(selected))
                     \ forgotten :
              l \in marked <=> l \in ToSet(selected)
    /\ IsInjective(selected)
    /\ Writing = {} /\ clearing = "no" => ToSet(lines) \intersect forgotten = {}

\* Between writes and clears that did not overlap, the text has the messages
\* logged since the last clear, each of them once and in their order.  And all
\* is well typed.
QuietLogComplete ==
    /\ TypeOK
    /\ ~clash /\ Writing = {} /\ clearing = "no"
          => [i \in DOMAIN lines |-> lines[i].text] = since
=============================================================================
