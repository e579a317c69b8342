------------------------------ MODULE PodLog -------------------------------
(***************************************************************************)
(* The log panel of a pod (PodLogDetail and ContainerLog,                  *)
(* pkg/panels/res_details.go).  A goroutine reads the log of a container   *)
(* into its buffer and drives the task cl.logReadTask points to at that    *)
(* moment, which a reload may have replaced since the goroutine started.   *)
(* Three parties share a ContainerLog: the UI, readers and reloads.  The   *)
(* mutex covers each single call of addLog, resetBuffer, LoadLog and       *)
(* currentLog, and these are the steps below.                              *)
(*                                                                         *)
(* A chunk of log in a buffer is named after the goroutine that put it     *)
(* there.                                                                  *)
(***************************************************************************)
EXTENDS LongTasks

CONSTANTS
    Logs,           \* containers of the pod
    LogUpdates,     \* updates of 0.01 that take Progress from 0.1 to 1.0: 91
    NearlyFull,     \* updates left when Progress exceeds 0.9: 10
    SlowUpdates,    \* updates of 0.0001 that are left then: 900
    BufferLimit,    \* bufferLimit, in chunks
    MaxChunks,      \* bound on the chunks of one reading
    readingMsg,
    MaxReloads      \* bound on the reload goroutines of a log under way

ASSUME PodLogAssumption ==
    /\ {LogUpdates, NearlyFull, SlowUpdates, BufferLimit} \subseteq Nat \ {0}
    /\ {MaxChunks, MaxReloads} \subseteq Nat
    /\ None \notin Logs
    /\ readingMsg \notin Seq(Tasks)

VARIABLES
    log,        \* the ContainerLogs
    current,    \* PodLogDetail.currentLog
    asked,      \* the log the UI has called LoadLog for in GetContent, but
                \* not yet currentLog
    shown       \* what the log editor shows

logVars == <<log, current, asked, shown>>
vars == <<taskVars, logVars>>

\* resets and loads: reload goroutines before resetBuffer, and after it.
ContainerLog ==
    [logReadTask : Tasks \cup {None}, buffer : Seq(Tasks), fullLog : Seq(Tasks),
     changed : BOOLEAN, resets : Nat, loads : Nat]

\* doneFirst: Done is called before addLog.
Reader == [kind : {"open", "read", "update", "done", "doneFirst", "addLog"},
           log : Logs, chunks : Nat]

ASSUME ReaderAssumption == None \notin Reader

TypeOK ==
    /\ queue \in Seq(Tasks)
    /\ task \in [Tasks -> LongTask \cup {None}]
    /\ run \in [Tasks -> Worker \cup Reader \cup {None}]
    /\ log \in [Logs -> ContainerLog]
    /\ current \in Logs \cup {None}
    /\ asked \in Logs \cup {None}
    /\ shown \in Seq(Tasks) \cup {readingMsg}

Fresh == [logReadTask |-> None, buffer |-> <<>>, fullLog |-> <<>>,
          changed |-> FALSE, resets |-> 0, loads |-> 0]

PanelInit ==
    /\ log = [l \in Logs |-> Fresh]
    /\ current = None
    /\ asked = None
    /\ shown = <<>>

PodLogInit == Init /\ PanelInit

\* The process ends in a nil dereference, and is started again.
Panic ==
    /\ queue' = <<>>
    /\ task' = [t \in Tasks |-> None]
    /\ run' = [t \in Tasks |-> None]
    /\ log' = [l \in Logs |-> Fresh]
    /\ current' = None /\ asked' = None /\ shown' = <<>>

-----------------------------------------------------------------------------
(* LoadLog.                                                                *)

Unreferenced(t) == Unused(t) /\ \A l \in Logs : log[l].logReadTask # t

\* A task and a goroutine are made for a log that has none.
StartReading(l, t, logs) ==
    /\ Unreferenced(t)
    /\ Added(t, "Reading", LogUpdates,
             [kind |-> "open", log |-> l, chunks |-> 0])
    /\ log' = [logs EXCEPT ![l].logReadTask = t]

\* LoadLog(reload), in a state where the logs have become logs.
LoadLog(l, reload, logs) ==
    IF logs[l].logReadTask = None
    THEN \E t \in Tasks : StartReading(l, t, logs)
    ELSE /\ log' = IF reload /\ task[logs[l].logReadTask].isDone
                   THEN [logs EXCEPT ![l].resets = @ + 1] ELSE logs
         /\ UNCHANGED taskVars

-----------------------------------------------------------------------------
(* The UI.                                                                 *)

\* A container is selected, and the first half of GetContent.
Select(l) ==
    /\ asked = None /\ current # l
    /\ current' = l /\ asked' = l
    /\ LoadLog(l, FALSE, log)
    /\ UNCHANGED shown

\* A frame finds the flag of the current log set, and clears it.
Frame ==
    /\ asked = None /\ current # None
    /\ log[current].changed
    /\ asked' = current
    /\ LoadLog(current, FALSE, [log EXCEPT ![current].changed = FALSE])
    /\ UNCHANGED <<current, shown>>

\* currentLog, the second half of GetContent.
Show ==
    /\ asked # None /\ asked' = None
    /\ UNCHANGED <<taskVars, current>>
    /\ LET cl == log[asked]
           t == cl.logReadTask
           size == Len(cl.buffer)
       IN  \/ /\ t # None /\ ~task[t].isDone /\ size = 0
              /\ shown' = readingMsg
              /\ UNCHANGED log
           \/ /\ t # None => task[t].isDone \/ size # 0
              /\ size >= BufferLimit
              /\ shown' = SubSeq(cl.buffer, size - BufferLimit + 1, size)
              /\ UNCHANGED log
           \/ /\ t # None /\ (task[t].isDone \/ size # 0)
              /\ size < BufferLimit
              /\ log' = IF task[t].isDone
                        THEN [log EXCEPT ![asked].fullLog = cl.buffer] ELSE log
              /\ shown' = log'[asked].fullLog

\* currentLog dereferences a task that a reload has just taken away.
ShowPanics ==
    /\ asked # None
    /\ log[asked].logReadTask = None
    /\ Len(log[asked].buffer) < BufferLimit
    /\ Panic

\* The user clicks Reload: LoadLog(TRUE).
Reload ==
    /\ asked = None /\ current # None
    /\ log[current].resets + log[current].loads < MaxReloads
    /\ LoadLog(current, TRUE, log)
    /\ UNCHANGED <<current, asked, shown>>

-----------------------------------------------------------------------------
(* The goroutine of a reload.                                              *)

ResetBuffer(l) ==
    /\ log[l].resets > 0
    /\ log' = [log EXCEPT ![l].resets = @ - 1, ![l].loads = @ + 1,
                          ![l].buffer = <<>>, ![l].logReadTask = None]
    /\ UNCHANGED <<taskVars, current, asked, shown>>

LoadAgain(l) ==
    /\ log[l].loads > 0
    /\ LoadLog(l, FALSE, [log EXCEPT ![l].loads = @ - 1])
    /\ UNCHANGED <<current, asked, shown>>

-----------------------------------------------------------------------------
(* The goroutine that reads.  It works on the task of the log, not on the  *)
(* one it was started for.                                                 *)

Reads(g, step) == run[g] # None /\ run[g].kind = step
LogOf(g) == run[g].log
TaskOf(g) == log[LogOf(g)].logReadTask

Goto(g, step) == run' = [run EXCEPT ![g].kind = step]

AddLog(l, chunks) ==
    log' = [log EXCEPT ![l].buffer = @ \o chunks, ![l].changed = TRUE]

\* GetPodLog answers; a task that is nearly full goes on in small steps.
Opened(g) ==
    /\ Reads(g, "open") /\ TaskOf(g) # None
    /\ Goto(g, "read")
    /\ task' = IF task[TaskOf(g)].toGo \in 1..NearlyFull
               THEN [task EXCEPT ![TaskOf(g)].toGo = SlowUpdates] ELSE task
    /\ UNCHANGED <<queue, logVars>>

OpenFailed(g) ==
    /\ Reads(g, "open")
    /\ AddLog(LogOf(g), <<g>>)
    /\ Goto(g, "done")
    /\ UNCHANGED <<queue, task, current, asked, shown>>

\* n > 0: addLog, then Update.
ReadChunk(g) ==
    /\ Reads(g, "read") /\ run[g].chunks < MaxChunks
    /\ AddLog(LogOf(g), <<g>>)
    /\ run' = [run EXCEPT ![g].kind = "update", ![g].chunks = @ + 1]
    /\ UNCHANGED <<queue, task, current, asked, shown>>

Updated(g) ==
    /\ Reads(g, "update") /\ TaskOf(g) # None
    /\ Update(TaskOf(g))
    /\ Goto(g, "read")
    /\ UNCHANGED logVars

\* EOF: addLog(""), then Done.
ReadEof(g) ==
    /\ Reads(g, "read")
    /\ AddLog(LogOf(g), <<>>)
    /\ Goto(g, "done")
    /\ UNCHANGED <<queue, task, current, asked, shown>>

\* Mutant of ReadError: the message is shown, and Failed is not called.
ReadErrorReturns(g) ==
    /\ Reads(g, "read")
    /\ AddLog(LogOf(g), <<g>>)
    /\ run' = [run EXCEPT ![g] = None]
    /\ UNCHANGED <<queue, task, current, asked, shown>>

\* Any other error: the message, then Failed.
ReadError(g) ==
    /\ Reads(g, "read")
    /\ AddLog(LogOf(g), <<g>>)
    /\ Goto(g, "done")
    /\ UNCHANGED <<queue, task, current, asked, shown>>

\* Nothing read: Update, Done, addLog("").
ReadNothing(g) ==
    /\ Reads(g, "read") /\ TaskOf(g) # None
    /\ Update(TaskOf(g))
    /\ Goto(g, "doneFirst")
    /\ UNCHANGED logVars

Ended(g) ==
    /\ Reads(g, "done") /\ TaskOf(g) # None
    /\ Done(TaskOf(g))
    /\ run' = [run EXCEPT ![g] = None]
    /\ UNCHANGED logVars

EndedEarly(g) ==
    /\ Reads(g, "doneFirst") /\ TaskOf(g) # None
    /\ Done(TaskOf(g))
    /\ Goto(g, "addLog")
    /\ UNCHANGED logVars

Triggered(g) ==
    /\ Reads(g, "addLog")
    /\ AddLog(LogOf(g), <<>>)
    /\ run' = [run EXCEPT ![g] = None]
    /\ UNCHANGED <<queue, task, current, asked, shown>>

ReaderPanics(g) ==
    /\ run[g] # None
    /\ run[g].kind \in {"open", "read", "update", "done", "doneFirst"}
    /\ TaskOf(g) = None
    /\ Panic

-----------------------------------------------------------------------------
UserStep ==
    \/ \E t \in Tasks : Unreferenced(t) /\ StartWorker(t) /\ UNCHANGED logVars
    \/ \E l \in Logs : Select(l)
    \/ Reload

UiStep == Frame \/ Show \/ ShowPanics

ReloadStep(l) == ResetBuffer(l) \/ LoadAgain(l)

ReaderStep(g) ==
    \/ Opened(g) \/ OpenFailed(g)
    \/ ReadChunk(g) \/ Updated(g) \/ ReadEof(g) \/ ReadError(g) \/ ReadNothing(g)
    \/ Ended(g) \/ EndedEarly(g) \/ Triggered(g)
    \/ ReaderPanics(g)

GoroutineStep(t) == (WorkerStep(t) /\ UNCHANGED logVars) \/ ReaderStep(t)

PodLogNext ==
    \/ UserStep
    \/ UiStep
    \/ \E l \in Logs : ReloadStep(l)
    \/ \E t \in Tasks : GoroutineStep(t)

PodLogSpec == PodLogInit /\ [][PodLogNext]_vars

-----------------------------------------------------------------------------
(* Properties.                                                             *)

Readers(l, steps) ==
    {g \in Tasks : run[g] # None /\ run[g].kind \in steps /\ run[g].log = l}

\* Reload never stops working: when the last goroutine that reads a log has
\* ended, the task the log has by then is done, whichever of several reloads
\* made it (LoadLog starts nothing as long as cl.logReadTask is not done).  And
\* all is well typed.
ReloadPossible ==
    /\ TypeOK
    /\ \A l \in Logs :
          (/\ log[l].logReadTask # None
           /\ Readers(l, {"open", "read", "update", "done", "doneFirst"}) = {}
           /\ log[l].resets + log[l].loads = 0)
              => task[log[l].logReadTask].isDone
=============================================================================
