----------------------------- MODULE LongTasks -----------------------------
(***************************************************************************)
(* The queue of long tasks behind the progress bar: LongTask and           *)
(* LongTasksContext (pkg/common/uicontext.go), and the goroutines that     *)
(* drive a task of their own: deploy (respage.go), undeploy                *)
(* (deployment_tab.go) and refresh (in_kube_tab.go).  PodLog adds those    *)
(* that read a log.                                                        *)
(*                                                                         *)
(* Abstractions.  Progress is the number of updates that are left until    *)
(* the float32 sum reaches 1.0.  One call of a task's method is one step.  *)
(***************************************************************************)
EXTENDS Naturals, Sequences, SequencesExt

CONSTANTS
    Tasks,      \* task objects; the goroutine of a task has its name
    MaxCalls,   \* bound on the cluster calls of one goroutine
    None

ASSUME LongTasksAssumption ==
    /\ MaxCalls \in Nat
    /\ None \notin Tasks

VARIABLES
    queue,      \* LongTasksContext.queue
    task,       \* the task objects, None for one not allocated
    run         \* the goroutines, None for one not running

taskVars == <<queue, task, run>>

Names == {"Deploying", "Undeploying", "Refreshing", "Reading"}

\* toGo: the updates after which Progress reaches 1.0.
LongTask == [name : Names, toGo : Nat, isDone : BOOLEAN]

Init ==
    /\ queue = <<>>
    /\ task = [t \in Tasks |-> None]
    /\ run = [t \in Tasks |-> None]

-----------------------------------------------------------------------------
(* The methods of a task, as values of queue and task.                     *)

\* Progress starts at 0.1 and Step is 0.9 / n: for some n the rounded sum
\* of n steps stays below 1.0.
UpdatesFor(n) == IF n = 0 THEN 1 ELSE IF n \in {3, 6, 7} THEN n + 1 ELSE n

NewTask(name, toGo) == [name |-> name, toGo |-> toGo, isDone |-> FALSE]

\* AddTask and Start.
Added(t, name, toGo, goroutine) ==
    /\ queue' = Append(queue, t)
    /\ task' = [task EXCEPT ![t] = NewTask(name, toGo)]
    /\ run' = [run EXCEPT ![t] = goroutine]

\* RemoveTask: the first entry with that name, whosever it is.
RemoveTask(q, name) == RemoveFirstMatch(q, LAMBDA t : task[t].name = name)

Done(t) ==
    /\ queue' = RemoveTask(queue, task[t].name)
    /\ task' = [task EXCEPT ![t].isDone = TRUE]

\* At 1.0 every further Update calls Done again.
Update(t) ==
    IF task[t].toGo <= 1
    THEN /\ queue' = RemoveTask(queue, task[t].name)
         /\ task' = [task EXCEPT ![t].toGo = 0, ![t].isDone = TRUE]
    ELSE /\ task' = [task EXCEPT ![t].toGo = @ - 1]
         /\ UNCHANGED queue

-----------------------------------------------------------------------------
(* Goroutines that work on their own task: so many calls, then Done.       *)

Worker == [kind : {"deploy", "undeploy", "refresh"}, todo : Nat]

ASSUME ObjectsAssumption == None \notin LongTask \cup Worker

IsWorker(t) == run[t] # None /\ run[t].kind \in {"deploy", "undeploy", "refresh"}

\* Nothing refers to the object.
Unused(t) == run[t] = None /\ \A i \in DOMAIN queue : queue[i] # t

StartDeploy(t, n) ==
    /\ Unused(t) /\ n > 0
    /\ Added(t, "Deploying", UpdatesFor(n), [kind |-> "deploy", todo |-> n])

\* One step for each of the selected records, one update for each of the n
\* resources in them.
StartUndeploy(t, selected, n) ==
    /\ Unused(t)
    /\ selected = 0 => n = 0
    /\ Added(t, "Undeploying", UpdatesFor(selected),
             [kind |-> "undeploy", todo |-> n])

StartRefresh(t) ==
    /\ Unused(t)
    /\ Added(t, "Refreshing", 2, [kind |-> "refresh", todo |-> 2])

\* A call has ended; only a deploy gives up when it failed.
CallEnded(t) ==
    /\ IsWorker(t) /\ run[t].todo > 0
    /\ Update(t)
    /\ run' = [run EXCEPT ![t].todo = @ - 1]

DeployCallFailed(t) ==
    /\ IsWorker(t) /\ run[t].kind = "deploy" /\ run[t].todo > 0
    /\ Done(t)
    /\ run' = [run EXCEPT ![t] = None]

\* Mutant of Finished: relies on the updates to have reached 1.0.
FinishedByUpdates(t) ==
    /\ IsWorker(t) /\ run[t].todo = 0
    /\ run' = [run EXCEPT ![t] = None]
    /\ UNCHANGED <<queue, task>>

Finished(t) ==
    /\ IsWorker(t) /\ run[t].todo = 0
    /\ Done(t)
    /\ run' = [run EXCEPT ![t] = None]

StartWorker(t) ==
    \/ \E n \in 1..MaxCalls : StartDeploy(t, n)
    \/ \E n, selected \in 0..MaxCalls : StartUndeploy(t, selected, n)
    \/ StartRefresh(t)

WorkerStep(t) == CallEnded(t) \/ DeployCallFailed(t) \/ Finished(t)

-----------------------------------------------------------------------------
(* Properties.                                                             *)

Entries(name) == {i \in DOMAIN queue : task[queue[i]].name = name}
Running(name) == {t \in Tasks : run[t] # None /\ task[t].name = name}

\* The progress bar never says "Running Task" of a kind of task none of
\* which runs: although Done is called twice, and removes by name an entry
\* that may belong to another task, there are never more entries of a name
\* than goroutines (RemoveTask, and every goroutine ends with Done).
NoStaleEntries ==
    \A name \in Names : Cardinality(Entries(name)) <= Cardinality(Running(name))
=============================================================================
