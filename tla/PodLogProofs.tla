---------------------------- MODULE PodLogProofs -----------------------------
(***************************************************************************)
(* For any number of tasks, logs, readers and reloads: the progress bar    *)
(* has no entry of a kind of task none of which runs, and a log whose      *)
(* readers have ended can be loaded again.                                 *)
(*                                                                         *)
(* The first is a matter of counting: entries and goroutines have no       *)
(* relation of their own, as RemoveTask looks for a name only, but each    *)
(* goroutine removes one entry of its name, if there is any, in its last   *)
(* step before it only triggers a redraw.  The second holds because the    *)
(* last reader to end sets the task done that the log has at that moment.  *)
(***************************************************************************)
EXTENDS PodLog, SequenceFacts

\* The steps in which a reader has still to end its task.
Reading == {"open", "read", "update", "done", "doneFirst"}

\* The name of the task of a goroutine.
NameOf(kind) ==
    CASE kind = "deploy"   -> "Deploying"
      [] kind = "undeploy" -> "Undeploying"
      [] kind = "refresh"  -> "Refreshing"
      [] OTHER             -> "Reading"

\* The positions in q with one of the tasks in T.
At(q, T) == {i \in DOMAIN q : q[i] \in T}

Named(name) == {t \in Tasks : task[t] # None /\ task[t].name = name}

\* The goroutines that still remove an entry.
Active == {t \in Tasks : run[t] # None /\ run[t].kind # "addLog"}

-----------------------------------------------------------------------------
(* The inductive invariant.                                                *)

\* What is referred to exists, and has the name of its goroutine.
RefersInv ==
    /\ \A i \in DOMAIN queue : task[queue[i]] # None
    /\ \A t \in Tasks : run[t] # None =>
           task[t] # None /\ task[t].name = NameOf(run[t].kind)
    /\ \A l \in Logs : log[l].logReadTask # None =>
           /\ task[log[l].logReadTask] # None
           /\ task[log[l].logReadTask].name = "Reading"

\* The task a log has is done, or somebody who reads the log will end it.
LogsInv ==
    \A l \in Logs : log[l].logReadTask # None =>
        task[log[l].logReadTask].isDone \/ Readers(l, Reading) # {}

\* There are no more entries of a name than goroutines that remove one.
EntriesInv ==
    /\ IsFiniteSet({t \in Tasks : run[t] # None})
    /\ \A name \in Names :
           Cardinality(At(queue, Named(name))) <= Cardinality(Named(name) \cap Active)

IInv == TypeOK /\ RefersInv /\ LogsInv /\ EntriesInv

-----------------------------------------------------------------------------
(* Counting entries.                                                       *)

LEMMA AtFinite ==
    ASSUME NEW q \in Seq(Tasks), NEW T
    PROVE  /\ IsFiniteSet(At(q, T)) /\ Cardinality(At(q, T)) \in Nat
           /\ DOMAIN q = 1 .. Len(q) /\ Len(q) \in Nat
<1>1. DOMAIN q = 1 .. Len(q) /\ Len(q) \in Nat
  BY LenProperties
<1>2. IsFiniteSet(1 .. Len(q)) /\ At(q, T) \in SUBSET (1 .. Len(q))
  BY <1>1, FS_Interval DEF At
<1>3. IsFiniteSet(At(q, T))
  BY <1>2, FS_Subset
<1> QED  BY <1>1, <1>3, FS_CardinalityType

\* What is left when one position is removed was there, at another position.
LEMMA RemoveCounts ==
    ASSUME NEW q \in Seq(Tasks), NEW k \in 1 .. Len(q), NEW T
    PROVE  Cardinality(At(RemoveAt(q, k), T)) <= Cardinality(At(q, T) \ {k})
<1> DEFINE r == RemoveAt(q, k)
           f == [j \in At(r, T) |-> IF j < k THEN j ELSE j + 1]
<1>1. /\ Len(q) \in Nat /\ DOMAIN q = 1 .. Len(q)
      /\ r \in Seq(Tasks) /\ Len(r) = Len(q) - 1
      /\ \A i \in 1 .. Len(q) - 1 : r[i] = IF i < k THEN q[i] ELSE q[i + 1]
  BY AtFinite, RemoveAtProperties
<1>2. DOMAIN r = 1 .. Len(q) - 1
  BY <1>1, LenProperties
<1> HIDE DEF r
<1>3. ASSUME NEW j \in At(r, T)
      PROVE  f[j] \in At(q, T) \ {k} /\ j \in 1 .. Len(q) - 1
  <2>1. j \in 1 .. Len(q) - 1 /\ r[j] \in T
    BY <1>2 DEF At
  <2>2. f[j] \in 1 .. Len(q) /\ f[j] # k /\ q[f[j]] = r[j]
    BY <1>1, <2>1
  <2> QED  BY <1>1, <2>1, <2>2 DEF At
<1>4. \A i, j \in At(r, T) : f[i] = f[j] => i = j
  <2> SUFFICES ASSUME NEW i \in At(r, T), NEW j \in At(r, T), f[i] = f[j]
               PROVE  i = j
    OBVIOUS
  <2>1. i \in 1 .. Len(q) - 1 /\ j \in 1 .. Len(q) - 1
    BY <1>3
  <2> QED  BY <1>1, <2>1
<1>5. f \in Injection(At(r, T), At(q, T) \ {k})
  <2>1. f \in [At(r, T) -> At(q, T) \ {k}]
    BY <1>3
  <2> HIDE DEF f
  <2> QED  BY <1>4, <2>1 DEF Injection, IsInjective
<1>6. IsFiniteSet(At(q, T) \ {k})
  BY AtFinite, FS_RemoveElement
<1> QED  BY <1>5, <1>6, FS_Injection DEF r

\* An entry of the name is removed, or there is none.
LEMMA RemoveTaskFacts ==
    ASSUME NEW q \in Seq(Tasks), NEW name
    PROVE  \/ /\ RemoveTask(q, name) = q
              /\ \A i \in 1 .. Len(q) : task[q[i]].name # name
           \/ \E k \in 1 .. Len(q) :
                  /\ RemoveTask(q, name) = RemoveAt(q, k)
                  /\ task[q[k]].name = name
<1> DEFINE I == {i \in 1 .. Len(q) : task[q[i]].name = name}
<1>1. Len(q) \in Nat
  BY LenProperties
<1>2. RemoveTask(q, name) =
          IF \E i \in 1 .. Len(q) : task[q[i]].name = name
          THEN RemoveAt(q, IF I # {} THEN Min(I) ELSE 0) ELSE q
  BY DEF RemoveTask, RemoveFirstMatch, SelectInSeq
<1>3. CASE I = {}
  BY <1>2, <1>3
<1>4. CASE I # {}
  <2>1. I \in SUBSET Nat
    BY <1>1
  <2>2. Min(I) \in I
    BY <1>4, <2>1, MinIsOne
  <2> QED  BY <1>2, <1>4, <2>2
<1> QED  BY <1>3, <1>4

LEMMA RemoveTaskCounts ==
    ASSUME TypeOK, \A i \in DOMAIN queue : task[queue[i]] # None, NEW name \in Names
    PROVE  /\ RemoveTask(queue, name) \in Seq(Tasks)
           /\ \A j \in DOMAIN RemoveTask(queue, name) :
                  \E i \in DOMAIN queue : RemoveTask(queue, name)[j] = queue[i]
           /\ \A T : Cardinality(At(RemoveTask(queue, name), T)) <= Cardinality(At(queue, T))
           /\ \/ Cardinality(At(RemoveTask(queue, name), Named(name))) = 0
              \/ Cardinality(At(RemoveTask(queue, name), Named(name)))
                     <= Cardinality(At(queue, Named(name))) - 1
<1> DEFINE r == RemoveTask(queue, name)
<1>1. queue \in Seq(Tasks) /\ task \in [Tasks -> LongTask \cup {None}]
  BY DEF TypeOK
<1>2. /\ DOMAIN queue = 1 .. Len(queue) /\ Len(queue) \in Nat
      /\ \A i \in DOMAIN queue : queue[i] \in Tasks
  BY <1>1, AtFinite, ElementOfSeq
<1>3. CASE r = queue /\ \A i \in 1 .. Len(queue) : task[queue[i]].name # name
  <2>1. At(queue, Named(name)) = {}
    BY <1>2, <1>3 DEF At, Named
  <2>2. Cardinality(At(queue, Named(name))) = 0
    BY <2>1, FS_EmptySet
  <2>3. \A T : Cardinality(At(queue, T)) <= Cardinality(At(queue, T))
    BY <1>1, AtFinite
  <2> QED  BY <1>1, <1>3, <2>2, <2>3
<1>4. CASE \E k \in 1 .. Len(queue) : r = RemoveAt(queue, k) /\ task[queue[k]].name = name
  <2>1. PICK k \in 1 .. Len(queue) : r = RemoveAt(queue, k) /\ task[queue[k]].name = name
    BY <1>4
  <2>2. /\ r \in Seq(Tasks) /\ Len(r) = Len(queue) - 1
        /\ \A j \in 1 .. Len(queue) - 1 : \E i \in 1 .. Len(queue) : r[j] = queue[i]
    <3>1. /\ RemoveAt(queue, k) \in Seq(Tasks) /\ Len(RemoveAt(queue, k)) = Len(queue) - 1
          /\ \A j \in 1 .. Len(queue) - 1 :
                 \E i \in 1 .. Len(queue) : i # k /\ RemoveAt(queue, k)[j] = queue[i]
      BY ONLY <1>1, <2>1, RemoveAtProperties, RemoveAtKeeps, Zenon
    <3>2. r = RemoveAt(queue, k)
      BY <2>1
    <3> HIDE DEF r
    <3> QED  BY ONLY <3>1, <3>2, Zenon
  <2> HIDE DEF r
  <2>3. DOMAIN r = 1 .. Len(queue) - 1
    BY <2>2, LenProperties
  <2>4. ASSUME NEW T
        PROVE  /\ Cardinality(At(r, T)) <= Cardinality(At(queue, T))
               /\ k \in At(queue, T) =>
                      Cardinality(At(r, T)) <= Cardinality(At(queue, T)) - 1
    <3> DEFINE all == Cardinality(At(queue, T))
               but == Cardinality(At(queue, T) \ {k})
               left == Cardinality(At(r, T))
    <3>1. all \in Nat /\ left \in Nat
      BY <1>1, <2>2, AtFinite
    <3>2. but = IF k \in At(queue, T) THEN all - 1 ELSE all
      BY <1>1, AtFinite, FS_RemoveElement
    <3>3. left <= but
      BY <1>1, <2>1, RemoveCounts
    <3> HIDE DEF all, but, left
    <3>4. left <= all /\ (k \in At(queue, T) => left <= all - 1)
      BY <3>1, <3>2, <3>3
    <3> QED  BY <3>4 DEF all, left
  <2>5. k \in At(queue, Named(name))
    BY <1>2, <2>1 DEF At, Named
  <2>6. \A T : Cardinality(At(r, T)) <= Cardinality(At(queue, T))
    BY <2>4
  <2>7. Cardinality(At(r, Named(name))) <= Cardinality(At(queue, Named(name))) - 1
    BY <2>4, <2>5
  <2> QED  BY <1>2, <2>2, <2>3, <2>6, <2>7 DEF r
<1> QED  BY <1>1, <1>3, <1>4, RemoveTaskFacts

-----------------------------------------------------------------------------
(* What a call of a task's method keeps.                                   *)

\* Tasks stay, with their names, and those that are done stay done.
TasksKept ==
    /\ task' \in [Tasks -> LongTask \cup {None}]
    /\ \A u \in Tasks : task[u] # None =>
           /\ task'[u] # None /\ task'[u].name = task[u].name
           /\ task[u].isDone => task'[u].isDone
    /\ \A u \in Tasks : task[u] = None => task'[u] = None

\* Entries only go.
QueueKept ==
    /\ queue' \in Seq(Tasks)
    /\ \A j \in DOMAIN queue' : \E i \in DOMAIN queue : queue'[j] = queue[i]
    /\ \A T : Cardinality(At(queue', T)) <= Cardinality(At(queue, T))

LEMMA TaskFacts ==
    ASSUME IInv, NEW t \in Tasks, task[t] # None
    PROVE  /\ task \in [Tasks -> LongTask \cup {None}] /\ task[t] \in LongTask
           /\ task[t].name \in Names /\ task[t].toGo \in Nat /\ task[t].isDone \in BOOLEAN
           /\ task[t] = [name |-> task[t].name, toGo |-> task[t].toGo,
                         isDone |-> task[t].isDone]
BY DEF IInv, TypeOK, LongTask

LEMMA SetTask ==
    ASSUME IInv, NEW t \in Tasks, task[t] # None, NEW new \in LongTask,
           new.name = task[t].name, task[t].isDone => new.isDone,
           task' = [task EXCEPT ![t] = new]
    PROVE  TasksKept /\ task'[t] = new
BY TaskFacts, ObjectsAssumption DEF TasksKept

LEMMA QueueSame ==
    ASSUME IInv, UNCHANGED queue
    PROVE  QueueKept
<1>1. queue \in Seq(Tasks)
  BY DEF IInv, TypeOK
<1>2. \A T : Cardinality(At(queue, T)) <= Cardinality(At(queue, T))
  BY <1>1, AtFinite
<1> QED  BY <1>1, <1>2 DEF QueueKept

LEMMA NamedKept ==
    ASSUME TasksKept
    PROVE  \A name : Named(name)' = Named(name)
BY DEF TasksKept, Named

\* Done and Update of an existing task.
LEMMA DoneStep ==
    ASSUME IInv, NEW t \in Tasks, task[t] # None, Done(t)
    PROVE  /\ TasksKept /\ QueueKept /\ task'[t].isDone
           /\ queue' = RemoveTask(queue, task[t].name)
<1> DEFINE new == [task[t] EXCEPT !.isDone = TRUE]
<1>1. task' = [task EXCEPT ![t] = new] /\ queue' = RemoveTask(queue, task[t].name)
  BY DEF Done
<1>2. new \in LongTask /\ new.name = task[t].name /\ new.isDone = TRUE
  BY TaskFacts DEF LongTask
<1> HIDE DEF new
<1>3. TasksKept /\ task'[t] = new
  BY <1>1, <1>2, SetTask
<1>4. QueueKept
  BY <1>1, TaskFacts, RemoveTaskCounts DEF IInv, RefersInv, QueueKept
<1>5. task'[t].isDone
  BY ONLY <1>2, <1>3, Zenon
<1> QED  BY <1>1, <1>3, <1>4, <1>5

LEMMA UpdateStep ==
    ASSUME IInv, NEW t \in Tasks, task[t] # None, Update(t)
    PROVE  TasksKept /\ QueueKept
<1>1. CASE task[t].toGo <= 1
  <2> DEFINE new == [task[t] EXCEPT !.toGo = 0, !.isDone = TRUE]
  <2>1. task' = [task EXCEPT ![t] = new] /\ queue' = RemoveTask(queue, task[t].name)
    BY <1>1, TaskFacts DEF Update
  <2>2. new \in LongTask /\ new.name = task[t].name /\ new.isDone = TRUE
    BY TaskFacts DEF LongTask
  <2> HIDE DEF new
  <2>3. TasksKept
    BY <2>1, <2>2, SetTask
  <2>4. QueueKept
    BY <2>1, TaskFacts, RemoveTaskCounts DEF IInv, RefersInv, QueueKept
  <2> QED  BY <2>3, <2>4
<1>2. CASE ~(task[t].toGo <= 1)
  <2> DEFINE new == [task[t] EXCEPT !.toGo = @ - 1]
  <2>1. task' = [task EXCEPT ![t] = new] /\ UNCHANGED queue
    BY <1>2 DEF Update
  <2>2. new \in LongTask /\ new.name = task[t].name /\ new.isDone = task[t].isDone
    <3>1. task[t] \in LongTask /\ task[t].toGo \in Nat
      BY TaskFacts
    <3>2. task[t].toGo - 1 \in Nat
      BY <1>2, <3>1
    <3> QED  BY <3>1, <3>2 DEF LongTask
  <2> HIDE DEF new
  <2>3. TasksKept
    BY <2>1, <2>2, SetTask
  <2> QED  BY <2>1, <2>3, QueueSame
<1> QED  BY <1>1, <1>2

-----------------------------------------------------------------------------
(* The parts of the invariant under steps that allocate nothing.           *)

LEMMA RefersKept ==
    ASSUME IInv, TasksKept, QueueKept,
           \A t \in Tasks : run'[t] # None =>
               run[t] # None /\ NameOf(run'[t].kind) = NameOf(run[t].kind),
           \A l \in Logs : log'[l].logReadTask \in {log[l].logReadTask, None},
           TypeOK
    PROVE  RefersInv'
<1>1. /\ queue \in Seq(Tasks) /\ \A i \in DOMAIN queue : queue[i] \in Tasks
      /\ \A l \in Logs : log[l].logReadTask \in Tasks \cup {None}
  <2>1. queue \in Seq(Tasks) /\ log \in [Logs -> ContainerLog]
    BY DEF TypeOK
  <2>2. \A l \in Logs : log[l].logReadTask \in Tasks \cup {None}
    BY <2>1 DEF ContainerLog
  <2> QED  BY <2>1, <2>2, ElementOfSeq, LenProperties
<1>2. ASSUME NEW j \in DOMAIN queue'
      PROVE  task'[queue'[j]] # None
  <2>1. PICK i \in DOMAIN queue : queue'[j] = queue[i]
    BY DEF QueueKept
  <2> QED  BY <1>1, <2>1 DEF TasksKept, IInv, RefersInv
<1>3. ASSUME NEW t \in Tasks, run'[t] # None
      PROVE  task'[t] # None /\ task'[t].name = NameOf(run'[t].kind)
  BY <1>3 DEF TasksKept, IInv, RefersInv
<1>4. ASSUME NEW l \in Logs, log'[l].logReadTask # None
      PROVE  /\ task'[log'[l].logReadTask] # None
             /\ task'[log'[l].logReadTask].name = "Reading"
  BY <1>1, <1>4 DEF TasksKept, IInv, RefersInv
<1> QED  BY <1>2, <1>3, <1>4 DEF RefersInv

LEMMA LogsKept ==
    ASSUME IInv, TasksKept,
           \A l \in Logs : log'[l].logReadTask \in {log[l].logReadTask, None},
           \A l \in Logs : log[l].logReadTask # None =>
               \/ task'[log[l].logReadTask].isDone
               \/ Readers(l, Reading) \subseteq Readers(l, Reading)'
    PROVE  LogsInv'
<1>1. \A l \in Logs : log[l].logReadTask \in Tasks \cup {None}
  BY DEF IInv, TypeOK, ContainerLog
<1>2. ASSUME NEW l \in Logs, log'[l].logReadTask # None
      PROVE  task'[log'[l].logReadTask].isDone \/ Readers(l, Reading)' # {}
  <2> DEFINE u == log[l].logReadTask
  <2>1. u # None /\ log'[l].logReadTask = u /\ u \in Tasks
    BY <1>1, <1>2
  <2>2. task[u] # None /\ (task[u].isDone \/ Readers(l, Reading) # {})
    BY <2>1 DEF IInv, RefersInv, LogsInv
  <2>3. task[u].isDone => task'[u].isDone
    BY <2>1, <2>2, Zenon DEF TasksKept
  <2>4. task'[u].isDone \/ Readers(l, Reading) \subseteq Readers(l, Reading)'
    BY <2>1, Zenon
  <2> HIDE DEF u
  <2>5. task'[u].isDone \/ Readers(l, Reading)' # {}
    BY ONLY <2>2, <2>3, <2>4, Zenon
  <2> QED  BY ONLY <2>1, <2>5, Zenon
<1> QED  BY ONLY <1>2, Zenon DEF LogsInv

LEMMA EntriesFacts ==
    ASSUME IInv, NEW name
    PROVE  /\ IsFiniteSet(Named(name) \cap Active)
           /\ Cardinality(Named(name) \cap Active) \in Nat
           /\ Cardinality(At(queue, Named(name))) \in Nat
<1>1. Named(name) \cap Active \in SUBSET {t \in Tasks : run[t] # None}
  BY DEF Active
<1>2. IsFiniteSet(Named(name) \cap Active)
  BY <1>1, FS_Subset DEF IInv, EntriesInv
<1>3. queue \in Seq(Tasks)
  BY DEF IInv, TypeOK
<1> QED  BY <1>2, <1>3, FS_CardinalityType, AtFinite

\* Nobody has removed his entry.
LEMMA EntriesKept ==
    ASSUME IInv, TasksKept, QueueKept, Active' = Active,
           \A t \in Tasks : run'[t] # None => run[t] # None
    PROVE  EntriesInv'
<1>1. \A name : Named(name)' = Named(name)
  BY NamedKept
<1>2. {t \in Tasks : run'[t] # None} \in SUBSET {t \in Tasks : run[t] # None}
  OBVIOUS
<1>3. IsFiniteSet({t \in Tasks : run'[t] # None})
  BY <1>2, FS_Subset DEF IInv, EntriesInv
<1>4. ASSUME NEW name \in Names
      PROVE  Cardinality(At(queue', Named(name))) <= Cardinality(Named(name) \cap Active)
  <2> DEFINE old == Cardinality(At(queue, Named(name)))
             new == Cardinality(At(queue', Named(name)))
             bound == Cardinality(Named(name) \cap Active)
  <2>1. new <= old
    BY DEF QueueKept
  <2>2. old <= bound
    BY DEF IInv, EntriesInv
  <2>3. old \in Nat /\ bound \in Nat
    BY EntriesFacts
  <2>4. new \in Nat
    BY AtFinite DEF QueueKept
  <2> HIDE DEF old, new, bound
  <2>5. new <= bound
    BY <2>1, <2>2, <2>3, <2>4
  <2> QED  BY <2>5 DEF new, bound
<1>5. \A name \in Names : Cardinality(At(queue', Named(name)')) <= Cardinality(Named(name)' \cap Active')
  BY <1>1, <1>4
<1> QED  BY <1>3, <1>5 DEF EntriesInv, At

\* A goroutine has removed an entry with the name of its task, or none was left.
LEMMA EntriesEnd ==
    ASSUME IInv, TasksKept, QueueKept, NEW g \in Active,
           queue' = RemoveTask(queue, task[g].name), Active' = Active \ {g},
           \A t \in Tasks : run'[t] # None => run[t] # None
    PROVE  EntriesInv'
<1>1. \A name : Named(name)' = Named(name)
  BY NamedKept
<1>2. {t \in Tasks : run'[t] # None} \in SUBSET {t \in Tasks : run[t] # None}
  OBVIOUS
<1>3. IsFiniteSet({t \in Tasks : run'[t] # None})
  BY <1>2, FS_Subset DEF IInv, EntriesInv
<1>4. g \in Tasks /\ task[g] # None /\ task[g].name \in Names
  BY TaskFacts DEF Active, IInv, RefersInv
<1>5. ASSUME NEW name \in Names
      PROVE  Cardinality(At(queue', Named(name))) <= Cardinality(Named(name) \cap (Active \ {g}))
  <2> DEFINE old == Cardinality(At(queue, Named(name)))
             new == Cardinality(At(queue', Named(name)))
             bound == Cardinality(Named(name) \cap Active)
             left == Cardinality((Named(name) \cap Active) \ {g})
  <2>1. new <= old /\ old <= bound
    BY DEF QueueKept, IInv, EntriesInv
  <2>2. old \in Nat /\ bound \in Nat /\ new \in Nat
    BY EntriesFacts, AtFinite DEF QueueKept
  <2>3. left = IF g \in Named(name) \cap Active THEN bound - 1 ELSE bound
    BY EntriesFacts, FS_RemoveElement
  <2>4. g \in Named(name) => name = task[g].name
    BY DEF Named
  <2>5. g \in Named(name) => new = 0 \/ new <= old - 1
    BY <1>4, <2>4, RemoveTaskCounts DEF IInv, RefersInv
  <2>6. left \in Nat
    <3>1. IsFiniteSet((Named(name) \cap Active) \ {g})
      BY EntriesFacts, FS_RemoveElement
    <3> QED  BY <3>1, FS_CardinalityType
  <2> HIDE DEF old, new, bound, left
  <2>7. new <= left
    BY <2>1, <2>2, <2>3, <2>5, <2>6
  <2>8. Named(name) \cap (Active \ {g}) = (Named(name) \cap Active) \ {g}
    OBVIOUS
  <2> QED  BY <2>7, <2>8 DEF new, left
<1>6. \A name \in Names : Cardinality(At(queue', Named(name)')) <= Cardinality(Named(name)' \cap Active')
  BY <1>1, <1>5
<1> QED  BY <1>3, <1>6 DEF EntriesInv, At

-----------------------------------------------------------------------------
(* A goroutine goes on, ends, or is started.                               *)

\* The goroutines that run, of which those named before keep their names.
RunKept ==
    /\ run' \in [Tasks -> Worker \cup Reader \cup {None}]
    /\ \A t \in Tasks : run'[t] # None =>
           run[t] # None /\ NameOf(run'[t].kind) = NameOf(run[t].kind)

LEMMA RunSame ==
    ASSUME IInv, UNCHANGED run
    PROVE  RunKept /\ Active' = Active /\ \A l : Readers(l, Reading)' = Readers(l, Reading)
BY DEF IInv, TypeOK, RunKept, Active, Readers

LEMMA RunGoes ==
    ASSUME IInv, NEW g \in Tasks, run[g] # None, NEW new \in Worker \cup Reader,
           NameOf(new.kind) = NameOf(run[g].kind),
           run' = [run EXCEPT ![g] = new]
    PROVE  /\ RunKept
           /\ (new.kind = "addLog") = (run[g].kind = "addLog") => Active' = Active
           /\ new.kind = "addLog" => Active' = Active \ {g}
           /\ \A l : \/ run[g].kind \notin Reading
                     \/ new.kind \in Reading /\ new.log = run[g].log
                     \/ run[g].log # l
                  => Readers(l, Reading) \subseteq Readers(l, Reading)'
<1>1. new # None
  BY ObjectsAssumption, ReaderAssumption
<1>2. /\ run \in [Tasks -> Worker \cup Reader \cup {None}]
      /\ run'[g] = new /\ \A t \in Tasks : t # g => run'[t] = run[t]
  BY DEF IInv, TypeOK
<1>3. RunKept
  BY <1>2 DEF RunKept
<1>4. Active' = {t \in Tasks : run'[t] # None /\ run'[t].kind # "addLog"}
  BY DEF Active
<1>5. (new.kind = "addLog") = (run[g].kind = "addLog") => Active' = Active
  BY <1>1, <1>2, <1>4 DEF Active
<1>6. new.kind = "addLog" => Active' = Active \ {g}
  BY <1>1, <1>2, <1>4 DEF Active
<1>7. ASSUME NEW l,
             \/ run[g].kind \notin Reading
             \/ new.kind \in Reading /\ new.log = run[g].log
             \/ run[g].log # l,
             NEW h \in Readers(l, Reading)
      PROVE  h \in Readers(l, Reading)'
  BY <1>1, <1>2, <1>7 DEF Readers
<1> QED  BY <1>3, <1>5, <1>6, <1>7

LEMMA RunEnds ==
    ASSUME IInv, NEW g \in Tasks, run' = [run EXCEPT ![g] = None]
    PROVE  /\ RunKept
           /\ run[g] # None /\ run[g].kind = "addLog" => Active' = Active
           /\ Active' = Active \ {g}
           /\ \A l : run[g].kind \notin Reading \/ run[g].log # l
                  => Readers(l, Reading) \subseteq Readers(l, Reading)'
<1>1. /\ run \in [Tasks -> Worker \cup Reader \cup {None}]
      /\ run'[g] = None /\ \A t \in Tasks : t # g => run'[t] = run[t]
  BY DEF IInv, TypeOK
<1>2. RunKept
  BY <1>1 DEF RunKept
<1>3. Active' = {t \in Tasks : run'[t] # None /\ run'[t].kind # "addLog"}
  BY DEF Active
<1>4. Active' = Active \ {g}
  BY <1>1, <1>3 DEF Active
<1>5. run[g] # None /\ run[g].kind = "addLog" => Active' = Active
  BY <1>4 DEF Active
<1>6. ASSUME NEW l, run[g].kind \notin Reading \/ run[g].log # l,
             NEW h \in Readers(l, Reading)
      PROVE  h \in Readers(l, Reading)'
  BY <1>1, <1>6 DEF Readers
<1> QED  BY <1>2, <1>4, <1>5, <1>6

\* AddTask and Start of an object that nothing refers to.
LEMMA AddedStep ==
    ASSUME IInv, NEW t \in Tasks, Unreferenced(t),
           NEW name \in Names, NEW toGo \in Nat, NEW goroutine \in Worker \cup Reader,
           NameOf(goroutine.kind) = name, goroutine.kind # "addLog",
           Added(t, name, toGo, goroutine),
           \A l \in Logs : \/ log'[l].logReadTask = log[l].logReadTask
                           \/ /\ log'[l].logReadTask = t /\ name = "Reading"
                              /\ goroutine.kind \in Reading /\ goroutine.log = l
    PROVE  /\ queue' \in Seq(Tasks)
           /\ task' \in [Tasks -> LongTask \cup {None}]
           /\ run' \in [Tasks -> Worker \cup Reader \cup {None}]
           /\ RefersInv' /\ LogsInv' /\ EntriesInv'
<1> DEFINE new == NewTask(name, toGo)
<1>1. /\ queue' = Append(queue, t)
      /\ task' = [task EXCEPT ![t] = new]
      /\ run' = [run EXCEPT ![t] = goroutine]
  BY DEF Added
<1>2. new \in LongTask /\ new # None /\ new.name = name /\ goroutine # None
  <2>1. new \in LongTask /\ new.name = name
    BY DEF NewTask, LongTask
  <2> QED  BY <2>1, ObjectsAssumption, ReaderAssumption
<1> HIDE DEF new
<1>3. /\ queue \in Seq(Tasks) /\ DOMAIN queue = 1 .. Len(queue) /\ Len(queue) \in Nat
      /\ \A i \in DOMAIN queue : queue[i] \in Tasks /\ queue[i] # t
      /\ run[t] = None
  BY AtFinite, ElementOfSeq DEF IInv, TypeOK, Unreferenced, Unused
<1>4. /\ queue' \in Seq(Tasks) /\ DOMAIN queue' = 1 .. Len(queue) + 1
      /\ queue'[Len(queue) + 1] = t
      /\ \A i \in DOMAIN queue : queue'[i] = queue[i]
  BY <1>1, <1>3, AppendProperties
<1>5. /\ task' \in [Tasks -> LongTask \cup {None}]
      /\ task'[t] = new
      /\ \A u \in Tasks : u # t => task'[u] = task[u]
  BY <1>1, <1>2 DEF IInv, TypeOK
<1>6. /\ run' \in [Tasks -> Worker \cup Reader \cup {None}]
      /\ run'[t] = goroutine
      /\ \A u \in Tasks : u # t => run'[u] = run[u]
  BY <1>1 DEF IInv, TypeOK
<1>7. \A l \in Logs : /\ log[l].logReadTask \in Tasks \cup {None}
                      /\ log[l].logReadTask # t
  BY DEF IInv, TypeOK, ContainerLog, Unreferenced
<1>8. RefersInv'
  <2>1. ASSUME NEW i \in DOMAIN queue'
        PROVE  task'[queue'[i]] # None
    <3>1. CASE i = Len(queue) + 1
      BY <1>2, <1>4, <1>5, <3>1
    <3>2. CASE i \in DOMAIN queue
      BY <1>3, <1>4, <1>5, <3>2 DEF IInv, RefersInv
    <3> QED  BY <1>3, <1>4, <2>1, <3>1, <3>2
  <2>2. ASSUME NEW u \in Tasks, run'[u] # None
        PROVE  task'[u] # None /\ task'[u].name = NameOf(run'[u].kind)
    <3>1. CASE u = t
      BY <1>2, <1>5, <1>6, <3>1
    <3>2. CASE u # t
      BY <1>5, <1>6, <2>2, <3>2 DEF IInv, RefersInv
    <3> QED  BY <3>1, <3>2
  <2>3. ASSUME NEW l \in Logs, log'[l].logReadTask # None
        PROVE  /\ task'[log'[l].logReadTask] # None
               /\ task'[log'[l].logReadTask].name = "Reading"
    BY <1>2, <1>5, <1>7, <2>3 DEF IInv, RefersInv
  <2> QED  BY <2>1, <2>2, <2>3 DEF RefersInv
<1>9. LogsInv'
  <2>1. ASSUME NEW l \in Logs, log'[l].logReadTask # None
        PROVE  task'[log'[l].logReadTask].isDone \/ Readers(l, Reading)' # {}
    <3>1. CASE /\ log'[l].logReadTask = t
               /\ goroutine.kind \in Reading /\ goroutine.log = l
      <4>1. t \in Readers(l, Reading)'
        BY <1>2, <1>6, <3>1 DEF Readers
      <4> QED  BY <4>1
    <3>2. CASE log'[l].logReadTask = log[l].logReadTask
      <4> DEFINE u == log[l].logReadTask
      <4>1. u \in Tasks /\ u # t /\ task'[u] = task[u]
        BY <1>5, <1>7, <2>1, <3>2
      <4>2. task[u].isDone \/ Readers(l, Reading) # {}
        BY <2>1, <3>2, Zenon DEF IInv, LogsInv
      <4>3. Readers(l, Reading) \subseteq Readers(l, Reading)'
        BY <1>3, <1>6 DEF Readers
      <4>4. log'[l].logReadTask = u
        BY <3>2
      <4> HIDE DEF u
      <4>5. task'[u].isDone \/ Readers(l, Reading)' # {}
        BY ONLY <4>1, <4>2, <4>3, Zenon
      <4> QED  BY ONLY <4>4, <4>5, Zenon
    <3> QED  BY <3>1, <3>2
  <2> QED  BY ONLY <2>1, Zenon DEF LogsInv
<1>10. EntriesInv'
  <2>1. Active' = Active \cup {t} /\ t \notin Active
    <3>1. Active' = {u \in Tasks : run'[u] # None /\ run'[u].kind # "addLog"}
      BY DEF Active
    <3> QED  BY <1>2, <1>3, <1>6, <3>1 DEF Active
  <2>2. IsFiniteSet({u \in Tasks : run'[u] # None})
    <3>1. {u \in Tasks : run'[u] # None} = {u \in Tasks : run[u] # None} \cup {t}
      BY <1>2, <1>6
    <3> QED  BY <3>1, FS_AddElement DEF IInv, EntriesInv
  <2>3. \A n : Named(n)' = IF n = name THEN Named(n) \cup {t} ELSE Named(n) \ {t}
    <3>1. \A n : Named(n)' = {u \in Tasks : task'[u] # None /\ task'[u].name = n}
      BY DEF Named
    <3> QED  BY <1>2, <1>5, <3>1 DEF Named
  <2>4. ASSUME NEW n \in Names
        PROVE  Cardinality(At(queue', Named(n)')) <= Cardinality(Named(n)' \cap Active')
    <3> DEFINE old == At(queue, Named(n))
               bound == Named(n) \cap Active
    <3>1. /\ Cardinality(old) <= Cardinality(bound)
          /\ IsFiniteSet(old) /\ IsFiniteSet(bound)
          /\ Cardinality(old) \in Nat /\ Cardinality(bound) \in Nat
      BY <1>3, AtFinite, EntriesFacts DEF IInv, EntriesInv
    <3>2. CASE n = name
      <4>1. At(queue', Named(n)') = old \cup {Len(queue) + 1}
        BY <1>3, <1>4, <2>3, <3>2 DEF At
      <4>2. Len(queue) + 1 \notin old
        BY <1>3 DEF At
      <4>3. Named(n)' \cap Active' = bound \cup {t} /\ t \notin bound
        BY <2>1, <2>3, <3>2
      <4> HIDE DEF old, bound
      <4>4. /\ Cardinality(old \cup {Len(queue) + 1}) = Cardinality(old) + 1
            /\ Cardinality(bound \cup {t}) = Cardinality(bound) + 1
        BY <3>1, <4>2, <4>3, FS_AddElement
      <4>5. /\ Cardinality(At(queue', Named(n)')) = Cardinality(old) + 1
            /\ Cardinality(Named(n)' \cap Active') = Cardinality(bound) + 1
        BY ONLY <4>1, <4>3, <4>4, Zenon
      <4> QED  BY <3>1, <4>5
    <3>3. CASE n # name
      <4>1. At(queue', Named(n)') = old
        BY <1>3, <1>4, <2>3, <3>3 DEF At
      <4>2. Named(n)' \cap Active' = bound
        BY <2>1, <2>3, <3>3
      <4> QED  BY <3>1, <4>1, <4>2
    <3> QED  BY <3>2, <3>3
  <2>5. EntriesInv' <=> /\ IsFiniteSet({u \in Tasks : run'[u] # None})
                        /\ \A n \in Names : Cardinality(At(queue', Named(n)'))
                                              <= Cardinality(Named(n)' \cap Active')
    BY DEF EntriesInv, At
  <2> QED  BY <2>2, <2>4, <2>5
<1> QED  BY <1>4, <1>5, <1>6, <1>8, <1>9, <1>10

-----------------------------------------------------------------------------
(* A step that allocates nothing preserves the invariant.                  *)

\* What a step leaves of the panel.
PanelKept ==
    /\ log' \in [Logs -> ContainerLog]
    /\ current' \in Logs \cup {None}
    /\ asked' \in Logs \cup {None}
    /\ shown' \in Seq(Tasks) \cup {readingMsg}
    /\ \A l \in Logs : log'[l].logReadTask \in {log[l].logReadTask, None}

LEMMA PanelSame ==
    ASSUME IInv, UNCHANGED logVars
    PROVE  PanelKept
BY DEF IInv, TypeOK, logVars, PanelKept

LEMMA TasksSame ==
    ASSUME IInv, UNCHANGED task
    PROVE  TasksKept
BY DEF IInv, TypeOK, TasksKept

LEMMA StepKept ==
    ASSUME IInv, TasksKept, QueueKept, RunKept, PanelKept,
           \A l \in Logs : log[l].logReadTask # None =>
               \/ task'[log[l].logReadTask].isDone
               \/ Readers(l, Reading) \subseteq Readers(l, Reading)',
           \/ Active' = Active
           \/ \E g \in Active : /\ queue' = RemoveTask(queue, task[g].name)
                                /\ Active' = Active \ {g}
    PROVE  IInv'
<1>1. TypeOK'
  BY DEF TypeOK, TasksKept, QueueKept, RunKept, PanelKept
<1>2. RefersInv'
  BY RefersKept DEF IInv, RunKept, PanelKept
<1>3. LogsInv'
  BY LogsKept DEF PanelKept
<1>4. EntriesInv'
  <2>1. \A t \in Tasks : run'[t] # None => run[t] # None
    BY DEF RunKept
  <2>2. CASE Active' = Active
    BY <2>1, <2>2, EntriesKept
  <2>3. CASE \E g \in Active : /\ queue' = RemoveTask(queue, task[g].name)
                               /\ Active' = Active \ {g}
    BY <2>1, <2>3, EntriesEnd
  <2> QED  BY <2>2, <2>3
<1> QED  BY <1>1, <1>2, <1>3, <1>4 DEF IInv

-----------------------------------------------------------------------------
(* The goroutines of LongTasks.                                            *)

LEMMA WorkerFacts ==
    ASSUME IInv, NEW t \in Tasks, IsWorker(t)
    PROVE  /\ run[t] \in Worker /\ run[t] # None /\ run[t].kind \notin Reading \cup {"addLog"}
           /\ run[t].todo \in Nat
           /\ task[t] # None /\ t \in Active
<1>1. run[t] \in Worker \cup Reader /\ run[t] # None
  BY DEF IInv, TypeOK, IsWorker
<1>2. run[t].kind \in {"deploy", "undeploy", "refresh"}
  BY DEF IsWorker
<1>3. run[t] \in Worker
  BY <1>1, <1>2 DEF Reader
<1>4. run[t].todo \in Nat /\ run[t].kind \notin Reading \cup {"addLog"}
  BY <1>2, <1>3 DEF Worker, Reading
<1>5. task[t] # None /\ t \in Active
  BY <1>1, <1>2 DEF IInv, RefersInv, Active
<1> QED  BY <1>1, <1>3, <1>4, <1>5

LEMMA WorkerStepKept ==
    ASSUME IInv, NEW t \in Tasks, WorkerStep(t), UNCHANGED logVars
    PROVE  IInv'
<1>1. PanelKept
  BY PanelSame
<1>2. CASE CallEnded(t)
  <2> DEFINE new == [run[t] EXCEPT !.todo = @ - 1]
  <2>1. IsWorker(t) /\ run[t].todo > 0 /\ Update(t) /\ run' = [run EXCEPT ![t] = new]
    BY <1>2 DEF CallEnded
  <2>2. /\ run[t] \in Worker /\ run[t] # None
        /\ run[t].kind \notin Reading \cup {"addLog"} /\ run[t].todo \in Nat
        /\ task[t] # None
    BY <2>1, WorkerFacts
  <2>3. new \in Worker /\ new.kind = run[t].kind
    BY <2>1, <2>2 DEF Worker
  <2> HIDE DEF new
  <2>4. TasksKept /\ QueueKept
    BY <2>1, <2>2, UpdateStep
  <2>5. /\ RunKept /\ Active' = Active
        /\ \A l : Readers(l, Reading) \subseteq Readers(l, Reading)'
    <3>1. new \in Worker \cup Reader /\ NameOf(new.kind) = NameOf(run[t].kind)
      BY <2>3
    <3>2. (new.kind = "addLog") = (run[t].kind = "addLog") /\ run[t].kind \notin Reading
      BY <2>2, <2>3
    <3> QED  BY ONLY <2>1, <2>2, <3>1, <3>2, IInv, t \in Tasks, RunGoes
  <2> QED  BY <1>1, <2>4, <2>5, StepKept
<1>3. CASE DeployCallFailed(t) \/ Finished(t)
  <2>1. IsWorker(t) /\ Done(t) /\ run' = [run EXCEPT ![t] = None]
    BY <1>3 DEF DeployCallFailed, Finished
  <2>2. /\ run[t] # None /\ run[t].kind \notin Reading
        /\ task[t] # None /\ t \in Active
    BY <2>1, WorkerFacts
  <2>3. /\ RunKept /\ Active' = Active \ {t}
        /\ \A l : Readers(l, Reading) \subseteq Readers(l, Reading)'
    BY <2>1, <2>2, RunEnds
  <2>4. TasksKept /\ QueueKept /\ queue' = RemoveTask(queue, task[t].name)
    BY <2>1, <2>2, DoneStep
  <2> QED  BY <1>1, <2>2, <2>3, <2>4, StepKept
<1> QED  BY <1>2, <1>3 DEF WorkerStep

-----------------------------------------------------------------------------
(* The goroutines that read a log.                                         *)

LEMMA ReaderFacts ==
    ASSUME IInv, NEW g \in Tasks, NEW step \in Reading \cup {"addLog"}, Reads(g, step)
    PROVE  /\ run[g] \in Reader /\ run[g] # None /\ run[g].kind = step
           /\ LogOf(g) \in Logs /\ LogOf(g) = run[g].log /\ run[g].chunks \in Nat
           /\ task[g] # None /\ task[g].name = "Reading"
           /\ step # "addLog" => g \in Active
           /\ TaskOf(g) # None => /\ TaskOf(g) \in Tasks /\ task[TaskOf(g)] # None
                                  /\ task[TaskOf(g)].name = "Reading"
<1>1. run[g] \in Worker \cup Reader /\ run[g] # None /\ run[g].kind = step
  BY DEF IInv, TypeOK, Reads
<1>2. run[g] \in Reader
  BY <1>1 DEF Worker, Reading
<1>3. LogOf(g) \in Logs /\ LogOf(g) = run[g].log /\ run[g].chunks \in Nat
  BY <1>2 DEF Reader, LogOf
<1>4. NameOf(step) = "Reading"
  BY DEF NameOf, Reading
<1>5. task[g] # None /\ task[g].name = "Reading"
  BY <1>1, <1>4 DEF IInv, RefersInv
<1>6. step # "addLog" => g \in Active
  BY <1>1 DEF Active
<1>7. log[LogOf(g)].logReadTask \in Tasks \cup {None}
  BY <1>3 DEF IInv, TypeOK, ContainerLog
<1>8. TaskOf(g) # None => /\ TaskOf(g) \in Tasks /\ task[TaskOf(g)] # None
                          /\ task[TaskOf(g)].name = "Reading"
  BY <1>3, <1>7 DEF TaskOf, IInv, RefersInv
<1> QED  BY <1>1, <1>2, <1>3, <1>5, <1>6, <1>8

LEMMA AddLogKept ==
    ASSUME IInv, NEW l \in Logs, NEW chunks \in Seq(Tasks), AddLog(l, chunks),
           UNCHANGED <<current, asked, shown>>
    PROVE  PanelKept
<1> DEFINE new == [log[l] EXCEPT !.buffer = @ \o chunks, !.changed = TRUE]
<1>1. log \in [Logs -> ContainerLog] /\ log' = [log EXCEPT ![l] = new]
  BY DEF IInv, TypeOK, AddLog
<1>2. new \in ContainerLog /\ new.logReadTask = log[l].logReadTask
  <2>1. log[l] \in ContainerLog /\ log[l].buffer \in Seq(Tasks)
    BY <1>1 DEF ContainerLog
  <2>2. log[l].buffer \o chunks \in Seq(Tasks)
    BY <2>1, ConcatProperties
  <2> QED  BY <2>1, <2>2 DEF ContainerLog
<1> HIDE DEF new
<1>3. /\ log' \in [Logs -> ContainerLog]
      /\ \A m \in Logs : log'[m].logReadTask = log[m].logReadTask
  BY <1>1, <1>2
<1> QED  BY <1>3 DEF IInv, TypeOK, PanelKept

\* A reader that goes on.
LEMMA ReaderGoes ==
    ASSUME IInv, NEW g \in Tasks, NEW step \in Reading, Reads(g, step),
           NEW new \in Reader, new.kind \in Reading, new.log = run[g].log,
           run' = [run EXCEPT ![g] = new]
    PROVE  /\ RunKept /\ Active' = Active
           /\ \A l : Readers(l, Reading) \subseteq Readers(l, Reading)'
<1>1. run[g] # None /\ run[g].kind = step
  BY ReaderFacts
<1>2. NameOf(new.kind) = NameOf(run[g].kind)
  BY <1>1 DEF NameOf, Reading
<1>3. (new.kind = "addLog") = (run[g].kind = "addLog")
  BY <1>1 DEF Reading
<1> QED  BY <1>1, <1>2, <1>3, RunGoes

LEMMA GotoReading ==
    ASSUME IInv, NEW g \in Tasks, NEW step \in Reading, Reads(g, step),
           NEW next \in Reading, Goto(g, next)
    PROVE  /\ RunKept /\ Active' = Active
           /\ \A l : Readers(l, Reading) \subseteq Readers(l, Reading)'
<1> DEFINE new == [run[g] EXCEPT !.kind = next]
<1>1. run' = [run EXCEPT ![g] = new]
  BY DEF Goto
<1>2. new \in Reader /\ new.kind = next /\ new.log = run[g].log
  BY ReaderFacts DEF Reader, Reading
<1> HIDE DEF new
<1> QED  BY <1>1, <1>2, ReaderGoes

\* The steps that add to the buffer and read on, or go on to end the task.
LEMMA AddsAndGoes ==
    ASSUME IInv, NEW g \in Tasks, NEW step \in Reading, Reads(g, step),
           NEW chunks \in Seq(Tasks), AddLog(LogOf(g), chunks),
           NEW new \in Reader, new.kind \in Reading, new.log = run[g].log,
           run' = [run EXCEPT ![g] = new],
           UNCHANGED <<queue, task, current, asked, shown>>
    PROVE  IInv'
<1>1. LogOf(g) \in Logs
  BY ReaderFacts
<1>2. PanelKept
  BY <1>1, AddLogKept
<1>3. TasksKept /\ QueueKept
  BY TasksSame, QueueSame
<1>4. /\ RunKept /\ Active' = Active
      /\ \A l : Readers(l, Reading) \subseteq Readers(l, Reading)'
  BY ReaderGoes
<1> QED  BY <1>2, <1>3, <1>4, StepKept

LEMMA BufferedKept ==
    ASSUME IInv, NEW g \in Tasks,
           OpenFailed(g) \/ ReadChunk(g) \/ ReadEof(g) \/ ReadError(g)
    PROVE  IInv'
<1>1. <<g>> \in Seq(Tasks) /\ <<>> \in Seq(Tasks)
  OBVIOUS
<1>2. UNCHANGED <<queue, task, current, asked, shown>>
  BY DEF OpenFailed, ReadChunk, ReadEof, ReadError
<1>3. CASE ReadChunk(g)
  <2> DEFINE new == [run[g] EXCEPT !.kind = "update", !.chunks = @ + 1]
  <2>1. Reads(g, "read") /\ AddLog(LogOf(g), <<g>>) /\ run' = [run EXCEPT ![g] = new]
    BY <1>3 DEF ReadChunk
  <2>2. "read" \in Reading
    BY DEF Reading
  <2>3. run[g] \in Reader /\ run[g].chunks \in Nat
    BY <2>1, <2>2, ReaderFacts
  <2>4. new \in Reader /\ new.kind \in Reading /\ new.log = run[g].log
    <3> DEFINE next == run[g].chunks + 1
    <3>1. next \in Nat
      BY <2>3
    <3>2. new = [run[g] EXCEPT !.kind = "update", !.chunks = next]
      OBVIOUS
    <3> HIDE DEF next, new
    <3> QED  BY <2>3, <3>1, <3>2 DEF Reader, Reading
  <2> HIDE DEF new
  <2> QED  BY <1>1, <1>2, <2>1, <2>2, <2>4, AddsAndGoes
<1>4. CASE OpenFailed(g) \/ ReadEof(g) \/ ReadError(g)
  <2> DEFINE new == [run[g] EXCEPT !.kind = "done"]
  <2>1. PICK step \in Reading, chunks \in Seq(Tasks) :
            Reads(g, step) /\ AddLog(LogOf(g), chunks)
    BY <1>1, <1>4 DEF OpenFailed, ReadEof, ReadError, Reading
  <2>2. run' = [run EXCEPT ![g] = new]
    BY <1>4 DEF OpenFailed, ReadEof, ReadError, Goto
  <2>3. run[g] \in Reader
    BY <2>1, ReaderFacts
  <2>4. new \in Reader /\ new.kind \in Reading /\ new.log = run[g].log
    BY <2>3 DEF Reader, Reading
  <2> HIDE DEF new
  <2> QED  BY <1>2, <2>1, <2>2, <2>4, AddsAndGoes
<1> QED  BY <1>3, <1>4

\* The steps that move the progress of the task of the log.
LEMMA ProgressKept ==
    ASSUME IInv, NEW g \in Tasks, Opened(g) \/ Updated(g) \/ ReadNothing(g)
    PROVE  IInv'
<1> DEFINE u == TaskOf(g)
<1>1. PICK step \in Reading, next \in Reading :
          Reads(g, step) /\ Goto(g, next)
  BY DEF Opened, Updated, ReadNothing, Reading
<1>2. u # None /\ UNCHANGED logVars
  BY DEF Opened, Updated, ReadNothing
<1>3. u \in Tasks /\ task[u] # None
  BY <1>1, <1>2, ReaderFacts
<1>4. PanelKept
  BY <1>2, PanelSame
<1>5. /\ RunKept /\ Active' = Active
      /\ \A l : Readers(l, Reading) \subseteq Readers(l, Reading)'
  BY <1>1, GotoReading
<1>6. TasksKept /\ QueueKept
  <2>1. CASE Opened(g)
    <3>1. QueueKept
      BY <2>1, QueueSame DEF Opened
    <3>2. CASE task[u].toGo \in 1..NearlyFull
      <4> DEFINE new == [task[u] EXCEPT !.toGo = SlowUpdates]
      <4>1. task' = [task EXCEPT ![u] = new]
        BY <2>1, <3>2 DEF Opened
      <4>2. new \in LongTask /\ new.name = task[u].name /\ new.isDone = task[u].isDone
        <5>1. task[u] \in LongTask
          BY <1>3, TaskFacts
        <5> HIDE DEF u
        <5> QED  BY <5>1, PodLogAssumption DEF LongTask
      <4> HIDE DEF new, u
      <4>3. TasksKept
        BY <1>3, <4>1, <4>2, SetTask
      <4> QED  BY <3>1, <4>3
    <3>3. CASE task[u].toGo \notin 1..NearlyFull
      <4>1. UNCHANGED task
        BY <2>1, <3>3 DEF Opened
      <4> QED  BY <3>1, <4>1, TasksSame
    <3> QED  BY <3>2, <3>3
  <2>2. CASE Updated(g) \/ ReadNothing(g)
    <3>1. Update(u)
      BY <2>2 DEF Updated, ReadNothing
    <3> HIDE DEF u
    <3> QED  BY <1>3, <3>1, UpdateStep
  <2> QED  BY <2>1, <2>2
<1> QED  BY <1>4, <1>5, <1>6, StepKept

\* The steps that end the task of the log: from then on it is done.
LEMMA EndedKept ==
    ASSUME IInv, NEW g \in Tasks, Ended(g) \/ EndedEarly(g)
    PROVE  IInv'
<1> DEFINE u == TaskOf(g)
<1>1. PICK step \in Reading : Reads(g, step)
  BY DEF Ended, EndedEarly, Reading
<1>2. u # None /\ Done(u) /\ UNCHANGED logVars
  BY DEF Ended, EndedEarly
<1>3. /\ u \in Tasks /\ task[u] # None /\ task[u].name = task[g].name
      /\ g \in Active /\ run[g] \in Reader /\ run[g] # None /\ run[g].kind = step
      /\ LogOf(g) = run[g].log /\ u = log[LogOf(g)].logReadTask
  <2>1. /\ u \in Tasks /\ task[u] # None /\ task[u].name = task[g].name
        /\ run[g] \in Reader /\ run[g] # None /\ run[g].kind = step
        /\ LogOf(g) = run[g].log
    BY <1>1, <1>2, ReaderFacts
  <2>2. g \in Active
    BY <2>1, <1>1 DEF Active, Reading
  <2> QED  BY <2>1, <2>2 DEF TaskOf
<1>4. PanelKept
  BY <1>2, PanelSame
<1> HIDE DEF u
<1>5. TasksKept /\ QueueKept /\ task'[u].isDone /\ queue' = RemoveTask(queue, task[g].name)
  BY <1>2, <1>3, DoneStep
<1>6. /\ RunKept /\ Active' = Active \ {g}
      /\ \A l : run[g].log # l => Readers(l, Reading) \subseteq Readers(l, Reading)'
  <2>1. CASE Ended(g)
    <3>1. run' = [run EXCEPT ![g] = None]
      BY <2>1 DEF Ended
    <3> QED  BY <3>1, RunEnds
  <2>2. CASE EndedEarly(g)
    <3> DEFINE new == [run[g] EXCEPT !.kind = "addLog"]
    <3>1. run' = [run EXCEPT ![g] = new]
      BY <2>2 DEF EndedEarly, Goto
    <3>2. new \in Reader /\ new.kind = "addLog"
      BY <1>3 DEF Reader
    <3>3. NameOf(new.kind) = NameOf(run[g].kind)
      BY <1>3, <3>2 DEF NameOf, Reading
    <3> HIDE DEF new
    <3> QED  BY <1>3, <3>1, <3>2, <3>3, RunGoes
  <2> QED  BY <2>1, <2>2
<1>7. ASSUME NEW l \in Logs
      PROVE  \/ task'[log[l].logReadTask].isDone
             \/ Readers(l, Reading) \subseteq Readers(l, Reading)'
  <2>1. CASE l = LogOf(g)
    <3>1. log[l].logReadTask = u
      BY <1>3, <2>1
    <3> QED  BY ONLY <1>5, <3>1, Zenon
  <2>2. CASE l # LogOf(g)
    BY <1>3, <1>6, <2>2
  <2> QED  BY <2>1, <2>2
<1>8. \A l \in Logs : log[l].logReadTask # None =>
          \/ task'[log[l].logReadTask].isDone
          \/ Readers(l, Reading) \subseteq Readers(l, Reading)'
  BY ONLY <1>7, Zenon
<1> QED  BY <1>3, <1>4, <1>5, <1>6, <1>8, StepKept

LEMMA TriggeredKept ==
    ASSUME IInv, NEW g \in Tasks, Triggered(g)
    PROVE  IInv'
<1>1. /\ Reads(g, "addLog") /\ AddLog(LogOf(g), <<>>)
      /\ run' = [run EXCEPT ![g] = None]
      /\ UNCHANGED <<queue, task, current, asked, shown>>
  BY DEF Triggered
<1>2. run[g] # None /\ run[g].kind = "addLog" /\ LogOf(g) \in Logs
  BY <1>1, ReaderFacts
<1>3. PanelKept
  <2>1. <<>> \in Seq(Tasks)
    OBVIOUS
  <2> QED  BY <1>1, <1>2, <2>1, AddLogKept
<1>4. TasksKept /\ QueueKept
  BY <1>1, TasksSame, QueueSame
<1>5. /\ RunKept /\ Active' = Active
      /\ \A l : Readers(l, Reading) \subseteq Readers(l, Reading)'
  <2>1. run[g].kind \notin Reading
    BY <1>2 DEF Reading
  <2> QED  BY <1>1, <1>2, <2>1, RunEnds
<1> QED  BY <1>3, <1>4, <1>5, StepKept

-----------------------------------------------------------------------------
(* The steps that allocate a task, and LoadLog.                            *)

LEMMA UpdatesForNat == \A n \in Nat : UpdatesFor(n) \in Nat
BY DEF UpdatesFor

LEMMA StartWorkerKept ==
    ASSUME IInv, NEW t \in Tasks, Unreferenced(t), StartWorker(t), UNCHANGED logVars
    PROVE  IInv'
<1>1. PICK name \in Names, toGo \in Nat, goroutine \in Worker :
          /\ NameOf(goroutine.kind) = name /\ goroutine.kind # "addLog"
          /\ Added(t, name, toGo, goroutine)
  <2>1. CASE \E n \in 1..MaxCalls : StartDeploy(t, n)
    <3>1. PICK n \in 1..MaxCalls : StartDeploy(t, n)
      BY <2>1
    <3> DEFINE goroutine == [kind |-> "deploy", todo |-> n]
    <3>2. Added(t, "Deploying", UpdatesFor(n), goroutine)
      BY <3>1 DEF StartDeploy
    <3>3. n \in Nat /\ UpdatesFor(n) \in Nat
      BY LongTasksAssumption, UpdatesForNat
    <3>4. /\ goroutine \in Worker /\ NameOf(goroutine.kind) = "Deploying"
          /\ goroutine.kind # "addLog" /\ "Deploying" \in Names
      BY <3>3 DEF Worker, NameOf, Names
    <3> HIDE DEF goroutine
    <3> QED  BY <3>2, <3>3, <3>4
  <2>2. CASE \E n, selected \in 0..MaxCalls : StartUndeploy(t, selected, n)
    <3>1. PICK n \in 0..MaxCalls, selected \in 0..MaxCalls : StartUndeploy(t, selected, n)
      BY <2>2
    <3> DEFINE goroutine == [kind |-> "undeploy", todo |-> n]
    <3>2. Added(t, "Undeploying", UpdatesFor(selected), goroutine)
      BY <3>1 DEF StartUndeploy
    <3>3. n \in Nat /\ UpdatesFor(selected) \in Nat
      BY LongTasksAssumption, UpdatesForNat
    <3>4. /\ goroutine \in Worker /\ NameOf(goroutine.kind) = "Undeploying"
          /\ goroutine.kind # "addLog" /\ "Undeploying" \in Names
      BY <3>3 DEF Worker, NameOf, Names
    <3> HIDE DEF goroutine
    <3> QED  BY <3>2, <3>3, <3>4
  <2>3. CASE StartRefresh(t)
    <3> DEFINE goroutine == [kind |-> "refresh", todo |-> 2]
    <3>1. Added(t, "Refreshing", 2, goroutine)
      BY <2>3 DEF StartRefresh
    <3>2. /\ goroutine \in Worker /\ NameOf(goroutine.kind) = "Refreshing"
          /\ goroutine.kind # "addLog" /\ "Refreshing" \in Names /\ 2 \in Nat
      BY DEF Worker, NameOf, Names
    <3> HIDE DEF goroutine
    <3> QED  BY <3>1, <3>2
  <2> QED  BY <2>1, <2>2, <2>3 DEF StartWorker
<1>2. UNCHANGED <<log, current, asked, shown>>
  BY DEF logVars
<1>3. /\ queue' \in Seq(Tasks)
      /\ task' \in [Tasks -> LongTask \cup {None}]
      /\ run' \in [Tasks -> Worker \cup Reader \cup {None}]
      /\ RefersInv' /\ LogsInv' /\ EntriesInv'
  BY <1>1, <1>2, AddedStep
<1> QED  BY <1>2, <1>3 DEF IInv, TypeOK

LEMMA LoadLogKept ==
    ASSUME IInv, NEW l \in Logs, NEW reload, NEW logs \in [Logs -> ContainerLog],
           \A m \in Logs : logs[m].logReadTask = log[m].logReadTask,
           LoadLog(l, reload, logs),
           current' \in Logs \cup {None}, asked' \in Logs \cup {None},
           shown' \in Seq(Tasks) \cup {readingMsg}
    PROVE  IInv'
<1>1. CASE logs[l].logReadTask = None
  <2>1. PICK t \in Tasks : StartReading(l, t, logs)
    BY <1>1 DEF LoadLog
  <2> DEFINE goroutine == [kind |-> "open", log |-> l, chunks |-> 0]
             new == [logs[l] EXCEPT !.logReadTask = t]
  <2>2. /\ Unreferenced(t)
        /\ Added(t, "Reading", LogUpdates, goroutine)
        /\ log' = [logs EXCEPT ![l] = new]
    BY <2>1 DEF StartReading
  <2>3. /\ goroutine \in Reader /\ goroutine.kind \in Reading /\ goroutine.log = l
        /\ NameOf(goroutine.kind) = "Reading" /\ goroutine.kind # "addLog"
        /\ "Reading" \in Names /\ LogUpdates \in Nat
    BY PodLogAssumption DEF Reader, Reading, NameOf, Names
  <2>4. new \in ContainerLog /\ new.logReadTask = t
    BY DEF ContainerLog
  <2> HIDE DEF goroutine, new
  <2>5. /\ log' \in [Logs -> ContainerLog] /\ log'[l].logReadTask = t
        /\ \A m \in Logs : m # l => log'[m].logReadTask = log[m].logReadTask
    BY <2>2, <2>4
  <2>6. \A m \in Logs : \/ log'[m].logReadTask = log[m].logReadTask
                        \/ /\ log'[m].logReadTask = t /\ "Reading" = "Reading"
                           /\ goroutine.kind \in Reading /\ goroutine.log = m
    BY <2>3, <2>5
  <2>7. /\ queue' \in Seq(Tasks)
        /\ task' \in [Tasks -> LongTask \cup {None}]
        /\ run' \in [Tasks -> Worker \cup Reader \cup {None}]
        /\ RefersInv' /\ LogsInv' /\ EntriesInv'
    BY <2>2, <2>3, <2>6, AddedStep
  <2> QED  BY <2>5, <2>7 DEF IInv, TypeOK
<1>2. CASE logs[l].logReadTask # None
  <2>1. /\ UNCHANGED <<queue, task, run>>
        /\ log' = logs \/ log' = [logs EXCEPT ![l].resets = @ + 1]
    BY <1>2 DEF LoadLog, taskVars
  <2>2. PanelKept
    <3>1. CASE log' = logs
      BY <3>1 DEF PanelKept
    <3>2. CASE log' = [logs EXCEPT ![l].resets = @ + 1]
      <4> DEFINE new == [logs[l] EXCEPT !.resets = @ + 1]
      <4>1. new \in ContainerLog /\ new.logReadTask = logs[l].logReadTask
        <5> DEFINE next == logs[l].resets + 1
        <5>1. next \in Nat
          BY DEF ContainerLog
        <5>2. new = [logs[l] EXCEPT !.resets = next]
          OBVIOUS
        <5> HIDE DEF next, new
        <5> QED  BY <5>1, <5>2 DEF ContainerLog
      <4>2. log' = [logs EXCEPT ![l] = new]
        BY <3>2
      <4> HIDE DEF new
      <4> QED  BY <4>1, <4>2 DEF PanelKept
    <3> QED  BY <2>1, <3>1, <3>2
  <2>3. TasksKept /\ QueueKept
    BY <2>1, TasksSame, QueueSame
  <2>4. RunKept /\ Active' = Active /\ \A m : Readers(m, Reading)' = Readers(m, Reading)
    BY <2>1, RunSame
  <2> QED  BY <2>2, <2>3, <2>4, StepKept
<1> QED  BY <1>1, <1>2

-----------------------------------------------------------------------------
(* The beginning of the process, and its panic.                            *)

\* Nothing runs, no log has been read.
Nothing ==
    /\ queue = <<>>
    /\ task = [t \in Tasks |-> None] /\ run = [t \in Tasks |-> None]
    /\ log = [l \in Logs |-> Fresh]
    /\ current = None /\ asked = None /\ shown = <<>>

LEMMA NothingInv == Nothing => IInv
<1> SUFFICES ASSUME Nothing PROVE IInv
  OBVIOUS
<1>1. TypeOK
  <2>1. Fresh \in ContainerLog
    BY DEF Fresh, ContainerLog
  <2> HIDE DEF Fresh
  <2> QED  BY <2>1 DEF Nothing, TypeOK
<1>2. RefersInv /\ LogsInv
  BY DEF Nothing, RefersInv, LogsInv, Fresh
<1>3. EntriesInv
  <2>1. {t \in Tasks : run[t] # None} = {}
    BY DEF Nothing
  <2>2. \A name : At(queue, Named(name)) = {} /\ Named(name) \cap Active = {}
    BY DEF Nothing, At, Active
  <2>3. IsFiniteSet({}) /\ Cardinality({}) = 0
    BY FS_EmptySet
  <2>4. \A name : Cardinality(At(queue, Named(name))) <= Cardinality(Named(name) \cap Active)
    BY <2>2, <2>3
  <2> QED  BY <2>1, <2>3, <2>4 DEF EntriesInv
<1> QED  BY <1>1, <1>2, <1>3 DEF IInv

LEMMA PanicKept == Panic => IInv'
<1>1. Panic => Nothing'
  BY DEF Panic, Nothing
<1>2. Nothing' => IInv'
  BY NothingInv, PTL
<1> QED  BY <1>1, <1>2

-----------------------------------------------------------------------------
(* The UI and the reloads.                                                 *)

LEMMA PanelFacts ==
    ASSUME IInv
    PROVE  /\ log \in [Logs -> ContainerLog]
           /\ current \in Logs \cup {None} /\ asked \in Logs \cup {None}
           /\ shown \in Seq(Tasks) \cup {readingMsg}
           /\ \A l \in Logs :
                  /\ log[l] \in ContainerLog
                  /\ log[l].buffer \in Seq(Tasks) /\ log[l].fullLog \in Seq(Tasks)
                  /\ log[l].resets \in Nat /\ log[l].loads \in Nat
BY DEF IInv, TypeOK, ContainerLog

\* A step that moves no task and no goroutine.
LEMMA PanelStepKept ==
    ASSUME IInv, PanelKept, UNCHANGED taskVars
    PROVE  IInv'
<1>1. TasksKept /\ QueueKept
  BY TasksSame, QueueSame DEF taskVars
<1>2. RunKept /\ Active' = Active /\ \A m : Readers(m, Reading)' = Readers(m, Reading)
  BY RunSame DEF taskVars
<1> QED  BY <1>1, <1>2, StepKept

LEMMA SelectKept ==
    ASSUME IInv, NEW l \in Logs, Select(l)
    PROVE  IInv'
BY PanelFacts, LoadLogKept DEF Select

LEMMA FrameKept ==
    ASSUME IInv, Frame
    PROVE  IInv'
<1> DEFINE new == [log[current] EXCEPT !.changed = FALSE]
           logs == [log EXCEPT ![current] = new]
<1>1. current \in Logs /\ LoadLog(current, FALSE, logs)
  BY PanelFacts DEF Frame
<1>2. new \in ContainerLog /\ new.logReadTask = log[current].logReadTask
  BY <1>1, PanelFacts DEF ContainerLog
<1> HIDE DEF new
<1>3. /\ logs \in [Logs -> ContainerLog]
      /\ \A m \in Logs : logs[m].logReadTask = log[m].logReadTask
  BY <1>2, PanelFacts
<1>4. /\ current' \in Logs \cup {None} /\ asked' \in Logs \cup {None}
      /\ shown' \in Seq(Tasks) \cup {readingMsg}
  BY <1>1, PanelFacts DEF Frame
<1> HIDE DEF logs
<1> QED  BY <1>1, <1>3, <1>4, LoadLogKept

LEMMA ShowKept ==
    ASSUME IInv, Show
    PROVE  IInv'
<1> DEFINE cl == log[asked]
           size == Len(cl.buffer)
           new == [log[asked] EXCEPT !.fullLog = cl.buffer]
<1>1. /\ asked \in Logs /\ asked' = None
      /\ UNCHANGED taskVars /\ UNCHANGED current
  BY PanelFacts DEF Show
<1>2. cl.buffer \in Seq(Tasks) /\ cl.fullLog \in Seq(Tasks) /\ size \in Nat
  BY <1>1, PanelFacts, LenProperties
<1>3. new \in ContainerLog /\ new.logReadTask = cl.logReadTask /\ new.fullLog \in Seq(Tasks)
  BY <1>1, PanelFacts DEF ContainerLog
<1>4. CASE UNCHANGED log /\ shown' \in Seq(Tasks) \cup {readingMsg}
  <2>1. PanelKept
    BY <1>1, <1>4, PanelFacts DEF PanelKept
  <2> QED  BY <1>1, <2>1, PanelStepKept
<1>5. CASE log' = [log EXCEPT ![asked] = new] /\ shown' = log'[asked].fullLog
  <2> HIDE DEF new
  <2>1. /\ log' \in [Logs -> ContainerLog] /\ shown' \in Seq(Tasks)
        /\ \A l \in Logs : log'[l].logReadTask = log[l].logReadTask
    BY <1>1, <1>3, <1>5, PanelFacts
  <2>2. PanelKept
    BY <1>1, <2>1, PanelFacts DEF PanelKept
  <2> QED  BY <1>1, <2>2, PanelStepKept
<1>6. \/ UNCHANGED log /\ shown' = readingMsg
      \/ /\ UNCHANGED log /\ size >= BufferLimit
         /\ shown' = SubSeq(cl.buffer, size - BufferLimit + 1, size)
      \/ UNCHANGED log /\ shown' = log'[asked].fullLog
      \/ log' = [log EXCEPT ![asked] = new] /\ shown' = log'[asked].fullLog
  BY DEF Show
<1>7. size >= BufferLimit => SubSeq(cl.buffer, size - BufferLimit + 1, size) \in Seq(Tasks)
  <2> DEFINE from == size - BufferLimit + 1
             buffer == cl.buffer
  <2>1. BufferLimit \in Nat \ {0}
    BY PodLogAssumption
  <2>2. buffer \in Seq(Tasks) /\ size = Len(buffer)
    BY <1>2
  <2> HIDE DEF buffer, size
  <2>3. size >= BufferLimit => from \in 1 .. Len(buffer) + 1 /\ size \in from - 1 .. Len(buffer)
    BY <1>2, <2>1, <2>2
  <2> HIDE DEF from
  <2>4. size >= BufferLimit => SubSeq(buffer, from, size) \in Seq(Tasks)
    BY <2>2, <2>3, SubSeqProperties
  <2> QED  BY <2>4 DEF from, buffer
<1>8. UNCHANGED log => log'[asked].fullLog \in Seq(Tasks)
  BY <1>2
<1> HIDE DEF new, size
<1> QED  BY <1>4, <1>5, <1>6, <1>7, <1>8

LEMMA ReloadKept ==
    ASSUME IInv, Reload
    PROVE  IInv'
BY PanelFacts, LoadLogKept DEF Reload

LEMMA ReloadStepKept ==
    ASSUME IInv, NEW l \in Logs, ReloadStep(l)
    PROVE  IInv'
<1>1. CASE ResetBuffer(l)
  <2> DEFINE fewer == log[l].resets - 1
             more == log[l].loads + 1
             new == [log[l] EXCEPT !.resets = fewer, !.loads = more,
                                   !.buffer = <<>>, !.logReadTask = None]
  <2>1. fewer \in Nat /\ more \in Nat
    BY <1>1, PanelFacts DEF ResetBuffer
  <2>2. log' = [log EXCEPT ![l] = new] /\ UNCHANGED <<taskVars, current, asked, shown>>
    BY <1>1 DEF ResetBuffer
  <2> HIDE DEF fewer, more
  <2>3. new \in ContainerLog /\ new.logReadTask = None
    <3> DEFINE counted == [log[l] EXCEPT !.resets = fewer, !.loads = more]
    <3>1. counted \in ContainerLog
      BY <2>1, PanelFacts DEF ContainerLog
    <3>2. new = [counted EXCEPT !.buffer = <<>>, !.logReadTask = None]
      OBVIOUS
    <3>3. <<>> \in Seq(Tasks)
      OBVIOUS
    <3> HIDE DEF counted, new
    <3> QED  BY <3>1, <3>2, <3>3 DEF ContainerLog
  <2> HIDE DEF new
  <2>4. PanelKept
    BY <2>2, <2>3, PanelFacts DEF PanelKept
  <2> QED  BY <2>2, <2>4, PanelStepKept
<1>2. CASE LoadAgain(l)
  <2> DEFINE fewer == log[l].loads - 1
             new == [log[l] EXCEPT !.loads = fewer]
             logs == [log EXCEPT ![l] = new]
  <2>1. fewer \in Nat
    BY <1>2, PanelFacts DEF LoadAgain
  <2>2. LoadLog(l, FALSE, logs) /\ UNCHANGED <<current, asked, shown>>
    BY <1>2 DEF LoadAgain
  <2> HIDE DEF fewer
  <2>3. new \in ContainerLog /\ new.logReadTask = log[l].logReadTask
    BY <2>1, PanelFacts DEF ContainerLog
  <2> HIDE DEF new
  <2>4. /\ logs \in [Logs -> ContainerLog]
        /\ \A m \in Logs : logs[m].logReadTask = log[m].logReadTask
    BY <2>3, PanelFacts
  <2> HIDE DEF logs
  <2> QED  BY <2>2, <2>4, PanelFacts, LoadLogKept
<1> QED  BY <1>1, <1>2 DEF ReloadStep

-----------------------------------------------------------------------------
(* The theorems.                                                           *)

LEMMA InitInv == PodLogInit => IInv
BY NothingInv DEF PodLogInit, Init, PanelInit, Nothing

LEMMA NextInv == IInv /\ [PodLogNext]_vars => IInv'
<1> SUFFICES ASSUME IInv, [PodLogNext]_vars PROVE IInv'
  OBVIOUS
<1>1. CASE UserStep
  BY <1>1, StartWorkerKept, SelectKept, ReloadKept DEF UserStep
<1>2. CASE UiStep
  BY <1>2, FrameKept, ShowKept, PanicKept DEF UiStep, ShowPanics
<1>3. ASSUME NEW l \in Logs, ReloadStep(l)
      PROVE  IInv'
  BY <1>3, ReloadStepKept
<1>4. ASSUME NEW t \in Tasks, GoroutineStep(t)
      PROVE  IInv'
  <2>1. CASE WorkerStep(t) /\ UNCHANGED logVars
    BY <2>1, WorkerStepKept
  <2>2. CASE ReaderStep(t)
    BY <2>2, BufferedKept, ProgressKept, EndedKept, TriggeredKept, PanicKept
       DEF ReaderStep, ReaderPanics
  <2> QED  BY <1>4, <2>1, <2>2 DEF GoroutineStep
<1>5. CASE UNCHANGED vars
  <2>1. UNCHANGED taskVars /\ UNCHANGED logVars
    BY <1>5 DEF vars
  <2> QED  BY <2>1, PanelSame, PanelStepKept
<1> QED  BY <1>1, <1>2, <1>3, <1>4, <1>5 DEF PodLogNext

\* In every reachable state of the log panel and of the long tasks, with any
\* number of logs, readers and reloads, and panics between them: what refers
\* to a task refers to one of its kind, whoever has a log's task will end it
\* or has ended it, and no more entries are queued than goroutines remove
\* (LoadLog and the goroutine it starts in res_details.go, AddTask and
\* RemoveTask in uicontext.go).
THEOREM Invariance == PodLogSpec => []IInv
BY InitInv, NextInv, PTL DEF PodLogSpec

LEMMA ReloadsWork == IInv => ReloadPossible
<1> SUFFICES ASSUME IInv, NEW l \in Logs, log[l].logReadTask # None,
                    Readers(l, Reading) = {}
             PROVE  task[log[l].logReadTask].isDone
  BY DEF ReloadPossible, Reading, IInv
<1> QED  BY Zenon DEF IInv, LogsInv

\* A log that nobody reads any more can be loaded again: the task that
\* cl.logReadTask points to is done, although a reload may have replaced the
\* task a reader was started for (res_details.go, ContainerLog.LoadLog).
THEOREM Reloads == PodLogSpec => []ReloadPossible
BY Invariance, ReloadsWork, PTL

LEMMA NoneStale == IInv => NoStaleEntries
<1> SUFFICES ASSUME IInv, NEW name \in Names
             PROVE  Cardinality(Entries(name)) <= Cardinality(Running(name))
  BY DEF NoStaleEntries
<1>1. queue \in Seq(Tasks) /\ \A i \in DOMAIN queue : queue[i] \in Tasks
  BY AtFinite, ElementOfSeq DEF IInv, TypeOK
<1>2. Entries(name) = At(queue, Named(name))
  BY <1>1 DEF Entries, At, Named, IInv, RefersInv
<1>3. Named(name) \cap Active \in SUBSET Running(name)
  BY DEF Named, Active, Running
<1>4. IsFiniteSet(Running(name))
  <2>1. Running(name) \in SUBSET {t \in Tasks : run[t] # None}
    BY DEF Running
  <2> QED  BY <2>1, FS_Subset DEF IInv, EntriesInv
<1>5. Cardinality(Named(name) \cap Active) <= Cardinality(Running(name))
  BY <1>3, <1>4, FS_Subset
<1>6. Cardinality(At(queue, Named(name))) <= Cardinality(Named(name) \cap Active)
  BY DEF IInv, EntriesInv
<1>7. Cardinality(Running(name)) \in Nat
  BY <1>4, FS_CardinalityType
<1> QED  BY <1>2, <1>5, <1>6, <1>7, EntriesFacts

\* The progress bar never names a kind of task of which none runs: for each
\* name there are at most as many entries as goroutines, although entries are
\* removed by name and some goroutines remove more than one
\* (uicontext.go, RemoveTask).
THEOREM NoneIsStale == PodLogSpec => []NoStaleEntries
BY Invariance, NoneStale, PTL

=============================================================================
