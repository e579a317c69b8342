------------------------- MODULE DeploymentsProofs -------------------------
(***************************************************************************)
(* Type correctness of Deployments and the invariants that hold however    *)
(* tasks overlap, calls fail and the process crashes; then that a careful  *)
(* user leaks no object.                                                   *)
(***************************************************************************)
EXTENDS Deployments, TLAPS

(* What the operators return.                                              *)

\* The text an action deploys is a CR text.
LEMMA TextType ==
    ASSUME TypeOK, NEW r \in Res, NEW a \in Action
    PROVE  Text(a, r) \in Crs
BY DEF TypeOK, Text, Action

\* Every node has a default namespace.
LEMMA NsType ==
    ASSUME TypeOK, NEW n \in Nodes
    PROVE  NsOf(n) \in Namespaces
BY ConstantsAssumption DEF TypeOK, NsOf, Nodes

\* ParseResources fills a detail with well-formed actions and originals.
LEMMA NewType ==
    ASSUME TypeOK, NEW n \in Nodes, NEW src \in Crs \cup {Live}
    PROVE  /\ NewActions(n, src) \in ActionMap
           /\ NewOriginals(n, src) \in Originals
<1>1. NewActions(n, src) \in ActionMap
  BY NsType DEF NewActions, ActionMap, Action, Kinds
<1>2. NewOriginals(n, src) \in Originals
  BY DEF NewOriginals, Originals, Original, TypeOK
<1> QED  BY <1>1, <1>2

\* Marking the dropped instances leaves a well-formed map.
LEMMA DroppedType ==
    ASSUME NEW old \in ActionMap, NEW new \in ActionMap
    PROVE  Dropped(old, new) \in ActionMap
BY DEF Dropped, Listed, ActionMap, Action, Kinds

\* So does Merge.
LEMMA MergeType ==
    ASSUME NEW rec \in Record, NEW new \in ActionMap, NEW newOrig
    PROVE  Merge(rec, new, newOrig) \in ActionMap
<1>1. rec.acts \in ActionMap
  BY DEF Record
<1>2. Dropped(rec.acts, new) \in ActionMap
  BY <1>1, DroppedType
<1> QED
  BY <1>2 DEF Merge, ActionMap, Action, Kinds

\* New texts of instances keep a map well-formed, and keep what it lists.
LEMMA RetextType ==
    ASSUME NEW acts \in ActionMap, NEW tag, NEW refs, NEW new \in [Res -> Crs]
    PROVE  /\ Retext(acts, tag, refs, new) \in ActionMap
           /\ Listed(Retext(acts, tag, refs, new)) = Listed(acts)
<1>1. \A r \in Res : acts[r] # None => acts[r] \in Action
  BY DEF ActionMap
<1>2. \A r \in Res : acts[r] # None => [acts[r] EXCEPT !.cr = new[r]] \in Action
  BY <1>1 DEF Action
<1>3. Retext(acts, tag, refs, new) \in ActionMap
  BY <1>2 DEF Retext, ActionMap
<1>4. \A r \in Res : (Retext(acts, tag, refs, new)[r] # None) = (acts[r] # None)
  BY <1>2, NoneAssumption DEF Retext
<1> QED  BY <1>3, <1>4 DEF Listed

\* Load and persist convert well-formed details into well-formed ones.
LEMMA SaveType ==
    ASSUME TypeOK, NEW rec \in Record
    PROVE  Save(rec) \in Saved
<1>1. rec.acts \in ActionMap /\ rec.orig \in Originals /\ rec.status \in Statuses
  BY DEF Record
<1>2. \A r \in Res : rec.acts[r] # None => rec.acts[r] \in Action
  BY <1>1 DEF ActionMap
<1>3. \A r \in Res : rec.acts[r] # None =>
         [rec.acts[r] EXCEPT !.cr = Text(rec.acts[r], r)] \in SavedAction
  BY <1>2, TextType DEF Action, SavedAction
<1> QED  BY <1>1, <1>3 DEF Save, Saved

\* The file that persist writes.
LEMMA PersistedType ==
    ASSUME TypeOK, NEW recs \in [Nodes -> Record \cup {None}]
    PROVE  Persisted(recs) \in [Nodes -> Saved \cup {None}]
BY SaveType DEF Persisted

\* The namespace and the request a task settles on.
LEMMA RequestType ==
    ASSUME TypeOK, NEW r \in Res, NEW a \in Action,
           NEW ns \in Namespaces \cup {NoNs}
    PROVE  /\ Request(a, r, ns) \in Call
           /\ TargetNs(a, r, ns) \in Namespaces
<1>1. TargetNs(a, r, ns) \in Namespaces
  BY TextType, ConstantsAssumption DEF TargetNs, Action
<1> QED  BY <1>1, TextType DEF Request, Call, Action

-----------------------------------------------------------------------------
(* Type correctness.                                                       *)

\* An idle slot is a task.
LEMMA IdleType == Idle \in Task
BY DEF Idle, Task, Nothing, ActionMap, Originals

\* Spreading a map to the goroutines that hold it keeps them well-formed.
LEMMA TasksSeeType ==
    ASSUME NEW ts \in [Tasks -> Task], NEW tag, NEW acts \in ActionMap
    PROVE  TasksSee(ts, tag, acts) \in [Tasks -> Task]
BY DEF TasksSee, Task

\* Remove keeps the three variables it changes well-formed.
LEMMA RemoveType ==
    ASSUME TypeOK, NEW t \in Tasks, NEW n \in Nodes, Remove(t, n)
    PROVE  /\ records' \in [Nodes -> Record \cup {None}]
           /\ file' \in [Nodes -> Saved \cup {None}]
           /\ tasks' \in [Tasks -> Task]
<1> DEFINE ts == [tasks EXCEPT ![t] = Idle]
<1>1. ts \in [Tasks -> Task]
  BY IdleType DEF TypeOK
<1>2. CASE records[n] = None
  BY <1>1, <1>2 DEF Remove, TypeOK
<1>3. CASE records[n] # None
  <2>1. records' \in [Nodes -> Record \cup {None}]
    BY <1>3 DEF Remove, TypeOK
  <2>2. file' \in [Nodes -> Saved \cup {None}]
    BY <1>3, <2>1, PersistedType DEF Remove
  <2>3. records[n].orig \in Originals
    BY <1>3 DEF TypeOK, Record
  <2>4. KeepDetail(ts, n) \in [Tasks -> Task]
    BY <1>1, <2>3 DEF KeepDetail, Task
  <2> QED
    BY <1>3, <2>1, <2>2, <2>4 DEF Remove
<1> QED  BY <1>2, <1>3

\* After the end of the process nothing is in memory.
LEMMA DiedType == TypeOK /\ Died => TypeOK'
BY IdleType DEF TypeOK, Died, userVars

\* A started task is well-formed.
LEMMA StartTaskType ==
    ASSUME NEW t \in Tasks, NEW ts \in [Tasks -> Task], NEW n \in Nodes,
           NEW tag \in Tags, NEW acts \in ActionMap, NEW first \in BOOLEAN,
           StartTask(t, ts, n, tag, acts, first)
    PROVE  tasks' \in [Tasks -> Task]
<1>1. Listed(acts) \in SUBSET Res
  BY DEF Listed
<1> QED
  BY <1>1, IdleType DEF StartTask, Idle, Task, Nothing

\* A first deployment adds a well-formed record and starts a well-formed task.
LEMMA DeployNewType ==
    ASSUME TypeOK, NEW t \in Tasks, NEW n \in Nodes, DeployNew(t, n)
    PROVE  TypeOK'
<1> DEFINE tag == CHOOSE g \in FreeTags(records) : TRUE
           acts == NewActions(n, Live)
<1>1. tag \in Tags
  BY DEF DeployNew, FreeTags
<1>2. acts \in ActionMap /\ NewOriginals(n, Live) \in Originals
  BY NewType
<1>3. records' \in [Nodes -> Record \cup {None}]
  BY <1>1, <1>2 DEF DeployNew, TypeOK, Record, Statuses
<1>4. file' \in [Nodes -> Saved \cup {None}]
  BY <1>3, PersistedType DEF DeployNew
<1>5. tasks' \in [Tasks -> Task]
  BY <1>1, <1>2, StartTaskType DEF DeployNew, TypeOK
<1> QED
  BY <1>3, <1>4, <1>5 DEF DeployNew, TypeOK, userVars

\* A redeploy replaces the record by a well-formed one.
LEMMA RedeployType ==
    ASSUME TypeOK, NEW t \in Tasks, NEW n \in Nodes, Redeploy(t, n)
    PROVE  TypeOK'
<1> DEFINE rec == records[n]
           new == NewActions(n, rec.src)
           newOrig == NewOriginals(n, rec.src)
           free == FreeTags([records EXCEPT ![n] = None])
           tag == CHOOSE g \in free : TRUE
           refill == Listed(rec.acts) = {}
           acts == IF refill THEN new ELSE Merge(rec, new, newOrig)
           orig == IF refill
                   THEN [r \in Res |-> IF newOrig[r] # None THEN newOrig[r]
                                       ELSE rec.orig[r]]
                   ELSE rec.orig
<1>1. rec \in Record /\ rec.src \in Crs \cup {Live}
  BY DEF Redeploy, TypeOK, Record
<1>2. rec.acts \in ActionMap /\ rec.orig \in Originals
  BY <1>1 DEF Record
<1>3. tag \in Tags
  BY DEF Redeploy, FreeTags
<1>4. new \in ActionMap /\ newOrig \in Originals
  BY <1>1, NewType
<1>5. acts \in ActionMap
  BY <1>1, <1>4, MergeType
<1>6. orig \in Originals
  BY <1>2, <1>4 DEF Originals
<1>7. records' = [records EXCEPT ![n] =
                    [rec EXCEPT !.tag = tag, !.acts = acts, !.orig = orig]]
  BY DEF Redeploy
<1>8. records' \in [Nodes -> Record \cup {None}]
  BY <1>1, <1>3, <1>5, <1>6, <1>7 DEF TypeOK, Record
<1>9. TasksSee(tasks, rec.tag, Dropped(rec.acts, new)) \in [Tasks -> Task]
  BY <1>2, <1>4, DroppedType, TasksSeeType DEF TypeOK
<1>10. tasks' \in [Tasks -> Task]
  BY <1>3, <1>5, <1>9, StartTaskType DEF Redeploy
<1> QED
  BY <1>8, <1>10 DEF Redeploy, TypeOK, userVars

\* An undeploy starts with the map of a record, which is well-formed.
LEMMA UndeployType ==
    ASSUME TypeOK, NEW t \in Tasks, NEW n \in Nodes, Undeploy(t, n)
    PROVE  TypeOK'
<1>1. records[n].tag \in Tags /\ records[n].acts \in ActionMap
  BY DEF Undeploy, TypeOK, Record
<1>2. Listed(records[n].acts) \in SUBSET Res
  BY DEF Listed
<1> QED
  BY <1>1, <1>2, IdleType DEF Undeploy, TypeOK, Task, Idle, Nothing, userVars

\* A task stays well-formed when a call goes out, and when it is answered.
LEMMA CallUpdateType ==
    ASSUME NEW k \in Task, NEW call \in Call
    PROVE  [k EXCEPT !.call = call] \in Task
BY DEF Task

\* ... when a resource is given up, ...
LEMMA TodoUpdateType ==
    ASSUME NEW k \in Task, NEW todo \in SUBSET Res
    PROVE  [k EXCEPT !.call = None, !.todo = todo] \in Task
BY DEF Task

\* ... and when its namespace is known.
LEMMA AnswerUpdateType ==
    ASSUME NEW k \in Task, NEW todo \in SUBSET Res,
           NEW finalNs \in [Res -> Namespaces \cup {None}]
    PROVE  [k EXCEPT !.call = None, !.todo = todo, !.finalNs = finalNs] \in Task
BY DEF Task

\* The request of a deploy is well-formed.
LEMMA SendDeployType ==
    ASSUME TypeOK, NEW t \in Tasks, NEW r \in Res, SendDeploy(t, r),
           tasks[t].acts[r] # None
    PROVE  TypeOK'
<1>1. tasks[t].acts[r] \in Action
  BY DEF TypeOK, Task, ActionMap
<1>2. Request(tasks[t].acts[r], r, NoNs) \in Call
  BY <1>1, RequestType
<1>3. [tasks[t] EXCEPT !.call = Request(tasks[t].acts[r], r, NoNs)] \in Task
  BY <1>2, CallUpdateType DEF TypeOK
<1> QED
  BY <1>3 DEF SendDeploy, TypeOK, userVars

\* So is that of an undeploy, and so are the maps it marks.
LEMMA SendUndeployType ==
    ASSUME TypeOK, NEW t \in Tasks, NEW r \in Res, SendUndeploy(t, r),
           tasks[t].acts[r] # None,
           tasks[t].orig = None => records[tasks[t].node] # None /\ tasks[t].node \in Nodes
    PROVE  TypeOK'
<1> DEFINE tag == tasks[t].tag
           acts == [tasks[t].acts EXCEPT ![r].kind = "Delete"]
           original == OriginalOf(t)[r]
<1>0. tasks[t].acts \in ActionMap /\ tasks[t].acts[r] \in Action
  BY DEF TypeOK, Task, ActionMap
<1>1. acts \in ActionMap /\ acts[r] \in Action
  <2>1. [tasks[t].acts[r] EXCEPT !.kind = "Delete"] \in Action
    BY <1>0 DEF Action, Kinds
  <2> QED
    BY <1>0, <2>1 DEF ActionMap
<1>2. OriginalOf(t) \in Originals
  BY DEF OriginalOf, TypeOK, Task, Record
<1>3. original.ns \in Namespaces \cup {NoNs}
  BY <1>2 DEF SendUndeploy, Originals, Original
<1>4. Request(acts[r], r, original.ns) \in Call
  BY <1>1, <1>3, RequestType
<1>5. TasksSee(tasks, tag, acts) \in [Tasks -> Task]
  BY <1>1, TasksSeeType DEF TypeOK
<1>6. tasks' = [TasksSee(tasks, tag, acts) EXCEPT ![t].call =
                   Request(acts[r], r, original.ns)]
  BY DEF SendUndeploy
<1>7. tasks' \in [Tasks -> Task]
  <2> DEFINE ts == TasksSee(tasks, tag, acts)
  <2>1. [ts[t] EXCEPT !.call = Request(acts[r], r, original.ns)] \in Task
    BY <1>4, <1>5, CallUpdateType
  <2> QED
    BY <1>5, <1>6, <2>1
<1>8. records' \in [Nodes -> Record \cup {None}]
  BY <1>1 DEF SendUndeploy, TypeOK, Record
<1> QED
  BY <1>7, <1>8 DEF SendUndeploy, TypeOK, userVars

\* The cluster holds CR texts.
LEMMA ServeType ==
    ASSUME TypeOK, NEW t \in Tasks, Serve(t)
    PROVE  TypeOK'
<1>1. tasks[t].call \in Call
  BY DEF Serve, TypeOK, Task
<1>2. ObjectOf(tasks[t].call.text, tasks[t].call.ns) \in Object
  BY <1>1, ConstantsAssumption DEF ObjectOf, Object, Call
<1>3. cluster' \in [Object -> Crs \cup {None}]
  BY <1>1, <1>2 DEF Serve, TypeOK, Call
<1>4. [tasks[t].call EXCEPT !.served = TRUE] \in Call
  BY <1>1 DEF Call
<1>5. [tasks[t] EXCEPT !.call = [tasks[t].call EXCEPT !.served = TRUE]] \in Task
  BY <1>4, CallUpdateType DEF TypeOK, Serve
<1>6. tasks' \in [Tasks -> Task]
  BY <1>5 DEF Serve, TypeOK
<1> QED
  BY <1>3, <1>6 DEF Serve, TypeOK, userVars

\* Answers keep the types.
LEMMA AnswerType ==
    ASSUME TypeOK, NEW t \in Tasks, Succeeded(t) \/ UndeployFailed(t)
    PROVE  TypeOK'
<1>1. tasks[t].call \in Call
  BY DEF Succeeded, UndeployFailed, TypeOK, Task
<1> DEFINE k == tasks[t]
           todo == k.todo \ {k.call.res}
           finalNs == [k.finalNs EXCEPT ![k.call.res] = k.call.ns]
<1>2. k \in Task /\ todo \in SUBSET Res
  BY DEF TypeOK, Task
<1>3. finalNs \in [Res -> Namespaces \cup {None}]
  BY <1>1, <1>2 DEF Task, Call
<1>4. CASE Succeeded(t)
  <2>1. [k EXCEPT !.call = None, !.todo = todo, !.finalNs = finalNs] \in Task
    BY <1>2, <1>3, AnswerUpdateType
  <2>2. tasks' = [tasks EXCEPT ![t] =
                    [k EXCEPT !.call = None, !.todo = todo, !.finalNs = finalNs]]
    BY <1>2, <1>4 DEF Succeeded, Task, TypeOK
  <2> QED
    BY <1>4, <2>1, <2>2 DEF Succeeded, TypeOK, userVars
<1>5. CASE UndeployFailed(t)
  <2>1. [k EXCEPT !.call = None, !.todo = todo] \in Task
    BY <1>2, TodoUpdateType
  <2>2. tasks' = [tasks EXCEPT ![t] = [k EXCEPT !.call = None, !.todo = todo]]
    BY <1>2, <1>5 DEF UndeployFailed, Task, TypeOK
  <2> QED
    BY <1>5, <2>1, <2>2 DEF UndeployFailed, TypeOK, userVars
<1> QED  BY <1>4, <1>5

\* Deployed writes well-formed originals.
LEMMA DeployedType ==
    ASSUME TypeOK, NEW t \in Tasks, Deployed(t), tasks[t].node \in Nodes
    PROVE  TypeOK'
<1> DEFINE n == tasks[t].node
           orig == WithFinalNs(records[n].orig, tasks[t].finalNs)
<1>1. records[n] \in Record
  BY DEF Deployed, TypeOK
<1>2. tasks[t].finalNs \in [Res -> Namespaces \cup {None}]
  BY DEF TypeOK, Task
<1>3. orig \in Originals
  BY <1>1, <1>2 DEF WithFinalNs, Record, Originals, Original
<1>4. records' = [records EXCEPT ![n].status = "Deployed", ![n].orig = orig]
  BY DEF Deployed
<1>5. records' \in [Nodes -> Record \cup {None}]
  BY <1>1, <1>3, <1>4 DEF TypeOK, Record, Statuses
<1>6. file' \in [Nodes -> Saved \cup {None}]
  BY <1>5, PersistedType DEF Deployed
<1>7. tasks' \in [Tasks -> Task]
  BY IdleType DEF Deployed, TypeOK
<1> QED
  BY <1>5, <1>6, <1>7 DEF Deployed, TypeOK, userVars

\* What is loaded is well-formed.
LEMMA RestartType ==
    ASSUME TypeOK, Restart
    PROVE  TypeOK'
<1> DEFINE saved == {n \in Nodes : file[n] # None}
           tag == CHOOSE g \in DistinctTags(saved) : TRUE
<1>1. tag \in [saved -> Tags]
  BY DEF Restart, DistinctTags
<1>2. \A n \in saved : file[n] \in Saved
  BY DEF TypeOK
<1>3. \A n \in saved : file[n].acts \in ActionMap
  BY <1>2 DEF Saved, ActionMap, Action, SavedAction
<1>4. Loaded(file, tag) \in [Nodes -> Record \cup {None}]
  BY <1>1, <1>2, <1>3 DEF Loaded, Record, Saved
<1> QED
  BY <1>4 DEF Restart, TypeOK, userVars

\* References are to instances of resources.
RefsOfResources(refs) == \A x, r : <<x, r>> \in refs => r \in Res

\* New node and instance objects leave records and tasks well-formed.
LEMMA InstancesType ==
    ASSUME TypeOK, NEW refs, NEW new \in [Res -> Crs], NEW gone,
           RefsOfResources(refs),
           InstancesHave(refs, new, gone)
    PROVE  /\ records' \in [Nodes -> Record \cup {None}]
           /\ tasks' \in [Tasks -> Task]
<1>2. \A n \in Nodes : records[n] # None =>
         records[n] \in Record /\ records[n].acts \in ActionMap
  BY DEF TypeOK, Record
<1>3. \A t \in Tasks : tasks[t] \in Task /\ tasks[t].acts \in ActionMap
  BY DEF TypeOK, Task
<1>4. tasks' \in [Tasks -> Task]
  <2>1. tasks' = [t \in Tasks |->
                     [tasks[t] EXCEPT !.acts = Retext(tasks[t].acts, tasks[t].tag, refs, new)]]
    BY DEF InstancesHave
  <2>2. ASSUME NEW t \in Tasks
        PROVE  [tasks[t] EXCEPT !.acts = Retext(tasks[t].acts, tasks[t].tag, refs, new)] \in Task
    <3>1. Retext(tasks[t].acts, tasks[t].tag, refs, new) \in ActionMap
      BY <1>3, RetextType
    <3> QED
      BY <1>3, <3>1 DEF Task
  <2> QED
    BY <2>1, <2>2
<1>5. \A n \in Nodes : records[n] # None =>
         Retext(records[n].acts, records[n].tag, refs, new) \in ActionMap
  BY <1>2, RetextType
<1>6. ASSUME NEW n \in Nodes, records[n] # None
      PROVE  records'[n] \in Record
  <2> DEFINE src == IF <<n, n>> \notin refs THEN records[n].src
                    ELSE IF n = gone THEN Orphan ELSE new[n]
  <2>1. records'[n] = [records[n] EXCEPT
                          !.acts = Retext(records[n].acts, records[n].tag, refs, new),
                          !.src = src]
    BY <1>6 DEF InstancesHave
  <2>2. src \in Crs \cup {Live, Orphan}
    BY <1>2, <1>6 DEF Record, RefsOfResources
  <2> HIDE DEF src
  <2> QED
    BY <1>2, <1>5, <1>6, <2>1, <2>2 DEF Record
<1>7. records' \in [Nodes -> Record \cup {None}]
  <2>1. \A n \in Nodes : records[n] = None => records'[n] = None
    BY DEF InstancesHave
  <2>2. DOMAIN records' = Nodes /\ records' = [n \in Nodes |-> records'[n]]
    BY DEF InstancesHave
  <2> QED
    BY <1>6, <2>1, <2>2
<1> QED  BY <1>4, <1>7

LEMMA RefsType ==
    ASSUME NEW S \in SUBSET Res, NEW T, NEW refs, refs \subseteq Refs(S, T)
    PROVE  RefsOfResources(refs)
BY DEF Refs, RefsOfResources

LEMMA BelowType ==
    ASSUME TypeOK, NEW c
    PROVE  Below(c) \in SUBSET Res
BY DEF Below, TypeOK

\* Edits and reloads that give instances new texts.
InstanceStep ==
    \/ \E r \in Res, text \in Crs : \E refs : EditOld(r, text, refs)
    \/ \E r \in Res : RemoveResource(r)
    \/ \E c, back, shown : ReloadCollection(c, back, shown)

InstancesGet ==
    \E some, gone : \E new \in [Res -> Crs] :
        /\ RefsOfResources(some)
        /\ \A r \in Res : new[r] = cr[r] \/ new[r] \in Texts[r]
        /\ InstancesHave(some, new, gone)

LEMMA InstanceSteps ==
    ASSUME TypeOK, InstanceStep
    PROVE  InstancesGet
<1>1. cr \in [Res -> Crs]
  BY DEF TypeOK
<1>2. ASSUME NEW r \in Res, NEW text \in Crs, NEW refs, EditOld(r, text, refs)
      PROVE  InstancesGet
  <2> DEFINE new == [cr EXCEPT ![r] = text]
  <2>1. /\ new \in [Res -> Crs]
        /\ \A x \in Res : new[x] = cr[x] \/ (x = r /\ new[x] = text)
    BY <1>1
  <2>2. /\ refs \subseteq Refs({r}, Crs) /\ text \in Texts[r]
        /\ InstancesHave(refs, new, None)
    BY <1>2 DEF EditOld
  <2>3. RefsOfResources(refs)
    BY <2>2, RefsType
  <2> HIDE DEF new
  <2> QED  BY <2>1, <2>2, <2>3 DEF InstancesGet
<1>3. ASSUME NEW r \in Res, RemoveResource(r)
      PROVE  InstancesGet
  <2>1. InstancesHave(Refs(Below(Owner[r]), {Live}), cr, r)
    BY <1>3 DEF RemoveResource
  <2>2. RefsOfResources(Refs(Below(Owner[r]), {Live}))
    BY BelowType, RefsType
  <2> QED  BY <1>1, <2>1, <2>2 DEF InstancesGet
<1>4. ASSUME NEW c, NEW back, NEW refs, ReloadCollection(c, back, refs)
      PROVE  InstancesGet
  <2> DEFINE some == Refs(Below(c), {Live}) \cup refs
  <2>1. InstancesHave(some, cr, None)
    BY <1>4 DEF ReloadCollection
  <2>2. RefsOfResources(Refs(Below(c), {Live})) /\ RefsOfResources(refs)
    BY <1>4, BelowType, RefsType DEF ReloadCollection
  <2>3. RefsOfResources(some)
    BY <2>2 DEF RefsOfResources
  <2> HIDE DEF some
  <2> QED  BY <1>1, <2>1, <2>3 DEF InstancesGet
<1> QED  BY <1>2, <1>3, <1>4 DEF InstanceStep

\* Edits of the repository keep the types.
LEMMA EditStepType ==
    ASSUME TypeOK, EditStep
    PROVE  TypeOK'
<1>1. ASSUME NEW r \in Res, NEW text \in Crs, EditCr(r, text)
      PROVE  TypeOK'
  BY <1>1 DEF EditCr, TypeOK
<1>2. ASSUME InstanceStep
      PROVE  TypeOK'
  <2>1. PICK some, gone : \E new \in [Res -> Crs] :
           RefsOfResources(some) /\ InstancesHave(some, new, gone)
    BY <1>2, InstanceSteps DEF InstancesGet
  <2>2. /\ records' \in [Nodes -> Record \cup {None}]
        /\ tasks' \in [Tasks -> Task]
    BY <2>1, InstancesType
  <2>3. /\ repo' \in SUBSET (Res \ Templates)
        /\ UNCHANGED <<cr, defaultNs, file, cluster, up>>
    BY <1>2 DEF InstanceStep, EditOld, RemoveResource, ReloadCollection, TypeOK, userVars
  <2> QED  BY <2>2, <2>3 DEF TypeOK
<1>3. ASSUME NEW r \in Res, AddResource(r)
      PROVE  TypeOK'
  BY <1>3 DEF AddResource, NewId, TypeOK
<1>4. ASSUME NEW c, NEW ns \in Namespaces, SetDefaultNs(c, ns)
      PROVE  TypeOK'
  BY <1>4 DEF SetDefaultNs, TypeOK
<1> QED
  BY <1>1, <1>2, <1>3, <1>4 DEF EditStep, InstanceStep

-----------------------------------------------------------------------------
(* The inductive invariant.                                                *)

\* A running task has a node and a map; what it has to do is in the map; an
\* undeploy whose detail is still registered finds it there.
TasksWellFormed ==
    \A t \in Tasks :
        LET k == tasks[t] IN
        /\ k.kind = "idle" => k = Idle
        /\ k.kind # "idle" => k.node \in Nodes /\ k.tag \in Tags
        /\ k.todo \subseteq Listed(k.acts)
        /\ k.call # None => k.call.res \in k.todo
        /\ k.kind = "undeploy" /\ k.orig = None => records[k.node] # None

\* Nothing is in memory while the application is down.
DownIsEmpty ==
    ~up => /\ \A t \in Tasks : tasks[t] = Idle
           /\ \A n \in Nodes : records[n] = None

\* Holders of one tag hold one map, and no two records share theirs.
SharedMaps ==
    /\ \A t, u \in Tasks : tasks[t].tag = tasks[u].tag => tasks[t].acts = tasks[u].acts
    /\ \A t \in Tasks, n \in Nodes :
          records[n] # None /\ tasks[t].tag = records[n].tag
              => tasks[t].acts = records[n].acts
    /\ \A m, n \in Nodes :
          records[m] # None /\ records[n] # None /\ records[m].tag = records[n].tag
              => m = n

\* An undeploy leaves a deletion behind wherever it has been.
UndeployMarks ==
    \A u \in Tasks : tasks[u].kind = "undeploy" =>
        \A r \in Listed(tasks[u].acts) :
            (\/ r \notin tasks[u].todo
             \/ tasks[u].call # None /\ tasks[u].call.res = r)
                => tasks[u].acts[r].kind = "Delete"

IInv ==
    /\ TypeOK
    /\ TasksWellFormed
    /\ DownIsEmpty
    /\ SharedMaps
    /\ UndeployMarks
    /\ RecordsDurable
    /\ FirstDeployRecorded

-----------------------------------------------------------------------------
(* What the operators keep.                                                *)

\* Marking dropped instances keeps what a map lists and its deletions.
LEMMA DroppedKeeps ==
    ASSUME NEW old \in ActionMap, NEW new
    PROVE  /\ Listed(Dropped(old, new)) = Listed(old)
           /\ \A r \in Listed(old) :
                 old[r].kind = "Delete" => Dropped(old, new)[r].kind = "Delete"
<1>1. \A r \in Res : old[r] # None =>
         /\ [old[r] EXCEPT !.kind = "Delete"] \in Action
         /\ [old[r] EXCEPT !.kind = "Delete"].kind = "Delete"
  BY DEF ActionMap, Action, Kinds
<1> QED  BY <1>1, NoneAssumption DEF Dropped, Listed

\* New texts keep the kinds.
LEMMA RetextKeeps ==
    ASSUME NEW acts \in ActionMap, NEW tag, NEW refs, NEW new, NEW r \in Listed(acts)
    PROVE  Retext(acts, tag, refs, new)[r].kind = acts[r].kind
BY DEF Retext, Listed, ActionMap, Action

\* An undeploy that marks r keeps what the map lists and its deletions.
LEMMA MarkKeeps ==
    ASSUME NEW acts \in ActionMap, NEW r \in Listed(acts)
    PROVE  LET marked == [acts EXCEPT ![r].kind = "Delete"] IN
           /\ Listed(marked) = Listed(acts)
           /\ marked[r].kind = "Delete"
           /\ \A s \in Listed(acts) :
                 acts[s].kind = "Delete" => marked[s].kind = "Delete"
<1>1. acts[r] \in Action
  BY DEF Listed, ActionMap
<1>2. /\ [acts[r] EXCEPT !.kind = "Delete"] \in Action
      /\ [acts[r] EXCEPT !.kind = "Delete"].kind = "Delete"
  BY <1>1 DEF Action, Kinds
<1> QED  BY <1>2, NoneAssumption DEF Listed, ActionMap

\* What persist writes has the records, statuses and resources in memory.
LEMMA PersistedKeeps ==
    ASSUME TypeOK, NEW recs \in [Nodes -> Record \cup {None}], NEW n \in Nodes
    PROVE  /\ (recs[n] = None) = (Persisted(recs)[n] = None)
           /\ recs[n] # None =>
                 /\ Persisted(recs)[n].status = recs[n].status
                 /\ Listed(Persisted(recs)[n].acts) = Listed(recs[n].acts)
<1>1. CASE recs[n] = None
  BY <1>1 DEF Persisted
<1>2. CASE recs[n] # None
  <2>1. recs[n] \in Record /\ recs[n].acts \in ActionMap
    BY <1>2 DEF Record
  <2>2. Persisted(recs)[n] = Save(recs[n]) /\ Save(recs[n]) # None
    BY <1>2, <2>1, SaveType, NoneAssumption DEF Persisted
  <2>3. \A r \in Res : recs[n].acts[r] # None =>
           [recs[n].acts[r] EXCEPT !.cr = Text(recs[n].acts[r], r)] \in SavedAction
    BY <2>1, TextType DEF ActionMap, Action, SavedAction
  <2>4. Listed(Save(recs[n]).acts) = Listed(recs[n].acts)
    BY <2>3, NoneAssumption DEF Save, Listed
  <2> QED
    BY <1>2, <2>2, <2>4 DEF Save
<1> QED  BY <1>1, <1>2

\* A fresh tag is held by no task and by no other record.
LEMMA FreeTagIsFree ==
    ASSUME NEW recs, NEW g \in FreeTags(recs)
    PROVE  /\ g \in Tags
           /\ \A t \in Tasks : tasks[t].tag # g
           /\ \A n \in Nodes : recs[n] # None => recs[n].tag # g
BY DEF FreeTags, TagsInUse

-----------------------------------------------------------------------------
(* Every action preserves the inductive invariant.                         *)

\* A step that ends with persist makes the file agree with the records.
LEMMA PersistStep ==
    ASSUME TypeOK, records' \in [Nodes -> Record \cup {None}],
           file' = Persisted(records'), TasksWellFormed', SharedMaps',
           \A t \in Tasks : tasks'[t].first => tasks'[t].kind # "idle"
    PROVE  RecordsDurable' /\ FirstDeployRecorded'
<1>1. RecordsDurable'
  BY PersistedKeeps DEF RecordsDurable
<1>2. ASSUME NEW t \in Tasks, tasks'[t].first,
             records'[tasks'[t].node] # None,
             records'[tasks'[t].node].tag = tasks'[t].tag
      PROVE  /\ file'[tasks'[t].node] # None
             /\ Listed(tasks'[t].acts) \subseteq Listed(file'[tasks'[t].node].acts)
  <2>1. tasks'[t].node \in Nodes
    BY <1>2 DEF TasksWellFormed
  <2>2. tasks'[t].acts = records'[tasks'[t].node].acts
    BY <1>2, <2>1 DEF SharedMaps
  <2> QED
    BY <1>2, <2>1, <2>2, PersistedKeeps
<1> QED
  BY <1>1, <1>2 DEF FirstDeployRecorded

\* Only a running deploy carries the flag first.
LEMMA FirstRuns ==
    ASSUME TasksWellFormed, NEW t \in Tasks, tasks[t].first
    PROVE  tasks[t].kind # "idle"
BY DEF TasksWellFormed, Idle

\* The end of the process keeps the invariant: the file is not touched.
LEMMA DiedInv ==
    ASSUME IInv, Died
    PROVE  IInv'
<1>1. TypeOK'
  BY DiedType DEF IInv
<1>2. TasksWellFormed' /\ DownIsEmpty' /\ SharedMaps'
  BY DEF TasksWellFormed, DownIsEmpty, SharedMaps, Died, Idle, Listed, Nothing
<1>3. UndeployMarks' /\ RecordsDurable' /\ FirstDeployRecorded'
  BY DEF UndeployMarks, RecordsDurable, FirstDeployRecorded, Died, Idle
<1> QED  BY <1>1, <1>2, <1>3 DEF IInv

\* Steps that leave records, tasks, file and up alone.
LEMMA RepositoryOnlyInv ==
    ASSUME IInv, TypeOK', UNCHANGED <<records, tasks, file, up>>
    PROVE  IInv'
BY DEF IInv, TasksWellFormed, DownIsEmpty, SharedMaps, UndeployMarks,
       RecordsDurable, FirstDeployRecorded

\* Remove drops a record; what the other tasks hold stays as it is.
LEMMA RemoveInv ==
    ASSUME IInv, NEW t \in Tasks, tasks[t].kind # "idle",
           Remove(t, tasks[t].node), UNCHANGED <<userVars, cluster, up>>
    PROVE  IInv'
<1> DEFINE n == tasks[t].node
           ts == [tasks EXCEPT ![t] = Idle]
<1> USE DEF IInv
<1>1. n \in Nodes /\ up
  BY DEF TasksWellFormed, DownIsEmpty, Idle
<1>2. TypeOK'
  BY <1>1, RemoveType DEF TypeOK, userVars
<1>3. /\ \A u \in Tasks : tasks'[u] = Idle \/
            /\ tasks'[u].kind = tasks[u].kind /\ tasks'[u].node = tasks[u].node
            /\ tasks'[u].tag = tasks[u].tag /\ tasks'[u].acts = tasks[u].acts
            /\ tasks'[u].todo = tasks[u].todo /\ tasks'[u].call = tasks[u].call
            /\ tasks'[u].first = tasks[u].first
            /\ tasks[u].kind # "idle"
            /\ \/ tasks'[u].orig = tasks[u].orig
               \/ tasks'[u].orig # None
            /\ (tasks[u].kind = "undeploy" /\ tasks[u].node = n
                  /\ records[n] # None) => tasks'[u].orig # None
      /\ \A m \in Nodes : records'[m] = None \/ records'[m] = records[m]
      /\ \A m \in Nodes : m # n => records'[m] = records[m]
  <2>1. CASE records[n] = None
    BY <1>1, <2>1 DEF Remove, TypeOK, TasksWellFormed
  <2>2. CASE records[n] # None
    <3>1. records[n].orig # None
      BY <1>1, <2>2, NoneAssumption DEF TypeOK, Record
    <3>2. tasks' = KeepDetail(ts, n) /\ records' = [records EXCEPT ![n] = None]
      BY <2>2 DEF Remove
    <3>3. ASSUME NEW u \in Tasks, u # t
          PROVE  tasks'[u] = IF tasks[u].kind = "undeploy" /\ tasks[u].node = n
                                /\ tasks[u].orig = None
                             THEN [tasks[u] EXCEPT !.orig = records[n].orig]
                             ELSE tasks[u]
      BY <3>2, <3>3 DEF KeepDetail, TypeOK
    <3>4. tasks'[t] = Idle
      BY <3>2 DEF KeepDetail, TypeOK, Idle
    <3>5. ASSUME NEW u \in Tasks, u # t, tasks[u].kind # "idle"
          PROVE  /\ tasks'[u].kind = tasks[u].kind /\ tasks'[u].node = tasks[u].node
                 /\ tasks'[u].tag = tasks[u].tag /\ tasks'[u].acts = tasks[u].acts
                 /\ tasks'[u].todo = tasks[u].todo /\ tasks'[u].call = tasks[u].call
                 /\ tasks'[u].first = tasks[u].first
                 /\ \/ tasks'[u].orig = tasks[u].orig
                    \/ tasks'[u].orig # None
                 /\ (tasks[u].kind = "undeploy" /\ tasks[u].node = n)
                       => tasks'[u].orig # None
      <4>1. tasks[u] \in Task
        BY DEF TypeOK
      <4> QED
        BY <3>1, <3>3, <3>5, <4>1 DEF Task
    <3>6. ASSUME NEW u \in Tasks, u # t, tasks[u].kind = "idle"
          PROVE  tasks'[u] = Idle
      BY <3>3, <3>6 DEF TasksWellFormed, Idle
    <3>7. \A m \in Nodes : IF m = n THEN records'[m] = None
                           ELSE records'[m] = records[m]
      BY <3>2 DEF TypeOK
    <3> QED
      <4> HIDE DEF n, ts, IInv
      <4>1. ASSUME NEW u \in Tasks, tasks'[u] # Idle
            PROVE  u # t /\ tasks[u].kind # "idle"
        BY <3>4, <3>6, <4>1
      <4> QED  BY <3>5, <3>7, <4>1
  <2> QED  BY <2>1, <2>2
<1>4. TasksWellFormed'
  <2>1. ASSUME NEW u \in Tasks, tasks'[u] # Idle
        PROVE  /\ tasks'[u].kind # "idle"
               /\ tasks'[u].node \in Nodes /\ tasks'[u].tag \in Tags
               /\ tasks'[u].todo \subseteq Listed(tasks'[u].acts)
               /\ tasks'[u].call # None => tasks'[u].call.res \in tasks'[u].todo
    BY <1>3, <2>1 DEF TasksWellFormed
  <2>2. ASSUME NEW u \in Tasks, tasks'[u] # Idle,
               tasks'[u].kind = "undeploy", tasks'[u].orig = None
        PROVE  records'[tasks'[u].node] # None
    BY <1>3, <2>1, <2>2 DEF TasksWellFormed
  <2>3. /\ Idle.kind = "idle" /\ Idle.call = None
        /\ Idle.todo \subseteq Listed(Idle.acts)
    BY DEF Idle
  <2> QED
    <3> HIDE DEF IInv
    <3> QED  BY <2>1, <2>2, <2>3 DEF TasksWellFormed
<1>5. DownIsEmpty'
  BY <1>1 DEF DownIsEmpty
<1>6. SharedMaps'
  BY <1>3, ConstantsAssumption DEF SharedMaps, TypeOK, Record, TasksWellFormed, Idle
<1>7. UndeployMarks'
  BY <1>3 DEF UndeployMarks, Idle
<1>8. RecordsDurable' /\ FirstDeployRecorded'
  <2>1. CASE records[n] = None
    <3>1. UNCHANGED <<records, file, up>>
      BY <2>1 DEF Remove
    <3> QED
      BY <1>3, <3>1 DEF RecordsDurable, FirstDeployRecorded, Idle
  <2>2. CASE records[n] # None
    <3>1. file' = Persisted(records')
      BY <2>2 DEF Remove
    <3>2. records' \in [Nodes -> Record \cup {None}]
      BY <1>2 DEF TypeOK
    <3>3. \A u \in Tasks : tasks'[u].first => tasks'[u].kind # "idle"
      BY <1>3 DEF Idle
    <3> QED
      BY <1>4, <1>6, <3>1, <3>2, <3>3, PersistStep
  <2> QED  BY <2>1, <2>2
<1> QED  BY <1>2, <1>4, <1>5, <1>6, <1>7, <1>8

\* A slot that runs nothing holds no map.
LEMMA IdleHoldsNothing ==
    ASSUME TypeOK, TasksWellFormed, NEW t \in Tasks, tasks[t].kind = "idle"
    PROVE  /\ tasks[t].tag = None /\ tasks[t].acts = Nothing
           /\ \A n \in Nodes : records[n] # None => records[n].tag # tasks[t].tag
BY ConstantsAssumption DEF TypeOK, TasksWellFormed, Idle, Record

\* A first deployment: the new tag is held by nobody else, and the file is
\* written before the task starts.
LEMMA DeployNewInv ==
    ASSUME IInv, NEW t \in Tasks, NEW n \in Nodes, DeployNew(t, n)
    PROVE  IInv'
<1> DEFINE tag == CHOOSE g \in FreeTags(records) : TRUE
           acts == NewActions(n, Live)
<1> USE DEF IInv
<1>1. TypeOK'
  BY DeployNewType
<1>2. tag \in FreeTags(records)
  BY DEF DeployNew
<1>3. /\ tag \in Tags
      /\ \A u \in Tasks : tasks[u].tag # tag
      /\ \A m \in Nodes : records[m] # None => records[m].tag # tag
  BY <1>2, FreeTagIsFree
<1>4. /\ records'[n].tag = tag /\ records'[n].acts = acts
      /\ \A m \in Nodes : m # n => records'[m] = records[m]
      /\ records[n] = None /\ records'[n] # None
  <2> DEFINE new == [tag |-> tag, acts |-> acts, orig |-> NewOriginals(n, Live),
                     status |-> "InDeploy", src |-> Live]
  <2>1. records' = [records EXCEPT ![n] = new] /\ records[n] = None
    BY DEF DeployNew
  <2>2. acts \in ActionMap /\ NewOriginals(n, Live) \in Originals
    BY NewType
  <2>3. new \in Record
    BY <1>3, <2>2 DEF Record, Statuses
  <2> HIDE DEF tag, acts
  <2> QED  BY <2>1, <2>3, NoneAssumption DEF TypeOK
<1>5. /\ \A u \in Tasks : u # t => tasks'[u] = tasks[u]
      /\ \/ tasks'[t] = tasks[t]
         \/ /\ tasks'[t].kind = "deploy" /\ tasks'[t].node = n
            /\ tasks'[t].tag = tag /\ tasks'[t].acts = acts
            /\ tasks'[t].todo = Listed(acts) /\ tasks'[t].call = None
            /\ tasks'[t].first = TRUE
  <2>1. StartTask(t, tasks, n, tag, acts, TRUE)
    BY DEF DeployNew
  <2>2. tasks \in [Tasks -> Task]
    BY DEF TypeOK
  <2> HIDE DEF tag, acts, IInv
  <2> QED  BY <2>1, <2>2 DEF StartTask, Idle
<1> HIDE DEF tag, acts
<1>6. TasksWellFormed'
  <2>1. ASSUME NEW u \in Tasks, tasks'[u] = tasks[u]
        PROVE  tasks[u].kind = "undeploy" /\ tasks[u].orig = None
                 => records'[tasks[u].node] # None
    BY <1>4 DEF TasksWellFormed
  <2>2. ASSUME NEW u \in Tasks, tasks'[u] = tasks[u]
        PROVE  /\ tasks'[u].kind = "idle" => tasks'[u] = Idle
               /\ tasks'[u].kind # "idle"
                    => tasks'[u].node \in Nodes /\ tasks'[u].tag \in Tags
               /\ tasks'[u].todo \subseteq Listed(tasks'[u].acts)
               /\ tasks'[u].call # None => tasks'[u].call.res \in tasks'[u].todo
    BY <2>2 DEF TasksWellFormed
  <2> QED  BY <1>3, <1>5, <2>1, <2>2 DEF TasksWellFormed
<1>7. SharedMaps'
  <2>1. ASSUME NEW u \in Tasks, NEW v \in Tasks, tasks'[u].tag = tasks'[v].tag
        PROVE  tasks'[u].acts = tasks'[v].acts
    BY <1>3, <1>5, <2>1 DEF SharedMaps
  <2>2. ASSUME NEW u \in Tasks, NEW m \in Nodes, records'[m] # None,
               tasks'[u].tag = records'[m].tag
        PROVE  tasks'[u].acts = records'[m].acts
    BY <1>3, <1>4, <1>5, <2>2 DEF SharedMaps
  <2>3. ASSUME NEW m \in Nodes, NEW k \in Nodes, records'[m] # None,
               records'[k] # None, records'[m].tag = records'[k].tag
        PROVE  m = k
    BY <1>3, <1>4, <2>3 DEF SharedMaps
  <2> QED  BY <2>1, <2>2, <2>3 DEF SharedMaps
<1>8. UndeployMarks'
  BY <1>5 DEF UndeployMarks
<1>9. DownIsEmpty'
  BY DEF DownIsEmpty, DeployNew
<1>10. RecordsDurable' /\ FirstDeployRecorded'
  <2>1. \A u \in Tasks : tasks'[u].first => tasks'[u].kind # "idle"
    BY <1>5, FirstRuns
  <2>2. file' = Persisted(records')
    BY DEF DeployNew
  <2> QED
    BY <1>1, <1>6, <1>7, <2>1, <2>2, PersistStep DEF TypeOK
<1> QED  BY <1>1, <1>6, <1>7, <1>8, <1>9, <1>10

\* A redeploy: the tasks that hold the old map see its deletions, and the file
\* stays as it was, with the same status.
LEMMA RedeployInv ==
    ASSUME IInv, NEW t \in Tasks, NEW n \in Nodes, Redeploy(t, n)
    PROVE  IInv'
<1> DEFINE rec == records[n]
           new == NewActions(n, rec.src)
           newOrig == NewOriginals(n, rec.src)
           free == FreeTags([records EXCEPT ![n] = None])
           tag == CHOOSE g \in free : TRUE
           refill == Listed(rec.acts) = {}
           acts == IF refill THEN new ELSE Merge(rec, new, newOrig)
           orig == IF refill
                   THEN [r \in Res |-> IF newOrig[r] # None THEN newOrig[r]
                                       ELSE rec.orig[r]]
                   ELSE rec.orig
           dropped == Dropped(rec.acts, new)
           ts == TasksSee(tasks, rec.tag, dropped)
<1> USE DEF IInv
<1>1. TypeOK'
  BY RedeployType
<1>2. /\ tag \in Tags
      /\ \A u \in Tasks : tasks[u].tag # tag
      /\ \A m \in Nodes : m # n /\ records[m] # None => records[m].tag # tag
  <2>1. tag \in free
    BY DEF Redeploy
  <2>2. \A m \in Nodes : m # n => [records EXCEPT ![n] = None][m] = records[m]
    BY DEF TypeOK
  <2> HIDE DEF tag, IInv
  <2> QED  BY <2>1, <2>2 DEF FreeTags, TagsInUse
<1>3. rec \in Record /\ rec.acts \in ActionMap /\ rec.src \in Crs \cup {Live}
  BY DEF Redeploy, TypeOK, Record
<1>4. /\ records'[n].tag = tag /\ records'[n].acts = acts
      /\ records'[n].status = rec.status
      /\ StartTask(t, ts, n, tag, acts, FALSE)
  <2>1. /\ records' = [records EXCEPT ![n] =
              [rec EXCEPT !.tag = tag, !.acts = acts, !.orig = orig]]
        /\ StartTask(t, ts, n, tag, acts, FALSE)
    BY DEF Redeploy
  <2> HIDE DEF tag, acts, orig, ts
  <2> QED  BY <1>3, <2>1 DEF TypeOK, Record
<1>5. /\ \A m \in Nodes : m # n => records'[m] = records[m]
      /\ records[n] # None /\ records'[n] # None
  <2>1. \A m \in Nodes : m # n => records'[m] = records[m]
    BY DEF Redeploy, TypeOK
  <2>2. /\ acts \in ActionMap /\ orig \in Originals
    BY <1>3, NewType, MergeType DEF Originals, Record
  <2>3. records' = [records EXCEPT ![n] =
              [rec EXCEPT !.tag = tag, !.acts = acts, !.orig = orig]]
    BY DEF Redeploy
  <2> HIDE DEF tag, acts, orig
  <2>4. [rec EXCEPT !.tag = tag, !.acts = acts, !.orig = orig] \in Record
    BY <1>2, <1>3, <2>2 DEF Record
  <2>5. records[n] # None
    BY DEF Redeploy
  <2> QED  BY <2>1, <2>3, <2>4, <2>5, NoneAssumption DEF TypeOK
<1>6. /\ Listed(dropped) = Listed(rec.acts)
      /\ \A r \in Listed(rec.acts) :
            rec.acts[r].kind = "Delete" => dropped[r].kind = "Delete"
  BY <1>3, DroppedKeeps
<1>7. \A u \in Tasks :
        /\ ts[u].kind = tasks[u].kind /\ ts[u].node = tasks[u].node
        /\ ts[u].tag = tasks[u].tag /\ ts[u].todo = tasks[u].todo
        /\ ts[u].call = tasks[u].call /\ ts[u].orig = tasks[u].orig
        /\ ts[u].first = tasks[u].first
        /\ tasks[u].tag = rec.tag => ts[u].acts = dropped
        /\ tasks[u].tag # rec.tag => ts[u] = tasks[u]
  BY DEF TasksSee, TypeOK, Task
<1>8. /\ \A u \in Tasks : u # t => tasks'[u] = ts[u]
      /\ \/ tasks'[t] = ts[t]
         \/ /\ tasks'[t].kind = "deploy" /\ tasks'[t].node = n
            /\ tasks'[t].tag = tag /\ tasks'[t].acts = records'[n].acts
            /\ tasks'[t].todo = Listed(records'[n].acts) /\ tasks'[t].call = None
            /\ tasks'[t].first = FALSE
  <2>1. new \in ActionMap
    BY <1>3, NewType
  <2>2. ts \in [Tasks -> Task]
    BY <1>3, <2>1, DroppedType, TasksSeeType DEF TypeOK
  <2> HIDE DEF ts, tag, acts, IInv
  <2> QED  BY <1>4, <2>2 DEF StartTask, Idle
<1> HIDE DEF new, newOrig, free, tag, acts, orig, refill, dropped, ts
<1>9. \A u \in Tasks : tasks[u].tag = rec.tag => tasks[u].acts = rec.acts
  BY <1>5 DEF SharedMaps
<1>10. ASSUME NEW u \in Tasks, tasks[u].kind = "idle"
       PROVE  ts[u] = Idle
  BY <1>5, <1>7, <1>10, IdleHoldsNothing DEF TasksWellFormed
<1>11. TasksWellFormed'
  <2>1. ASSUME NEW u \in Tasks, tasks'[u] = ts[u]
        PROVE  /\ tasks'[u].kind = "idle" => tasks'[u] = Idle
               /\ tasks'[u].kind # "idle"
                    => tasks'[u].node \in Nodes /\ tasks'[u].tag \in Tags
               /\ tasks'[u].todo \subseteq Listed(tasks'[u].acts)
               /\ tasks'[u].call # None => tasks'[u].call.res \in tasks'[u].todo
    BY <1>6, <1>7, <1>9, <1>10, <2>1 DEF TasksWellFormed
  <2>2. ASSUME NEW u \in Tasks, tasks'[u] = ts[u],
               tasks'[u].kind = "undeploy", tasks'[u].orig = None
        PROVE  records'[tasks'[u].node] # None
    BY <1>5, <1>7, <2>2 DEF TasksWellFormed
  <2> QED  BY <1>2, <1>8, <2>1, <2>2 DEF TasksWellFormed
<1>12. SharedMaps'
  <2>1. ASSUME NEW u \in Tasks, NEW v \in Tasks, tasks'[u].tag = tasks'[v].tag
        PROVE  tasks'[u].acts = tasks'[v].acts
    BY <1>2, <1>7, <1>8, <2>1 DEF SharedMaps
  <2>2. ASSUME NEW u \in Tasks, NEW m \in Nodes, records'[m] # None,
               tasks'[u].tag = records'[m].tag
        PROVE  tasks'[u].acts = records'[m].acts
    BY <1>2, <1>4, <1>5, <1>7, <1>8, <2>2 DEF SharedMaps
  <2>3. ASSUME NEW m \in Nodes, NEW k \in Nodes, records'[m] # None,
               records'[k] # None, records'[m].tag = records'[k].tag
        PROVE  m = k
    BY <1>2, <1>4, <1>5, <2>3 DEF SharedMaps
  <2> QED  BY <2>1, <2>2, <2>3 DEF SharedMaps
<1>13. UndeployMarks'
  <2>1. ASSUME NEW u \in Tasks, tasks'[u] = ts[u], tasks'[u].kind = "undeploy",
               NEW r \in Listed(tasks'[u].acts),
               \/ r \notin tasks'[u].todo
               \/ tasks'[u].call # None /\ tasks'[u].call.res = r
        PROVE  tasks'[u].acts[r].kind = "Delete"
    BY <1>6, <1>7, <1>9, <2>1 DEF UndeployMarks
  <2> QED  BY <1>8, <2>1 DEF UndeployMarks
<1>14. DownIsEmpty'
  BY DEF DownIsEmpty, Redeploy
<1>15. UNCHANGED <<file, up>>
  BY DEF Redeploy
<1>16. RecordsDurable'
  BY <1>4, <1>5, <1>15 DEF RecordsDurable
<1>17. FirstDeployRecorded'
  <2>1. ASSUME NEW u \in Tasks, tasks'[u].first,
               records'[tasks'[u].node] # None,
               records'[tasks'[u].node].tag = tasks'[u].tag
        PROVE  /\ tasks'[u].node # n /\ tasks'[u].node \in Nodes
               /\ tasks'[u] = tasks[u]
    <3>1. tasks'[u] = ts[u]
      BY <1>8, <2>1
    <3>2. tasks[u].node \in Nodes
      BY <1>7, <2>1, <3>1, FirstRuns DEF TasksWellFormed
    <3>3. tasks[u].node # n
      BY <1>2, <1>4, <1>7, <2>1, <3>1
    <3>4. tasks[u].tag # rec.tag
      BY <1>5, <1>7, <2>1, <3>1, <3>2, <3>3 DEF SharedMaps
    <3> QED  BY <1>7, <3>1, <3>2, <3>3, <3>4
  <2> QED
    BY <1>5, <1>15, <2>1 DEF FirstDeployRecorded
<1> QED
  BY <1>1, <1>11, <1>12, <1>13, <1>14, <1>16, <1>17

\* An undeploy starts to share the map of its record; it has been nowhere yet.
LEMMA UndeployInv ==
    ASSUME IInv, NEW t \in Tasks, NEW n \in Nodes, Undeploy(t, n)
    PROVE  IInv'
<1> USE DEF IInv
<1>1. TypeOK'
  BY UndeployType
<1>2. records[n].tag \in Tags /\ records[n] # None
  BY DEF Undeploy, TypeOK, Record
<1>3. /\ \A u \in Tasks : u # t => tasks'[u] = tasks[u]
      /\ tasks'[t].kind = "undeploy" /\ tasks'[t].node = n
      /\ tasks'[t].tag = records[n].tag /\ tasks'[t].acts = records[n].acts
      /\ tasks'[t].todo = Listed(records[n].acts) /\ tasks'[t].call = None
      /\ tasks'[t].first = FALSE
  BY DEF Undeploy, TypeOK, Idle
<1>4. UNCHANGED <<records, file>> /\ up'
  BY DEF Undeploy
<1>5. TasksWellFormed'
  BY <1>2, <1>3, <1>4 DEF TasksWellFormed
<1>6. SharedMaps'
  <2>1. ASSUME NEW u \in Tasks, NEW v \in Tasks, tasks'[u].tag = tasks'[v].tag
        PROVE  tasks'[u].acts = tasks'[v].acts
    BY <1>2, <1>3, <2>1 DEF SharedMaps
  <2>2. ASSUME NEW u \in Tasks, NEW m \in Nodes, records'[m] # None,
               tasks'[u].tag = records'[m].tag
        PROVE  tasks'[u].acts = records'[m].acts
    BY <1>2, <1>3, <1>4, <2>2 DEF SharedMaps
  <2> QED  BY <1>4, <2>1, <2>2 DEF SharedMaps
<1>7. UndeployMarks'
  BY <1>3 DEF UndeployMarks
<1>8. DownIsEmpty'
  BY <1>4 DEF DownIsEmpty
<1>9. RecordsDurable' /\ FirstDeployRecorded'
  BY <1>3, <1>4 DEF RecordsDurable, FirstDeployRecorded, Undeploy
<1> QED  BY <1>1, <1>5, <1>6, <1>7, <1>8, <1>9

\* A step of task t that neither changes a map nor a record, and that leaves
\* an undeploy nowhere it has not been.
LEMMA TaskOnlyInv ==
    ASSUME IInv, TypeOK', NEW t \in Tasks, UNCHANGED <<records, file, up>>,
           \A u \in Tasks : u # t => tasks'[u] = tasks[u],
           tasks[t].kind # "idle",
           tasks'[t].kind = tasks[t].kind, tasks'[t].node = tasks[t].node,
           tasks'[t].tag = tasks[t].tag, tasks'[t].acts = tasks[t].acts,
           tasks'[t].orig = tasks[t].orig, tasks'[t].first = tasks[t].first,
           tasks'[t].todo \subseteq tasks[t].todo,
           tasks'[t].call # None => tasks'[t].call.res \in tasks'[t].todo,
           tasks[t].kind = "undeploy" =>
               \A r \in Res :
                   (\/ r \notin tasks'[t].todo
                    \/ tasks'[t].call # None /\ tasks'[t].call.res = r)
                       => \/ r \notin tasks[t].todo
                          \/ tasks[t].call # None /\ tasks[t].call.res = r
    PROVE  IInv'
<1> USE DEF IInv
<1>1. TasksWellFormed'
  BY DEF TasksWellFormed
<1>2. SharedMaps'
  <2>1. \A u \in Tasks : tasks'[u].tag = tasks[u].tag /\ tasks'[u].acts = tasks[u].acts
    OBVIOUS
  <2> QED  BY <2>1 DEF SharedMaps
<1>3. UndeployMarks'
  BY DEF UndeployMarks, Listed
<1>4. DownIsEmpty'
  BY DEF DownIsEmpty, Idle
<1>5. RecordsDurable'
  BY DEF RecordsDurable
<1>6. FirstDeployRecorded'
  <2>1. \A u \in Tasks : /\ tasks'[u].tag = tasks[u].tag /\ tasks'[u].acts = tasks[u].acts
                         /\ tasks'[u].node = tasks[u].node
                         /\ tasks'[u].first = tasks[u].first
    OBVIOUS
  <2> QED  BY <2>1 DEF FirstDeployRecorded
<1> QED  BY <1>1, <1>2, <1>3, <1>4, <1>5, <1>6

\* The request of a deploy touches neither maps nor records.
LEMMA SendDeployInv ==
    ASSUME IInv, NEW t \in Tasks, NEW r \in Res, SendDeploy(t, r)
    PROVE  IInv'
<1> USE DEF IInv
<1> DEFINE call == Request(tasks[t].acts[r], r, NoNs)
<1>1. tasks[t].acts[r] # None
  BY DEF SendDeploy, TasksWellFormed, Listed
<1>2. TypeOK'
  BY <1>1, SendDeployType
<1>3. call.res = r
  BY DEF Request
<1>4. tasks' = [tasks EXCEPT ![t].call = call] /\ tasks[t] \in Task
  BY DEF SendDeploy, TypeOK
<1> HIDE DEF call
<1>5. /\ \A u \in Tasks : u # t => tasks'[u] = tasks[u]
      /\ tasks'[t].kind = tasks[t].kind /\ tasks'[t].node = tasks[t].node
      /\ tasks'[t].tag = tasks[t].tag /\ tasks'[t].acts = tasks[t].acts
      /\ tasks'[t].orig = tasks[t].orig /\ tasks'[t].first = tasks[t].first
      /\ tasks'[t].todo = tasks[t].todo /\ tasks'[t].call = call
  BY <1>4 DEF TypeOK, Task
<1>6. /\ tasks[t].kind = "deploy" /\ r \in tasks[t].todo
      /\ UNCHANGED <<records, file, up>>
  BY DEF SendDeploy
<1> HIDE DEF IInv
<1> QED  BY <1>2, <1>3, <1>5, <1>6, TaskOnlyInv

\* Nor does the cluster.
LEMMA ServeInv ==
    ASSUME IInv, NEW t \in Tasks, Serve(t)
    PROVE  IInv'
<1> USE DEF IInv
<1>1. TypeOK'
  BY ServeType
<1>2. tasks[t] \in Task /\ tasks[t].call # None /\ tasks[t].call \in Call
  BY DEF Serve, TypeOK, Task
<1>3. tasks[t].kind # "idle" /\ tasks[t].call.res \in tasks[t].todo
  BY <1>2 DEF TasksWellFormed, Idle
<1>4. tasks' = [tasks EXCEPT ![t] =
                  [tasks[t] EXCEPT !.call = [tasks[t].call EXCEPT !.served = TRUE]]]
  BY <1>2 DEF Serve, TypeOK, Task
<1>5. [tasks[t].call EXCEPT !.served = TRUE].res = tasks[t].call.res
  BY <1>2 DEF Call
<1>6. /\ \A u \in Tasks : u # t => tasks'[u] = tasks[u]
      /\ tasks'[t].kind = tasks[t].kind /\ tasks'[t].node = tasks[t].node
      /\ tasks'[t].tag = tasks[t].tag /\ tasks'[t].acts = tasks[t].acts
      /\ tasks'[t].orig = tasks[t].orig /\ tasks'[t].first = tasks[t].first
      /\ tasks'[t].todo = tasks[t].todo
      /\ tasks'[t].call.res = tasks[t].call.res
  BY <1>2, <1>4, <1>5 DEF TypeOK, Task
<1>7. UNCHANGED <<records, file, up>>
  BY DEF Serve
<1> HIDE DEF IInv
<1> QED  BY <1>1, <1>2, <1>3, <1>6, <1>7, TaskOnlyInv

\* Nor does an answer; the resource of the call has been marked before.
LEMMA AnswerInv ==
    ASSUME IInv, NEW t \in Tasks, Succeeded(t) \/ UndeployFailed(t)
    PROVE  IInv'
<1> USE DEF IInv
<1>1. TypeOK'
  BY AnswerType
<1>2. tasks[t] \in Task /\ tasks[t].call # None
  BY DEF Succeeded, UndeployFailed, TypeOK
<1>3. tasks[t].kind # "idle"
  BY <1>2 DEF TasksWellFormed, Idle
<1>4. /\ \A u \in Tasks : u # t => tasks'[u] = tasks[u]
      /\ tasks'[t].kind = tasks[t].kind /\ tasks'[t].node = tasks[t].node
      /\ tasks'[t].tag = tasks[t].tag /\ tasks'[t].acts = tasks[t].acts
      /\ tasks'[t].orig = tasks[t].orig /\ tasks'[t].first = tasks[t].first
      /\ tasks'[t].todo = tasks[t].todo \ {tasks[t].call.res}
      /\ tasks'[t].call = None
  BY <1>2 DEF Succeeded, UndeployFailed, TypeOK, Task
<1>5. UNCHANGED <<records, file, up>>
  BY DEF Succeeded, UndeployFailed
<1> HIDE DEF IInv
<1> QED  BY <1>1, <1>2, <1>3, <1>4, <1>5, TaskOnlyInv

\* An undeploy marks the resource it comes to in every holder's map.
LEMMA SendUndeployInv ==
    ASSUME IInv, NEW t \in Tasks, NEW r \in Res, SendUndeploy(t, r)
    PROVE  IInv'
<1> USE DEF IInv
<1> DEFINE tag == tasks[t].tag
           acts == [tasks[t].acts EXCEPT ![r].kind = "Delete"]
           call == Request(acts[r], r, OriginalOf(t)[r].ns)
           ts == TasksSee(tasks, tag, acts)
<1>1. /\ tasks[t].kind = "undeploy" /\ r \in tasks[t].todo
      /\ UNCHANGED <<file, up>>
  BY DEF SendUndeploy
<1>2. /\ tasks[t].node \in Nodes /\ tag \in Tags /\ r \in Listed(tasks[t].acts)
      /\ tasks[t].orig = None => records[tasks[t].node] # None
  BY <1>1 DEF TasksWellFormed
<1>3. TypeOK'
  BY <1>2, SendUndeployType DEF Listed
<1>4. /\ Listed(acts) = Listed(tasks[t].acts) /\ acts[r].kind = "Delete"
      /\ \A s \in Listed(acts) :
            tasks[t].acts[s].kind = "Delete" => acts[s].kind = "Delete"
  <2>1. tasks[t].acts \in ActionMap
    BY DEF TypeOK, Task
  <2> QED  BY <1>2, <2>1, MarkKeeps
<1>5. call.res = r
  BY DEF Request
<1>6. /\ tasks' = [ts EXCEPT ![t].call = call]
      /\ records' = [n \in Nodes |->
            IF records[n] # None /\ records[n].tag = tag
            THEN [records[n] EXCEPT !.acts = acts] ELSE records[n]]
  BY DEF SendUndeploy
<1> HIDE DEF acts, call
<1>7. \A u \in Tasks :
        /\ tasks'[u].kind = tasks[u].kind /\ tasks'[u].node = tasks[u].node
        /\ tasks'[u].tag = tasks[u].tag /\ tasks'[u].todo = tasks[u].todo
        /\ tasks'[u].orig = tasks[u].orig /\ tasks'[u].first = tasks[u].first
        /\ u # t => tasks'[u].call = tasks[u].call
        /\ u = t => tasks'[u].call = call
        /\ tasks[u].tag = tag => tasks'[u].acts = acts
        /\ tasks[u].tag # tag => tasks'[u] = tasks[u]
  BY <1>6 DEF TasksSee, TypeOK, Task
<1>8. \A n \in Nodes :
        /\ (records'[n] = None) = (records[n] = None)
        /\ records[n] # None =>
              /\ records'[n].tag = records[n].tag
              /\ records'[n].status = records[n].status
              /\ records[n].tag = tag => records'[n].acts = acts
              /\ records[n].tag # tag => records'[n].acts = records[n].acts
  <2>1. acts \in ActionMap
    BY <1>3, <1>7 DEF TypeOK, Task
  <2>2. \A n \in Nodes : records[n] # None =>
           records[n] \in Record /\ [records[n] EXCEPT !.acts = acts] \in Record
    BY <2>1 DEF TypeOK, Record
  <2>3. \A n \in Nodes : records[n] # None =>
           LET new == [records[n] EXCEPT !.acts = acts] IN
           /\ new # None /\ new.tag = records[n].tag
           /\ new.status = records[n].status /\ new.acts = acts
    BY <2>2, NoneAssumption DEF Record
  <2> QED  BY <1>6, <2>3
<1>9. \A u \in Tasks : /\ Listed(tasks'[u].acts) = Listed(tasks[u].acts)
                       /\ tasks[u].tag = tag => tasks[u].acts = tasks[t].acts
  BY <1>4, <1>7 DEF SharedMaps
<1>10. TasksWellFormed'
  <2>1. ASSUME NEW u \in Tasks, tasks'[u].kind = "idle"
        PROVE  tasks'[u] = Idle
    <3>1. tasks[u] = Idle
      BY <1>7, <2>1 DEF TasksWellFormed
    <3>2. tasks[u].tag # tag
      BY <1>2, <3>1, ConstantsAssumption DEF Idle
    <3> QED  BY <1>7, <3>1, <3>2
  <2>2. ASSUME NEW u \in Tasks, tasks'[u].kind # "idle"
        PROVE  tasks'[u].node \in Nodes /\ tasks'[u].tag \in Tags
    BY <1>7, <2>2 DEF TasksWellFormed
  <2>3. ASSUME NEW u \in Tasks
        PROVE  tasks'[u].todo \subseteq Listed(tasks'[u].acts)
    BY <1>7, <1>9 DEF TasksWellFormed
  <2>4. ASSUME NEW u \in Tasks, tasks'[u].call # None
        PROVE  tasks'[u].call.res \in tasks'[u].todo
    BY <1>1, <1>5, <1>7, <2>4 DEF TasksWellFormed
  <2>5. ASSUME NEW u \in Tasks, tasks'[u].kind = "undeploy", tasks'[u].orig = None
        PROVE  records'[tasks'[u].node] # None
    BY <1>7, <1>8, <2>5 DEF TasksWellFormed
  <2> QED  BY <2>1, <2>2, <2>3, <2>4, <2>5 DEF TasksWellFormed
<1>11. SharedMaps'
  <2>1. ASSUME NEW u \in Tasks, NEW v \in Tasks, tasks'[u].tag = tasks'[v].tag
        PROVE  tasks'[u].acts = tasks'[v].acts
    BY <1>7, <2>1 DEF SharedMaps
  <2>2. ASSUME NEW u \in Tasks, NEW m \in Nodes, records'[m] # None,
               tasks'[u].tag = records'[m].tag
        PROVE  tasks'[u].acts = records'[m].acts
    BY <1>7, <1>8, <2>2 DEF SharedMaps
  <2>3. ASSUME NEW m \in Nodes, NEW k \in Nodes, records'[m] # None,
               records'[k] # None, records'[m].tag = records'[k].tag
        PROVE  m = k
    BY <1>8, <2>3 DEF SharedMaps
  <2> QED  BY <2>1, <2>2, <2>3 DEF SharedMaps
<1>12. UndeployMarks'
  <2>1. ASSUME NEW u \in Tasks, tasks'[u].kind = "undeploy",
               NEW s \in Listed(tasks'[u].acts),
               \/ s \notin tasks'[u].todo
               \/ tasks'[u].call # None /\ tasks'[u].call.res = s
        PROVE  tasks'[u].acts[s].kind = "Delete"
    <3>1. CASE s = r /\ u = t
      BY <1>4, <1>7, <3>1
    <3>2. CASE s # r \/ u # t
      <4>1. /\ s \in Listed(tasks[u].acts)
            /\ \/ s \notin tasks[u].todo
               \/ tasks[u].call # None /\ tasks[u].call.res = s
        BY <1>5, <1>7, <1>9, <2>1, <3>2
      <4>2. tasks[u].acts[s].kind = "Delete"
        BY <1>7, <2>1, <4>1 DEF UndeployMarks
      <4> QED  BY <1>4, <1>7, <1>9, <4>1, <4>2
    <3> QED  BY <3>1, <3>2
  <2> QED  BY <2>1 DEF UndeployMarks
<1>13. DownIsEmpty'
  BY <1>1 DEF DownIsEmpty, Idle
<1>14. RecordsDurable'
  BY <1>1, <1>8 DEF RecordsDurable
<1>15. FirstDeployRecorded'
  <2>1. ASSUME NEW u \in Tasks, tasks'[u].first
        PROVE  tasks[u].node \in Nodes
    BY <1>7, <2>1, FirstRuns DEF TasksWellFormed
  <2> QED  BY <1>1, <1>7, <1>8, <1>9, <2>1 DEF FirstDeployRecorded
<1> QED
  BY <1>3, <1>10, <1>11, <1>12, <1>13, <1>14, <1>15

\* Deployed ends a task and persists the new status.
LEMMA DeployedInv ==
    ASSUME IInv, NEW t \in Tasks, Deployed(t)
    PROVE  IInv'
<1> USE DEF IInv
<1> DEFINE n == tasks[t].node
<1>1. n \in Nodes /\ records[n] # None /\ records[n] \in Record /\ up
  BY DEF Deployed, TasksWellFormed, DownIsEmpty, TypeOK
<1>2. TypeOK'
  BY <1>1, DeployedType
<1>3. /\ \A u \in Tasks : u # t => tasks'[u] = tasks[u]
      /\ tasks'[t] = Idle /\ up'
  BY <1>1 DEF Deployed, TypeOK
<1>4. \A m \in Nodes :
        /\ (records'[m] = None) = (records[m] = None)
        /\ records[m] # None => /\ records'[m].tag = records[m].tag
                                /\ records'[m].acts = records[m].acts
  <2> DEFINE orig == WithFinalNs(records[n].orig, tasks[t].finalNs)
             new == [records[n] EXCEPT !.status = "Deployed", !.orig = orig]
  <2>1. records' = [records EXCEPT ![n] = new]
    BY <1>1 DEF Deployed, TypeOK, Record
  <2>2. new \in Record
    <3>1. tasks[t].finalNs \in [Res -> Namespaces \cup {None}]
      BY DEF TypeOK, Task
    <3>2. orig \in Originals
      BY <1>1, <3>1 DEF WithFinalNs, Record, Originals, Original
    <3> HIDE DEF orig
    <3> QED  BY <1>1, <3>2 DEF Record, Statuses
  <2>3. new.tag = records[n].tag /\ new.acts = records[n].acts
    BY <1>1 DEF Record
  <2> HIDE DEF new
  <2> QED  BY <1>1, <2>1, <2>2, <2>3, NoneAssumption DEF TypeOK
<1>5. TasksWellFormed'
  <2>1. /\ Idle.kind = "idle" /\ Idle.call = None
        /\ Idle.todo \subseteq Listed(Idle.acts)
    BY DEF Idle
  <2>2. ASSUME NEW u \in Tasks, u # t, tasks'[u].kind = "undeploy",
               tasks'[u].orig = None
        PROVE  records'[tasks'[u].node] # None
    BY <1>3, <1>4, <2>2 DEF TasksWellFormed
  <2> QED  BY <1>3, <2>1, <2>2 DEF TasksWellFormed
<1>6. SharedMaps'
  <2>1. tasks'[t].tag = None /\ tasks'[t].acts = Nothing
    BY <1>3 DEF Idle
  <2>2. ASSUME NEW u \in Tasks, tasks[u].tag = None
        PROVE  tasks[u].acts = Nothing
    BY <2>2, ConstantsAssumption DEF TasksWellFormed, Idle
  <2>3. \A m \in Nodes : records[m] # None => records[m].tag # None
    BY ConstantsAssumption DEF TypeOK, Record
  <2>4. ASSUME NEW u \in Tasks, NEW v \in Tasks, tasks'[u].tag = tasks'[v].tag
        PROVE  tasks'[u].acts = tasks'[v].acts
    BY <1>3, <2>1, <2>2, <2>4 DEF SharedMaps
  <2>5. ASSUME NEW u \in Tasks, NEW m \in Nodes, records'[m] # None,
               tasks'[u].tag = records'[m].tag
        PROVE  tasks'[u].acts = records'[m].acts
    BY <1>3, <1>4, <2>1, <2>3, <2>5 DEF SharedMaps
  <2>6. ASSUME NEW m \in Nodes, NEW k \in Nodes, records'[m] # None,
               records'[k] # None, records'[m].tag = records'[k].tag
        PROVE  m = k
    BY <1>4, <2>6 DEF SharedMaps
  <2> QED  BY <2>4, <2>5, <2>6 DEF SharedMaps
<1>7. UndeployMarks'
  BY <1>3 DEF UndeployMarks, Idle
<1>8. DownIsEmpty'
  BY <1>3 DEF DownIsEmpty
<1>9. RecordsDurable' /\ FirstDeployRecorded'
  <2>1. \A u \in Tasks : tasks'[u].first => tasks'[u].kind # "idle"
    BY <1>3, FirstRuns DEF Idle
  <2>2. file' = Persisted(records')
    BY DEF Deployed
  <2> QED
    BY <1>2, <1>5, <1>6, <2>1, <2>2, PersistStep DEF TypeOK
<1> QED  BY <1>2, <1>5, <1>6, <1>7, <1>8, <1>9

\* The records after a restart are those of the file, each with a map of its own.
LEMMA RestartInv ==
    ASSUME IInv, Restart
    PROVE  IInv'
<1> USE DEF IInv
<1> DEFINE saved == {n \in Nodes : file[n] # None}
           tag == CHOOSE g \in DistinctTags(saved) : TRUE
<1>1. TypeOK'
  BY RestartType
<1>2. /\ \A t \in Tasks : tasks'[t] = Idle
      /\ up' /\ UNCHANGED file
  BY DEF Restart, DownIsEmpty
<1>3. records' = Loaded(file, tag)
  BY DEF Restart
<1>4. /\ tag \in [saved -> Tags]
      /\ \A m, n \in saved : tag[m] = tag[n] => m = n
  BY DEF Restart, DistinctTags
<1> HIDE DEF tag
<1>5. \A n \in Nodes :
        /\ (records'[n] = None) = (file[n] = None)
        /\ records'[n] # None => /\ records'[n].status = file[n].status
                                 /\ records'[n].tag = tag[n] /\ tag[n] \in Tags
  <2> DEFINE new(n) == [tag |-> tag[n], acts |-> file[n].acts,
            orig |-> file[n].orig, status |-> file[n].status,
            src |-> IF n \in Collections \cup repo THEN Live ELSE Orphan]
  <2>1. ASSUME NEW n \in Nodes, file[n] # None
        PROVE  /\ new(n) # None /\ tag[n] \in Tags
               /\ new(n).status = file[n].status /\ new(n).tag = tag[n]
    <3>1. file[n] \in Saved
      BY <2>1 DEF TypeOK
    <3>2. file[n].acts \in ActionMap
      BY <3>1 DEF Saved, ActionMap, Action, SavedAction
    <3>3. new(n) \in Record
      BY <1>4, <2>1, <3>1, <3>2 DEF Saved, Record
    <3> QED  BY <1>4, <2>1, <3>3, NoneAssumption
  <2>2. \A n \in Nodes : records'[n] = IF file[n] = None THEN None ELSE new(n)
    BY <1>3 DEF Loaded
  <2>3. ASSUME NEW n \in Nodes, file[n] # None
        PROVE  /\ records'[n] # None /\ records'[n].status = file[n].status
               /\ records'[n].tag = tag[n] /\ tag[n] \in Tags
    <3>1. records'[n] = new(n)
      BY <2>2, <2>3
    <3> HIDE DEF new
    <3> QED  BY <2>1, <2>3, <3>1
  <2>4. \A n \in Nodes : file[n] = None => records'[n] = None
    BY <2>2
  <2> QED  BY <2>3, <2>4
<1>6. TasksWellFormed'
  <2>1. /\ Idle.kind = "idle" /\ Idle.call = None
        /\ Idle.todo \subseteq Listed(Idle.acts)
    BY DEF Idle
  <2> HIDE DEF IInv
  <2> QED  BY <1>2, <2>1 DEF TasksWellFormed
<1>7. SharedMaps'
  BY <1>2, <1>4, <1>5, ConstantsAssumption DEF SharedMaps, Idle
<1>8. UndeployMarks' /\ FirstDeployRecorded' /\ DownIsEmpty'
  BY <1>2 DEF UndeployMarks, FirstDeployRecorded, DownIsEmpty, Idle
<1>9. RecordsDurable'
  BY <1>2, <1>5 DEF RecordsDurable
<1> QED  BY <1>1, <1>6, <1>7, <1>8, <1>9

\* New texts of instances change nothing else.
LEMMA InstancesInv ==
    ASSUME IInv, NEW refs, NEW new \in [Res -> Crs], NEW gone,
           RefsOfResources(refs), InstancesHave(refs, new, gone),
           TypeOK', UNCHANGED <<file, up>>
    PROVE  IInv'
<1> USE DEF IInv
<1>1. \A t \in Tasks :
        /\ tasks[t].acts \in ActionMap
        /\ tasks'[t] = [tasks[t] EXCEPT !.acts = Retext(tasks[t].acts, tasks[t].tag, refs, new)]
  BY DEF InstancesHave, TypeOK, Task
<1>2. \A t \in Tasks :
        /\ tasks'[t].kind = tasks[t].kind /\ tasks'[t].node = tasks[t].node
        /\ tasks'[t].tag = tasks[t].tag /\ tasks'[t].todo = tasks[t].todo
        /\ tasks'[t].call = tasks[t].call /\ tasks'[t].orig = tasks[t].orig
        /\ tasks'[t].first = tasks[t].first
        /\ tasks'[t].acts = Retext(tasks[t].acts, tasks[t].tag, refs, new)
  <2>1. \A t \in Tasks : tasks[t] \in Task
    BY DEF TypeOK
  <2> HIDE DEF IInv
  <2> QED  BY <1>1, <2>1 DEF Task
<1>3. \A n \in Nodes :
        /\ (records'[n] = None) = (records[n] = None)
        /\ records[n] # None =>
              /\ records'[n].tag = records[n].tag
              /\ records'[n].status = records[n].status
              /\ records'[n].acts = Retext(records[n].acts, records[n].tag, refs, new)
  <2>1. ASSUME NEW n \in Nodes, records[n] # None
        PROVE  /\ records'[n] # None
               /\ records'[n].tag = records[n].tag
               /\ records'[n].status = records[n].status
               /\ records'[n].acts = Retext(records[n].acts, records[n].tag, refs, new)
    <3>1. PICK src \in Crs \cup {Live, Orphan} :
             records'[n] =
                [records[n] EXCEPT
                   !.acts = Retext(records[n].acts, records[n].tag, refs, new),
                   !.src = src]
      BY <2>1 DEF InstancesHave, TypeOK, Record, RefsOfResources
    <3>2. records[n] \in Record /\ records[n].acts \in ActionMap
      BY <2>1 DEF TypeOK, Record
    <3>3. Retext(records[n].acts, records[n].tag, refs, new) \in ActionMap
      BY <3>2, RetextType
    <3>4. records'[n] \in Record
      BY <3>1, <3>2, <3>3 DEF Record
    <3> QED  BY <3>1, <3>2, <3>4, NoneAssumption DEF Record
  <2>2. \A n \in Nodes : records[n] = None => records'[n] = None
    BY DEF InstancesHave
  <2> QED  BY <2>1, <2>2
<1>4. \A t \in Tasks : Listed(tasks'[t].acts) = Listed(tasks[t].acts)
  <2>1. TypeOK
    OBVIOUS
  <2> HIDE DEF IInv
  <2>2. ASSUME NEW t \in Tasks
        PROVE  Listed(tasks'[t].acts) = Listed(tasks[t].acts)
    <3>1. tasks[t].acts \in ActionMap
      BY <1>1
    <3>2. Listed(Retext(tasks[t].acts, tasks[t].tag, refs, new)) = Listed(tasks[t].acts)
      BY <2>1, <3>1, RetextType
    <3> QED  BY <1>2, <3>2
  <2> QED  BY <2>2
<1>5. \A tag : Retext(Nothing, tag, refs, new) = Nothing
  BY DEF Retext, Nothing
<1>6. TasksWellFormed'
  <2>1. ASSUME NEW t \in Tasks, tasks'[t].kind = "idle"
        PROVE  tasks'[t] = Idle
    <3>1. tasks[t] = Idle
      BY <1>2, <2>1 DEF TasksWellFormed
    <3> QED  BY <1>1, <1>5, <3>1 DEF Idle
  <2>2. ASSUME NEW t \in Tasks, tasks'[t].kind = "undeploy", tasks'[t].orig = None
        PROVE  records'[tasks'[t].node] # None
    BY <1>2, <1>3, <2>2 DEF TasksWellFormed
  <2> QED  BY <1>2, <1>4, <2>1, <2>2 DEF TasksWellFormed
<1>7. SharedMaps'
  BY <1>2, <1>3 DEF SharedMaps
<1>8. UndeployMarks'
  <2>1. ASSUME NEW u \in Tasks, tasks'[u].kind = "undeploy",
               NEW r \in Listed(tasks'[u].acts),
               \/ r \notin tasks'[u].todo
               \/ tasks'[u].call # None /\ tasks'[u].call.res = r
        PROVE  tasks'[u].acts[r].kind = "Delete"
    <3>1. r \in Listed(tasks[u].acts)
      BY <1>4
    <3>2. tasks[u].acts[r].kind = "Delete"
      BY <1>2, <2>1, <3>1 DEF UndeployMarks
    <3>3. Retext(tasks[u].acts, tasks[u].tag, refs, new)[r].kind = tasks[u].acts[r].kind
      <4>1. tasks[u].acts \in ActionMap
        BY <1>1
      <4> HIDE DEF IInv
      <4> QED  BY <3>1, <4>1, RetextKeeps
    <3> QED  BY <1>2, <3>2, <3>3
  <2> QED  BY <2>1 DEF UndeployMarks
<1>9. DownIsEmpty'
  <2>1. ASSUME NEW t \in Tasks, tasks[t] = Idle
        PROVE  tasks'[t] = Idle
    BY <1>1, <1>5, <2>1 DEF Idle
  <2> QED  BY <1>3, <2>1 DEF DownIsEmpty
<1>10. RecordsDurable'
  BY <1>3 DEF RecordsDurable
<1>11. FirstDeployRecorded'
  <2>1. ASSUME NEW t \in Tasks, tasks'[t].first
        PROVE  tasks[t].node \in Nodes
    BY <1>2, <2>1, FirstRuns DEF TasksWellFormed
  <2> QED  BY <1>2, <1>3, <1>4, <2>1 DEF FirstDeployRecorded
<1> QED
  BY <1>6, <1>7, <1>8, <1>9, <1>10, <1>11

\* Edits of the repository change texts and node objects only.
LEMMA EditStepInv ==
    ASSUME IInv, EditStep
    PROVE  IInv'
<1>1. TypeOK'
  BY EditStepType DEF IInv
<1>2. ASSUME NEW r \in Res, NEW text \in Crs, EditCr(r, text)
      PROVE  IInv'
  BY <1>1, <1>2, RepositoryOnlyInv DEF EditCr
<1>3. ASSUME InstanceStep
      PROVE  IInv'
  <2>1. PICK some, gone : \E new \in [Res -> Crs] :
           RefsOfResources(some) /\ InstancesHave(some, new, gone)
    BY <1>3, InstanceSteps DEF InstancesGet, IInv
  <2>2. UNCHANGED <<file, up>>
    BY <1>3 DEF InstanceStep, EditOld, RemoveResource, ReloadCollection
  <2> QED  BY <1>1, <2>1, <2>2, InstancesInv
<1>4. ASSUME NEW r \in Res, AddResource(r)
      PROVE  IInv'
  BY <1>1, <1>4, RepositoryOnlyInv DEF AddResource
<1>5. ASSUME NEW c, NEW ns \in Namespaces, SetDefaultNs(c, ns)
      PROVE  IInv'
  BY <1>1, <1>5, RepositoryOnlyInv DEF SetDefaultNs
<1> QED
  BY <1>2, <1>3, <1>4, <1>5 DEF EditStep, InstanceStep

-----------------------------------------------------------------------------
(* The theorems.                                                           *)

\* Initially there is nothing to relate.
LEMMA InitInv == Init => IInv
<1> SUFFICES ASSUME Init PROVE IInv
  OBVIOUS
<1>1. TypeOK
  BY IdleType DEF Init, TypeOK
<1>2. TasksWellFormed /\ SharedMaps
  BY DEF Init, TasksWellFormed, SharedMaps, Idle
<1>3. DownIsEmpty /\ UndeployMarks /\ RecordsDurable /\ FirstDeployRecorded
  BY DEF Init, DownIsEmpty, UndeployMarks, RecordsDurable, FirstDeployRecorded, Idle
<1> QED  BY <1>1, <1>2, <1>3 DEF IInv

\* Every step preserves the inductive invariant.
LEMMA NextInv == IInv /\ [Next]_vars => IInv'
<1> SUFFICES ASSUME IInv, [Next]_vars PROVE IInv'
  OBVIOUS
<1>1. CASE EditStep
  BY <1>1, EditStepInv
<1>2. CASE ClickStep(Nodes)
  <2>1. ASSUME NEW n \in Nodes, NEW t \in Tasks, DeployNew(t, n)
        PROVE  IInv'
    BY <2>1, DeployNewInv
  <2>2. ASSUME NEW n \in Nodes, NEW t \in Tasks, Redeploy(t, n)
        PROVE  IInv'
    BY <2>2, RedeployInv
  <2>3. ASSUME NEW n \in Nodes, NEW t \in Tasks, Undeploy(t, n)
        PROVE  IInv'
    BY <2>3, UndeployInv
  <2>4. ASSUME NEW n \in Nodes, DeployPanics(n)
        PROVE  IInv'
    BY <2>4, DiedInv DEF DeployPanics
  <2> QED  BY <1>2, <2>1, <2>2, <2>3, <2>4 DEF ClickStep
<1>3. ASSUME NEW t \in Tasks, TaskStep(t)
      PROVE  IInv'
  <2>1. ASSUME NEW r \in Res, SendDeploy(t, r)
        PROVE  IInv'
    BY <2>1, SendDeployInv
  <2>2. ASSUME NEW r \in Res, SendUndeploy(t, r)
        PROVE  IInv'
    BY <2>2, SendUndeployInv
  <2>3. CASE UndeployPanics(t)
    BY <2>3, DiedInv DEF UndeployPanics
  <2>4. CASE Serve(t)
    BY <2>4, ServeInv
  <2>5. CASE Succeeded(t)
    BY <2>5, AnswerInv
  <2>6. CASE Deployed(t)
    BY <2>6, DeployedInv
  <2>7. CASE DeployedPanics(t)
    BY <2>7, DiedInv DEF DeployedPanics
  <2>8. CASE Undeployed(t)
    BY <2>8, RemoveInv DEF Undeployed
  <2> QED
    BY <1>3, <2>1, <2>2, <2>3, <2>4, <2>5, <2>6, <2>7, <2>8 DEF TaskStep
<1>4. ASSUME NEW t \in Tasks, FailStep(t)
      PROVE  IInv'
  <2>1. CASE DeployFailed(t)
    BY <2>1, RemoveInv DEF DeployFailed
  <2>2. CASE UndeployFailed(t)
    BY <2>2, AnswerInv
  <2> QED  BY <1>4, <2>1, <2>2 DEF FailStep
<1>5. CASE Crash
  BY <1>5, DiedInv DEF Crash
<1>6. CASE Restart
  BY <1>6, RestartInv
<1>7. CASE UNCHANGED vars
  <2>1. TypeOK'
    BY <1>7 DEF IInv, TypeOK, vars
  <2> QED  BY <1>7, <2>1, RepositoryOnlyInv DEF vars
<1> QED
  BY <1>1, <1>2, <1>3, <1>4, <1>5, <1>6, <1>7 DEF Next

\* The inductive invariant holds however the tasks interleave, whatever fails
\* and whenever the process ends.
THEOREM Invariance == Spec => []IInv
BY InitInv, NextInv, PTL DEF Spec

\* Every variable keeps its type: the records, deployments.yaml and the tasks
\* always describe well-formed deployments.
THEOREM TypeCorrect == Spec => []TypeOK
<1>1. IInv => TypeOK
  BY DEF IInv
<1> QED  BY <1>1, Invariance, PTL

\* deployments.yaml agrees with the records in memory after every step.
THEOREM Durable == Spec => []RecordsDurable
<1>1. IInv => RecordsDurable
  BY DEF IInv
<1> QED  BY <1>1, Invariance, PTL

\* A first deployment creates nothing that deployments.yaml does not name.
THEOREM WriteAhead == Spec => []FirstDeployRecorded
<1>1. IInv => FirstDeployRecorded
  BY DEF IInv
<1> QED  BY <1>1, Invariance, PTL

\* No step but SendDeploy sends a request of a deploy.
LEMMA OnlySends ==
    ASSUME TypeOK, Next, NEW t \in Tasks, tasks[t].kind = "deploy",
           tasks[t].call = None, tasks'[t].call # None
    PROVE  \E r \in Res : SendDeploy(t, r)
<1>1. \A u \in Tasks : tasks[u] \in Task
  BY DEF TypeOK
<1>2. tasks \in [Tasks -> Task]
  BY DEF TypeOK
<1>3. tasks' # tasks
  OBVIOUS
<1>4. ~Died
  BY DEF Died, Idle
<1>5. ASSUME NEW refs, NEW new, NEW gone, InstancesHave(refs, new, gone)
      PROVE  FALSE
  <2>1. tasks'[t] =
           [tasks[t] EXCEPT !.acts = Retext(tasks[t].acts, tasks[t].tag, refs, new)]
    BY <1>5 DEF InstancesHave
  <2>2. tasks'[t].call = tasks[t].call
    BY <1>1, <2>1 DEF Task
  <2> QED  BY <2>2
<1>6. ~EditStep
  BY <1>3, <1>5 DEF EditStep, EditCr, EditOld, RemoveResource, AddResource,
                    ReloadCollection, SetDefaultNs
<1>7. ASSUME NEW u \in Tasks, NEW n \in Nodes,
             DeployNew(u, n) \/ Redeploy(u, n) \/ Undeploy(u, n)
      PROVE  FALSE
  <2>1. u # t /\ tasks[u].kind = "idle"
    BY <1>7 DEF DeployNew, Redeploy, Undeploy
  <2>2. ASSUME NEW ts, NEW tag, NEW acts, NEW first,
               StartTask(u, ts, n, tag, acts, first), ts \in [Tasks -> Task]
        PROVE  tasks'[t] = ts[t]
    BY <2>1, <2>2 DEF StartTask
  <2>3. ASSUME NEW tag, NEW acts \in ActionMap
        PROVE  /\ TasksSee(tasks, tag, acts) \in [Tasks -> Task]
               /\ TasksSee(tasks, tag, acts)[t].call = None
    BY <1>1 DEF TasksSee, Task
  <2>4. CASE DeployNew(u, n)
    BY <1>2, <2>2, <2>4 DEF DeployNew
  <2>5. CASE Undeploy(u, n)
    BY <1>2, <2>1, <2>5 DEF Undeploy
  <2>6. CASE Redeploy(u, n)
    <3> DEFINE old == records[n].acts
               new == NewActions(n, records[n].src)
    <3>1. records[n] \in Record /\ records[n].src \in Crs \cup {Live} /\ old \in ActionMap
      BY <2>6 DEF Redeploy, TypeOK, Record
    <3>2. Dropped(old, new) \in ActionMap
      BY <3>1, NewType, DroppedType
    <3>3. \E tag, acts : StartTask(u, TasksSee(tasks, records[n].tag, Dropped(old, new)),
                                   n, tag, acts, FALSE)
      BY <2>6 DEF Redeploy
    <3> HIDE DEF old, new
    <3> QED  BY <2>2, <2>3, <3>2, <3>3
  <2> QED  BY <1>7, <2>4, <2>5, <2>6
<1>8. ~ClickStep(Nodes)
  BY <1>4, <1>7 DEF ClickStep, DeployPanics
<1>9. ASSUME NEW u \in Tasks, NEW n, Remove(u, n)
      PROVE  FALSE
  <2>1. [tasks EXCEPT ![u] = Idle] \in [Tasks -> Task]
    BY <1>2, IdleType
  <2>2. [tasks EXCEPT ![u] = Idle][t].call = None
    BY <1>2 DEF Idle
  <2>3. ASSUME NEW ts \in [Tasks -> Task]
        PROVE  KeepDetail(ts, n)[t].call = ts[t].call
    BY DEF KeepDetail, Task
  <2> QED  BY <1>9, <2>1, <2>2, <2>3 DEF Remove
<1>10. ASSUME NEW u \in Tasks, FailStep(u)
       PROVE  FALSE
  BY <1>2, <1>9, <1>10 DEF FailStep, DeployFailed, UndeployFailed
<1>11. ASSUME NEW u \in Tasks, NEW r \in Res, SendUndeploy(u, r)
       PROVE  FALSE
  <2>1. u # t
    BY <1>11 DEF SendUndeploy
  <2>2. PICK tag, acts, call :
           tasks' = [TasksSee(tasks, tag, acts) EXCEPT ![u].call = call]
    BY <1>11 DEF SendUndeploy
  <2>3. tasks'[t].call = tasks[t].call
    BY <1>1, <2>1, <2>2 DEF TasksSee, Task
  <2> QED  BY <2>3
<1>12. ASSUME NEW u \in Tasks, TaskStep(u)
       PROVE  \E r \in Res : SendDeploy(t, r)
  <2>1. ASSUME NEW r \in Res, SendDeploy(u, r)
        PROVE  SendDeploy(t, r)
    <3>1. u = t
      BY <1>2, <2>1 DEF SendDeploy
    <3> QED  BY <2>1, <3>1
  <2>2. CASE Serve(u)
    BY <1>2, <2>2 DEF Serve
  <2>3. CASE Succeeded(u)
    BY <1>2, <2>3 DEF Succeeded
  <2>4. CASE Deployed(u)
    BY <1>2, <2>4 DEF Deployed, Idle
  <2>5. CASE Undeployed(u)
    BY <1>9, <2>5 DEF Undeployed
  <2>6. CASE UndeployPanics(u) \/ DeployedPanics(u)
    BY <1>4, <2>6 DEF UndeployPanics, DeployedPanics
  <2> QED  BY <1>11, <1>12, <2>1, <2>2, <2>3, <2>4, <2>5, <2>6 DEF TaskStep
<1>13. ~Crash /\ ~Restart
  BY <1>3, <1>4 DEF Crash, Restart
<1> QED  BY <1>6, <1>8, <1>10, <1>12, <1>13 DEF Next

\* Where an undeploy has come to, no deploy of the same map asks the cluster to
\* create or update anything from then on.
THEOREM UndeployHeeded == Spec => UndeployStopsRequests
<1> DEFINE Heeded ==
        \A t, u \in Tasks :
            (/\ tasks[t].kind = "deploy" /\ tasks[t].tag = tasks[u].tag
             /\ tasks[t].call = None /\ tasks'[t].call # None
             /\ HasComeTo(u, tasks'[t].call.res))
                => tasks'[t].call.kind = "Delete"
<1>1. IInv /\ [Next]_vars => [Heeded]_vars
  <2> SUFFICES ASSUME IInv, Next, NEW t \in Tasks, NEW u \in Tasks,
                      tasks[t].kind = "deploy", tasks[t].tag = tasks[u].tag,
                      tasks[t].call = None, tasks'[t].call # None,
                      HasComeTo(u, tasks'[t].call.res)
               PROVE  tasks'[t].call.kind = "Delete"
    OBVIOUS
  <2>1. PICK r \in Res : SendDeploy(t, r)
    BY OnlySends DEF IInv
  <2>2. tasks'[t].call = Request(tasks[t].acts[r], r, NoNs)
    BY <2>1 DEF SendDeploy, IInv, TypeOK
  <2>3. tasks'[t].call.res = r /\ tasks'[t].call.kind = tasks[t].acts[r].kind
    BY <2>2 DEF Request
  <2>4. tasks[u].acts[r].kind = "Delete" /\ tasks[u].acts = tasks[t].acts
    BY <2>3 DEF HasComeTo, IInv, UndeployMarks, SharedMaps
  <2> QED  BY <2>3, <2>4
<1>2. QED  BY Invariance, <1>1, PTL DEF Spec, UndeployStopsRequests

-----------------------------------------------------------------------------
(* A careful user.  CarefulSpec has one task at a time, so that what the    *)
(* file names can be followed through the steps of one deploy or undeploy.  *)

\* One text of r stands for all when they agree on the name and the namespace.
Home(r) == CHOOSE text : text \in Texts[r]

\* Where an action puts the object of r.
Place(r, a) == IF a = None THEN None
               ELSE IF CrNs[Home(r)] # NoNs THEN CrNs[Home(r)] ELSE a.ns

SamePlaces(some, other) == \A r \in Res : Place(r, some[r]) = Place(r, other[r])

ObjectAt(r, ns) == ObjectOf(Home(r), ns)

\* The texts in use are texts the user writes for the resource.
OwnTexts(acts) == \A r \in Listed(acts) : acts[r].cr \in Texts[r] \cup {Live}

OwnCall(k) == k.call # None => k.call.text \in Texts[k.call.res]

TextsKept ==
    /\ \A r \in Res : cr[r] \in Texts[r]
    /\ \A n \in Nodes : records[n] # None => OwnTexts(records[n].acts)
    /\ \A n \in Nodes : file[n] # None => OwnTexts(file[n].acts)
    /\ \A t \in Tasks : OwnTexts(tasks[t].acts) /\ OwnCall(tasks[t])

OneTask ==
    \A t, u \in Tasks : tasks[t].kind # "idle" /\ tasks[u].kind # "idle" => t = u

\* Records and file differ in texts and kinds of actions only.
FileAgrees ==
    \A n \in Nodes : records[n] # None =>
        /\ file[n] # None /\ file[n].orig = records[n].orig
        /\ SamePlaces(file[n].acts, records[n].acts)

\* The namespace kept for the undeploy is where the action put the object.
OriginalsAgree ==
    \A n \in Nodes : file[n] # None =>
        \A r \in Res : file[n].orig[r] # None /\ file[n].orig[r].ns # NoNs =>
            file[n].orig[r].ns = Place(r, file[n].acts[r])

\* The file names every object on the cluster.
Names(f, r, obj) ==
    /\ f # None
    /\ Place(r, f.acts[r]) # None
    /\ obj = ObjectAt(r, Place(r, f.acts[r]))

ObjectsNamed ==
    \A obj \in Object : cluster[obj] # None =>
        \E n \in Nodes, r \in Res : Names(file[n], r, obj)

\* A task works on a record, and where its actions say.
TaskPlaces ==
    \A t \in Tasks : tasks[t].kind # "idle" =>
        LET k == tasks[t] IN
        /\ k.orig = None
        /\ records[k.node] # None /\ records[k.node].tag = k.tag
        /\ k.call # None => k.call.ns = Place(k.call.res, k.acts[k.call.res])
        /\ \A r \in Res : k.finalNs[r] # None => k.finalNs[r] = Place(r, k.acts[r])

\* What an undeploy has been to is gone.
Gone ==
    \A t \in Tasks : tasks[t].kind = "undeploy" =>
        LET k == tasks[t] IN
        /\ k.call # None => k.call.kind = "Delete"
        /\ \A r \in Listed(k.acts) :
             (\/ r \notin k.todo
              \/ k.call # None /\ k.call.res = r /\ k.call.served)
                 => cluster[ObjectAt(r, Place(r, k.acts[r]))] = None

FileFollows ==
    /\ FileAgrees /\ OriginalsAgree /\ ObjectsNamed
    /\ OneTask /\ TaskPlaces /\ Gone

CarefulInv == IInv /\ TextsKept /\ FileFollows

LEMMA HomeIsText ==
    ASSUME TextsKept, NEW r \in Res
    PROVE  Home(r) \in Texts[r]
BY DEF TextsKept, Home

\* Actions have a place.
LEMMA PlaceFacts ==
    ASSUME TextsKept, NEW r \in Res, NEW a \in Action \cup SavedAction \cup {None}
    PROVE  /\ Place(r, a) \in Namespaces \cup {None}
           /\ Place(r, a) = None <=> a = None
<1>1. CrNs[Home(r)] \in Namespaces \cup {NoNs}
  <2>1. Home(r) \in Crs
    BY HomeIsText, ConstantsAssumption
  <2> QED  BY <2>1, ConstantsAssumption
<1> QED  BY <1>1, ConstantsAssumption, NoneAssumption DEF Place, Action, SavedAction

\* Texts of one resource name one object.
LEMMA OneObject ==
    ASSUME OneIdentity, NEW r \in Res, NEW text \in Texts[r], NEW ns
    PROVE  CrNs[text] = CrNs[Home(r)] /\ ObjectOf(text, ns) = ObjectAt(r, ns)
<1>1. Home(r) \in Texts[r]
  BY DEF Home
<1>2. CrName[text] = CrName[Home(r)] /\ CrNs[text] = CrNs[Home(r)]
  BY <1>1 DEF OneIdentity
<1> QED  BY <1>2 DEF ObjectOf, ObjectAt

\* Marking an action moves nothing.
LEMMA MarkPlaces ==
    ASSUME NEW acts \in ActionMap, NEW r \in Listed(acts)
    PROVE  /\ SamePlaces([acts EXCEPT ![r].kind = "Delete"], acts)
           /\ OwnTexts(acts) => OwnTexts([acts EXCEPT ![r].kind = "Delete"])
<1> DEFINE marked == [acts EXCEPT ![r].kind = "Delete"]
<1>1. /\ acts[r] # None /\ acts[r] \in Action /\ r \in Res
      /\ [acts[r] EXCEPT !.kind = "Delete"] \in Action
      /\ [acts[r] EXCEPT !.kind = "Delete"].ns = acts[r].ns
      /\ [acts[r] EXCEPT !.kind = "Delete"].cr = acts[r].cr
  BY DEF Listed, ActionMap, Action, Kinds
<1>2. /\ marked[r] = [acts[r] EXCEPT !.kind = "Delete"]
      /\ \A s \in Res : s # r => marked[s] = acts[s]
  BY <1>1 DEF ActionMap
<1> HIDE DEF marked
<1>3. Place(r, marked[r]) = Place(r, acts[r])
  BY <1>1, <1>2, NoneAssumption DEF Place
<1>4. SamePlaces(marked, acts)
  BY <1>2, <1>3 DEF SamePlaces
<1>5. OwnTexts(acts) => OwnTexts(marked)
  BY <1>1, <1>2 DEF OwnTexts, Listed
<1> QED  BY <1>4, <1>5 DEF marked

\* Nor does a change of its text.
LEMMA TextPlaces ==
    ASSUME NEW r, NEW a \in Action, NEW text \in Crs \cup {Live}
    PROVE  /\ [a EXCEPT !.cr = text] # None /\ [a EXCEPT !.cr = text].cr = text
           /\ Place(r, [a EXCEPT !.cr = text]) = Place(r, a)
<1>1. /\ [a EXCEPT !.cr = text] \in Action
      /\ [a EXCEPT !.cr = text].ns = a.ns /\ [a EXCEPT !.cr = text].cr = text
  BY DEF Action
<1> QED  BY <1>1, NoneAssumption DEF Place

LEMMA RetextPlaces ==
    ASSUME NEW acts \in ActionMap, NEW tag, NEW refs, NEW new \in [Res -> Crs]
    PROVE  /\ SamePlaces(Retext(acts, tag, refs, new), acts)
           /\ (OwnTexts(acts) /\ \A r \in Res : new[r] \in Texts[r])
                 => OwnTexts(Retext(acts, tag, refs, new))
<1> DEFINE other == Retext(acts, tag, refs, new)
<1>1. ASSUME NEW r \in Res
      PROVE  /\ Place(r, other[r]) = Place(r, acts[r])
             /\ \/ other[r] = acts[r]
                \/ acts[r] # None /\ other[r].cr = new[r]
  <2>1. CASE acts[r] # None /\ <<tag, r>> \in refs
    <3>1. acts[r] \in Action /\ new[r] \in Crs
      BY <2>1 DEF ActionMap
    <3>2. other[r] = [acts[r] EXCEPT !.cr = new[r]]
      BY <2>1 DEF Retext
    <3> HIDE DEF other
    <3> QED  BY <2>1, <3>1, <3>2, TextPlaces
  <2>2. CASE ~(acts[r] # None /\ <<tag, r>> \in refs)
    BY <2>2 DEF Retext
  <2> QED  BY <2>1, <2>2
<1> HIDE DEF other
<1>2. SamePlaces(other, acts)
  BY <1>1 DEF SamePlaces
<1>3. OwnTexts(acts) /\ (\A r \in Res : new[r] \in Texts[r]) => OwnTexts(other)
  BY <1>1 DEF OwnTexts, Listed
<1> QED  BY <1>2, <1>3 DEF other

\* What persist writes puts objects where the records do.
LEMMA PersistedPlaces ==
    ASSUME TypeOK, NEW recs \in [Nodes -> Record \cup {None}],
           NEW n \in Nodes, recs[n] # None
    PROVE  /\ Persisted(recs)[n] # None
           /\ Persisted(recs)[n].orig = recs[n].orig
           /\ SamePlaces(Persisted(recs)[n].acts, recs[n].acts)
           /\ (TextsKept /\ OwnTexts(recs[n].acts)) => OwnTexts(Persisted(recs)[n].acts)
<1>1. recs[n] \in Record /\ recs[n].acts \in ActionMap
  BY DEF Record
<1>2. Persisted(recs)[n] = Save(recs[n])
  BY DEF Persisted
<1>3. Persisted(recs)[n] # None
  BY PersistedKeeps
<1> DEFINE acts == recs[n].acts
           saved == Save(recs[n]).acts
<1>4. ASSUME NEW r \in Res
      PROVE  /\ Place(r, saved[r]) = Place(r, acts[r])
             /\ saved[r] # None => acts[r] # None /\ saved[r].cr = Text(acts[r], r)
  <2>1. CASE acts[r] = None
    BY <2>1 DEF Save
  <2>2. CASE acts[r] # None
    <3>1. acts[r] \in Action
      BY <1>1, <2>2 DEF ActionMap
    <3>2. Text(acts[r], r) \in Crs
      BY <3>1, TextType
    <3>3. saved[r] = [acts[r] EXCEPT !.cr = Text(acts[r], r)]
      BY <2>2 DEF Save
    <3> HIDE DEF acts, saved
    <3> QED  BY <2>2, <3>1, <3>2, <3>3, TextPlaces
  <2> QED  BY <2>1, <2>2
<1> HIDE DEF acts, saved
<1>5. SamePlaces(saved, acts)
  BY <1>4 DEF SamePlaces
<1>6. TextsKept /\ OwnTexts(acts) => OwnTexts(saved)
  <2> SUFFICES ASSUME TextsKept, OwnTexts(acts), NEW r \in Listed(saved)
               PROVE  saved[r].cr \in Texts[r] \cup {Live}
    BY DEF OwnTexts
  <2>1. r \in Res /\ r \in Listed(acts) /\ saved[r].cr = Text(acts[r], r)
    BY <1>4 DEF Listed
  <2>2. cr[r] \in Texts[r] /\ acts[r].cr \in Texts[r] \cup {Live}
    BY <2>1 DEF TextsKept, OwnTexts
  <2> QED  BY <2>1, <2>2 DEF Text
<1>7. Persisted(recs)[n].acts = saved /\ Persisted(recs)[n].orig = recs[n].orig
  BY <1>2 DEF Save, saved
<1> QED  BY <1>3, <1>5, <1>6, <1>7 DEF acts

\* Where a request goes when the texts of a resource agree.
LEMMA TargetPlace ==
    ASSUME TypeOK, OneIdentity, NEW r \in Res, NEW a \in Action,
           Text(a, r) \in Texts[r],
           NEW ns \in Namespaces \cup {NoNs}, ns # NoNs => ns = Place(r, a)
    PROVE  TargetNs(a, r, ns) = Place(r, a)
<1>1. CrNs[Text(a, r)] = CrNs[Home(r)]
  BY OneObject
<1>2. a # None
  BY NoneAssumption
<1> QED  BY <1>1, <1>2 DEF TargetNs, Place

\* The text of an action that is sent.
LEMMA TextKept ==
    ASSUME TextsKept, NEW acts, OwnTexts(acts), NEW r \in Listed(acts)
    PROVE  Text(acts[r], r) \in Texts[r]
<1>1. cr[r] \in Texts[r] /\ acts[r].cr \in Texts[r] \cup {Live}
  BY DEF TextsKept, OwnTexts, Listed
<1> QED  BY <1>1 DEF Text

\* A file that keeps its places names what it named.
LEMMA NamesSame ==
    ASSUME NEW f, NEW g, NEW r \in Res, NEW obj, g # None,
           SamePlaces(g.acts, f.acts), Names(f, r, obj)
    PROVE  Names(g, r, obj)
BY DEF Names, SamePlaces

-----------------------------------------------------------------------------
(* The steps of a careful user and of what the user has started.            *)

\* When no task is left running, there is nothing to say of tasks.
LEMMA AllEnded ==
    ASSUME \A t \in Tasks : tasks'[t].kind = "idle"
    PROVE  OneTask' /\ TaskPlaces' /\ Gone'
BY DEF OneTask, TaskPlaces, Gone

\* While a task runs, the others are idle.
LEMMA OthersIdle ==
    ASSUME OneTask, NEW t \in Tasks, tasks[t].kind # "idle",
           NEW u \in Tasks, u # t
    PROVE  tasks[u].kind = "idle"
BY DEF OneTask

\* A step that touches neither the file nor the cluster.
LEMMA SameFile ==
    ASSUME CarefulInv, file' = file, cluster' = cluster
    PROVE  OriginalsAgree' /\ ObjectsNamed'
BY DEF CarefulInv, FileFollows, OriginalsAgree, ObjectsNamed

\* A record that a step with persist leaves where it is.
LEMMA PersistSame ==
    ASSUME CarefulInv, records' \in [Nodes -> Record \cup {None}],
           file' = Persisted(records'),
           NEW n \in Nodes, records[n] # None, records'[n] # None,
           records'[n].acts = records[n].acts
    PROVE  /\ file[n] # None /\ file'[n] # None
           /\ file[n].orig = records[n].orig /\ file'[n].orig = records'[n].orig
           /\ SamePlaces(file'[n].acts, file[n].acts)
<1>1. TypeOK
  BY DEF CarefulInv, IInv
<1>2. /\ file'[n] # None /\ file'[n].orig = records'[n].orig
      /\ SamePlaces(file'[n].acts, records'[n].acts)
  BY <1>1, PersistedPlaces
<1>3. /\ file[n] # None /\ file[n].orig = records[n].orig
      /\ SamePlaces(file[n].acts, records[n].acts)
  BY DEF CarefulInv, FileFollows, FileAgrees
<1> QED  BY <1>2, <1>3 DEF SamePlaces

\* What persist has written agrees.
LEMMA PersistAgrees ==
    ASSUME TypeOK, records' \in [Nodes -> Record \cup {None}], file' = Persisted(records')
    PROVE  FileAgrees'
BY PersistedPlaces DEF FileAgrees

\* Edits between two tasks change texts and nodes, but move no object.
LEMMA EditCareful ==
    ASSUME CarefulInv, AllIdle, EditStep
    PROVE  FileFollows'
<1>1. TypeOK /\ FileAgrees
  BY DEF CarefulInv, IInv, FileFollows
<1>2. file' = file /\ cluster' = cluster
  BY DEF EditStep, EditCr, EditOld, RemoveResource, AddResource, ReloadCollection,
         SetDefaultNs
<1>3. ASSUME NEW refs, NEW new \in [Res -> Crs], NEW gone, InstancesHave(refs, new, gone)
      PROVE  FileAgrees' /\ \A t \in Tasks : tasks'[t].kind = "idle"
  <2>1. ASSUME NEW t \in Tasks
        PROVE  tasks'[t].kind = "idle"
    <3>1. tasks'[t] =
             [tasks[t] EXCEPT !.acts = Retext(tasks[t].acts, tasks[t].tag, refs, new)]
      BY <1>3 DEF InstancesHave
    <3>2. tasks[t] \in Task /\ tasks[t].kind = "idle"
      BY <1>1 DEF TypeOK, AllIdle
    <3> QED  BY <3>1, <3>2 DEF Task
  <2>2. ASSUME NEW n \in Nodes, records'[n] # None
        PROVE  /\ file[n] # None /\ file[n].orig = records'[n].orig
               /\ SamePlaces(file[n].acts, records'[n].acts)
    <3> DEFINE acts == Retext(records[n].acts, records[n].tag, refs, new)
    <3>1. records[n] # None /\ records[n] \in Record
      BY <1>1, <1>3, <2>2 DEF InstancesHave, TypeOK
    <3>2. \E src : records'[n] = [records[n] EXCEPT !.acts = acts, !.src = src]
      BY <1>3, <3>1 DEF InstancesHave
    <3> HIDE DEF acts
    <3>3. records'[n].orig = records[n].orig /\ records'[n].acts = acts
      BY <3>1, <3>2 DEF Record
    <3>4. SamePlaces(acts, records[n].acts)
      BY <3>1, RetextPlaces DEF acts, Record
    <3>5. /\ file[n] # None /\ file[n].orig = records[n].orig
          /\ SamePlaces(file[n].acts, records[n].acts)
      BY <1>1, <3>1 DEF FileAgrees
    <3> QED  BY <3>3, <3>4, <3>5 DEF SamePlaces
  <2> QED  BY <1>2, <2>1, <2>2 DEF FileAgrees
<1>4. CASE UNCHANGED <<records, tasks>>
  <2>1. FileAgrees'
    BY <1>1, <1>2, <1>4 DEF FileAgrees
  <2>2. \A t \in Tasks : tasks'[t].kind = "idle"
    BY <1>4 DEF AllIdle
  <2> QED  BY <1>2, <2>1, <2>2, SameFile, AllEnded DEF FileFollows
<1>5. CASE InstanceStep
  <2>1. PICK refs, gone : \E new \in [Res -> Crs] : InstancesHave(refs, new, gone)
    BY <1>1, <1>5, InstanceSteps DEF InstancesGet
  <2>2. FileAgrees' /\ \A t \in Tasks : tasks'[t].kind = "idle"
    BY <1>3, <2>1
  <2> QED  BY <1>2, <2>2, SameFile, AllEnded DEF FileFollows
<1> QED  BY <1>4, <1>5 DEF EditStep, EditCr, AddResource, SetDefaultNs, InstanceStep

\* A first deployment: the file names the new record before its task starts.
LEMMA DeployNewCareful ==
    ASSUME CarefulInv, AllIdle, NEW t \in Tasks, NEW n \in Nodes, DeployNew(t, n)
    PROVE  FileFollows'
<1> DEFINE tag == CHOOSE g \in FreeTags(records) : TRUE
           acts == NewActions(n, Live)
           orig == NewOriginals(n, Live)
           rec == [tag |-> tag, acts |-> acts, orig |-> orig,
                   status |-> "InDeploy", src |-> Live]
<1>1. TypeOK /\ TypeOK' /\ RecordsDurable
  BY DeployNewType DEF CarefulInv, IInv
<1>2. /\ records[n] = None /\ up
      /\ records' = [records EXCEPT ![n] = rec] /\ file' = Persisted(records')
      /\ StartTask(t, tasks, n, tag, acts, TRUE) /\ cluster' = cluster
  BY DEF DeployNew
<1>3. /\ records \in [Nodes -> Record \cup {None}]
      /\ records' \in [Nodes -> Record \cup {None}] /\ tasks \in [Tasks -> Task]
  BY <1>1 DEF TypeOK
<1>4. \A r \in Res : orig[r] # None => orig[r].ns = NoNs
  BY DEF NewOriginals
<1>5. rec.tag = tag /\ rec.acts = acts /\ rec.orig = orig
  OBVIOUS
<1>6. rec # None
  <2>1. tag \in Tags
    BY DEF DeployNew, FreeTags
  <2>2. acts \in ActionMap /\ orig \in Originals
    BY <1>1, NewType
  <2> HIDE DEF tag, acts, orig
  <2>3. rec \in Record
    BY <2>1, <2>2 DEF Record, Statuses
  <2> QED  BY <2>3, NoneAssumption
<1> HIDE DEF rec, orig, acts, tag
<1>7. /\ records'[n] = rec /\ \A m \in Nodes : m # n => records'[m] = records[m]
  BY <1>2, <1>3
<1>8. FileAgrees'
  BY <1>1, <1>2, <1>3, PersistAgrees
<1>9. ASSUME NEW m \in Nodes, m # n, file[m] # None
      PROVE  /\ file'[m] # None /\ file'[m].orig = file[m].orig
             /\ SamePlaces(file'[m].acts, file[m].acts)
  <2>1. records[m] # None /\ records'[m] = records[m]
    BY <1>1, <1>2, <1>7, <1>9 DEF RecordsDurable
  <2> QED  BY <1>2, <1>3, <2>1, PersistSame
<1>10. file[n] = None
  BY <1>1, <1>2 DEF RecordsDurable
<1>11. OriginalsAgree'
  <2>1. ASSUME NEW m \in Nodes, file'[m] # None, NEW r \in Res,
               file'[m].orig[r] # None, file'[m].orig[r].ns # NoNs
        PROVE  file'[m].orig[r].ns = Place(r, file'[m].acts[r])
    <3>1. records'[m] # None
      BY <1>1, <1>2, <1>3, <2>1, PersistedKeeps
    <3>2. CASE m = n
      <4>1. file'[n].orig = orig
        BY <1>5, <1>7, <1>8, <3>1, <3>2 DEF FileAgrees
      <4> QED  BY <1>4, <2>1, <3>2, <4>1
    <3>3. CASE m # n
      <4>1. file[m] # None
        BY <1>1, <1>2, <1>7, <3>1, <3>3 DEF RecordsDurable
      <4>2. /\ file'[m].orig = file[m].orig
            /\ Place(r, file'[m].acts[r]) = Place(r, file[m].acts[r])
        BY <1>9, <3>3, <4>1 DEF SamePlaces
      <4> QED  BY <2>1, <4>1, <4>2 DEF CarefulInv, FileFollows, OriginalsAgree
    <3> QED  BY <3>2, <3>3
  <2> QED  BY <2>1 DEF OriginalsAgree
<1>12. ObjectsNamed'
  <2>1. ASSUME NEW obj \in Object, cluster[obj] # None
        PROVE  \E m \in Nodes, r \in Res : Names(file'[m], r, obj)
    <3>1. PICK m \in Nodes, r \in Res : Names(file[m], r, obj)
      BY <2>1 DEF CarefulInv, FileFollows, ObjectsNamed
    <3>2. m # n /\ file[m] # None
      BY <1>10, <3>1 DEF Names
    <3>3. Names(file'[m], r, obj)
      BY <1>9, <3>1, <3>2, NamesSame
    <3> QED  BY <3>3
  <2> QED  BY <1>2, <2>1 DEF ObjectsNamed
<1>13. \/ \A u \in Tasks : tasks'[u].kind = "idle"
       \/ /\ \A u \in Tasks : u # t => tasks'[u].kind = "idle"
          /\ tasks'[t].kind = "deploy" /\ tasks'[t].node = n /\ tasks'[t].tag = tag
          /\ tasks'[t].orig = None /\ tasks'[t].call = None
          /\ tasks'[t].finalNs = Nothing
  BY <1>2, <1>3 DEF StartTask, AllIdle, Idle
<1>14. OneTask' /\ Gone'
  BY <1>13 DEF OneTask, Gone
<1>15. TaskPlaces'
  BY <1>5, <1>7, <1>13, <1>6 DEF TaskPlaces, Nothing
<1> QED  BY <1>8, <1>11, <1>12, <1>14, <1>15 DEF FileFollows

\* An undeploy starts with the map of its record.
LEMMA UndeployCareful ==
    ASSUME CarefulInv, AllIdle, NEW t \in Tasks, NEW n \in Nodes, Undeploy(t, n)
    PROVE  FileFollows'
<1>1. tasks \in [Tasks -> Task]
  BY DEF CarefulInv, IInv, TypeOK
<1>2. /\ \A u \in Tasks : u # t => tasks'[u].kind = "idle"
      /\ tasks'[t].node = n /\ tasks'[t].tag = records[n].tag
      /\ tasks'[t].acts = records[n].acts /\ tasks'[t].todo = Listed(records[n].acts)
      /\ tasks'[t].orig = None /\ tasks'[t].call = None
      /\ tasks'[t].finalNs = Nothing
  BY <1>1 DEF Undeploy, AllIdle, Idle
<1>3. /\ records[n] # None /\ records' = records
      /\ file' = file /\ cluster' = cluster
  BY DEF Undeploy
<1>4. FileAgrees' /\ OriginalsAgree' /\ ObjectsNamed'
  BY <1>3, SameFile DEF CarefulInv, FileFollows, FileAgrees
<1>5. OneTask' /\ TaskPlaces' /\ Gone'
  BY <1>2, <1>3 DEF OneTask, TaskPlaces, Gone, Nothing
<1> QED  BY <1>4, <1>5 DEF FileFollows

\* A step of task t that changes neither maps, nor records, nor the cluster.
LEMMA TaskOnlyCareful ==
    ASSUME CarefulInv, NEW t \in Tasks, UNCHANGED <<records, file, cluster>>,
           \A u \in Tasks : u # t => tasks'[u] = tasks[u],
           tasks[t].kind # "idle",
           tasks'[t].kind = tasks[t].kind, tasks'[t].node = tasks[t].node,
           tasks'[t].tag = tasks[t].tag, tasks'[t].acts = tasks[t].acts,
           tasks'[t].orig = tasks[t].orig,
           tasks'[t].call # None =>
               tasks'[t].call.ns = Place(tasks'[t].call.res, tasks[t].acts[tasks'[t].call.res]),
           \A r \in Res : tasks'[t].finalNs[r] # None =>
               tasks'[t].finalNs[r] = Place(r, tasks[t].acts[r]),
           tasks[t].kind = "undeploy" =>
               /\ tasks'[t].call = None
               /\ \A r \in Listed(tasks[t].acts) : r \notin tasks'[t].todo =>
                      cluster[ObjectAt(r, Place(r, tasks[t].acts[r]))] = None
    PROVE  FileFollows'
<1>1. FileAgrees' /\ OriginalsAgree' /\ ObjectsNamed'
  BY SameFile DEF CarefulInv, FileFollows, FileAgrees
<1>2. \A u \in Tasks : u # t => tasks'[u].kind = "idle"
  BY OthersIdle DEF CarefulInv, FileFollows
<1>3. OneTask'
  BY <1>2 DEF OneTask
<1>4. TaskPlaces'
  BY <1>2 DEF TaskPlaces, CarefulInv, FileFollows
<1>5. Gone'
  BY <1>2 DEF Gone
<1> QED  BY <1>1, <1>3, <1>4, <1>5 DEF FileFollows

\* A deploy sends an object to where its action says.
LEMMA SendDeployCareful ==
    ASSUME CarefulInv, OneIdentity, NEW t \in Tasks, NEW r \in Res, SendDeploy(t, r)
    PROVE  FileFollows'
<1> DEFINE call == Request(tasks[t].acts[r], r, NoNs)
<1>1. TypeOK /\ TasksWellFormed
  BY DEF CarefulInv, IInv
<1>2. tasks[t] \in Task /\ tasks[t].acts[r] \in Action
  BY <1>1 DEF SendDeploy, TypeOK, TasksWellFormed, Listed, Task, ActionMap
<1>3. call.res = r /\ call.ns = Place(r, tasks[t].acts[r])
  <2> DEFINE a == tasks[t].acts[r]
  <2>1. r \in Listed(tasks[t].acts) /\ OwnTexts(tasks[t].acts)
    BY <1>1 DEF SendDeploy, TasksWellFormed, CarefulInv, TextsKept
  <2>2. Text(a, r) \in Texts[r]
    BY <2>1, TextKept DEF CarefulInv
  <2>3. a \in Action /\ NoNs \in Namespaces \cup {NoNs}
    BY <1>2
  <2> HIDE DEF a
  <2>4. TargetNs(a, r, NoNs) = Place(r, a)
    BY <1>1, <2>2, <2>3, TargetPlace
  <2>5. Request(a, r, NoNs).res = r /\ Request(a, r, NoNs).ns = Place(r, a)
    BY <2>4 DEF Request
  <2> QED  BY <2>5 DEF a
<1>4. tasks' = [tasks EXCEPT ![t].call = call]
  BY DEF SendDeploy
<1> HIDE DEF call
<1>5. /\ \A u \in Tasks : u # t => tasks'[u] = tasks[u]
      /\ tasks'[t].kind = tasks[t].kind /\ tasks'[t].node = tasks[t].node
      /\ tasks'[t].tag = tasks[t].tag /\ tasks'[t].acts = tasks[t].acts
      /\ tasks'[t].orig = tasks[t].orig /\ tasks'[t].finalNs = tasks[t].finalNs
      /\ tasks'[t].call = call
  BY <1>1, <1>2, <1>4 DEF TypeOK, Task
<1>6. tasks[t].kind = "deploy" /\ UNCHANGED <<records, file, cluster>>
  BY DEF SendDeploy
<1>7. \A s \in Res : tasks[t].finalNs[s] # None =>
         tasks[t].finalNs[s] = Place(s, tasks[t].acts[s])
  BY <1>6 DEF CarefulInv, FileFollows, TaskPlaces
<1> QED  BY <1>3, <1>5, <1>6, <1>7, TaskOnlyCareful

\* The namespace a task notes is where the object is.
LEMMA SucceededCareful ==
    ASSUME CarefulInv, NEW t \in Tasks, Succeeded(t)
    PROVE  FileFollows'
<1> DEFINE k == tasks[t]
           c == tasks[t].call
<1>1. TypeOK /\ TasksWellFormed /\ TaskPlaces /\ Gone
  BY DEF CarefulInv, IInv, FileFollows
<1>2. k \in Task /\ c \in Call /\ c # None /\ c.served
  BY <1>1 DEF Succeeded, TypeOK, Task
<1>3. k.kind # "idle"
  BY <1>1, <1>2 DEF TasksWellFormed, Idle
<1>4. c.ns = Place(c.res, k.acts[c.res])
  BY <1>1, <1>2, <1>3 DEF TaskPlaces
<1>5. /\ \A u \in Tasks : u # t => tasks'[u] = tasks[u]
      /\ tasks'[t].kind = k.kind /\ tasks'[t].node = k.node
      /\ tasks'[t].tag = k.tag /\ tasks'[t].acts = k.acts
      /\ tasks'[t].orig = k.orig /\ tasks'[t].call = None
      /\ tasks'[t].todo = k.todo \ {c.res}
      /\ tasks'[t].finalNs = [k.finalNs EXCEPT ![c.res] = c.ns]
  BY <1>1, <1>2 DEF Succeeded, TypeOK, Task
<1>6. \A r \in Res : tasks'[t].finalNs[r] # None =>
         tasks'[t].finalNs[r] = Place(r, k.acts[r])
  BY <1>1, <1>2, <1>3, <1>4, <1>5 DEF TaskPlaces, Task, Call
<1>7. k.kind = "undeploy" =>
         \A r \in Listed(k.acts) : r \notin tasks'[t].todo =>
             cluster[ObjectAt(r, Place(r, k.acts[r]))] = None
  BY <1>1, <1>2, <1>5 DEF Gone
<1>8. UNCHANGED <<records, file, cluster>>
  BY DEF Succeeded
<1> QED  BY <1>3, <1>5, <1>6, <1>7, <1>8, TaskOnlyCareful

\* What the cluster cannot find is gone.
LEMMA NotFoundCareful ==
    ASSUME CarefulInv, OneIdentity, NEW t \in Tasks, NotFound(t)
    PROVE  FileFollows'
<1> DEFINE k == tasks[t]
           c == tasks[t].call
<1>1. TypeOK /\ TaskPlaces /\ Gone
  BY DEF CarefulInv, IInv, FileFollows
<1>2. k \in Task /\ c \in Call /\ c # None /\ k.kind = "undeploy"
  BY <1>1 DEF NotFound, UndeployFailed, TypeOK, Task
<1>3. c.ns = Place(c.res, k.acts[c.res]) /\ cluster[ObjectAt(c.res, c.ns)] = None
  <2>1. c.text \in Texts[c.res] /\ c.res \in Res
    BY <1>2 DEF CarefulInv, TextsKept, OwnCall, Call
  <2>2. ObjectOf(c.text, c.ns) = ObjectAt(c.res, c.ns)
    BY <2>1, OneObject
  <2> QED  BY <1>1, <1>2, <2>2 DEF TaskPlaces, NotFound
<1>4. /\ \A u \in Tasks : u # t => tasks'[u] = tasks[u]
      /\ tasks'[t].kind = k.kind /\ tasks'[t].node = k.node
      /\ tasks'[t].tag = k.tag /\ tasks'[t].acts = k.acts
      /\ tasks'[t].orig = k.orig /\ tasks'[t].call = None
      /\ tasks'[t].todo = k.todo \ {c.res} /\ tasks'[t].finalNs = k.finalNs
  BY <1>1, <1>2 DEF NotFound, UndeployFailed, TypeOK, Task
<1>5. \A r \in Res : k.finalNs[r] # None => k.finalNs[r] = Place(r, k.acts[r])
  BY <1>1, <1>2 DEF TaskPlaces
<1>6. \A r \in Listed(k.acts) : r \notin tasks'[t].todo =>
         cluster[ObjectAt(r, Place(r, k.acts[r]))] = None
  BY <1>1, <1>2, <1>3, <1>4 DEF Gone
<1>7. UNCHANGED <<records, file, cluster>>
  BY DEF NotFound, UndeployFailed
<1> QED  BY <1>2, <1>4, <1>5, <1>6, <1>7, TaskOnlyCareful

\* The cluster creates what the file names, and deletes what it is told to.
LEMMA ServeCareful ==
    ASSUME CarefulInv, OneIdentity, NEW t \in Tasks, Serve(t)
    PROVE  FileFollows'
<1> DEFINE k == tasks[t]
           c == tasks[t].call
           o == ObjectAt(c.res, c.ns)
<1>1. /\ TypeOK /\ TasksWellFormed /\ SharedMaps
      /\ FileAgrees /\ ObjectsNamed /\ OneTask /\ TaskPlaces /\ Gone
  BY DEF CarefulInv, IInv, FileFollows
<1>2. k \in Task /\ c \in Call /\ c # None
  BY <1>1 DEF Serve, TypeOK, Task
<1>3. k.kind # "idle" /\ k.node \in Nodes /\ c.res \in Res
  BY <1>1, <1>2 DEF TasksWellFormed, Idle, Call
<1>4. c.ns = Place(c.res, k.acts[c.res]) /\ c.ns \in Namespaces
  BY <1>1, <1>2, <1>3 DEF TaskPlaces, Call
<1>5. o \in Object /\ o = ObjectOf(c.text, c.ns)
  <2>1. c.text \in Texts[c.res] /\ c.text \in Crs
    BY <1>2 DEF CarefulInv, TextsKept, OwnCall, Call
  <2>2. o = ObjectOf(c.text, c.ns)
    BY <1>3, <2>1, OneObject
  <2>3. ObjectOf(c.text, c.ns) \in Object
    BY <1>4, <2>1, ConstantsAssumption DEF ObjectOf, Object
  <2> QED  BY <2>2, <2>3
<1> HIDE DEF o
<1>6. /\ cluster' = [cluster EXCEPT ![o] = IF c.kind = "Delete" THEN None ELSE c.text]
      /\ UNCHANGED <<records, file>>
  BY <1>5 DEF Serve
<1>7. /\ \A u \in Tasks : u # t => tasks'[u] = tasks[u]
      /\ tasks'[t].kind = k.kind /\ tasks'[t].node = k.node
      /\ tasks'[t].tag = k.tag /\ tasks'[t].acts = k.acts
      /\ tasks'[t].orig = k.orig /\ tasks'[t].todo = k.todo
      /\ tasks'[t].finalNs = k.finalNs
      /\ tasks'[t].call = [c EXCEPT !.served = TRUE]
  BY <1>1, <1>2 DEF Serve, TypeOK, Task
<1>8. LET d == [c EXCEPT !.served = TRUE] IN
      d.res = c.res /\ d.ns = c.ns /\ d.kind = c.kind /\ d # None
  <2>1. [c EXCEPT !.served = TRUE] \in Call
    BY <1>2 DEF Call
  <2> QED  BY <1>2, <2>1, NoneAssumption DEF Call
<1>9. cluster \in [Object -> Crs \cup {None}]
  BY <1>1 DEF TypeOK
<1>10. /\ c.kind = "Delete" => cluster'[o] = None
       /\ \A obj \in Object : obj # o => cluster'[obj] = cluster[obj]
  BY <1>5, <1>6, <1>9
<1>11. \A u \in Tasks : u # t => tasks'[u].kind = "idle"
  BY <1>1, <1>3, <1>7, OthersIdle
<1> HIDE DEF k, c
<1>12. FileAgrees' /\ OriginalsAgree'
  BY <1>6 DEF CarefulInv, FileFollows, FileAgrees, OriginalsAgree
<1>13. Names(file[k.node], c.res, o)
  <2>1. records[k.node] # None /\ records[k.node].acts = k.acts
    BY <1>1, <1>3 DEF TaskPlaces, SharedMaps, k
  <2>2. file[k.node] # None /\ Place(c.res, file[k.node].acts[c.res]) = c.ns
    BY <1>1, <1>3, <1>4, <2>1 DEF FileAgrees, SamePlaces
  <2>3. c.ns # None
    BY <1>4, ConstantsAssumption
  <2> QED  BY <1>5, <2>2, <2>3 DEF Names, o
<1>14. ObjectsNamed'
  <2>1. ASSUME NEW obj \in Object, cluster'[obj] # None
        PROVE  \E n \in Nodes, r \in Res : Names(file[n], r, obj)
    <3>1. CASE obj = o
      BY <1>3, <1>13, <3>1
    <3>2. CASE obj # o
      BY <1>1, <1>10, <2>1, <3>2 DEF ObjectsNamed
    <3> QED  BY <3>1, <3>2
  <2>2. file' = file
    BY <1>6
  <2> QED  BY <2>1, <2>2 DEF ObjectsNamed
<1>15. OneTask'
  BY <1>11 DEF OneTask
<1> DEFINE d == [c EXCEPT !.served = TRUE]
<1> HIDE DEF d
<1>16. /\ tasks'[t].call = d
       /\ d.res = c.res /\ d.ns = c.ns /\ d.kind = c.kind /\ d # None
  BY <1>7, <1>8 DEF d
<1>17. TaskPlaces'
  <2>1. /\ k.orig = None
        /\ records[k.node] # None /\ records[k.node].tag = k.tag
        /\ \A r \in Res : k.finalNs[r] # None => k.finalNs[r] = Place(r, k.acts[r])
    BY <1>1, <1>3 DEF TaskPlaces, k
  <2>2. /\ tasks'[t].node = k.node /\ tasks'[t].tag = k.tag
        /\ tasks'[t].acts = k.acts /\ tasks'[t].orig = k.orig
        /\ tasks'[t].finalNs = k.finalNs
    BY <1>7
  <2>3. records' = records
    BY <1>6
  <2> QED  BY <1>4, <1>11, <1>16, <2>1, <2>2, <2>3 DEF TaskPlaces
<1>18. Gone'
  <2>1. ASSUME k.kind = "undeploy", NEW r \in Listed(k.acts),
               r \notin k.todo \/ c.res = r
        PROVE  cluster'[ObjectAt(r, Place(r, k.acts[r]))] = None
    <3>1. c.kind = "Delete"
      BY <1>1, <1>2, <2>1 DEF Gone, k, c
    <3>2. k.acts[r] # None /\ k.acts[r] \in Action /\ r \in Res
      BY <1>2, <2>1 DEF Listed, Task, ActionMap
    <3>3. ObjectAt(r, Place(r, k.acts[r])) \in Object
      <4>1. Home(r) \in Crs
        BY <1>1, <3>2, HomeIsText, ConstantsAssumption DEF CarefulInv
      <4>2. Place(r, k.acts[r]) \in Namespaces
        BY <3>2, PlaceFacts DEF CarefulInv
      <4> QED  BY <4>1, <4>2, ConstantsAssumption DEF ObjectAt, ObjectOf, Object
    <3>4. CASE c.res = r
      BY <1>4, <1>10, <3>1, <3>4 DEF o
    <3>5. CASE r \notin k.todo
      <4>1. cluster[ObjectAt(r, Place(r, k.acts[r]))] = None
        BY <1>1, <2>1, <3>5 DEF Gone, k
      <4> QED  BY <1>10, <3>1, <3>3, <4>1
    <3> QED  BY <2>1, <3>4, <3>5
  <2>2. k.kind = "undeploy" => c.kind = "Delete"
    BY <1>1, <1>2 DEF Gone, k, c
  <2>3. /\ tasks'[t].kind = k.kind /\ tasks'[t].acts = k.acts
        /\ tasks'[t].todo = k.todo
    BY <1>7
  <2> QED  BY <1>11, <1>16, <2>1, <2>2, <2>3 DEF Gone
<1> QED  BY <1>12, <1>14, <1>15, <1>17, <1>18 DEF FileFollows

\* An undeploy deletes where the file says the object is.
LEMMA SendUndeployCareful ==
    ASSUME CarefulInv, OneIdentity, NEW t \in Tasks, NEW r \in Res, SendUndeploy(t, r)
    PROVE  FileFollows'
<1> DEFINE k == tasks[t]
           acts == [k.acts EXCEPT ![r].kind = "Delete"]
           o == OriginalOf(t)[r]
           call == Request(acts[r], r, o.ns)
<1>1. /\ TypeOK /\ TasksWellFormed /\ SharedMaps
      /\ FileAgrees /\ OriginalsAgree /\ OneTask /\ TaskPlaces /\ Gone
  BY DEF CarefulInv, IInv, FileFollows
<1>2. /\ k \in Task /\ k.kind = "undeploy" /\ k.call = None
      /\ r \in k.todo /\ o # None
  BY <1>1 DEF SendUndeploy, TypeOK
<1>3. /\ k.orig = None /\ k.node \in Nodes /\ k.tag \in Tags
      /\ records[k.node] # None /\ records[k.node].acts = k.acts
      /\ r \in Listed(k.acts)
  BY <1>1, <1>2 DEF TaskPlaces, TasksWellFormed, SharedMaps
<1>4. /\ k.acts \in ActionMap /\ SamePlaces(acts, k.acts) /\ OwnTexts(acts)
      /\ Listed(acts) = Listed(k.acts) /\ acts[r].kind = "Delete"
  <2> DEFINE m == k.acts
  <2>1. m \in ActionMap /\ r \in Listed(m) /\ OwnTexts(m)
    BY <1>2, <1>3 DEF Task, CarefulInv, TextsKept
  <2> HIDE DEF m
  <2>2. /\ SamePlaces([m EXCEPT ![r].kind = "Delete"], m)
        /\ OwnTexts([m EXCEPT ![r].kind = "Delete"])
    BY <2>1, MarkPlaces
  <2>3. /\ Listed([m EXCEPT ![r].kind = "Delete"]) = Listed(m)
        /\ [m EXCEPT ![r].kind = "Delete"][r].kind = "Delete"
    BY <2>1, MarkKeeps
  <2> QED  BY <2>1, <2>2, <2>3 DEF m
<1>5. acts \in ActionMap /\ acts[r] \in Action /\ acts[r] # None
  <2>1. k.acts[r] \in Action
    BY <1>3, <1>4 DEF Listed, ActionMap
  <2>2. [k.acts[r] EXCEPT !.kind = "Delete"] \in Action
    BY <2>1 DEF Action, Kinds
  <2> QED  BY <1>4, <2>2, NoneAssumption DEF ActionMap
<1>6. /\ o = records[k.node].orig[r] /\ o \in Original
      /\ o.ns \in Namespaces \cup {NoNs}
  <2>1. records[k.node].orig \in Originals
    BY <1>1, <1>3 DEF TypeOK, Record
  <2> QED  BY <1>2, <1>3, <2>1 DEF OriginalOf, Originals, Original
<1>7. o.ns # NoNs => o.ns = Place(r, k.acts[r])
  <2>1. /\ file[k.node] # None /\ file[k.node].orig = records[k.node].orig
        /\ Place(r, file[k.node].acts[r]) = Place(r, k.acts[r])
    BY <1>1, <1>3 DEF FileAgrees, SamePlaces
  <2> QED  BY <1>1, <1>2, <1>3, <1>6, <2>1 DEF OriginalsAgree
<1> HIDE DEF acts, o
<1>8. /\ call.res = r /\ call.kind = "Delete" /\ ~call.served
      /\ call.ns = Place(r, acts[r]) /\ call # None
  <2> DEFINE a == acts[r]
             ns == o.ns
  <2>1. a \in Action /\ ns \in Namespaces \cup {NoNs}
    BY <1>5, <1>6
  <2>2. OwnTexts(acts) /\ r \in Listed(acts)
    BY <1>3, <1>4
  <2>3. Text(a, r) \in Texts[r]
    BY <2>2, TextKept DEF CarefulInv
  <2>4. ns # NoNs => ns = Place(r, a)
    BY <1>4, <1>7 DEF SamePlaces
  <2>5. call \in Call
    BY <1>1, <1>5, <1>6, RequestType
  <2>6. call = Request(a, r, ns)
    OBVIOUS
  <2> HIDE DEF a, ns, call
  <2>7. TargetNs(a, r, ns) = Place(r, a)
    BY <1>1, <2>1, <2>3, <2>4, TargetPlace
  <2>8. /\ call.ns = Place(r, a) /\ call.kind = a.kind
        /\ call.res = r /\ ~call.served
    BY <2>6, <2>7 DEF Request
  <2> QED  BY <1>4, <2>5, <2>8, NoneAssumption DEF a
<1>9. /\ tasks' = [TasksSee(tasks, k.tag, acts) EXCEPT ![t].call = call]
      /\ records' = [n \in Nodes |->
            IF records[n] # None /\ records[n].tag = k.tag
            THEN [records[n] EXCEPT !.acts = acts] ELSE records[n]]
      /\ UNCHANGED <<file, cluster>>
  BY DEF SendUndeploy, acts, o
<1> HIDE DEF call
<1>10. /\ \A u \in Tasks : tasks'[u].kind = tasks[u].kind
       /\ tasks'[t].node = k.node /\ tasks'[t].tag = k.tag
       /\ tasks'[t].orig = k.orig /\ tasks'[t].todo = k.todo
       /\ tasks'[t].finalNs = k.finalNs
       /\ tasks'[t].acts = acts /\ tasks'[t].call = call
  BY <1>1, <1>9 DEF TasksSee, TypeOK, Task
<1>11. \A u \in Tasks : u # t => tasks'[u].kind = "idle"
  BY <1>1, <1>2, <1>10, OthersIdle
<1> HIDE DEF k
<1>12. ASSUME NEW n \in Nodes, records[n] # None
       PROVE  /\ records'[n] # None /\ records'[n].tag = records[n].tag
              /\ records'[n].orig = records[n].orig
              /\ SamePlaces(records'[n].acts, records[n].acts)
  <2>1. records[n] \in Record
    BY <1>1, <1>12 DEF TypeOK
  <2>2. CASE records[n].tag = k.tag
    <3>1. records[n].acts = k.acts
      BY <1>1, <1>12, <2>2 DEF SharedMaps, k
    <3>2. records'[n] = [records[n] EXCEPT !.acts = acts]
      BY <1>9, <1>12, <2>2
    <3>3. [records[n] EXCEPT !.acts = acts] \in Record
      BY <1>5, <2>1 DEF Record
    <3>4. /\ records'[n] # None /\ records'[n].tag = records[n].tag
          /\ records'[n].orig = records[n].orig /\ records'[n].acts = acts
      BY <2>1, <3>2, <3>3, NoneAssumption DEF Record
    <3> QED  BY <1>4, <3>1, <3>4
  <2>3. CASE records[n].tag # k.tag
    BY <1>9, <1>12, <2>3 DEF SamePlaces
  <2> QED  BY <2>2, <2>3
<1>13. FileAgrees'
  <2>1. ASSUME NEW n \in Nodes, records'[n] # None
        PROVE  /\ file[n] # None /\ file[n].orig = records'[n].orig
               /\ SamePlaces(file[n].acts, records'[n].acts)
    <3>1. records[n] # None
      BY <1>9, <2>1
    <3>2. /\ file[n] # None /\ file[n].orig = records[n].orig
          /\ SamePlaces(file[n].acts, records[n].acts)
      BY <1>1, <3>1 DEF FileAgrees
    <3>3. /\ records'[n].orig = records[n].orig
          /\ SamePlaces(records'[n].acts, records[n].acts)
      BY <1>12, <3>1
    <3> QED  BY <3>2, <3>3 DEF SamePlaces
  <2>2. file' = file
    BY <1>9
  <2> QED  BY <2>1, <2>2 DEF FileAgrees
<1>14. OriginalsAgree' /\ ObjectsNamed'
  BY <1>9, SameFile
<1>15. OneTask'
  BY <1>11 DEF OneTask
<1>16. TaskPlaces'
  <2>1. records[k.node].tag = k.tag
        /\ \A s \in Res : k.finalNs[s] # None => k.finalNs[s] = Place(s, k.acts[s])
    BY <1>1, <1>2 DEF TaskPlaces, k
  <2>2. /\ records'[k.node] # None /\ records'[k.node].tag = k.tag
    BY <1>3, <1>12, <2>1
  <2>3. \A s \in Res : k.finalNs[s] # None => k.finalNs[s] = Place(s, acts[s])
    BY <1>4, <2>1 DEF SamePlaces
  <2> QED  BY <1>3, <1>8, <1>10, <1>11, <2>2, <2>3 DEF TaskPlaces
<1>17. Gone'
  <2>1. ASSUME NEW s \in Listed(acts), s \notin k.todo
        PROVE  cluster'[ObjectAt(s, Place(s, acts[s]))] = None
    <3>1. Place(s, acts[s]) = Place(s, k.acts[s]) /\ s \in Listed(k.acts)
      BY <1>4, <2>1 DEF SamePlaces, Listed
    <3>2. cluster[ObjectAt(s, Place(s, k.acts[s]))] = None
      BY <1>1, <1>2, <2>1, <3>1 DEF Gone, k
    <3> QED  BY <1>9, <3>1, <3>2
  <2> QED  BY <1>8, <1>10, <1>11, <2>1 DEF Gone
<1> QED  BY <1>13, <1>14, <1>15, <1>16, <1>17 DEF FileFollows

\* A deploy that succeeded notes the namespaces it used.
LEMMA DeployedCareful ==
    ASSUME CarefulInv, NEW t \in Tasks, Deployed(t)
    PROVE  FileFollows'
<1> DEFINE k == tasks[t]
           n == k.node
           orig == WithFinalNs(records[n].orig, k.finalNs)
           rec == [records[n] EXCEPT !.status = "Deployed", !.orig = orig]
<1>1. /\ TypeOK /\ TypeOK' /\ TasksWellFormed /\ SharedMaps /\ DownIsEmpty
      /\ RecordsDurable /\ FileAgrees /\ OriginalsAgree /\ ObjectsNamed
      /\ OneTask /\ TaskPlaces
  BY DeployedInv DEF CarefulInv, IInv, FileFollows
<1>2. /\ k \in Task /\ k.kind = "deploy" /\ records[n] # None
      /\ file' = Persisted(records') /\ cluster' = cluster
      /\ tasks' = [tasks EXCEPT ![t] = Idle]
  BY <1>1 DEF Deployed, TypeOK
<1>3. n \in Nodes /\ up /\ records[n] \in Record /\ records[n].acts = k.acts
  BY <1>1, <1>2 DEF TasksWellFormed, DownIsEmpty, Idle, TypeOK, TaskPlaces, SharedMaps
<1>4. /\ records \in [Nodes -> Record \cup {None}]
      /\ records' \in [Nodes -> Record \cup {None}] /\ tasks \in [Tasks -> Task]
  BY <1>1 DEF TypeOK
<1>5. records' = [records EXCEPT ![n] = rec]
  BY <1>2, <1>3, <1>4 DEF Deployed, Record
<1>6. orig \in Originals
  <2>1. k.finalNs \in [Res -> Namespaces \cup {None}] /\ records[n].orig \in Originals
    BY <1>2, <1>3 DEF Task, Record
  <2> QED  BY <2>1 DEF WithFinalNs, Originals, Original
<1>7. \A r \in Res : orig[r] # None /\ orig[r].ns # NoNs =>
         orig[r].ns = Place(r, file[n].acts[r])
  <2>1. ASSUME NEW r \in Res, orig[r] # None, orig[r].ns # NoNs
        PROVE  orig[r].ns = Place(r, file[n].acts[r])
    <3>1. /\ file[n] # None /\ file[n].orig = records[n].orig
          /\ Place(r, file[n].acts[r]) = Place(r, k.acts[r])
      BY <1>1, <1>2, <1>3 DEF FileAgrees, SamePlaces
    <3>2. CASE records[n].orig[r] # None /\ k.finalNs[r] # None
      <4>1. records[n].orig[r] \in Original
        BY <1>3, <3>2 DEF Record, Originals
      <4>2. orig[r] = [records[n].orig[r] EXCEPT !.ns = k.finalNs[r]]
        BY <3>2 DEF WithFinalNs
      <4>3. orig[r].ns = k.finalNs[r]
        BY <4>1, <4>2 DEF Original
      <4>4. k.finalNs[r] = Place(r, k.acts[r])
        BY <1>1, <1>2, <3>2 DEF TaskPlaces
      <4> QED  BY <3>1, <4>3, <4>4
    <3>3. CASE ~(records[n].orig[r] # None /\ k.finalNs[r] # None)
      <4>1. orig[r] = records[n].orig[r]
        BY <3>3 DEF WithFinalNs
      <4> QED  BY <1>1, <1>3, <2>1, <3>1, <4>1 DEF OriginalsAgree
    <3> QED  BY <3>2, <3>3
  <2> QED  BY <2>1
<1> HIDE DEF orig
<1>8. rec # None /\ rec.acts = records[n].acts /\ rec.orig = orig
  <2>1. rec \in Record
    BY <1>3, <1>6 DEF Record, Statuses
  <2> QED  BY <1>3, <2>1, NoneAssumption DEF Record
<1> HIDE DEF rec
<1>9. /\ records'[n] = rec
      /\ \A m \in Nodes : m # n => records'[m] = records[m]
  BY <1>3, <1>4, <1>5
<1> HIDE DEF k, n
<1>10. ASSUME NEW m \in Nodes, file[m] # None
       PROVE  /\ file'[m] # None /\ SamePlaces(file'[m].acts, file[m].acts)
              /\ m # n => file'[m].orig = file[m].orig
              /\ m = n => file'[m].orig = orig
  <2>1. records[m] # None
    BY <1>1, <1>3, <1>10 DEF RecordsDurable
  <2>2. /\ records'[m] # None /\ records'[m].acts = records[m].acts
        /\ m # n => records'[m] = records[m]
        /\ m = n => records'[m].orig = orig
    BY <1>8, <1>9, <2>1
  <2> QED  BY <1>2, <1>4, <2>1, <2>2, PersistSame
<1>11. FileAgrees'
  BY <1>1, <1>2, <1>4, PersistAgrees
<1>12. OriginalsAgree'
  <2>1. ASSUME NEW m \in Nodes, file'[m] # None, NEW r \in Res,
               file'[m].orig[r] # None, file'[m].orig[r].ns # NoNs
        PROVE  file'[m].orig[r].ns = Place(r, file'[m].acts[r])
    <3>1. records'[m] # None
      BY <1>1, <1>2, <1>4, <2>1, PersistedKeeps
    <3>2. records[m] # None
      BY <1>2, <1>9, <3>1 DEF n, k
    <3>3. file[m] # None
      BY <1>1, <3>2 DEF FileAgrees
    <3>4. Place(r, file'[m].acts[r]) = Place(r, file[m].acts[r])
      BY <1>10, <3>3 DEF SamePlaces
    <3>5. CASE m = n
      BY <1>7, <1>10, <2>1, <3>3, <3>4, <3>5
    <3>6. CASE m # n
      <4>1. file'[m].orig = file[m].orig
        BY <1>10, <3>3, <3>6
      <4> QED  BY <1>1, <2>1, <3>3, <3>4, <4>1 DEF OriginalsAgree
    <3> QED  BY <3>5, <3>6
  <2> QED  BY <2>1 DEF OriginalsAgree
<1>13. ObjectsNamed'
  <2>1. ASSUME NEW obj \in Object, cluster[obj] # None
        PROVE  \E m \in Nodes, r \in Res : Names(file'[m], r, obj)
    <3>1. PICK m \in Nodes, r \in Res : Names(file[m], r, obj)
      BY <1>1, <2>1 DEF ObjectsNamed
    <3>2. Names(file'[m], r, obj)
      BY <1>10, <3>1, NamesSame DEF Names
    <3> QED  BY <3>2
  <2> QED  BY <1>2, <2>1 DEF ObjectsNamed
<1>14. \A u \in Tasks : tasks'[u].kind = "idle"
  BY <1>1, <1>2, <1>4, OthersIdle DEF Idle, k
<1> QED  BY <1>11, <1>12, <1>13, <1>14, AllEnded DEF FileFollows

\* An undeploy drops its record when everything the record names is gone.
LEMMA UndeployedCareful ==
    ASSUME CarefulInv, NEW t \in Tasks, Undeployed(t)
    PROVE  FileFollows'
<1> DEFINE k == tasks[t]
           n == k.node
<1>1. /\ TypeOK /\ TasksWellFormed /\ SharedMaps /\ DownIsEmpty
      /\ RecordsDurable /\ FileAgrees /\ OriginalsAgree /\ ObjectsNamed
      /\ OneTask /\ TaskPlaces /\ Gone
  BY DEF CarefulInv, IInv, FileFollows
<1>2. /\ k \in Task /\ k.kind = "undeploy" /\ k.todo = {} /\ cluster' = cluster
      /\ Remove(t, n)
  BY <1>1 DEF Undeployed, TypeOK
<1>3. n \in Nodes /\ up /\ records[n] # None /\ records[n].acts = k.acts
  BY <1>1, <1>2 DEF TasksWellFormed, DownIsEmpty, Idle, TaskPlaces, SharedMaps
<1>4. /\ records' = [records EXCEPT ![n] = None] /\ file' = Persisted(records')
      /\ tasks' = KeepDetail([tasks EXCEPT ![t] = Idle], n)
  BY <1>2, <1>3 DEF Remove
<1>5. /\ records \in [Nodes -> Record \cup {None}]
      /\ records' \in [Nodes -> Record \cup {None}] /\ tasks \in [Tasks -> Task]
  BY <1>1, <1>4 DEF TypeOK
<1>6. \A u \in Tasks : tasks'[u].kind = "idle"
  <2>1. tasks'[t].kind = "idle"
    BY <1>4, <1>5 DEF KeepDetail, Idle
  <2>2. ASSUME NEW u \in Tasks, u # t
        PROVE  tasks'[u].kind = "idle"
    <3>1. tasks[u].kind = "idle"
      BY <1>1, <1>2, <2>2, OthersIdle
    <3> QED  BY <1>4, <1>5, <2>2, <3>1 DEF KeepDetail
  <2> QED  BY <2>1, <2>2
<1>7. records'[n] = None /\ \A m \in Nodes : m # n => records'[m] = records[m]
  BY <1>3, <1>4, <1>5
<1>8. FileAgrees'
  BY <1>1, <1>4, <1>5, PersistAgrees
<1> HIDE DEF k, n
<1>9. ASSUME NEW m \in Nodes, m # n, file[m] # None
      PROVE  /\ file'[m] # None /\ file'[m].orig = file[m].orig
             /\ SamePlaces(file'[m].acts, file[m].acts)
  <2>1. records[m] # None /\ records'[m] = records[m]
    BY <1>1, <1>3, <1>7, <1>9 DEF RecordsDurable
  <2> QED  BY <1>4, <1>5, <2>1, PersistSame
<1>10. OriginalsAgree'
  <2>1. ASSUME NEW m \in Nodes, file'[m] # None, NEW r \in Res,
               file'[m].orig[r] # None, file'[m].orig[r].ns # NoNs
        PROVE  file'[m].orig[r].ns = Place(r, file'[m].acts[r])
    <3>1. records'[m] # None
      BY <1>1, <1>4, <1>5, <2>1, PersistedKeeps
    <3>2. m # n /\ file[m] # None
      BY <1>1, <1>7, <3>1 DEF FileAgrees
    <3>3. /\ file'[m].orig = file[m].orig
          /\ Place(r, file'[m].acts[r]) = Place(r, file[m].acts[r])
      BY <1>9, <3>2 DEF SamePlaces
    <3> QED  BY <1>1, <2>1, <3>2, <3>3 DEF OriginalsAgree
  <2> QED  BY <2>1 DEF OriginalsAgree
<1>11. ObjectsNamed'
  <2>1. ASSUME NEW obj \in Object, cluster[obj] # None
        PROVE  \E m \in Nodes, r \in Res : Names(file'[m], r, obj)
    <3>1. PICK m \in Nodes, r \in Res : Names(file[m], r, obj)
      BY <1>1, <2>1 DEF ObjectsNamed
    <3>2. m # n
      <4>1. SUFFICES ASSUME m = n PROVE FALSE
        OBVIOUS
      <4>2. Place(r, file[n].acts[r]) = Place(r, k.acts[r])
        BY <1>1, <1>3 DEF FileAgrees, SamePlaces
      <4>3. r \in Listed(k.acts) /\ obj = ObjectAt(r, Place(r, k.acts[r]))
        BY <3>1, <4>1, <4>2 DEF Names, Place, Listed
      <4>4. cluster[ObjectAt(r, Place(r, k.acts[r]))] = None
        BY <1>1, <1>2, <4>3 DEF Gone, k
      <4> QED  BY <2>1, <4>3, <4>4
    <3>3. Names(file'[m], r, obj)
      BY <1>9, <3>1, <3>2, NamesSame DEF Names
    <3> QED  BY <3>3
  <2> QED  BY <1>2, <2>1 DEF ObjectsNamed
<1> QED  BY <1>6, <1>8, <1>10, <1>11, AllEnded DEF FileFollows

\* The end of the process touches neither file nor cluster ...
LEMMA DiedCareful ==
    ASSUME CarefulInv, Died
    PROVE  FileFollows'
<1>1. \A t \in Tasks : tasks'[t].kind = "idle"
  BY DEF Died, Idle
<1>2. FileAgrees'
  BY DEF Died, FileAgrees
<1>3. OriginalsAgree' /\ ObjectsNamed'
  BY SameFile DEF Died
<1> QED  BY <1>1, <1>2, <1>3, AllEnded DEF FileFollows

\* ... and the restart reads the file.
LEMMA RestartCareful ==
    ASSUME CarefulInv, Restart
    PROVE  FileFollows'
<1>1. \A t \in Tasks : tasks'[t].kind = "idle"
  BY DEF CarefulInv, IInv, DownIsEmpty, Restart, Idle
<1>2. file' = file /\ cluster' = cluster
  BY DEF Restart
<1>3. ASSUME NEW n \in Nodes, records'[n] # None
      PROVE  /\ file[n] # None /\ file[n].orig = records'[n].orig
             /\ file[n].acts = records'[n].acts
  BY <1>3 DEF Restart, Loaded
<1>4. FileAgrees'
  BY <1>2, <1>3 DEF FileAgrees, SamePlaces
<1> QED  BY <1>1, <1>2, <1>4, SameFile, AllEnded DEF FileFollows

-----------------------------------------------------------------------------
(* The texts in use stay those of their resources.                          *)

\* A step after which everyone holds texts of the resource.
LEMMA TextsStep ==
    ASSUME TypeOK, \A r \in Res : cr'[r] \in Texts[r],
           records' \in [Nodes -> Record \cup {None}],
           \A n \in Nodes : records'[n] # None => OwnTexts(records'[n].acts),
           \A t \in Tasks : OwnTexts(tasks'[t].acts) /\ OwnCall(tasks'[t]),
           \/ TextsKept /\ file' = file
           \/ TextsKept /\ cr' = cr /\ file' = Persisted(records')
    PROVE  TextsKept'
<1>1. ASSUME NEW n \in Nodes, file'[n] # None
      PROVE  OwnTexts(file'[n].acts)
  <2>1. CASE TextsKept /\ file' = file
    BY <1>1, <2>1 DEF TextsKept
  <2>2. CASE TextsKept /\ file' = Persisted(records')
    <3>1. records'[n] # None
      BY <1>1, <2>2, PersistedKeeps
    <3> QED  BY <2>2, <3>1, PersistedPlaces
  <2> QED  BY <2>1, <2>2
<1> QED  BY <1>1 DEF TextsKept

\* Nobody's idle slot holds a text.
LEMMA IdleTexts == OwnTexts(Nothing) /\ OwnTexts(Idle.acts) /\ OwnCall(Idle)
BY DEF Idle, Nothing, OwnTexts, OwnCall, Listed

LEMMA EditTexts ==
    ASSUME TypeOK, TextsKept, EditStep
    PROVE  TextsKept'
<1>1. file' = file
  BY DEF EditStep, EditCr, EditOld, RemoveResource, AddResource, ReloadCollection,
         SetDefaultNs
<1>2. CASE UNCHANGED <<records, tasks, cr>>
  BY <1>1, <1>2 DEF TextsKept
<1>3. ASSUME NEW r \in Res, NEW text \in Crs, EditCr(r, text)
      PROVE  TextsKept'
  <2>1. UNCHANGED <<records, tasks>> /\ cr' = [cr EXCEPT ![r] = text] /\ text \in Texts[r]
    BY <1>3 DEF EditCr
  <2>2. \A x \in Res : cr'[x] \in Texts[x]
    BY <2>1 DEF TypeOK, TextsKept
  <2> QED  BY <1>1, <2>1, <2>2 DEF TextsKept
<1>4. CASE InstanceStep
  <2>1. PICK refs, gone : \E new \in [Res -> Crs] :
           /\ RefsOfResources(refs)
           /\ \A r \in Res : new[r] = cr[r] \/ new[r] \in Texts[r]
           /\ InstancesHave(refs, new, gone)
    BY <1>4, InstanceSteps DEF InstancesGet
  <2>2. PICK new \in [Res -> Crs] :
           /\ RefsOfResources(refs)
           /\ \A r \in Res : new[r] = cr[r] \/ new[r] \in Texts[r]
           /\ InstancesHave(refs, new, gone)
    BY <2>1
  <2>3. \A r \in Res : new[r] \in Texts[r]
    BY <2>2 DEF TextsKept
  <2>4. cr' = cr
    BY <1>4 DEF InstanceStep, EditOld, RemoveResource, ReloadCollection, userVars
  <2>5. ASSUME NEW n \in Nodes, records'[n] # None
        PROVE  OwnTexts(records'[n].acts)
    <3> DEFINE acts == Retext(records[n].acts, records[n].tag, refs, new)
    <3>1. records[n] # None /\ records[n] \in Record
      BY <2>2, <2>5 DEF InstancesHave, TypeOK
    <3>2. \E src : records'[n] = [records[n] EXCEPT !.acts = acts, !.src = src]
      BY <2>2, <3>1 DEF InstancesHave
    <3>3. OwnTexts(records[n].acts) /\ records[n].acts \in ActionMap
      BY <3>1 DEF TextsKept, Record
    <3>4. OwnTexts(acts)
      BY <2>3, <3>3, RetextPlaces
    <3> HIDE DEF acts
    <3> QED  BY <3>1, <3>2, <3>4 DEF Record
  <2>6. ASSUME NEW t \in Tasks
        PROVE  OwnTexts(tasks'[t].acts) /\ OwnCall(tasks'[t])
    <3> DEFINE acts == Retext(tasks[t].acts, tasks[t].tag, refs, new)
    <3>1. tasks'[t] = [tasks[t] EXCEPT !.acts = acts] /\ tasks[t] \in Task
      BY <2>2 DEF InstancesHave, TypeOK
    <3>2. OwnTexts(tasks[t].acts) /\ OwnCall(tasks[t]) /\ tasks[t].acts \in ActionMap
      BY <3>1 DEF TextsKept, Task
    <3>3. OwnTexts(acts)
      BY <2>3, <3>2, RetextPlaces
    <3> HIDE DEF acts
    <3>4. tasks'[t].acts = acts /\ tasks'[t].call = tasks[t].call
      BY <3>1 DEF Task
    <3> QED  BY <3>2, <3>3, <3>4 DEF OwnCall
  <2>7. \A r \in Res : cr'[r] \in Texts[r]
    BY <2>4 DEF TextsKept
  <2> QED  BY <1>1, <2>5, <2>6, <2>7 DEF TextsKept
<1> QED  BY <1>2, <1>3, <1>4 DEF EditStep, AddResource, SetDefaultNs, InstanceStep

\* A click reads its texts from the node or from the record.
LEMMA ClickTexts ==
    ASSUME TypeOK, TypeOK', TextsKept, NEW t \in Tasks, NEW n \in Nodes,
           DeployNew(t, n) \/ Undeploy(t, n)
    PROVE  TextsKept'
<1>1. /\ tasks \in [Tasks -> Task] /\ records' \in [Nodes -> Record \cup {None}]
      /\ records \in [Nodes -> Record \cup {None}]
  BY DEF TypeOK
<1>2. cr' = cr /\ \A r \in Res : cr'[r] \in Texts[r]
  BY DEF DeployNew, Undeploy, userVars, TextsKept
<1>3. \A u \in Tasks : OwnTexts(tasks[u].acts) /\ OwnCall(tasks[u])
  BY DEF TextsKept
<1>4. ASSUME NEW k, tasks' = [tasks EXCEPT ![t] = k], OwnTexts(k.acts), OwnCall(k)
      PROVE  \A u \in Tasks : OwnTexts(tasks'[u].acts) /\ OwnCall(tasks'[u])
  BY <1>1, <1>3, <1>4
<1>5. CASE Undeploy(t, n)
  <2> DEFINE k == [Idle EXCEPT !.kind = "undeploy", !.node = n,
                               !.tag = records[n].tag, !.acts = records[n].acts,
                               !.todo = Listed(records[n].acts)]
  <2>1. /\ tasks' = [tasks EXCEPT ![t] = k] /\ records[n] # None
        /\ records' = records /\ file' = file
    BY <1>5 DEF Undeploy
  <2>2. k.acts = records[n].acts /\ k.call = None
    BY DEF Idle
  <2> HIDE DEF k
  <2>3. OwnTexts(k.acts) /\ OwnCall(k)
    BY <2>1, <2>2 DEF TextsKept, OwnCall
  <2>4. \A u \in Tasks : OwnTexts(tasks'[u].acts) /\ OwnCall(tasks'[u])
    BY <1>4, <2>1, <2>3
  <2> QED  BY <1>2, <2>1, <2>4 DEF TextsKept
<1>6. CASE DeployNew(t, n)
  <2> DEFINE tag == CHOOSE g \in FreeTags(records) : TRUE
             acts == NewActions(n, Live)
             rec == [tag |-> tag, acts |-> acts, orig |-> NewOriginals(n, Live),
                     status |-> "InDeploy", src |-> Live]
  <2>1. /\ records' = [records EXCEPT ![n] = rec] /\ file' = Persisted(records')
        /\ StartTask(t, tasks, n, tag, acts, TRUE)
    BY <1>6 DEF DeployNew
  <2>2. OwnTexts(acts)
    BY NoneAssumption DEF OwnTexts, Listed, NewActions
  <2>3. rec.acts = acts
    OBVIOUS
  <2> HIDE DEF rec, acts, tag
  <2>4. \A m \in Nodes : records'[m] # None => OwnTexts(records'[m].acts)
    BY <1>1, <2>1, <2>2, <2>3 DEF TextsKept
  <2> DEFINE k == [Idle EXCEPT !.kind = "deploy", !.node = n, !.tag = tag,
                               !.acts = acts, !.todo = Listed(acts), !.first = TRUE]
  <2>5. tasks' = tasks \/ tasks' = [tasks EXCEPT ![t] = k]
    BY <2>1 DEF StartTask
  <2>6. k.acts = acts /\ k.call = None
    BY DEF Idle
  <2> HIDE DEF k
  <2>7. OwnTexts(k.acts) /\ OwnCall(k)
    BY <2>2, <2>6 DEF OwnCall
  <2>8. \A u \in Tasks : OwnTexts(tasks'[u].acts) /\ OwnCall(tasks'[u])
    BY <1>3, <1>4, <2>5, <2>7
  <2> QED  BY <1>1, <1>2, <2>1, <2>4, <2>8, TextsStep
<1> QED  BY <1>5, <1>6

\* Only the task that sends changes its call, to one with a text of its action.
LEMMA SendTexts ==
    ASSUME CarefulInv, NEW t \in Tasks, NEW r \in Res,
           SendDeploy(t, r) \/ SendUndeploy(t, r)
    PROVE  TextsKept'
<1>1. TypeOK /\ TextsKept /\ TasksWellFormed /\ SharedMaps
  BY DEF CarefulInv, IInv
<1>2. \A u \in Tasks : /\ tasks[u] \in Task /\ tasks[u].acts \in ActionMap
                       /\ OwnTexts(tasks[u].acts) /\ OwnCall(tasks[u])
  BY <1>1 DEF TypeOK, Task, TextsKept
<1>3. r \in Listed(tasks[t].acts) /\ UNCHANGED <<cr, file>>
  BY <1>1 DEF SendDeploy, SendUndeploy, TasksWellFormed, userVars
<1>4. ASSUME NEW acts, OwnTexts(acts), r \in Listed(acts), NEW ns
      PROVE  LET call == Request(acts[r], r, ns) IN call.text \in Texts[call.res]
  <2>1. Text(acts[r], r) \in Texts[r]
    BY <1>1, <1>4, TextKept
  <2> QED  BY <2>1 DEF Request
<1>5. CASE SendDeploy(t, r)
  <2> DEFINE call == Request(tasks[t].acts[r], r, NoNs)
  <2>1. call.text \in Texts[call.res]
    BY <1>2, <1>3, <1>4
  <2>2. tasks' = [tasks EXCEPT ![t].call = call] /\ records' = records
    BY <1>5 DEF SendDeploy
  <2> HIDE DEF call
  <2>3. ASSUME NEW u \in Tasks
        PROVE  OwnTexts(tasks'[u].acts) /\ OwnCall(tasks'[u])
    <3>1. CASE u = t
      <4>1. tasks'[t].acts = tasks[t].acts /\ tasks'[t].call = call
        BY <1>1, <1>2, <2>2 DEF TypeOK, Task
      <4> QED  BY <1>2, <2>1, <3>1, <4>1 DEF OwnCall
    <3>2. CASE u # t
      BY <1>1, <1>2, <2>2, <3>2 DEF TypeOK
    <3> QED  BY <3>1, <3>2
  <2> QED  BY <1>1, <1>3, <2>2, <2>3 DEF TextsKept
<1>6. CASE SendUndeploy(t, r)
  <2> DEFINE acts == [tasks[t].acts EXCEPT ![r].kind = "Delete"]
             call == Request(acts[r], r, OriginalOf(t)[r].ns)
  <2>1. OwnTexts(acts) /\ r \in Listed(acts)
    <3> DEFINE m == tasks[t].acts
    <3>1. m \in ActionMap /\ r \in Listed(m) /\ OwnTexts(m)
      BY <1>2, <1>3
    <3> HIDE DEF m
    <3>2. LET marked == [m EXCEPT ![r].kind = "Delete"] IN
          OwnTexts(marked) /\ r \in Listed(marked)
      BY <3>1, MarkPlaces, MarkKeeps
    <3> QED  BY <3>2 DEF m
  <2>2. /\ records' = [n \in Nodes |->
                IF records[n] # None /\ records[n].tag = tasks[t].tag
                THEN [records[n] EXCEPT !.acts = acts] ELSE records[n]]
        /\ tasks' = [TasksSee(tasks, tasks[t].tag, acts) EXCEPT ![t].call = call]
    BY <1>6 DEF SendUndeploy
  <2> HIDE DEF acts
  <2>3. call.text \in Texts[call.res]
    BY <1>4, <2>1
  <2> HIDE DEF call
  <2>4. ASSUME NEW u \in Tasks
        PROVE  OwnTexts(tasks'[u].acts) /\ OwnCall(tasks'[u])
    <3>1. /\ tasks'[u].acts \in {acts, tasks[u].acts}
          /\ tasks'[u].call = IF u = t THEN call ELSE tasks[u].call
      BY <1>2, <2>2 DEF TasksSee, Task
    <3> QED  BY <1>2, <2>1, <2>3, <3>1 DEF OwnCall
  <2>5. ASSUME NEW n \in Nodes, records'[n] # None
        PROVE  OwnTexts(records'[n].acts)
    <3>1. CASE records[n] # None /\ records[n].tag = tasks[t].tag
      <4>1. records[n] \in Record
        BY <1>1, <3>1 DEF TypeOK
      <4>2. records'[n] = [records[n] EXCEPT !.acts = acts]
        BY <2>2, <3>1
      <4> QED  BY <2>1, <4>1, <4>2 DEF Record
    <3>2. CASE ~(records[n] # None /\ records[n].tag = tasks[t].tag)
      <4>1. records'[n] = records[n]
        BY <2>2, <3>2
      <4> QED  BY <1>1, <2>5, <4>1 DEF TextsKept
    <3> QED  BY <3>1, <3>2
  <2> QED  BY <1>1, <1>3, <2>4, <2>5 DEF TextsKept
<1> QED  BY <1>5, <1>6

\* A task that removes its record or ends otherwise changes no text.
LEMMA EndTexts ==
    ASSUME TypeOK, TypeOK', TextsKept, NEW t \in Tasks, Deployed(t) \/ Undeployed(t)
    PROVE  TextsKept'
<1>1. /\ tasks \in [Tasks -> Task] /\ tasks[t] \in Task
      /\ records \in [Nodes -> Record \cup {None}]
      /\ records' \in [Nodes -> Record \cup {None}]
  BY DEF TypeOK
<1>2. cr' = cr /\ \A r \in Res : cr'[r] \in Texts[r]
  BY DEF Deployed, Undeployed, userVars, TextsKept
<1>3. \A u \in Tasks : OwnTexts(tasks[u].acts) /\ OwnCall(tasks[u])
  BY DEF TextsKept
<1> DEFINE ts == [tasks EXCEPT ![t] = Idle]
<1>4. \A u \in Tasks : ts[u] \in Task /\ OwnTexts(ts[u].acts) /\ OwnCall(ts[u])
  BY <1>1, <1>3, IdleTexts, IdleType
<1>5. CASE Deployed(t)
  <2> DEFINE n == tasks[t].node
             orig == WithFinalNs(records[n].orig, tasks[t].finalNs)
             rec == [records[n] EXCEPT !.status = "Deployed", !.orig = orig]
  <2>1. /\ records[n] # None /\ file' = Persisted(records') /\ tasks' = ts
        /\ records' = [records EXCEPT ![n].status = "Deployed", ![n].orig = orig]
    BY <1>5 DEF Deployed
  <2>2. ASSUME NEW m \in Nodes, records'[m] # None
        PROVE  OwnTexts(records'[m].acts)
    <3>1. records[m] # None /\ records[m] \in Record
      BY <1>1, <2>1, <2>2
    <3> HIDE DEF n, orig
    <3>2. records'[m].acts = records[m].acts
      BY <1>1, <2>1, <3>1 DEF Record
    <3> QED  BY <3>1, <3>2 DEF TextsKept
  <2> QED  BY <1>1, <1>2, <1>4, <2>1, <2>2, TextsStep
<1>6. CASE Undeployed(t)
  <2> DEFINE n == tasks[t].node
  <2>1. Remove(t, n)
    BY <1>6 DEF Undeployed
  <2>2. CASE records[n] = None
    <3>1. tasks' = ts /\ UNCHANGED <<records, file>>
      BY <2>1, <2>2 DEF Remove
    <3> QED  BY <1>1, <1>2, <1>4, <3>1 DEF TextsKept
  <2>3. CASE records[n] # None
    <3>1. /\ records' = [records EXCEPT ![n] = None] /\ file' = Persisted(records')
          /\ tasks' = KeepDetail(ts, n)
      BY <2>1, <2>3 DEF Remove
    <3> HIDE DEF ts, n
    <3>2. \A m \in Nodes : records'[m] # None => OwnTexts(records'[m].acts)
      BY <1>1, <3>1 DEF TextsKept
    <3>3. \A u \in Tasks : tasks'[u].acts = ts[u].acts /\ tasks'[u].call = ts[u].call
      BY <1>4, <3>1 DEF KeepDetail, Task
    <3>4. \A u \in Tasks : OwnTexts(tasks'[u].acts) /\ OwnCall(tasks'[u])
      BY <1>4, <3>3 DEF OwnCall
    <3> QED  BY <1>1, <1>2, <3>1, <3>2, <3>4, TextsStep
  <2> QED  BY <2>2, <2>3
<1> QED  BY <1>5, <1>6

\* The other steps of a careful user leave the texts where they are.
LEMMA OtherTexts ==
    ASSUME TypeOK, TypeOK', TextsKept,
           \/ \E t \in Tasks : Serve(t) \/ Succeeded(t) \/ NotFound(t)
           \/ Died \/ Restart \/ UNCHANGED vars
    PROVE  TextsKept'
<1>1. ASSUME NEW t \in Tasks, Serve(t) \/ Succeeded(t) \/ NotFound(t)
      PROVE  TextsKept'
  <2> DEFINE c == tasks[t].call
  <2>1. tasks \in [Tasks -> Task] /\ tasks[t] \in Task /\ UNCHANGED <<cr, records, file>>
    BY <1>1 DEF TypeOK, Serve, Succeeded, NotFound, UndeployFailed, userVars
  <2>2. \A u \in Tasks : u # t => tasks'[u] = tasks[u]
    BY <1>1, <2>1 DEF Serve, Succeeded, NotFound, UndeployFailed
  <2>3. /\ tasks'[t].acts = tasks[t].acts
        /\ tasks'[t].call = None \/ (c \in Call /\ tasks'[t].call = [c EXCEPT !.served = TRUE])
    <3>1. CASE Serve(t)
      <4>1. tasks'[t] = [tasks[t] EXCEPT !.call = [c EXCEPT !.served = TRUE]] /\ c # None
        BY <2>1, <3>1 DEF Serve
      <4>2. c \in Call
        BY <2>1, <4>1 DEF Task
      <4> HIDE DEF c
      <4> QED  BY <2>1, <4>1, <4>2 DEF Task
    <3>2. CASE Succeeded(t)
      BY <2>1, <3>2 DEF Succeeded, Task
    <3>3. CASE NotFound(t)
      BY <2>1, <3>3 DEF NotFound, UndeployFailed, Task
    <3> QED  BY <1>1, <3>1, <3>2, <3>3
  <2>4. c \in Call => /\ [c EXCEPT !.served = TRUE].text = c.text
                      /\ [c EXCEPT !.served = TRUE].res = c.res /\ c # None
    BY NoneAssumption DEF Call
  <2>5. OwnTexts(tasks[t].acts) /\ OwnCall(tasks[t])
    BY DEF TextsKept
  <2>6. OwnTexts(tasks'[t].acts) /\ OwnCall(tasks'[t])
    BY <2>3, <2>4, <2>5 DEF OwnCall
  <2> QED  BY <2>1, <2>2, <2>6 DEF TextsKept
<1>2. CASE Died
  <2>1. \A t \in Tasks : tasks'[t] = Idle
    BY <1>2 DEF Died
  <2>2. UNCHANGED <<cr, file>> /\ \A n \in Nodes : records'[n] = None
    BY <1>2 DEF Died, userVars
  <2> QED  BY <2>1, <2>2, IdleTexts DEF TextsKept
<1>3. CASE Restart
  <2>1. UNCHANGED <<cr, file, tasks>>
    BY <1>3 DEF Restart, userVars
  <2>2. \A n \in Nodes : records'[n] # None =>
           file[n] # None /\ records'[n].acts = file[n].acts
    BY <1>3 DEF Restart, Loaded
  <2> QED  BY <2>1, <2>2 DEF TextsKept
<1>4. CASE UNCHANGED vars
  BY <1>4 DEF vars, TextsKept
<1> QED  BY <1>1, <1>2, <1>3, <1>4

-----------------------------------------------------------------------------
(* What a careful user's file names is the whole cluster.                   *)

LEMMA InitCareful == Init => CarefulInv
<1> SUFFICES ASSUME Init PROVE CarefulInv
  OBVIOUS
<1>1. FileAgrees /\ OriginalsAgree /\ ObjectsNamed
  BY DEF Init, FileAgrees, OriginalsAgree, ObjectsNamed
<1>2. OneTask /\ TaskPlaces /\ Gone
  BY DEF Init, Idle, OneTask, TaskPlaces, Gone
<1>3. TextsKept
  BY IdleTexts DEF Init, TextsKept
<1> QED  BY <1>1, <1>2, <1>3, InitInv DEF CarefulInv, FileFollows

\* A careful user is a user.
LEMMA CarefulIsNext == [CarefulNext(Nodes)]_vars => [Next]_vars
BY DEF CarefulNext, Next, ClickStep, NotFound, FailStep

LEMMA CarefulIsSpec == CarefulSpec => Spec
BY CarefulIsNext, PTL DEF CarefulSpec, Spec

LEMMA NextCareful ==
    ASSUME OneIdentity, CarefulInv, [CarefulNext(Nodes)]_vars
    PROVE  CarefulInv'
<1>1. ASSUME NEW t \in Tasks, TaskStep(t)
      PROVE  FileFollows'
  <2>1. ASSUME NEW r \in Res, SendDeploy(t, r)
        PROVE  FileFollows'
    BY <2>1, SendDeployCareful
  <2>2. ASSUME NEW r \in Res, SendUndeploy(t, r)
        PROVE  FileFollows'
    BY <2>2, SendUndeployCareful
  <2>3. CASE UndeployPanics(t) \/ DeployedPanics(t)
    BY <2>3, DiedCareful DEF UndeployPanics, DeployedPanics
  <2>4. CASE Serve(t)
    BY <2>4, ServeCareful
  <2>5. CASE Succeeded(t)
    BY <2>5, SucceededCareful
  <2>6. CASE Deployed(t)
    BY <2>6, DeployedCareful
  <2>7. CASE Undeployed(t)
    BY <2>7, UndeployedCareful
  <2> QED
    BY <1>1, <2>1, <2>2, <2>3, <2>4, <2>5, <2>6, <2>7 DEF TaskStep
<1>2. ASSUME AllIdle, NEW n \in Nodes, NEW t \in Tasks, DeployNew(t, n) \/ Undeploy(t, n)
      PROVE  FileFollows'
  BY <1>2, DeployNewCareful, UndeployCareful
<1>3. ASSUME UNCHANGED vars
      PROVE  FileFollows'
  <2>1. UNCHANGED <<records, file, cluster, tasks>>
    BY <1>3 DEF vars
  <2>2. FileAgrees' /\ OriginalsAgree' /\ ObjectsNamed'
    BY <2>1, SameFile DEF CarefulInv, FileFollows, FileAgrees
  <2>3. OneTask'
    BY <2>1 DEF CarefulInv, FileFollows, OneTask
  <2>4. TaskPlaces'
    BY <2>1 DEF CarefulInv, FileFollows, TaskPlaces
  <2>5. Gone'
    BY <2>1 DEF CarefulInv, FileFollows, Gone
  <2> QED  BY <2>2, <2>3, <2>4, <2>5 DEF FileFollows
<1>4. FileFollows'
  <2>1. CASE AllIdle /\ EditStep
    BY <2>1, EditCareful
  <2>2. CASE AllIdle /\ \E n \in Nodes, t \in Tasks : DeployNew(t, n) \/ Undeploy(t, n)
    BY <1>2, <2>2
  <2>3. CASE \E t \in Tasks : TaskStep(t) \/ NotFound(t)
    BY <1>1, <2>3, NotFoundCareful
  <2>4. CASE Crash
    BY <2>4, DiedCareful DEF Crash
  <2>5. CASE Restart
    BY <2>5, RestartCareful
  <2>6. \/ AllIdle /\ EditStep
        \/ AllIdle /\ \E n \in Nodes, t \in Tasks : DeployNew(t, n) \/ Undeploy(t, n)
        \/ \E t \in Tasks : TaskStep(t) \/ NotFound(t)
        \/ Crash \/ Restart \/ UNCHANGED vars
    BY DEF CarefulNext
  <2> QED  BY <1>3, <2>1, <2>2, <2>3, <2>4, <2>5, <2>6
<1>5. IInv'
  BY CarefulIsNext, NextInv DEF CarefulInv
<1>6. TypeOK /\ TypeOK' /\ TextsKept
  BY <1>5 DEF CarefulInv, IInv
<1>7. ASSUME NEW t \in Tasks, TaskStep(t)
      PROVE  TextsKept'
  <2>1. ASSUME NEW r \in Res, SendDeploy(t, r) \/ SendUndeploy(t, r)
        PROVE  TextsKept'
    BY <2>1, SendTexts
  <2>2. CASE UndeployPanics(t) \/ DeployedPanics(t)
    BY <1>6, <2>2, OtherTexts DEF UndeployPanics, DeployedPanics
  <2>3. CASE Serve(t) \/ Succeeded(t)
    BY <1>6, <2>3, OtherTexts
  <2>4. CASE Deployed(t) \/ Undeployed(t)
    BY <1>6, <2>4, EndTexts
  <2> QED  BY <1>7, <2>1, <2>2, <2>3, <2>4 DEF TaskStep
<1>8. TextsKept'
  <2>1. CASE EditStep
    BY <1>6, <2>1, EditTexts
  <2>2. CASE \E n \in Nodes, t \in Tasks : DeployNew(t, n) \/ Undeploy(t, n)
    BY <1>6, <2>2, ClickTexts
  <2>3. CASE \E t \in Tasks : TaskStep(t) \/ NotFound(t)
    BY <1>6, <1>7, <2>3, OtherTexts
  <2>4. CASE Crash \/ Restart \/ UNCHANGED vars
    BY <1>6, <2>4, OtherTexts DEF Crash
  <2>5. \/ EditStep
        \/ \E n \in Nodes, t \in Tasks : DeployNew(t, n) \/ Undeploy(t, n)
        \/ \E t \in Tasks : TaskStep(t) \/ NotFound(t)
        \/ Crash \/ Restart \/ UNCHANGED vars
    BY DEF CarefulNext
  <2> QED  BY <2>1, <2>2, <2>3, <2>4, <2>5
<1> QED  BY <1>4, <1>5, <1>8 DEF CarefulInv

\* Where an undeploy looks for an object is where the file puts it.
LEMMA CarefulTracked ==
    ASSUME OneIdentity, CarefulInv
    PROVE  Tracked
<1>1. /\ TypeOK /\ RecordsDurable /\ TextsKept
      /\ FileAgrees /\ OriginalsAgree /\ ObjectsNamed
  BY DEF CarefulInv, IInv, FileFollows
<1>2. ASSUME up, NEW obj \in Object, cluster[obj] # None
      PROVE  \E n \in Nodes : /\ records[n] # None
                              /\ \E r \in Listed(records[n].acts) :
                                    UndeployObject(n, r) = obj
  <2>1. PICK n \in Nodes, r \in Res : Names(file[n], r, obj)
    BY <1>1, <1>2 DEF ObjectsNamed
  <2> DEFINE a == records[n].acts[r]
             o == records[n].orig[r]
             ns == IF o = None THEN NoNs ELSE o.ns
  <2>2. records[n] # None
    BY <1>1, <1>2, <2>1 DEF RecordsDurable, Names
  <2>3. /\ records[n].acts \in ActionMap /\ records[n].orig \in Originals
        /\ OwnTexts(records[n].acts)
    BY <1>1, <2>2 DEF TypeOK, Record, TextsKept
  <2>4. /\ file[n].orig = records[n].orig /\ file[n] # None
        /\ Place(r, file[n].acts[r]) = Place(r, a)
    BY <1>1, <2>2 DEF FileAgrees, SamePlaces
  <2>5. /\ Place(r, a) # None /\ obj = ObjectAt(r, Place(r, a))
    BY <2>1, <2>4 DEF Names
  <2>6. a # None /\ a \in Action
    BY <2>3, <2>5 DEF Place, ActionMap
  <2>7. ns \in Namespaces \cup {NoNs}
    BY <2>3 DEF Originals, Original
  <2>8. ns # NoNs => ns = Place(r, a)
    BY <1>1, <2>4 DEF OriginalsAgree
  <2>9. r \in Listed(records[n].acts)
    BY <2>6 DEF Listed
  <2>10. Text(a, r) \in Texts[r]
    BY <1>1, <2>3, <2>9, TextKept
  <2>11. UndeployObject(n, r) = ObjectOf(Text(a, r), TargetNs(a, r, ns))
    BY DEF UndeployObject
  <2> HIDE DEF a, ns
  <2>12. TargetNs(a, r, ns) = Place(r, a)
    BY <1>1, <2>6, <2>7, <2>8, <2>10, TargetPlace
  <2>13. UndeployObject(n, r) = obj
    BY <2>5, <2>10, <2>11, <2>12, OneObject
  <2> QED  BY <2>2, <2>9, <2>13
<1> QED  BY <1>2 DEF Tracked

\* For a careful user, whose edits of a resource leave the name and the namespace
\* that its CR states alone, whatever is on the cluster can be undeployed, after
\* a crash as well.
THEOREM NothingLeaked ==
    ASSUME OneIdentity
    PROVE  CarefulSpec => []Tracked
<1>1. CarefulInv /\ [CarefulNext(Nodes)]_vars => CarefulInv'
  BY NextCareful
<1>2. CarefulInv => Tracked
  BY CarefulTracked
<1> QED  BY InitCareful, <1>1, <1>2, PTL DEF CarefulSpec
=============================================================================
