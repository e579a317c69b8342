---------------------------- MODULE Deployments ----------------------------
(***************************************************************************)
(* Deploying repository nodes to a cluster and undeploying them again:     *)
(* DeployedResources, DeployDetail and FileDeploymentPersister             *)
(* (pkg/k8sservice/k8sclient.go), the deploy task                          *)
(* (ResourcePage.DeployResource), the undeploy task and the restart        *)
(* (DeploymentTab).  Every click starts a task in a goroutine of its own;  *)
(* nothing locks the records the tasks share.                              *)
(*                                                                         *)
(* Abstractions.  A record is identified by its node, and one call of      *)
(* LockAndAdd, Remove or Deployed is one step, its file write included     *)
(* (DeployRegistry splits them).  A CR text is a value of Crs; an action   *)
(* whose cr is Live points to the instance object the repository node      *)
(* holds now, so later edits of that node change it.                       *)
(***************************************************************************)
EXTENDS FiniteSets

CONSTANTS
    Collections,    \* top-level collections of the repository
    Res,            \* resources below the collections, and templates
    Templates,      \* resources deployed from a template, in no collection
    Owner,          \* Owner[r]: the collection that holds r
    Crs,            \* CR texts
    Texts,          \* Texts[r]: the texts the user writes for r
    ObjectNames,    \* kind and metadata.name of the objects of a cluster
    CrName,         \* CrName[text]: the object a text names
    ClusterScoped,  \* names of a kind that lives in no namespace
    Namespaces,
    DefaultNs,      \* config.DEFAULT_NAMESPACE
    NoNs,           \* the empty namespace
    CrNs,           \* CrNs[text]: metadata.namespace of a text, or NoNs
    Tasks,          \* slots for the deploy and undeploy goroutines
    Tags,           \* identities of action maps; bounds how many exist at once
    Live, Orphan, None

Nodes == Collections \cup Res

ASSUME ConstantsAssumption ==
    /\ Templates \subseteq Res
    /\ Owner \in [Res \ Templates -> Collections]
    /\ Collections \cap Res = {}
    /\ Texts \in [Res -> SUBSET Crs]
    /\ CrName \in [Crs -> ObjectNames]
    /\ CrNs \in [Crs -> Namespaces \cup {NoNs}]
    /\ DefaultNs \in Namespaces
    /\ NoNs \notin Namespaces
    /\ Live \notin Crs
    /\ Orphan \notin Crs
    /\ Live # Orphan
    /\ None \notin Nodes \cup Crs \cup Tags \cup Namespaces

VARIABLES
    repo,       \* resources that are in the node map now
    cr,         \* cr[r]: text of the instance object the node of r holds
    defaultNs,  \* defaultNs[c]: default namespace of a collection
    records,    \* DeployedResources: a DeployDetail or None for every node
    file,       \* deployments.yaml
    cluster,    \* text of every object on the cluster, or None
    tasks,      \* the goroutines
    up          \* the application is running

vars == <<repo, cr, defaultNs, records, file, cluster, tasks, up>>
userVars == <<repo, cr, defaultNs>>

-----------------------------------------------------------------------------
(* Data.                                                                   *)

Kinds == {"Create", "Update", "Delete"}
Statuses == {"InDeploy", "Deployed"}
Object == ObjectNames \X (Namespaces \cup {NoNs})

Action == [kind : Kinds, cr : Crs \cup {Live}, ns : Namespaces]
SavedAction == [kind : Kinds, cr : Crs, ns : Namespaces]
Original == [cr : Crs, ns : Namespaces \cup {NoNs}]
ActionMap == [Res -> Action \cup {None}]
Originals == [Res -> Original \cup {None}]

\* A DeployDetail: tag and acts are its AllInstances (two holders of one tag
\* hold one Go map), src is its node: Live, Orphan (no usable node), or the
\* text of a node object that the repository has replaced.
Record == [tag : Tags, acts : ActionMap, orig : Originals,
           status : Statuses, src : Crs \cup {Live, Orphan}]

Saved == [acts : [Res -> SavedAction \cup {None}],
          orig : Originals, status : Statuses]

Call == [res : Res, kind : Kinds, text : Crs, ns : Namespaces, served : BOOLEAN]

\* call: the request to the cluster that is out; orig: the OriginalCrs of
\* the detail an undeploy holds when that detail has left the records;
\* first: this deploy registered its record.
Task == [kind : {"idle", "deploy", "undeploy"}, node : Nodes \cup {None},
         tag : Tags \cup {None}, acts : ActionMap, todo : SUBSET Res,
         call : Call \cup {None}, finalNs : [Res -> Namespaces \cup {None}],
         orig : Originals \cup {None}, first : BOOLEAN]

\* None stands for the absence of each of these.
ASSUME NoneAssumption ==
    /\ None \notin Action /\ None \notin SavedAction /\ None \notin Original
    /\ None \notin Record /\ None \notin Saved
    /\ None \notin Call /\ None \notin Originals

Nothing == [r \in Res |-> None]
Listed(m) == {r \in Res : m[r] # None}

Idle == [kind |-> "idle", node |-> None, tag |-> None, acts |-> Nothing,
         todo |-> {}, call |-> None, finalNs |-> Nothing, orig |-> None,
         first |-> FALSE]

TypeOK ==
    /\ repo \in SUBSET (Res \ Templates)
    /\ cr \in [Res -> Crs]
    /\ defaultNs \in [Collections -> Namespaces]
    /\ records \in [Nodes -> Record \cup {None}]
    /\ file \in [Nodes -> Saved \cup {None}]
    /\ cluster \in [Object -> Crs \cup {None}]
    /\ tasks \in [Tasks -> Task]
    /\ up \in BOOLEAN

\* Nothing deployed yet, no file, some resources in the repository.
Init ==
    /\ repo \in SUBSET (Res \ Templates)
    /\ cr \in {f \in [Res -> Crs] : \A r \in Res : f[r] \in Texts[r]}
    /\ defaultNs \in [Collections -> Namespaces]
    /\ records = [n \in Nodes |-> None]
    /\ file = [n \in Nodes |-> None]
    /\ cluster = [o \in Object |-> None]
    /\ tasks = [t \in Tasks |-> Idle]
    /\ up = TRUE

-----------------------------------------------------------------------------
(* Reading the repository: what a deployment of a node consists of.        *)

\* GetAllResourceInstances of a collection, or the resource itself.
Contents(n) == IF n \in Collections THEN {r \in repo : Owner[r] = n} ELSE {n}

\* GetDefaultNamespace; a template node has no owner.
NsOf(n) == IF n \in Collections THEN defaultNs[n]
           ELSE IF n \in Templates THEN DefaultNs ELSE defaultNs[Owner[n]]

Text(a, r) == IF a.cr = Live THEN cr[r] ELSE a.cr

\* What ParseResources fills an empty detail with.
NewActions(n, src) ==
    [r \in Res |-> IF r \in Contents(n)
                   THEN [kind |-> "Create", cr |-> src, ns |-> NsOf(n)]
                   ELSE None]

NewOriginals(n, src) ==
    [r \in Res |-> IF r \in Contents(n)
                   THEN [cr |-> IF src = Live THEN cr[r] ELSE src, ns |-> NoNs]
                   ELSE None]

-----------------------------------------------------------------------------
(* Merge: the actions a redeploy performs.                                 *)

\* Instances no longer in the node are marked in the map the detail had.
Dropped(old, new) ==
    [r \in Res |-> IF r \in Listed(old) \ Listed(new)
                   THEN [old[r] EXCEPT !.kind = "Delete"]
                   ELSE old[r]]

Unchanged(rec, newOrig, r) == rec.orig[r].cr = newOrig[r].cr

Merge(rec, new, newOrig) ==
    [r \in Res |->
        IF new[r] = None THEN Dropped(rec.acts, new)[r]
        ELSE IF rec.acts[r] = None THEN new[r]
        ELSE IF Unchanged(rec, newOrig, r) THEN None
        ELSE [new[r] EXCEPT !.kind = "Update"]]

\* Merge dereferences OriginalCrs[id], which a resource that joined the
\* collection after the first deployment does not have.
MergePanics(rec, new) ==
    \E r \in Listed(rec.acts) \cap Listed(new) : rec.orig[r] = None

-----------------------------------------------------------------------------
(* The persister, the shared maps, the end of the process.                 *)

\* Mutant of Save: persists the pointers to live instances.
SavePointers(rec) ==
    [acts |-> rec.acts, orig |-> rec.orig, status |-> rec.status]

Save(rec) ==
    [acts |-> [r \in Res |-> IF rec.acts[r] = None THEN None
                             ELSE [rec.acts[r] EXCEPT !.cr = Text(rec.acts[r], r)]],
     orig |-> rec.orig, status |-> rec.status]

\* persist writes every detail as it is in memory, not just the changed one.
Persisted(recs) ==
    [n \in Nodes |-> IF recs[n] = None THEN None ELSE Save(recs[n])]

TagsInUse(recs) ==
    {recs[n].tag : n \in {m \in Nodes : recs[m] # None}}
        \cup {tasks[t].tag : t \in Tasks}

FreeTags(recs) == Tags \ TagsInUse(recs)

\* Every goroutine that holds the map tag sees its new contents.
TasksSee(ts, tag, acts) ==
    [t \in Tasks |-> IF ts[t].tag = tag THEN [ts[t] EXCEPT !.acts = acts] ELSE ts[t]]

\* An undeploy goes on with the detail it selected when it is removed.
KeepDetail(ts, n) ==
    [t \in Tasks |->
        IF ts[t].kind = "undeploy" /\ ts[t].node = n /\ ts[t].orig = None
        THEN [ts[t] EXCEPT !.orig = records[n].orig] ELSE ts[t]]

\* Mutant of Remove: the file keeps the record.
RemoveUnsaved(t, n) ==
    /\ records' = [records EXCEPT ![n] = None]
    /\ tasks' = IF records[n] = None THEN [tasks EXCEPT ![t] = Idle]
                ELSE KeepDetail([tasks EXCEPT ![t] = Idle], n)
    /\ UNCHANGED file

\* DeployedResources.Remove, called by task t as its last step.
Remove(t, n) ==
    LET ts == [tasks EXCEPT ![t] = Idle] IN
    IF records[n] = None
    THEN /\ tasks' = ts
         /\ UNCHANGED <<records, file>>
    ELSE /\ records' = [records EXCEPT ![n] = None]
         /\ file' = Persisted(records')
         /\ tasks' = KeepDetail(ts, n)

\* The process is gone: what was in memory is lost.
Died ==
    /\ up' = FALSE
    /\ records' = [n \in Nodes |-> None]
    /\ tasks' = [t \in Tasks |-> Idle]
    /\ UNCHANGED <<userVars, file, cluster>>

-----------------------------------------------------------------------------
(* The user clicks Deploy: ResourcePage.DeployResource up to task.Start.   *)

Deployable(n) == n \in Collections \cup repo \cup Templates

StartTask(t, ts, n, tag, acts, first) ==
    tasks' = IF Listed(acts) = {} THEN ts
             ELSE [ts EXCEPT ![t] = [Idle EXCEPT !.kind = "deploy", !.node = n,
                                        !.tag = tag, !.acts = acts,
                                        !.todo = Listed(acts), !.first = first]]

\* Mutant of DeployNew: persists before the record is added.
DeployNewSavedFirst(t, n) ==
    /\ up /\ tasks[t].kind = "idle" /\ Deployable(n)
    /\ records[n] = None
    /\ Contents(n) # {}
    /\ FreeTags(records) # {}
    /\ LET tag == CHOOSE g \in FreeTags(records) : TRUE
           acts == NewActions(n, Live)
       IN  /\ records' = [records EXCEPT ![n] =
                  [tag |-> tag, acts |-> acts, orig |-> NewOriginals(n, Live),
                   status |-> "InDeploy", src |-> Live]]
           /\ StartTask(t, tasks, n, tag, acts, TRUE)
    /\ file' = Persisted(records)
    /\ UNCHANGED <<userVars, cluster, up>>

\* LockAndAdd of a node without a record: AddDetail, unless there is nothing
\* to deploy.
DeployNew(t, n) ==
    /\ up /\ tasks[t].kind = "idle" /\ Deployable(n)
    /\ records[n] = None
    /\ Contents(n) # {}
    /\ FreeTags(records) # {}
    /\ LET tag == CHOOSE g \in FreeTags(records) : TRUE
           acts == NewActions(n, Live)
       IN  /\ records' = [records EXCEPT ![n] =
                  [tag |-> tag, acts |-> acts, orig |-> NewOriginals(n, Live),
                   status |-> "InDeploy", src |-> Live]]
           /\ StartTask(t, tasks, n, tag, acts, TRUE)
    /\ file' = Persisted(records')
    /\ UNCHANGED <<userVars, cluster, up>>

\* LockAndAdd of a node with a record: Merge, or a new fill when the last
\* Merge left no action.  Nothing is persisted.
Redeploy(t, n) ==
    /\ up /\ tasks[t].kind = "idle" /\ Deployable(n)
    /\ records[n] # None /\ records[n].src # Orphan
    /\ LET rec == records[n]
           new == NewActions(n, rec.src)
           newOrig == NewOriginals(n, rec.src)
           free == FreeTags([records EXCEPT ![n] = None])
           tag == CHOOSE g \in free : TRUE
           merged == Merge(rec, new, newOrig)
           refill == Listed(rec.acts) = {}
           acts == IF refill THEN new ELSE merged
           orig == IF refill
                   THEN [r \in Res |-> IF newOrig[r] # None THEN newOrig[r]
                                       ELSE rec.orig[r]]
                   ELSE rec.orig
       IN  /\ ~MergePanics(rec, new)
           /\ free # {}
           /\ records' = [records EXCEPT ![n] =
                  [rec EXCEPT !.tag = tag, !.acts = acts, !.orig = orig]]
           /\ StartTask(t, TasksSee(tasks, rec.tag, Dropped(rec.acts, new)),
                        n, tag, acts, FALSE)
    /\ UNCHANGED <<userVars, file, cluster, up>>

\* A detail without a usable node, or Merge without an original, is a nil
\* dereference, which ends the process.
DeployPanics(n) ==
    /\ up /\ Deployable(n) /\ records[n] # None
    /\ \E t \in Tasks : tasks[t].kind = "idle"
    /\ \/ records[n].src = Orphan
       \/ MergePanics(records[n], NewActions(n, records[n].src))
    /\ Died

-----------------------------------------------------------------------------
(* The user clicks Undeploy with one record selected.                      *)

Undeploy(t, n) ==
    /\ up /\ tasks[t].kind = "idle"
    /\ records[n] # None
    /\ tasks' = [tasks EXCEPT ![t] =
           [Idle EXCEPT !.kind = "undeploy", !.node = n,
                        !.tag = records[n].tag, !.acts = records[n].acts,
                        !.todo = Listed(records[n].acts)]]
    /\ UNCHANGED <<userVars, records, file, cluster, up>>

OriginalOf(t) ==
    IF tasks[t].orig # None THEN tasks[t].orig ELSE records[tasks[t].node].orig

-----------------------------------------------------------------------------
(* The tasks: one cluster call after the other.                            *)

\* The namespace K8sClient.DeployResource settles on.
TargetNs(a, r, targetNs) ==
    LET own == CrNs[Text(a, r)] IN
    IF own # NoNs THEN own ELSE IF targetNs # NoNs THEN targetNs ELSE a.ns

\* The object a text stands for: two resources may name the same one.
ObjectOf(text, ns) ==
    <<CrName[text], IF CrName[text] \in ClusterScoped THEN NoNs ELSE ns>>

Request(a, r, targetNs) ==
    [res |-> r, kind |-> a.kind, text |-> Text(a, r),
     ns |-> TargetNs(a, r, targetNs), served |-> FALSE]

\* A deploy sends the action as it finds it in the shared map.
SendDeploy(t, r) ==
    /\ tasks[t].kind = "deploy" /\ tasks[t].call = None /\ r \in tasks[t].todo
    /\ tasks' = [tasks EXCEPT ![t].call = Request(tasks[t].acts[r], r, NoNs)]
    /\ UNCHANGED <<userVars, records, file, cluster, up>>

\* Mutant of SendUndeploy: marks a copy of the map.
SendUndeployOwnCopy(t, r) ==
    /\ tasks[t].kind = "undeploy" /\ tasks[t].call = None /\ r \in tasks[t].todo
    /\ OriginalOf(t)[r] # None
    /\ LET acts == [tasks[t].acts EXCEPT ![r].kind = "Delete"] IN
       tasks' = [tasks EXCEPT ![t].acts = acts,
                              ![t].call = Request(acts[r], r, OriginalOf(t)[r].ns)]
    /\ UNCHANGED <<userVars, records, file, cluster, up>>

\* An undeploy first marks the action, in the map it shares with the record
\* and with deploys under way, then deletes where the original was deployed.
SendUndeploy(t, r) ==
    /\ tasks[t].kind = "undeploy" /\ tasks[t].call = None /\ r \in tasks[t].todo
    /\ OriginalOf(t)[r] # None
    /\ LET tag == tasks[t].tag
           acts == [tasks[t].acts EXCEPT ![r].kind = "Delete"]
       IN  /\ records' = [n \in Nodes |->
                  IF records[n] # None /\ records[n].tag = tag
                  THEN [records[n] EXCEPT !.acts = acts] ELSE records[n]]
           /\ tasks' = [TasksSee(tasks, tag, acts) EXCEPT ![t].call =
                           Request(acts[r], r, OriginalOf(t)[r].ns)]
    /\ UNCHANGED <<userVars, file, cluster, up>>

UndeployPanics(t) ==
    /\ tasks[t].kind = "undeploy" /\ tasks[t].call = None
    /\ \E r \in tasks[t].todo : OriginalOf(t)[r] = None
    /\ Died

\* The cluster executes a request; it cannot delete what is not there.
Serve(t) ==
    /\ tasks[t].call # None /\ ~tasks[t].call.served
    /\ LET c == tasks[t].call
           obj == ObjectOf(c.text, c.ns)
       IN  /\ c.kind = "Delete" => cluster[obj] # None
           /\ cluster' = [cluster EXCEPT ![obj] =
                             IF c.kind = "Delete" THEN None ELSE c.text]
    /\ tasks' = [tasks EXCEPT ![t].call.served = TRUE]
    /\ UNCHANGED <<userVars, records, file, up>>

Succeeded(t) ==
    /\ tasks[t].call # None /\ tasks[t].call.served
    /\ LET c == tasks[t].call IN
       tasks' = [tasks EXCEPT ![t].call = None, ![t].todo = @ \ {c.res},
                              ![t].finalNs[c.res] = c.ns]
    /\ UNCHANGED <<userVars, records, file, cluster, up>>

\* An error, also when the request was executed and only the answer is lost.
\* A deploy gives up and drops its record; an undeploy goes on.
DeployFailed(t) ==
    /\ tasks[t].kind = "deploy" /\ tasks[t].call # None
    /\ Remove(t, tasks[t].node)
    /\ UNCHANGED <<userVars, cluster, up>>

\* Mutant of UndeployFailed: tries again.
UndeployFailedRetry(t) ==
    /\ tasks[t].kind = "undeploy" /\ tasks[t].call # None
    /\ tasks' = [tasks EXCEPT ![t].call = None]
    /\ UNCHANGED <<userVars, records, file, cluster, up>>

UndeployFailed(t) ==
    /\ tasks[t].kind = "undeploy" /\ tasks[t].call # None
    /\ LET r == tasks[t].call.res IN
       tasks' = [tasks EXCEPT ![t].call = None, ![t].todo = @ \ {r}]
    /\ UNCHANGED <<userVars, records, file, cluster, up>>

-----------------------------------------------------------------------------
(* The end of a task.                                                      *)

WithFinalNs(orig, finalNs) ==
    [r \in Res |-> IF orig[r] # None /\ finalNs[r] # None
                   THEN [orig[r] EXCEPT !.ns = finalNs[r]] ELSE orig[r]]

\* DeployedResources.Deployed
Deployed(t) ==
    /\ tasks[t].kind = "deploy" /\ tasks[t].todo = {}
    /\ LET n == tasks[t].node IN
       /\ records[n] # None
       /\ records' = [records EXCEPT
              ![n].status = "Deployed",
              ![n].orig = WithFinalNs(@, tasks[t].finalNs)]
    /\ file' = Persisted(records')
    /\ tasks' = [tasks EXCEPT ![t] = Idle]
    /\ UNCHANGED <<userVars, cluster, up>>

\* Deployed of a record that somebody removed is a nil dereference.
DeployedPanics(t) ==
    /\ tasks[t].kind = "deploy" /\ tasks[t].todo = {}
    /\ records[tasks[t].node] = None
    /\ Died

Undeployed(t) ==
    /\ tasks[t].kind = "undeploy" /\ tasks[t].todo = {}
    /\ Remove(t, tasks[t].node)
    /\ UNCHANGED <<userVars, cluster, up>>

-----------------------------------------------------------------------------
(* The process ends and starts again: DeploymentTab.Load.                  *)

Crash == up /\ Died

\* Mutant of Loaded: deployments the crash interrupted are not loaded.
LoadedDeployed(f, tag) ==
    [n \in Nodes |->
        IF f[n] = None \/ f[n].status = "InDeploy" THEN None
        ELSE [tag |-> tag[n], acts |-> f[n].acts, orig |-> f[n].orig,
              status |-> f[n].status,
              src |-> IF n \in Collections \cup repo THEN Live ELSE Orphan]]

Loaded(f, tag) ==
    [n \in Nodes |->
        IF f[n] = None THEN None
        ELSE [tag |-> tag[n], acts |-> f[n].acts, orig |-> f[n].orig,
              status |-> f[n].status,
              src |-> IF n \in Collections \cup repo THEN Live ELSE Orphan]]

DistinctTags(S) == {g \in [S -> Tags] : \A m, n \in S : g[m] = g[n] => m = n}

Restart ==
    /\ ~up
    /\ up' = TRUE
    /\ LET saved == {n \in Nodes : file[n] # None} IN
       /\ DistinctTags(saved) # {}
       /\ records' = Loaded(file, CHOOSE g \in DistinctTags(saved) : TRUE)
    /\ UNCHANGED <<userVars, file, cluster, tasks>>

-----------------------------------------------------------------------------
(* The user changes the repository.                                        *)

\* Who refers to an instance of a resource of S: action maps by their tag, and
\* records by their node.  T = {Live} asks for the instance of the node now,
\* T = Crs for instances that Load has replaced.
Refs(S, T) ==
    LET holds(acts, r) == acts[r] # None /\ acts[r].cr \in T
    IN  {p \in Tags \X S :
            \/ \E t \in Tasks : tasks[t].tag = p[1] /\ holds(tasks[t].acts, p[2])
            \/ \E n \in Nodes : /\ records[n] # None /\ records[n].tag = p[1]
                                /\ holds(records[n].acts, p[2])}
        \cup {<<n, n>> : n \in {m \in S : records[m] # None /\ records[m].src \in T}}

\* The instances that refs refer to have, or get, the texts of new.
Retext(acts, tag, refs, new) ==
    [r \in Res |-> IF acts[r] # None /\ <<tag, r>> \in refs
                   THEN [acts[r] EXCEPT !.cr = new[r]] ELSE acts[r]]

\* gone is a resource whose node object loses its instance.
InstancesHave(refs, new, gone) ==
    LET src(n) == IF <<n, n>> \notin refs THEN records[n].src
                  ELSE IF n = gone THEN Orphan ELSE new[n]
    IN  /\ records' = [n \in Nodes |->
               IF records[n] = None THEN None
               ELSE [records[n] EXCEPT
                        !.acts = Retext(records[n].acts, records[n].tag, refs, new),
                        !.src = src(n)]]
        /\ tasks' = [t \in Tasks |->
               [tasks[t] EXCEPT !.acts = Retext(tasks[t].acts, tasks[t].tag, refs, new)]]

\* The CR of a resource is edited and saved.
EditCr(r, text) ==
    /\ up /\ r \in repo \cup Templates /\ text \in Texts[r] \ {cr[r]}
    /\ cr' = [cr EXCEPT ![r] = text]
    /\ UNCHANGED <<repo, defaultNs, records, file, cluster, tasks, up>>

\* The same in a tab that was open when Load replaced its instance: the tab
\* still holds that one, and Save writes the node's, which has not changed.
\* Which of the replaced instances it is is not kept: any refs may refer to it.
EditOld(r, text, refs) ==
    /\ up /\ r \in repo /\ text \in Texts[r]
    /\ refs # {} /\ refs \subseteq Refs({r}, Crs)
    /\ InstancesHave(refs, [cr EXCEPT ![r] = text], None)
    /\ UNCHANGED <<userVars, file, cluster, up>>

Below(c) == {r \in repo : Owner[r] = c}

\* ResourceNode.Remove, after which the parent collection is reloaded: its
\* Load makes new node and instance objects.
RemoveResource(r) ==
    /\ up /\ r \in repo
    /\ repo' = repo \ {r}
    /\ InstancesHave(Refs(Below(Owner[r]), {Live}), cr, r)
    /\ UNCHANGED <<cr, defaultNs, file, cluster, up>>

\* Reload of a collection; back are files the user has put into its directory,
\* shown refer to instances of open tabs, which UpdateActiveContents sets to
\* the text of the file.
ReloadCollection(c, back, shown) ==
    /\ up
    /\ back \subseteq {r \in (Res \ Templates) \ repo : Owner[r] = c}
    /\ shown \subseteq Refs(Below(c), Crs)
    /\ repo' = repo \cup back
    /\ InstancesHave(Refs(Below(c), {Live}) \cup shown, cr, None)
    /\ UNCHANGED <<cr, defaultNs, file, cluster, up>>

\* A new resource has a new id: nothing has seen it before.
NewId(r) ==
    /\ r \in (Res \ Templates) \ repo
    /\ \A n \in Nodes : /\ records[n] # None => /\ records[n].acts[r] = None
                                                /\ records[n].orig[r] = None
                        /\ file[n] # None => file[n].acts[r] = None
    /\ \A t \in Tasks : tasks[t].acts[r] = None

AddResource(r) ==
    /\ up /\ NewId(r)
    /\ repo' = repo \cup {r}
    /\ UNCHANGED <<cr, defaultNs, records, file, cluster, tasks, up>>

SetDefaultNs(c, ns) ==
    /\ up /\ ns # defaultNs[c]
    /\ defaultNs' = [defaultNs EXCEPT ![c] = ns]
    /\ UNCHANGED <<repo, cr, records, file, cluster, tasks, up>>

-----------------------------------------------------------------------------
EditStep ==
    \/ \E r \in Res, text \in Crs :
        \/ EditCr(r, text)
        \/ \E refs \in SUBSET Refs({r}, Crs) : EditOld(r, text, refs)
    \/ \E r \in Res : RemoveResource(r) \/ AddResource(r)
    \/ \E c \in Collections, back \in SUBSET Res :
        \E shown \in SUBSET Refs(Below(c), Crs) : ReloadCollection(c, back, shown)
    \/ \E c \in Collections, ns \in Namespaces : SetDefaultNs(c, ns)

\* Clicks on the nodes of S; bounded instances look at some nodes only.
ClickStep(S) ==
    \E n \in S :
        \/ \E t \in Tasks : DeployNew(t, n) \/ Redeploy(t, n) \/ Undeploy(t, n)
        \/ DeployPanics(n)

\* What the program and the cluster do by themselves when no call fails.
TaskStep(t) ==
    \/ \E r \in Res : SendDeploy(t, r) \/ SendUndeploy(t, r)
    \/ UndeployPanics(t)
    \/ Serve(t)
    \/ Succeeded(t)
    \/ Deployed(t) \/ DeployedPanics(t) \/ Undeployed(t)

FailStep(t) == DeployFailed(t) \/ UndeployFailed(t)

Next ==
    \/ EditStep
    \/ ClickStep(Nodes)
    \/ \E t \in Tasks : TaskStep(t) \/ FailStep(t)
    \/ Crash \/ Restart

\* The goroutines run, and every call is answered in the end, with success
\* or with an error.  The user may stop at any time.
Fairness == \A t \in Tasks : WF_vars(TaskStep(t) \/ FailStep(t))

Spec == Init /\ [][Next]_vars
FairSpec == Spec /\ Fairness

AllIdle == \A t \in Tasks : tasks[t].kind = "idle"

\* The cluster refuses to delete what is not there.
NotFound(t) ==
    /\ tasks[t].call # None /\ ~tasks[t].call.served
    /\ cluster[ObjectOf(tasks[t].call.text, tasks[t].call.ns)] = None
    /\ UndeployFailed(t)

\* A careful user edits and clicks only while no task runs, undeploys before
\* deploying again, and has a cluster that refuses nothing else.  That the
\* edits keep the identity of the resource is a matter of Texts (OneIdentity).
CarefulNext(S) ==
    \/ AllIdle /\ EditStep
    \/ AllIdle /\ \E n \in S, t \in Tasks : DeployNew(t, n) \/ Undeploy(t, n)
    \/ \E t \in Tasks : TaskStep(t) \/ NotFound(t)
    \/ Crash \/ Restart

CarefulSpec == Init /\ [][CarefulNext(Nodes)]_vars

-----------------------------------------------------------------------------
(* Properties.                                                             *)

\* While the application runs, deployments.yaml lists exactly the records
\* the deployments panel shows, with their status: a crash between any two
\* steps of any task neither loses a deployment nor brings one back
\* (FileDeploymentPersister.Add, Remove and Update are called in time).
RecordsDurable ==
    up => \A n \in Nodes :
              /\ (records[n] = None) = (file[n] = None)
              /\ records[n] # None => file[n].status = records[n].status

\* Write-ahead: as long as a first deployment works on the map of its record,
\* deployments.yaml names every resource it may create, so that whatever a
\* crash leaves on the cluster can be undeployed after the restart
\* (LockAndAdd persists the detail before the task starts).
FirstDeployRecorded ==
    \A t \in Tasks :
        LET n == tasks[t].node IN
        (tasks[t].first /\ records[n] # None /\ records[n].tag = tasks[t].tag)
            => file[n] # None /\ Listed(tasks[t].acts) \subseteq Listed(file[n].acts)

\* Undeploy u is at resource r, or has been there.
HasComeTo(u, r) ==
    /\ tasks[u].kind = "undeploy" /\ r \in Listed(tasks[u].acts)
    /\ \/ r \notin tasks[u].todo
       \/ tasks[u].call # None /\ tasks[u].call.res = r

\* After an undeploy has come to a resource, no deploy that works on the same
\* action map asks the cluster to create or update it any more: the undeploy
\* turns the shared action into a deletion before it calls the cluster
\* (inst.SetAction).  A request that is already out is not called back: the
\* cluster may execute it after the deletion.
UndeployStopsRequests ==
    [][\A t, u \in Tasks :
          (/\ tasks[t].kind = "deploy" /\ tasks[t].tag = tasks[u].tag
           /\ tasks[t].call = None /\ tasks'[t].call # None
           /\ HasComeTo(u, tasks'[t].call.res))
              => tasks'[t].call.kind = "Delete"]_vars

\* The object an undeploy of record n started now would delete for r.
UndeployObject(n, r) ==
    LET rec == records[n] IN
    ObjectOf(Text(rec.acts[r], r),
             TargetNs(rec.acts[r], r,
                      IF rec.orig[r] = None THEN NoNs ELSE rec.orig[r].ns))

\* No edit of a resource changes the name or the namespace its CR states.
OneIdentity ==
    \A r \in Res : \A x, y \in Texts[r] : CrName[x] = CrName[y] /\ CrNs[x] = CrNs[y]

\* No object is leaked: undeploying the records deletes everything that was
\* ever deployed, whenever the application crashed before.  This is a promise
\* to a careful user only (CarefulSpec), whose edits leave metadata.name and
\* metadata.namespace alone (OneIdentity): DeployResource takes both from the
\* text as it is at the undeploy.
Tracked ==
    up => \A obj \in Object :
              cluster[obj] # None =>
                  \E n \in Nodes : /\ records[n] # None
                                   /\ \E r \in Listed(records[n].acts) :
                                          UndeployObject(n, r) = obj

\* Every task ends, with success, with a failure or with the process; its
\* entry in the progress bar depends on it.
TasksEnd == \A t \in Tasks : (tasks[t].kind # "idle") ~> (tasks[t].kind = "idle")
=============================================================================
