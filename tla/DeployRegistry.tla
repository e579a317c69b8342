--------------------------- MODULE DeployRegistry ---------------------------
(***************************************************************************)
(* DeployedResources and its persister (pkg/k8sservice/k8sclient.go), one  *)
(* assignment and one file operation at a time: the map, the list and the  *)
(* persister's cache hold the same details and are changed one after the   *)
(* other, by goroutines that lock nothing, while every frame of the        *)
(* deployments table reads the size of the map and the rows of the list.   *)
(*                                                                         *)
(* Abstractions.  A detail is its id, a number that tells it from other    *)
(* details of that id, and its status; what it deploys is in Deployments.  *)
(* A goroutine is a deployment: LockAndAdd, calls to the cluster, Deployed *)
(* or Remove; or an undeployment: calls to the cluster, Remove.            *)
(***************************************************************************)
EXTENDS Naturals, Sequences, SequencesExt

CONSTANTS
    Ids,        \* ids of repository nodes
    Procs,      \* goroutines
    Places,     \* directories below clusters/: the cluster's, or clusters/ itself
                \* when the agent did not tell the cluster's name
    Nowhere,    \* the DummyPersister
    None

Statuses == {"InDeploy", "Deployed"}
Detail == Ids \X (1 .. 1 + 2 * Cardinality(Procs))
IdOf(d) == d[1]

ASSUME NamesAssumption ==
    /\ None \notin Ids \cup Statuses
    /\ \A d \in Detail : None # d
    /\ Nowhere \notin Places

ASSUME FiniteAssumption == IsFiniteSet(Ids) /\ IsFiniteSet(Procs)

VARIABLES
    resIds,     \* resIds[id]: a detail, or None
    list,       \* the details in the order of the table
    status,     \* status[d] of every detail
    persister,  \* a place, or Nowhere
    cache,      \* FileDeploymentPersister.cache
    files,      \* files[place]: what deployments.yaml lists
    procs,      \* the goroutines
    frame,      \* the frame that lays out the table
    up

vars == <<resIds, list, status, persister, cache, files, procs, frame, up>>

Entry == [id : Ids, status : Statuses]
Idle == [pc |-> "idle", add |-> None, end |-> None, detail |-> None, seen |-> <<>>, at |-> 0]
NoFrame == [rows |-> <<>>, size |-> 0, quiet |-> FALSE]

Steps == {"idle", "lookup", "map", "list", "list2", "cache", "cluster", "status",
          "delete", "uncache", "truncate", "write", "unlist"}

Goroutine == [pc : Steps, add : Ids \cup {None}, end : Ids \cup {None},
              detail : Detail \cup {None}, seen : Seq(Detail), at : Nat]

TypeOK ==
    /\ resIds \in [Ids -> Detail \cup {None}]
    /\ list \in Seq(Detail)
    /\ status \in [Detail -> Statuses]
    /\ persister \in Places \cup {Nowhere}
    /\ cache \in Seq(Detail)
    /\ files \in [Places -> Seq(Entry)]
    /\ procs \in [Procs -> Goroutine]
    /\ frame \in [rows : Seq(Ids), size : Nat, quiet : BOOLEAN]
    /\ up \in BOOLEAN

Empty ==
    /\ resIds = [id \in Ids |-> None]
    /\ list = <<>> /\ cache = <<>>
    /\ status = [d \in Detail |-> "InDeploy"]

Init ==
    /\ Empty
    /\ persister = Nowhere
    /\ files = [p \in Places |-> <<>>]
    /\ procs = [p \in Procs |-> Idle]
    /\ frame = NoFrame
    /\ up = FALSE

-----------------------------------------------------------------------------
(* The program starts and ends.                                            *)

\* Load takes what one persist has written: no id but of the details it had.
Loaded(entries) ==
    [i \in DOMAIN entries |->
        <<entries[i].id, 1 + Cardinality({j \in 1 .. i - 1 : entries[j].id = entries[i].id})>>]

\* GetPersister asks the cluster service whether it is valid, which cluster
\* it is, and about it; DeploymentTab.Load then adds what the file lists to
\* the map and to the list.  An agent that does not answer the first question
\* leaves a DummyPersister, one that does not answer the second a file
\* outside the cluster's directory.
Start(place) ==
    LET entries == IF place = Nowhere THEN <<>> ELSE files[place]
        details == Loaded(entries)
    IN  /\ ~up
        /\ up' = TRUE
        /\ persister' = place
        /\ list' = details
        /\ cache' = details
        /\ resIds' = [id \in Ids |-> IF \E d \in ToSet(details) : IdOf(d) = id
                                     THEN CHOOSE d \in ToSet(details) : IdOf(d) = id
                                     ELSE None]
        /\ status' = [d \in Detail |->
               IF d \in ToSet(details)
               THEN entries[CHOOSE i \in DOMAIN details : details[i] = d].status
               ELSE "InDeploy"]
        /\ UNCHANGED <<files, procs, frame>>

\* The end of the process, wherever its goroutines are.
Died ==
    /\ up' = FALSE
    /\ resIds' = [id \in Ids |-> None]
    /\ list' = <<>> /\ cache' = <<>>
    /\ status' = [d \in Detail |-> "InDeploy"]
    /\ persister' = Nowhere
    /\ procs' = [p \in Procs |-> Idle]
    /\ frame' = NoFrame
    /\ UNCHANGED files

Crash == up /\ Died

-----------------------------------------------------------------------------
(* Steps of the goroutines.                                                *)

At(p, pc) == up /\ procs[p].pc = pc
Goto(p, pc) == procs' = [procs EXCEPT ![p].pc = pc]
Finish(p) == procs' = [procs EXCEPT ![p] = Idle]

\* Every change to the shared state spoils the frame that is being laid out.
Disturbed == frame' = [frame EXCEPT !.quiet = FALSE]

\* ResourcePage.DeployResource: rp.current is read for the node to add and
\* again for the id the end of the task will name; the user may have turned
\* to another tab in between.
Deploy(p, add, end) ==
    /\ At(p, "idle")
    /\ procs' = [procs EXCEPT ![p] = [Idle EXCEPT !.pc = "lookup", !.add = add, !.end = end]]
    /\ UNCHANGED <<resIds, list, status, persister, cache, files, frame, up>>

\* The undeploy task, for one of the selected details.
Undeploy(p, id) ==
    /\ At(p, "idle")
    /\ id \in {IdOf(d) : d \in ToSet(list)}
    /\ procs' = [procs EXCEPT ![p] = [Idle EXCEPT !.pc = "delete", !.end = id]]
    /\ UNCHANGED <<resIds, list, status, persister, cache, files, frame, up>>

\* NewDeployDetail makes an object nobody else has.
NewDetail(id) ==
    LET held == ToSet(list) \cup ToSet(cache) \cup {procs[p].detail : p \in Procs}
                    \cup (UNION {ToSet(procs[p].seen) : p \in Procs}) \cup {resIds[id]}
    IN  CHOOSE d \in Detail : d \notin held /\ IdOf(d) = id
            /\ \A e \in Detail \ held : IdOf(e) = id => d[2] <= e[2]

\* LockAndAdd: an id the map has is redeployed with the detail it has; a node
\* with nothing to deploy is not added.
LockAndAdd(p) ==
    /\ At(p, "lookup")
    /\ \/ resIds[procs[p].add] # None /\ Goto(p, "cluster")
       \/ /\ resIds[procs[p].add] = None
          /\ procs' = [procs EXCEPT ![p].pc = "map", ![p].detail = NewDetail(procs[p].add)]
       \/ resIds[procs[p].add] = None /\ Finish(p)
    /\ UNCHANGED <<resIds, list, status, persister, cache, files, frame, up>>

\* AddDetail, first assignment.
AddToMap(p) ==
    /\ At(p, "map")
    /\ resIds' = [resIds EXCEPT ![procs[p].add] = procs[p].detail]
    /\ status' = [status EXCEPT ![procs[p].detail] = "InDeploy"]
    /\ Goto(p, "list")
    /\ Disturbed
    /\ UNCHANGED <<list, persister, cache, files, up>>

\* d.list = append(d.list, dd) reads the list, then assigns it.
ReadList(p) ==
    /\ At(p, "list")
    /\ procs' = [procs EXCEPT ![p].pc = "list2", ![p].seen = list]
    /\ UNCHANGED <<resIds, list, status, persister, cache, files, frame, up>>

AddToList(p) ==
    /\ At(p, "list2")
    /\ list' = Append(procs[p].seen, procs[p].detail)
    /\ procs' = [procs EXCEPT ![p].seen = <<>>,
           ![p].pc = IF persister = Nowhere THEN "cluster" ELSE "cache",
           ![p].detail = IF persister = Nowhere THEN None ELSE @]
    /\ Disturbed
    /\ UNCHANGED <<resIds, status, persister, cache, files, up>>

\* FileDeploymentPersister.Add
AddToCache(p) ==
    /\ At(p, "cache")
    /\ cache' = Append(cache, procs[p].detail)
    /\ Goto(p, "truncate")
    /\ UNCHANGED <<resIds, list, status, persister, files, frame, up>>

\* persist: os.WriteFile opens the file, which empties it, and writes the
\* details as they are then.
Truncate(p) ==
    /\ At(p, "truncate")
    /\ files' = [files EXCEPT ![persister] = <<>>]
    /\ Goto(p, "write")
    /\ UNCHANGED <<resIds, list, status, persister, cache, frame, up>>

\* Where a goroutine goes on after persist: what it has not done yet.
AfterPersist(p) ==
    IF procs[p].at > 0 THEN Goto(p, "unlist")
    ELSE IF procs[p].detail # None
    THEN procs' = [procs EXCEPT ![p].pc = "cluster", ![p].detail = None]
    ELSE Finish(p)

Persisted ==
    [i \in DOMAIN cache |-> [id |-> IdOf(cache[i]), status |-> status[cache[i]]]]

Write(p) ==
    /\ At(p, "write")
    /\ files' = [files EXCEPT ![persister] = Persisted]
    /\ AfterPersist(p)
    /\ UNCHANGED <<resIds, list, status, persister, cache, frame, up>>

\* The file cannot be opened, or not be written; nobody looks at the error.
PersistFails(p) ==
    /\ At(p, "truncate") \/ At(p, "write")
    /\ AfterPersist(p)
    /\ UNCHANGED <<resIds, list, status, persister, cache, files, frame, up>>

\* The calls to the cluster are over.  A failed one ends the deployment.
ClusterDone(p) ==
    /\ At(p, "cluster")
    /\ Goto(p, "status") \/ Goto(p, "delete")
    /\ UNCHANGED <<resIds, list, status, persister, cache, files, frame, up>>

\* DeployedResources.Deployed; without a record it dereferences nil.
Deployed(p) ==
    LET d == resIds[procs[p].end] IN
    /\ At(p, "status")
    /\ \/ d = None /\ Died
       \/ /\ d # None
          /\ status' = [status EXCEPT ![d] = "Deployed"]
          /\ IF persister = Nowhere THEN Finish(p)
             ELSE procs' = [procs EXCEPT ![p].pc = "truncate", ![p].detail = None]
          /\ UNCHANGED <<resIds, list, persister, cache, files, frame, up>>

Position(seq, id) ==
    IF \E i \in DOMAIN seq : IdOf(seq[i]) = id
    THEN CHOOSE i \in DOMAIN seq : /\ IdOf(seq[i]) = id
                                   /\ \A j \in 1 .. i - 1 : IdOf(seq[j]) # id
    ELSE 0

\* DeployedResources.Remove up to the call of the persister.
RemoveFromMap(p) ==
    LET at == Position(list, procs[p].end) IN
    /\ At(p, "delete")
    /\ resIds' = [resIds EXCEPT ![procs[p].end] = None]
    /\ IF at = 0 THEN Finish(p)
       ELSE procs' = [procs EXCEPT ![p].at = at, ![p].detail = list[at],
                          ![p].pc = IF persister = Nowhere THEN "unlist" ELSE "uncache"]
    /\ Disturbed
    /\ UNCHANGED <<list, status, persister, cache, files, up>>

\* Mutant of RemoveFromCache: the detail's successors go with it.
RemoveTailFromCache(p) ==
    LET at == Position(cache, procs[p].end) IN
    /\ At(p, "uncache")
    /\ cache' = IF at = 0 THEN cache ELSE SubSeq(cache, 1, at - 1)
    /\ Goto(p, "truncate")
    /\ UNCHANGED <<resIds, list, status, persister, files, frame, up>>

\* FileDeploymentPersister.Remove
RemoveFromCache(p) ==
    LET at == Position(cache, procs[p].end) IN
    /\ At(p, "uncache")
    /\ cache' = IF at = 0 THEN cache ELSE RemoveAt(cache, at)
    /\ Goto(p, "truncate")
    /\ UNCHANGED <<resIds, list, status, persister, files, frame, up>>

\* Mutant of RemoveFromList: forgets the list.
KeepInList(p) ==
    /\ At(p, "unlist")
    /\ Finish(p)
    /\ Disturbed
    /\ UNCHANGED <<resIds, list, status, persister, cache, files, up>>

\* slices.Delete with the index found before; it panics behind the end.
RemoveFromList(p) ==
    /\ At(p, "unlist")
    /\ IF procs[p].at > Len(list) THEN Died
       ELSE /\ list' = RemoveAt(list, procs[p].at)
            /\ Finish(p)
            /\ Disturbed
            /\ UNCHANGED <<resIds, status, persister, cache, files, up>>

-----------------------------------------------------------------------------
(* A frame of the deployments table.                                       *)

\* Between these steps of an operation nothing is half done.
Between == {"idle", "lookup", "map", "cluster", "status", "delete"}

TableOf(rows) ==
    [rows |-> <<>>, size |-> rows, quiet |-> \A p \in Procs : procs[p].pc \in Between]

\* Mutant of FrameStart: the index of the last row for the number of rows.
FrameStartLast ==
    /\ up /\ frame.size = Len(frame.rows)
    /\ frame' = TableOf(Cardinality({id \in Ids : resIds[id] # None}) - 1)
    /\ UNCHANGED <<resIds, list, status, persister, cache, files, procs, up>>

\* component.Table is told the size once ...
FrameStart ==
    /\ up /\ frame.size = Len(frame.rows)
    /\ frame' = TableOf(Cardinality({id \in Ids : resIds[id] # None}))
    /\ UNCHANGED <<resIds, list, status, persister, cache, files, procs, up>>

\* ... and asks for the rows one after the other; Get indexes the list.
FrameRow ==
    LET i == Len(frame.rows) + 1 IN
    /\ up /\ i <= frame.size
    /\ IF i > Len(list) THEN Died
       ELSE /\ frame' = [frame EXCEPT !.rows = Append(@, IdOf(list[i]))]
            /\ UNCHANGED <<resIds, list, status, persister, cache, files, procs, up>>

-----------------------------------------------------------------------------
Step(p) ==
    \/ LockAndAdd(p) \/ AddToMap(p) \/ ReadList(p) \/ AddToList(p) \/ AddToCache(p)
    \/ Truncate(p) \/ Write(p) \/ PersistFails(p)
    \/ ClusterDone(p) \/ Deployed(p)
    \/ RemoveFromMap(p) \/ RemoveFromCache(p) \/ RemoveFromList(p)

Click(p) ==
    \/ \E add \in Ids, end \in Ids : Deploy(p, add, end)
    \/ \E id \in Ids : Undeploy(p, id)

Next ==
    \/ \E p \in Procs : Click(p) \/ Step(p)
    \/ FrameStart \/ FrameRow
    \/ \E place \in Places \cup {Nowhere} : Start(place)
    \/ Crash

Spec == Init /\ [][Next]_vars

\* Goroutines that are waiting for a click or for the cluster hold nothing.
Waiting == {"idle", "cluster"}
Alone(p) == \A q \in Procs \ {p} : procs[q].pc \in Waiting

\* The register's operations do not overlap, and the tab of the deployed
\* resource stays in front; frames, deployments under way, crashes and
\* failing writes are as before.
SerialNext ==
    \/ \E p \in Procs :
           /\ Alone(p)
           /\ \/ Step(p)
              \/ \E id \in Ids : Deploy(p, id, id) \/ Undeploy(p, id)
    \/ FrameStart \/ FrameRow
    \/ \E place \in Places \cup {Nowhere} : Start(place)
    \/ Crash

SerialSpec == Init /\ [][SerialNext]_vars

-----------------------------------------------------------------------------
(* Properties.                                                             *)

RecordsOf(entries) ==
    [id \in Ids |-> IF \E e \in ToSet(entries) : e.id = id
                    THEN (CHOOSE e \in ToSet(entries) : e.id = id).status ELSE None]

\* From its first assignment to the end of persist a change is under way.
Changed == {"list", "list2", "cache", "uncache", "truncate", "write"}

Recs == [id \in Ids |-> IF resIds[id] = None THEN None ELSE status[resIds[id]]]
Disk == [place \in Places |-> RecordsOf(files[place])]
Settled == persister = Nowhere \/ \A p \in Procs : procs[p].pc \notin Changed

\* Map, list, cache and file are one durable register: a record changes in
\* one place after the other, and to the rest of the program, to a crash and
\* to the next start it is as if it changed in one step and were then written
\* (DeployedResources with FileDeploymentPersister).
Promise == INSTANCE DurableRecords WITH
    recs <- Recs, disk <- Disk, place <- persister, settled <- Settled

KeepsPromise == Promise!Spec

\* A frame that no operation disturbed shows every deployment of the register
\* in one row and nothing else, although size and rows come from two
\* structures (DeployedResources.Size and Get).
QuietFramesComplete ==
    (frame.quiet /\ Len(frame.rows) = frame.size)
        => /\ ToSet(frame.rows) = {id \in Ids : resIds[id] # None}
           /\ IsInjective(frame.rows)
=============================================================================
