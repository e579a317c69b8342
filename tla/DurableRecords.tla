--------------------------- MODULE DurableRecords ---------------------------
(***************************************************************************)
(* What the register of deployments promises to the rest of the program:   *)
(* records change one at a time, every change is on disk before the next   *)
(* one is made, and a new start finds what is on disk.  Two weaknesses of  *)
(* the file are part of the promise: while it is being written it holds    *)
(* nothing, and a write that fails goes unnoticed.                         *)
(***************************************************************************)
CONSTANTS
    Ids,        \* ids of repository nodes
    Statuses,   \* of a deployment
    Places,     \* files a start may choose
    Nowhere,    \* the choice of a start that keeps no file
    None

VARIABLES
    recs,       \* recs[id]: status of the deployment in memory, or None
    disk,       \* disk[place][id]: the same on disk
    place,      \* the file this run of the program writes
    settled,    \* the last change has been dealt with
    up          \* the program is running

vars == <<recs, disk, place, settled, up>>

NoRecords == [id \in Ids |-> None]

TypeOK ==
    /\ recs \in [Ids -> Statuses \cup {None}]
    /\ disk \in [Places -> [Ids -> Statuses \cup {None}]]
    /\ place \in Places \cup {Nowhere}
    /\ settled \in BOOLEAN
    /\ up \in BOOLEAN

Init ==
    /\ recs = NoRecords
    /\ disk = [p \in Places |-> NoRecords]
    /\ place = Nowhere
    /\ settled = TRUE
    /\ up = FALSE

\* A deployment is registered, completed or dropped.
Change(id, status) ==
    /\ up /\ settled
    /\ recs' = [recs EXCEPT ![id] = status]
    /\ settled' = (place = Nowhere)
    /\ UNCHANGED <<disk, place, up>>

OnDisk(r) == disk' = [disk EXCEPT ![place] = r]

Truncate ==
    /\ up /\ ~settled
    /\ OnDisk(NoRecords)
    /\ UNCHANGED <<recs, place, settled, up>>

Flush ==
    /\ up /\ ~settled
    /\ OnDisk(recs)
    /\ settled' = TRUE
    /\ UNCHANGED <<recs, place, up>>

FlushFails ==
    /\ up /\ ~settled
    /\ settled' = TRUE
    /\ UNCHANGED <<recs, disk, place, up>>

Stop ==
    /\ up
    /\ up' = FALSE /\ recs' = NoRecords /\ place' = Nowhere /\ settled' = TRUE
    /\ UNCHANGED disk

Start(p) ==
    /\ ~up
    /\ up' = TRUE /\ place' = p
    /\ recs' = IF p = Nowhere THEN NoRecords ELSE disk[p]
    /\ UNCHANGED <<disk, settled>>

Next ==
    \/ \E id \in Ids, s \in Statuses \cup {None} : Change(id, s)
    \/ Truncate \/ Flush \/ FlushFails \/ Stop
    \/ \E p \in Places \cup {Nowhere} : Start(p)

Spec == Init /\ [][Next]_vars
=============================================================================
