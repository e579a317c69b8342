------------------------ MODULE DeployRegistryProofs ------------------------
(***************************************************************************)
(* For any nodes, goroutines and files, operations of the register that do *)
(* not overlap keep the promise of DurableRecords through crashes, failing *)
(* writes and starts, and a frame they do not disturb is complete.         *)
(*                                                                         *)
(* The argument: at most one goroutine is inside an operation, and where   *)
(* it is says which of map, list, cache and file already agree.  Nothing   *)
(* else can be said of them, so the inductive invariant has a clause for   *)
(* every step of a goroutine.                                              *)
(***************************************************************************)
EXTENDS DeployRegistry, SequenceFacts, FiniteSetTheorems

-----------------------------------------------------------------------------
(* The inductive invariant.                                                *)

Distinct(seq) == \A i, j \in DOMAIN seq : IdOf(seq[i]) = IdOf(seq[j]) => i = j

\* seq has the details that the map has for ids, each once.
Listing(seq, ids) ==
    /\ \A i \in DOMAIN seq : IdOf(seq[i]) \in ids /\ resIds[IdOf(seq[i])] = seq[i]
    /\ \A id \in ids : resIds[id] # None => \E i \in DOMAIN seq : seq[i] = resIds[id]
    /\ Distinct(seq)

Lists(seq) == Listing(seq, Ids)
Cached(seq) == cache = IF persister = Nowhere THEN <<>> ELSE seq

\* Only one goroutine is anywhere but waiting.
Mutex == \A p, q \in Procs : p # q => procs[p].pc \in Waiting \/ procs[q].pc \in Waiting

OwnIds == \A id \in Ids : resIds[id] # None => IdOf(resIds[id]) = id

DistinctEntries(entries) ==
    \A i, j \in DOMAIN entries : entries[i].id = entries[j].id => i = j
FilesDistinct == \A place \in Places : DistinctEntries(files[place])

\* What a goroutine knows at a step, whatever the others do.
Local(t) ==
    /\ t.pc = "idle" => t = Idle
    /\ t.pc # "list2" => t.seen = <<>>
    /\ t.pc \notin {"idle"} => t.end \in Ids
    /\ t.pc \in {"lookup", "map", "list", "list2", "cache"} => t.add = t.end
    /\ t.pc \in {"lookup", "cluster", "status", "delete"} => t.detail = None
    /\ t.pc \in {"map", "list", "list2", "cache"} => t.detail # None /\ IdOf(t.detail) = t.add
    /\ t.pc \notin {"uncache", "truncate", "write", "unlist"} => t.at = 0
    /\ t.pc \in {"uncache", "unlist"} => t.at > 0
    /\ t.pc \in {"cache", "uncache", "truncate", "write"} => persister # Nowhere

\* What it knows of the shared state while it is the one that does not wait.
Shared(t) ==
    /\ t.pc \in {"lookup", "map", "status", "delete"} => Lists(list) /\ Cached(list)
    /\ t.pc = "map" => resIds[t.add] = None
    /\ t.pc \in {"list", "list2"} =>
           Listing(list, Ids \ {t.add}) /\ resIds[t.add] = t.detail /\ Cached(list)
    /\ t.pc = "list2" => t.seen = list
    /\ t.pc = "cache" => Lists(list) /\ list = Append(cache, t.detail)
    /\ t.pc = "uncache" => cache = list
    /\ t.pc \in {"truncate", "write"} =>
           Lists(cache) /\ cache = IF t.at = 0 THEN list ELSE RemoveAt(list, t.at)
    /\ t.at > 0 =>
           /\ t.at \in DOMAIN list /\ IdOf(list[t.at]) = t.end /\ Distinct(list)
           /\ Lists(RemoveAt(list, t.at))
    /\ t.pc = "unlist" => Cached(RemoveAt(list, t.at))

GoroutinesInv ==
    /\ \A p \in Procs : Local(procs[p])
    /\ \A p \in Procs : procs[p].pc \notin Waiting => Shared(procs[p])
    /\ (\A p \in Procs : procs[p].pc \in Waiting) => Lists(list) /\ Cached(list)

Registered == {id \in Ids : resIds[id] # None}

FrameInv ==
    frame.quiet =>
        /\ Lists(list)
        /\ frame.size = Cardinality(Registered)
        /\ Len(frame.rows) <= Len(list)
        /\ \A i \in DOMAIN frame.rows : frame.rows[i] = IdOf(list[i])

DownInv ==
    ~up => /\ Empty
           /\ persister = Nowhere
           /\ procs = [p \in Procs |-> Idle]
           /\ frame = NoFrame

IInv ==
    /\ TypeOK
    /\ Mutex
    /\ OwnIds
    /\ FilesDistinct
    /\ GoroutinesInv
    /\ FrameInv
    /\ DownInv

-----------------------------------------------------------------------------
(* The operators.                                                          *)

\* A detail is known by its id and its number, and is not None.
LEMMA DetailType ==
    /\ \A d \in Detail : IdOf(d) \in Ids /\ d # None
    /\ \A id \in Ids : <<id, 1>> \in Detail /\ IdOf(<<id, 1>>) = id
<1>1. Cardinality(Procs) \in Nat
  BY FiniteAssumption, FS_CardinalityType
<1>2. 1 \in 1 .. 1 + 2 * Cardinality(Procs)
  BY <1>1
<1> QED  BY <1>2, NamesAssumption DEF Detail, IdOf

\* In a sequence that has an id once, Position finds it.
LEMMA PositionFinds ==
    ASSUME NEW seq \in Seq(Detail), Distinct(seq), NEW id
    PROVE  /\ Position(seq, id) = 0 => \A i \in DOMAIN seq : IdOf(seq[i]) # id
           /\ Position(seq, id) # 0 =>
                  Position(seq, id) \in DOMAIN seq /\ IdOf(seq[Position(seq, id)]) = id
           /\ Position(seq, id) \in Nat
<1>1. DOMAIN seq = 1 .. Len(seq) /\ Len(seq) \in Nat
  BY LenProperties
<1>2. CASE \E i \in DOMAIN seq : IdOf(seq[i]) = id
  <2> DEFINE First(i) == IdOf(seq[i]) = id /\ \A j \in 1 .. i - 1 : IdOf(seq[j]) # id
  <2>1. PICK i \in DOMAIN seq : IdOf(seq[i]) = id
    BY <1>2
  <2>2. \A j \in 1 .. i - 1 : IdOf(seq[j]) # id
    BY <1>1, <2>1 DEF Distinct
  <2>3. \E k \in DOMAIN seq : First(k)
    BY <2>1, <2>2
  <2>4. Position(seq, id) = CHOOSE k \in DOMAIN seq : First(k)
    BY <1>2 DEF Position
  <2>5. Position(seq, id) \in DOMAIN seq /\ First(Position(seq, id))
    BY <2>3, <2>4
  <2> QED  BY <1>1, <2>5
<1>3. CASE ~\E i \in DOMAIN seq : IdOf(seq[i]) = id
  BY <1>3 DEF Position
<1> QED  BY <1>2, <1>3

\* The detail an id has is the only one with that id in what lists the map.
LEMMA ListingElements ==
    ASSUME TypeOK, NEW ids, NEW seq \in Seq(Detail), Listing(seq, ids)
    PROVE  \A id \in ids : resIds[id] = None => \A i \in DOMAIN seq : IdOf(seq[i]) # id
BY DetailType, ElementOfSeq, LenProperties DEF Listing

\* What misses the detail of one id lists the map when it is appended.
LEMMA ListingAppend ==
    ASSUME TypeOK, NEW seq \in Seq(Detail), NEW id \in Ids, NEW d \in Detail,
           IdOf(d) = id, resIds[id] = d, Listing(seq, Ids \ {id})
    PROVE  Lists(Append(seq, d))
<1> DEFINE all == Append(seq, d)
<1>1. /\ Len(seq) \in Nat /\ DOMAIN seq = 1 .. Len(seq)
      /\ \A i \in DOMAIN seq : seq[i] \in Detail
  BY LenProperties, ElementOfSeq
<1>2. /\ all \in Seq(Detail) /\ Len(all) = Len(seq) + 1
      /\ \A i \in 1 .. Len(seq) : all[i] = seq[i]
      /\ all[Len(seq) + 1] = d
  BY AppendProperties
<1>3. DOMAIN all = 1 .. Len(seq) + 1
  BY <1>2, LenProperties
<1> HIDE DEF all
<1>4. \A i \in DOMAIN seq : IdOf(seq[i]) \in Ids \ {id} /\ resIds[IdOf(seq[i])] = seq[i]
  BY DEF Listing
<1>5. \A i \in DOMAIN all : i \in DOMAIN seq \/ i = Len(seq) + 1
  BY <1>1, <1>3
<1>6. \A i \in DOMAIN all : IdOf(all[i]) \in Ids /\ resIds[IdOf(all[i])] = all[i]
  BY <1>1, <1>2, <1>4, <1>5
<1>7. ASSUME NEW o \in Ids, resIds[o] # None
      PROVE  \E i \in DOMAIN all : all[i] = resIds[o]
  <2>1. CASE o = id
    <3>1. Len(seq) + 1 \in DOMAIN all
      BY <1>1, <1>3
    <3> QED  BY <2>1, <3>1, <1>2
  <2>2. CASE o # id
    <3>1. PICK i \in DOMAIN seq : seq[i] = resIds[o]
      BY <2>2, <1>7 DEF Listing
    <3>2. i \in DOMAIN all /\ all[i] = seq[i]
      BY <1>1, <1>2, <1>3
    <3> QED  BY <3>1, <3>2
  <2> QED  BY <2>1, <2>2
<1>8. ASSUME NEW i \in DOMAIN all, NEW j \in DOMAIN all, IdOf(all[i]) = IdOf(all[j])
      PROVE  i = j
  <2>1. CASE i \in DOMAIN seq /\ j \in DOMAIN seq
    BY <2>1, <1>1, <1>2, <1>8 DEF Listing, Distinct
  <2>2. CASE ~(i \in DOMAIN seq /\ j \in DOMAIN seq)
    BY <2>2, <1>1, <1>2, <1>4, <1>5, <1>8
  <2> QED  BY <2>1, <2>2
<1> QED  BY <1>6, <1>7, <1>8 DEF Lists, Listing, Distinct, all

\* The sequence without the detail of an id that has left the map.
LEMMA ListingRemove ==
    ASSUME TypeOK, OwnIds, NEW seq \in Seq(Detail), Lists(seq),
           NEW k \in DOMAIN seq, IdOf(seq[k]) \in Ids,
           resIds' = [resIds EXCEPT ![IdOf(seq[k])] = None]
    PROVE  Lists(RemoveAt(seq, k))'
<1> DEFINE rest == RemoveAt(seq, k)
           id == IdOf(seq[k])
<1>1. /\ Len(seq) \in Nat /\ DOMAIN seq = 1 .. Len(seq)
      /\ \A i \in DOMAIN seq : seq[i] \in Detail
  BY LenProperties, ElementOfSeq
<1>2. /\ rest \in Seq(Detail) /\ Len(rest) = Len(seq) - 1
      /\ \A i \in 1 .. Len(seq) - 1 : rest[i] = IF i < k THEN seq[i] ELSE seq[i + 1]
  BY <1>1, RemoveAtProperties
<1>3. DOMAIN rest = 1 .. Len(seq) - 1
  BY <1>2, LenProperties
<1>4. /\ \A i \in 1 .. Len(seq) : i # k =>
             \E j \in 1 .. Len(seq) - 1 : rest[j] = seq[i]
      /\ \A j \in 1 .. Len(seq) - 1 :
             \E i \in 1 .. Len(seq) : i # k /\ rest[j] = seq[i]
  <2>1. k \in 1 .. Len(seq)
    BY <1>1
  <2> QED  BY <2>1, RemoveAtKeeps
<1> HIDE DEF rest
<1>5. resIds \in [Ids -> Detail \cup {None}] /\ id \in Ids
  BY DEF TypeOK
<1>6. \A o \in Ids : resIds'[o] = IF o = id THEN None ELSE resIds[o]
  BY <1>5
<1>7. Listing(seq, Ids)
  BY DEF Lists
<1>8. \A i \in DOMAIN seq : i # k => IdOf(seq[i]) # id
  BY <1>7 DEF Listing, Distinct
<1>9. ASSUME NEW j \in DOMAIN rest
      PROVE  IdOf(rest[j]) \in Ids /\ resIds'[IdOf(rest[j])] = rest[j]
  <2>1. PICK i \in DOMAIN seq : i # k /\ rest[j] = seq[i]
    BY <1>1, <1>3, <1>4
  <2>2. IdOf(seq[i]) \in Ids /\ resIds[IdOf(seq[i])] = seq[i]
    BY <1>7 DEF Listing
  <2> QED  BY <2>1, <2>2, <1>6, <1>8
<1>10. ASSUME NEW o \in Ids, resIds'[o] # None
       PROVE  \E j \in DOMAIN rest : rest[j] = resIds'[o]
  <2>1. o # id /\ resIds[o] = resIds'[o]
    BY <1>6, <1>10
  <2>2. PICK i \in DOMAIN seq : seq[i] = resIds[o]
    BY <2>1, <1>7, <1>10 DEF Listing
  <2>3. IdOf(seq[i]) = o
    BY <2>1, <2>2, <1>10 DEF OwnIds
  <2> QED  BY <2>1, <2>2, <2>3, <1>1, <1>3, <1>4
<1>11. ASSUME NEW i \in DOMAIN rest, NEW j \in DOMAIN rest, IdOf(rest[i]) = IdOf(rest[j])
       PROVE  i = j
  <2>1. \A m, n \in DOMAIN seq : IdOf(seq[m]) = IdOf(seq[n]) => m = n
    BY <1>7 DEF Listing, Distinct
  <2> DEFINE Was(m) == IF m < k THEN m ELSE m + 1
  <2>2. Was(i) \in DOMAIN seq /\ Was(j) \in DOMAIN seq
    BY <1>1, <1>3
  <2>3. rest[i] = seq[Was(i)] /\ rest[j] = seq[Was(j)]
    BY <1>2, <1>3
  <2>4. Was(i) = Was(j)
    BY <2>1, <2>2, <2>3, <1>11
  <2> QED  BY <2>4, <1>1, <1>3
<1> QED  BY <1>9, <1>10, <1>11 DEF Lists, Listing, Distinct, rest

-----------------------------------------------------------------------------
(* What is in a file.                                                      *)

\* A file that has an id once says one thing of it.
LEMMA RecordsOfEntries ==
    ASSUME NEW entries \in Seq(Entry), DistinctEntries(entries)
    PROVE  /\ \A i \in DOMAIN entries :
                  RecordsOf(entries)[entries[i].id] = entries[i].status
           /\ \A id \in Ids : (\A i \in DOMAIN entries : entries[i].id # id)
                  => RecordsOf(entries)[id] = None
<1>1. \A i \in DOMAIN entries : entries[i] \in Entry
  BY ElementOfSeq, LenProperties
<1>2. ToSet(entries) = {entries[i] : i \in DOMAIN entries}
  BY DEF ToSet
<1>3. ASSUME NEW i \in DOMAIN entries
      PROVE  RecordsOf(entries)[entries[i].id] = entries[i].status
  <2> DEFINE id == entries[i].id
             e == CHOOSE e \in ToSet(entries) : e.id = id
  <2>1. id \in Ids
    BY <1>1 DEF Entry
  <2>2. entries[i] \in ToSet(entries) /\ entries[i].id = id
    BY <1>2
  <2>3. e \in ToSet(entries) /\ e.id = id
    BY <2>2
  <2>4. PICK j \in DOMAIN entries : e = entries[j]
    BY <2>3, <1>2
  <2>5. j = i
    BY <2>3, <2>4 DEF DistinctEntries
  <2>6. RecordsOf(entries)[id] = e.status
    BY <2>1, <2>2 DEF RecordsOf
  <2> QED  BY <2>4, <2>5, <2>6
<1>4. ASSUME NEW id \in Ids, \A i \in DOMAIN entries : entries[i].id # id
      PROVE  RecordsOf(entries)[id] = None
  BY <1>2, <1>4 DEF RecordsOf
<1> QED  BY <1>3, <1>4

LEMMA NothingInEmpty == RecordsOf(<<>>) = [id \in Ids |-> None]
BY DEF RecordsOf, ToSet

\* A cache that lists the map puts the records into the file.
LEMMA PersistedRecords ==
    ASSUME TypeOK, OwnIds, Lists(cache)
    PROVE  /\ Persisted \in Seq(Entry)
           /\ DistinctEntries(Persisted)
           /\ RecordsOf(Persisted) = Recs
<1>1. /\ Len(cache) \in Nat /\ DOMAIN cache = 1 .. Len(cache)
      /\ \A i \in DOMAIN cache : cache[i] \in Detail
  BY LenProperties, ElementOfSeq DEF TypeOK
<1>2. \A d \in Detail : IdOf(d) \in Ids /\ status[d] \in Statuses /\ d # None
  BY DetailType DEF TypeOK
<1>3. /\ DOMAIN Persisted = 1 .. Len(cache)
      /\ \A i \in DOMAIN cache : /\ Persisted[i].id = IdOf(cache[i])
                                 /\ Persisted[i].status = status[cache[i]]
                                 /\ Persisted[i] \in Entry
  BY <1>1, <1>2 DEF Persisted, Entry
<1>4. Persisted \in Seq(Entry)
  <2>1. Persisted = [i \in 1 .. Len(cache) |-> Persisted[i]]
    BY <1>1 DEF Persisted
  <2>2. Persisted \in [1 .. Len(cache) -> Entry]
    BY <2>1, <1>1, <1>3
  <2> QED  BY <2>2, <1>1, SeqDef
<1>5. DistinctEntries(Persisted)
  BY <1>1, <1>3 DEF DistinctEntries, Lists, Listing, Distinct
<1>6. ASSUME NEW id \in Ids
      PROVE  RecordsOf(Persisted)[id] = IF resIds[id] = None THEN None ELSE status[resIds[id]]
  <2>1. CASE resIds[id] = None
    <3>1. \A i \in DOMAIN cache : IdOf(cache[i]) # id
      BY <2>1, <1>1, <1>2 DEF Lists, Listing
    <3>2. \A i \in DOMAIN Persisted : Persisted[i].id # id
      BY <3>1, <1>1, <1>3
    <3> QED  BY <2>1, <3>2, <1>4, <1>5, RecordsOfEntries
  <2>2. CASE resIds[id] # None
    <3>1. PICK i \in DOMAIN cache : cache[i] = resIds[id]
      BY <2>2 DEF Lists, Listing
    <3>2. i \in DOMAIN Persisted /\ Persisted[i].id = id /\ Persisted[i].status = status[resIds[id]]
      BY <2>2, <3>1, <1>1, <1>3 DEF OwnIds
    <3>3. RecordsOf(Persisted)[Persisted[i].id] = Persisted[i].status
      BY <3>2, <1>4, <1>5, RecordsOfEntries
    <3> QED  BY <2>2, <3>2, <3>3
  <2> QED  BY <2>1, <2>2
<1>7. RecordsOf(Persisted) = Recs
  <2>1. RecordsOf(Persisted) = [id \in Ids |-> RecordsOf(Persisted)[id]]
    BY DEF RecordsOf
  <2> QED  BY <2>1, <1>6 DEF Recs
<1> QED  BY <1>4, <1>5, <1>7

\* What a start makes of a file: a first detail for every id in it.
LEMMA LoadedDetails ==
    ASSUME NEW entries \in Seq(Entry), DistinctEntries(entries)
    PROVE  /\ Loaded(entries) \in Seq(Detail)
           /\ DOMAIN Loaded(entries) = DOMAIN entries
           /\ \A i \in DOMAIN entries : Loaded(entries)[i] = <<entries[i].id, 1>>
           /\ Distinct(Loaded(entries))
<1>1. /\ Len(entries) \in Nat /\ DOMAIN entries = 1 .. Len(entries)
      /\ \A i \in DOMAIN entries : entries[i].id \in Ids
  <2>1. Len(entries) \in Nat /\ DOMAIN entries = 1 .. Len(entries)
    BY LenProperties
  <2>2. \A i \in 1 .. Len(entries) : entries[i] \in Entry
    BY ElementOfSeq
  <2> QED  BY <2>1, <2>2 DEF Entry
<1>2. ASSUME NEW i \in DOMAIN entries
      PROVE  Loaded(entries)[i] = <<entries[i].id, 1>>
  <2>1. {j \in 1 .. i - 1 : entries[j].id = entries[i].id} = {}
    <3>1. \A j \in 1 .. i - 1 : j \in DOMAIN entries /\ j # i
      BY <1>1
    <3> QED  BY <3>1 DEF DistinctEntries
  <2>2. 1 + Cardinality({j \in 1 .. i - 1 : entries[j].id = entries[i].id}) = 1
    <3>1. Cardinality({j \in 1 .. i - 1 : entries[j].id = entries[i].id}) = 0
      BY <2>1, FS_EmptySet, Zenon
    <3> QED  BY <3>1
  <2> QED  BY <2>2 DEF Loaded
<1>3. DOMAIN Loaded(entries) = DOMAIN entries
  BY DEF Loaded
<1>4. Loaded(entries) \in Seq(Detail)
  <2>1. \A i \in 1 .. Len(entries) : Loaded(entries)[i] \in Detail
    BY <1>1, <1>2, DetailType
  <2>2. Loaded(entries) = [i \in 1 .. Len(entries) |-> Loaded(entries)[i]]
    BY <1>1 DEF Loaded
  <2>3. Loaded(entries) \in [1 .. Len(entries) -> Detail]
    BY <2>1, <2>2
  <2> QED  BY <2>3, <1>1, SeqDef
<1>5. Distinct(Loaded(entries))
  <2>1. ASSUME NEW i \in DOMAIN entries, NEW j \in DOMAIN entries,
               IdOf(Loaded(entries)[i]) = IdOf(Loaded(entries)[j])
        PROVE  i = j
    <3>1. entries[i].id = entries[j].id
      BY <2>1, <1>1, <1>2, DetailType
    <3> QED  BY <3>1 DEF DistinctEntries
  <2> QED  BY <2>1, <1>3 DEF Distinct
<1> QED  BY <1>2, <1>3, <1>4, <1>5

-----------------------------------------------------------------------------
(* Steps of the goroutines.                                                *)

FrameType == [rows : Seq(Ids), size : Nat, quiet : BOOLEAN]

\* What holds where a goroutine is.
LEMMA Here ==
    ASSUME IInv, NEW p \in Procs
    PROVE  /\ procs[p] \in Goroutine
           /\ Local(procs[p])
           /\ procs[p].pc \notin Waiting => Shared(procs[p])
           /\ resIds \in [Ids -> Detail \cup {None}]
           /\ list \in Seq(Detail) /\ cache \in Seq(Detail)
           /\ DOMAIN list = 1 .. Len(list) /\ DOMAIN cache = 1 .. Len(cache)
BY LenProperties DEF IInv, TypeOK, GoroutinesInv

\* A step of p, while the others wait, has to establish what holds at p's
\* next step only.
LEMMA StepInv ==
    ASSUME IInv, NEW p \in Procs, Alone(p), up, up' = up, persister' = persister,
           procs' \in [Procs -> Goroutine],
           \A q \in Procs \ {p} : procs'[q] = procs[q],
           resIds' \in [Ids -> Detail \cup {None}], status' \in [Detail -> Statuses],
           list' \in Seq(Detail), cache' \in Seq(Detail),
           files' \in [Places -> Seq(Entry)], frame' \in FrameType,
           OwnIds', FilesDistinct', FrameInv', Local(procs[p])',
           procs'[p].pc \notin Waiting => Shared(procs[p])',
           procs'[p].pc \in Waiting => Lists(list)' /\ Cached(list)'
    PROVE  IInv'
<1>1. \A q \in Procs \ {p} : procs'[q].pc \in Waiting
  BY DEF Alone
<1>2. TypeOK'
  BY DEF IInv, TypeOK, FrameType
<1>3. Mutex'
  BY <1>1 DEF Mutex
<1>4. \A q \in Procs : Local(procs[q])'
  BY DEF IInv, GoroutinesInv, Local
<1>5. GoroutinesInv'
  BY <1>1, <1>4 DEF GoroutinesInv
<1>6. DownInv'
  BY DEF DownInv
<1> QED  BY <1>2, <1>3, <1>5, <1>6 DEF IInv

\* Frames see no difference, or know that something has changed.
LEMMA FrameKept ==
    ASSUME IInv, UNCHANGED <<resIds, list, frame>>
    PROVE  FrameInv' /\ frame' \in FrameType
BY DEF IInv, TypeOK, FrameInv, FrameType, Lists, Listing, Registered

LEMMA FrameDisturbed ==
    ASSUME IInv, Disturbed
    PROVE  FrameInv' /\ frame' \in FrameType
BY DEF IInv, TypeOK, FrameInv, FrameType, Disturbed

\* Steps that only move a goroutine between places where map, list and cache
\* agree.
LEMMA AgreeingStep ==
    ASSUME IInv, NEW p \in Procs, Alone(p), up, NEW t \in Goroutine,
           procs' = [procs EXCEPT ![p] = t],
           UNCHANGED <<resIds, list, status, persister, cache, files, frame, up>>,
           Lists(list), Cached(list), Local(t), t.at = 0,
           t.pc \in {"idle", "lookup", "map", "cluster", "status", "delete"},
           t.pc = "map" => resIds[t.add] = None
    PROVE  IInv'
<1>1. procs \in [Procs -> Goroutine]
  BY DEF IInv, TypeOK
<1>2. /\ procs' \in [Procs -> Goroutine] /\ procs'[p] = t
      /\ \A q \in Procs \ {p} : procs'[q] = procs[q]
  BY <1>1
<1>3. FrameInv' /\ frame' \in FrameType
  BY FrameKept
<1>4. Lists(list)' /\ Cached(list)'
  BY DEF Lists, Listing, Cached
<1>5. Local(procs[p])'
  BY <1>2 DEF Local
<1>6. Shared(procs[p])'
  BY <1>2, <1>4 DEF Shared
<1>7. OwnIds' /\ FilesDistinct'
  BY DEF IInv, OwnIds, FilesDistinct
<1> QED
  BY <1>2, <1>3, <1>4, <1>5, <1>6, <1>7, StepInv DEF IInv, TypeOK

\* When nobody is inside an operation, all agree.
LEMMA AllWait ==
    ASSUME IInv, NEW p \in Procs, Alone(p), procs[p].pc \in Waiting
    PROVE  Lists(list) /\ Cached(list)
BY DEF IInv, GoroutinesInv, Alone

LEMMA IdleType == Idle \in Goroutine
BY EmptySeq DEF Idle, Goroutine, Steps

LEMMA DeployInv ==
    ASSUME IInv, NEW p \in Procs, Alone(p), NEW id \in Ids, Deploy(p, id, id)
    PROVE  IInv'
<1> DEFINE t == [Idle EXCEPT !.pc = "lookup", !.add = id, !.end = id]
<1>1. Lists(list) /\ Cached(list)
  BY AllWait DEF Deploy, At, Waiting
<1>2. /\ t \in Goroutine /\ t.at = 0 /\ t.pc = "lookup" /\ t.seen = <<>>
      /\ t.end = id /\ t.add = id /\ t.detail = None
  BY IdleType DEF Idle, Goroutine, Steps
<1>3. procs' = [procs EXCEPT ![p] = t]
  BY DEF Deploy
<1> HIDE DEF t
<1>4. Local(t)
  BY <1>2 DEF Local
<1> QED  BY <1>1, <1>2, <1>3, <1>4, AgreeingStep DEF Deploy, At

LEMMA UndeployInv ==
    ASSUME IInv, NEW p \in Procs, Alone(p), NEW id \in Ids, Undeploy(p, id)
    PROVE  IInv'
<1> DEFINE t == [Idle EXCEPT !.pc = "delete", !.end = id]
<1>1. Lists(list) /\ Cached(list)
  BY AllWait DEF Undeploy, At, Waiting
<1>2. /\ t \in Goroutine /\ t.at = 0 /\ t.pc = "delete" /\ t.seen = <<>>
      /\ t.end = id /\ t.detail = None
  BY IdleType DEF Idle, Goroutine, Steps
<1>3. procs' = [procs EXCEPT ![p] = t]
  BY DEF Undeploy
<1> HIDE DEF t
<1>4. Local(t)
  BY <1>2 DEF Local
<1> QED  BY <1>1, <1>2, <1>3, <1>4, AgreeingStep DEF Undeploy, At

\* A detail that nobody holds can be found for an id without one.
LEMMA NewDetailType ==
    ASSUME IInv, NEW p \in Procs, Alone(p), procs[p].pc = "lookup",
           NEW id \in Ids, resIds[id] = None
    PROVE  NewDetail(id) \in Detail /\ IdOf(NewDetail(id)) = id
<1> DEFINE held == ToSet(list) \cup ToSet(cache) \cup {procs[q].detail : q \in Procs}
                       \cup (UNION {ToSet(procs[q].seen) : q \in Procs}) \cup {resIds[id]}
           New(d) == d \notin held /\ IdOf(d) = id
                         /\ \A e \in Detail \ held : IdOf(e) = id => d[2] <= e[2]
           first == <<id, 1>>
<1>1. Lists(list) /\ Cached(list)
  BY Here DEF Shared, Waiting
<1>2. \A i \in DOMAIN list : IdOf(list[i]) # id
  BY <1>1, ListingElements DEF Lists, IInv, TypeOK
<1>3. \A i \in DOMAIN cache : IdOf(cache[i]) # id
  BY <1>1, <1>2 DEF Cached
<1>4. \A q \in Procs : procs[q].detail = None /\ procs[q].seen = <<>>
  <2>1. \A q \in Procs : procs[q].pc \in {"idle", "cluster", "lookup"}
    BY DEF Alone, Waiting
  <2> QED  BY <2>1, Here DEF Local, Idle
<1>5. first \in Detail /\ IdOf(first) = id /\ first # None /\ first[2] = 1
  BY DetailType
<1>6. first \notin held
  <2>1. first \notin ToSet(list) /\ first \notin ToSet(cache)
    BY <1>2, <1>3, <1>5 DEF ToSet
  <2>2. first \notin {procs[q].detail : q \in Procs} \cup {resIds[id]}
    BY <1>4, <1>5
  <2>3. \A q \in Procs : first \notin ToSet(procs[q].seen)
    BY <1>4 DEF ToSet
  <2> HIDE DEF first
  <2>4. first \notin UNION {ToSet(procs[q].seen) : q \in Procs}
    BY <2>3
  <2> QED  BY <2>1, <2>2, <2>4, Zenon
<1>7. \A e \in Detail : 1 <= e[2]
  <2>1. Cardinality(Procs) \in Nat
    BY FiniteAssumption, FS_CardinalityType
  <2> QED  BY <2>1 DEF Detail
<1>8. New(first)
  BY <1>5, <1>6, <1>7
<1>9. NewDetail(id) = CHOOSE d \in Detail : New(d)
  BY DEF NewDetail
<1> HIDE DEF held, first
<1>10. NewDetail(id) \in Detail /\ New(NewDetail(id))
  BY <1>5, <1>8, <1>9
<1> QED  BY <1>10

LEMMA LockAndAddInv ==
    ASSUME IInv, NEW p \in Procs, Alone(p), LockAndAdd(p)
    PROVE  IInv'
<1> DEFINE id == procs[p].add
<1>1. /\ procs[p] \in Goroutine /\ Local(procs[p]) /\ Shared(procs[p])
      /\ procs[p].pc = "lookup" /\ up
      /\ UNCHANGED <<resIds, list, status, persister, cache, files, frame, up>>
  BY Here DEF LockAndAdd, At, Waiting
<1>2. Lists(list) /\ Cached(list)
  BY <1>1 DEF Shared
<1>3. id \in Ids /\ procs[p].at = 0 /\ procs[p].detail = None /\ procs[p].end = id
      /\ procs[p].seen = <<>>
  BY <1>1 DEF Local
<1>4. CASE Goto(p, "cluster")
  <2> DEFINE t == [procs[p] EXCEPT !.pc = "cluster"]
  <2>1. procs' = [procs EXCEPT ![p] = t]
    BY <1>4 DEF Goto, IInv, TypeOK, Goroutine
  <2>2. /\ t \in Goroutine /\ t.pc = "cluster" /\ t.at = 0 /\ t.seen = <<>>
        /\ t.end = id /\ t.detail = None
    BY <1>1, <1>3 DEF Goroutine, Steps
  <2> HIDE DEF t
  <2>3. Local(t)
    BY <2>2, <1>3 DEF Local
  <2> QED  BY <1>1, <1>2, <2>1, <2>2, <2>3, AgreeingStep
<1>5. CASE resIds[id] = None
           /\ procs' = [procs EXCEPT ![p].pc = "map", ![p].detail = NewDetail(id)]
  <2> DEFINE t == [procs[p] EXCEPT !.pc = "map", !.detail = NewDetail(id)]
  <2>1. procs' = [procs EXCEPT ![p] = t]
    BY <1>5 DEF IInv, TypeOK, Goroutine
  <2>2. NewDetail(id) \in Detail /\ IdOf(NewDetail(id)) = id /\ NewDetail(id) # None
    BY <1>1, <1>3, <1>5, NewDetailType, DetailType
  <2>3. /\ t \in Goroutine /\ t.pc = "map" /\ t.at = 0 /\ t.seen = <<>>
        /\ t.end = id /\ t.add = id /\ t.detail = NewDetail(id)
    BY <1>1, <1>3, <2>2 DEF Goroutine, Steps
  <2> HIDE DEF t
  <2>4. Local(t)
    BY <2>2, <2>3, <1>3 DEF Local
  <2> QED  BY <1>1, <1>2, <1>5, <2>1, <2>3, <2>4, AgreeingStep
<1>6. CASE Finish(p)
  <2>1. Idle.pc = "idle" /\ Idle.at = 0 /\ Idle.seen = <<>>
    BY DEF Idle
  <2>2. Local(Idle)
    BY <2>1 DEF Local
  <2> QED  BY <1>1, <1>2, <1>6, <2>1, <2>2, IdleType, AgreeingStep DEF Finish
<1> QED  BY <1>4, <1>5, <1>6 DEF LockAndAdd

LEMMA AddToMapInv ==
    ASSUME IInv, NEW p \in Procs, Alone(p), AddToMap(p)
    PROVE  IInv'
<1> DEFINE id == procs[p].add
           d == procs[p].detail
<1>1. /\ procs[p] \in Goroutine /\ Local(procs[p]) /\ Shared(procs[p])
      /\ procs[p].pc = "map" /\ up
  BY Here DEF AddToMap, At, Waiting
<1>2. Lists(list) /\ Cached(list) /\ resIds[id] = None
  BY <1>1 DEF Shared
<1>3. /\ id \in Ids /\ procs[p].at = 0 /\ procs[p].end = id /\ procs[p].seen = <<>>
      /\ d \in Detail /\ IdOf(d) = id /\ d # None
  BY <1>1 DEF Local, Goroutine
<1>4. /\ resIds \in [Ids -> Detail \cup {None}] /\ status \in [Detail -> Statuses]
      /\ procs \in [Procs -> Goroutine]
  BY DEF IInv, TypeOK
<1>5. /\ resIds' \in [Ids -> Detail \cup {None}]
      /\ \A o \in Ids : resIds'[o] = IF o = id THEN d ELSE resIds[o]
  BY <1>3, <1>4 DEF AddToMap
<1>6. status' \in [Detail -> Statuses]
  BY <1>3, <1>4 DEF AddToMap, Statuses
<1>7. procs' = [procs EXCEPT ![p] = [procs[p] EXCEPT !.pc = "list"]]
  BY <1>4 DEF AddToMap, Goto, Goroutine
<1>8. /\ procs' \in [Procs -> Goroutine]
      /\ procs'[p].pc = "list" /\ procs'[p].add = id /\ procs'[p].end = id
      /\ procs'[p].detail = d /\ procs'[p].seen = <<>> /\ procs'[p].at = 0
      /\ \A q \in Procs \ {p} : procs'[q] = procs[q]
  BY <1>1, <1>3, <1>4, <1>7 DEF Goroutine, Steps
<1>9. Local(procs[p])'
  BY <1>3, <1>8 DEF Local
<1>10. Listing(list, Ids \ {id})'
  <2>1. \A i \in DOMAIN list : IdOf(list[i]) # id
    BY <1>2, <1>3, ListingElements DEF Lists, IInv, TypeOK
  <2>2. list' = list /\ procs'[p].add = id
    BY <1>8 DEF AddToMap
  <2>3. \A i \in DOMAIN list : IdOf(list[i]) \in Ids \ {id} /\ resIds'[IdOf(list[i])] = list[i]
    BY <1>2, <1>5, <2>1 DEF Lists, Listing
  <2>4. \A o \in Ids \ {id} : resIds'[o] # None => \E i \in DOMAIN list : list[i] = resIds'[o]
    BY <1>2, <1>5 DEF Lists, Listing
  <2>5. Distinct(list)
    BY <1>2 DEF Lists, Listing
  <2> QED  BY <2>2, <2>3, <2>4, <2>5 DEF Listing, Distinct
<1>11. Shared(procs[p])'
  BY <1>2, <1>3, <1>5, <1>8, <1>10 DEF Shared, Cached, AddToMap
<1>12. OwnIds'
  BY <1>3, <1>5 DEF IInv, OwnIds
<1>13. FilesDistinct'
  BY DEF IInv, FilesDistinct, AddToMap
<1>14. FrameInv' /\ frame' \in FrameType
  BY FrameDisturbed DEF AddToMap
<1>15. procs'[p].pc \notin Waiting
  BY <1>8 DEF Waiting
<1> QED
  BY <1>1, <1>5, <1>6, <1>8, <1>9, <1>11, <1>12, <1>13, <1>14, <1>15, StepInv
     DEF AddToMap, IInv, TypeOK

LEMMA ReadListInv ==
    ASSUME IInv, NEW p \in Procs, Alone(p), ReadList(p)
    PROVE  IInv'
<1>1. /\ procs[p] \in Goroutine /\ Local(procs[p]) /\ Shared(procs[p])
      /\ procs[p].pc = "list" /\ up /\ list \in Seq(Detail)
  BY Here DEF ReadList, At, Waiting
<1>2. procs \in [Procs -> Goroutine]
  BY DEF IInv, TypeOK
<1>3. procs' = [procs EXCEPT ![p] = [procs[p] EXCEPT !.pc = "list2", !.seen = list]]
  BY <1>2 DEF ReadList, Goroutine
<1>4. /\ procs' \in [Procs -> Goroutine]
      /\ procs'[p] = [procs[p] EXCEPT !.pc = "list2", !.seen = list]
      /\ \A q \in Procs \ {p} : procs'[q] = procs[q]
  BY <1>1, <1>2, <1>3 DEF Goroutine, Steps
<1>5. Local(procs[p])'
  BY <1>1, <1>4 DEF Local, Goroutine, ReadList
<1>6. Shared(procs[p])' /\ procs'[p].pc \notin Waiting
  BY <1>1, <1>4 DEF Shared, Local, Goroutine, ReadList, Listing, Cached, Waiting
<1>7. OwnIds' /\ FilesDistinct'
  BY DEF IInv, OwnIds, FilesDistinct, ReadList
<1>8. FrameInv' /\ frame' \in FrameType
  BY FrameKept DEF ReadList
<1> QED
  BY <1>1, <1>4, <1>5, <1>6, <1>7, <1>8, StepInv DEF ReadList, IInv, TypeOK

LEMMA AddToListInv ==
    ASSUME IInv, NEW p \in Procs, Alone(p), AddToList(p)
    PROVE  IInv'
<1> DEFINE id == procs[p].add
           d == procs[p].detail
           pc == IF persister = Nowhere THEN "cluster" ELSE "cache"
           t == [procs[p] EXCEPT !.seen = <<>>, !.pc = pc,
                     !.detail = IF persister = Nowhere THEN None ELSE d]
<1>1. /\ procs[p] \in Goroutine /\ Local(procs[p]) /\ Shared(procs[p])
      /\ procs[p].pc = "list2" /\ up /\ list \in Seq(Detail)
  BY Here DEF AddToList, At, Waiting
<1>2. /\ Listing(list, Ids \ {id}) /\ resIds[id] = d /\ Cached(list)
      /\ procs[p].seen = list
  BY <1>1 DEF Shared
<1>3. /\ id \in Ids /\ procs[p].at = 0 /\ procs[p].end = id
      /\ d \in Detail /\ IdOf(d) = id /\ d # None
  BY <1>1 DEF Local, Goroutine
<1>4. procs \in [Procs -> Goroutine]
  BY DEF IInv, TypeOK
<1>5. list' = Append(list, d)
  BY <1>2 DEF AddToList
<1>6. list' \in Seq(Detail)
  BY <1>1, <1>3, <1>5, AppendProperties
<1>7. Lists(list)'
  <2>1. Lists(Append(list, d))
    BY <1>1, <1>2, <1>3, ListingAppend DEF IInv
  <2> QED  BY <2>1, <1>5 DEF Lists, Listing, AddToList
<1>8. procs' = [procs EXCEPT ![p] = t]
  BY <1>4 DEF AddToList, Goroutine
<1>9. t \in Goroutine
  BY <1>1, <1>3, EmptySeq DEF Goroutine, Steps
<1>10. /\ t.seen = <<>> /\ t.pc = pc /\ t.at = 0 /\ t.end = id /\ t.add = id
       /\ t.detail = IF persister = Nowhere THEN None ELSE d
  BY <1>1, <1>3 DEF Goroutine
<1> HIDE DEF t
<1>11. /\ procs' \in [Procs -> Goroutine] /\ procs'[p] = t
       /\ \A q \in Procs \ {p} : procs'[q] = procs[q]
  BY <1>4, <1>8, <1>9
<1>12. Local(procs[p])'
  BY <1>3, <1>10, <1>11 DEF Local, AddToList
<1>13. procs'[p].pc \notin Waiting => Shared(procs[p])'
  <2>1. SUFFICES ASSUME persister # Nowhere
                 PROVE  Shared(procs[p])'
    BY <1>10, <1>11 DEF Waiting
  <2>2. procs'[p].pc = "cache" /\ procs'[p].at = 0 /\ procs'[p].detail = d
    BY <2>1, <1>10, <1>11
  <2>3. list' = Append(cache', d)
    BY <2>1, <1>2, <1>5 DEF Cached, AddToList
  <2> QED  BY <1>7, <2>2, <2>3 DEF Shared
<1>14. procs'[p].pc \in Waiting => Lists(list)' /\ Cached(list)'
  BY <1>2, <1>7, <1>10, <1>11 DEF Cached, AddToList, Waiting
<1>15. OwnIds' /\ FilesDistinct'
  BY DEF IInv, OwnIds, FilesDistinct, AddToList
<1>16. FrameInv' /\ frame' \in FrameType
  BY FrameDisturbed DEF AddToList
<1> QED
  BY <1>1, <1>6, <1>11, <1>12, <1>13, <1>14, <1>15, <1>16, StepInv
     DEF AddToList, IInv, TypeOK

LEMMA AddToCacheInv ==
    ASSUME IInv, NEW p \in Procs, Alone(p), AddToCache(p)
    PROVE  IInv'
<1>1. /\ procs[p] \in Goroutine /\ Local(procs[p]) /\ Shared(procs[p])
      /\ procs[p].pc = "cache" /\ up /\ list \in Seq(Detail)
  BY Here DEF AddToCache, At, Waiting
<1>2. procs \in [Procs -> Goroutine]
  BY DEF IInv, TypeOK
<1>3. Lists(list) /\ cache' = list
  BY <1>1 DEF Shared, AddToCache
<1>4. procs' = [procs EXCEPT ![p] = [procs[p] EXCEPT !.pc = "truncate"]]
  BY <1>2 DEF AddToCache, Goto, Goroutine
<1>5. /\ procs' \in [Procs -> Goroutine]
      /\ procs'[p] = [procs[p] EXCEPT !.pc = "truncate"]
      /\ \A q \in Procs \ {p} : procs'[q] = procs[q]
  BY <1>1, <1>2, <1>4 DEF Goroutine, Steps
<1>6. Local(procs[p])'
  BY <1>1, <1>5 DEF Local, Goroutine, AddToCache
<1>7. procs'[p].pc = "truncate" /\ procs'[p].at = 0
  BY <1>1, <1>5 DEF Local, Goroutine
<1>8. Shared(procs[p])' /\ procs'[p].pc \notin Waiting
  BY <1>3, <1>7 DEF Shared, AddToCache, Lists, Listing, Waiting
<1>9. OwnIds' /\ FilesDistinct'
  BY DEF IInv, OwnIds, FilesDistinct, AddToCache
<1>10. FrameInv' /\ frame' \in FrameType
  BY FrameKept DEF AddToCache
<1> QED
  BY <1>1, <1>3, <1>5, <1>6, <1>8, <1>9, <1>10, StepInv DEF AddToCache, IInv, TypeOK

LEMMA TruncateInv ==
    ASSUME IInv, NEW p \in Procs, Alone(p), Truncate(p)
    PROVE  IInv'
<1>1. /\ procs[p] \in Goroutine /\ Local(procs[p]) /\ Shared(procs[p])
      /\ procs[p].pc = "truncate" /\ up
  BY Here DEF Truncate, At, Waiting
<1>2. procs \in [Procs -> Goroutine] /\ files \in [Places -> Seq(Entry)]
  BY DEF IInv, TypeOK
<1>3. procs' = [procs EXCEPT ![p] = [procs[p] EXCEPT !.pc = "write"]]
  BY <1>2 DEF Truncate, Goto, Goroutine
<1>4. /\ procs' \in [Procs -> Goroutine]
      /\ procs'[p] = [procs[p] EXCEPT !.pc = "write"]
      /\ \A q \in Procs \ {p} : procs'[q] = procs[q]
  BY <1>1, <1>2, <1>3 DEF Goroutine, Steps
<1>5. Local(procs[p])'
  BY <1>1, <1>4 DEF Local, Goroutine, Truncate
<1>6. Shared(procs[p])' /\ procs'[p].pc \notin Waiting
  BY <1>1, <1>4 DEF Shared, Goroutine, Truncate, Lists, Listing, Waiting
<1>7. files' \in [Places -> Seq(Entry)] /\ OwnIds' /\ FilesDistinct'
  <2>1. <<>> \in Seq(Entry) /\ DistinctEntries(<<>>)
    BY EmptySeq DEF DistinctEntries
  <2>2. files' \in [Places -> Seq(Entry)] /\ FilesDistinct'
    BY <1>2, <2>1 DEF IInv, FilesDistinct, Truncate
  <2> QED  BY <2>2 DEF IInv, OwnIds, Truncate
<1>8. FrameInv' /\ frame' \in FrameType
  BY FrameKept DEF Truncate
<1> QED
  BY <1>1, <1>4, <1>5, <1>6, <1>7, <1>8, StepInv DEF Truncate, IInv, TypeOK

\* The step behind persist, whether it has written the file or not.
LEMMA AfterPersistInv ==
    ASSUME IInv, NEW p \in Procs, Alone(p), up, procs[p].pc \in {"truncate", "write"},
           AfterPersist(p), UNCHANGED <<resIds, list, status, persister, cache, frame, up>>,
           files' \in [Places -> Seq(Entry)], FilesDistinct'
    PROVE  IInv'
<1>1. procs[p] \in Goroutine /\ Local(procs[p]) /\ Shared(procs[p])
  BY Here DEF Waiting
<1>2. procs \in [Procs -> Goroutine]
  BY DEF IInv, TypeOK
<1>3. /\ Lists(cache) /\ cache = IF procs[p].at = 0 THEN list ELSE RemoveAt(list, procs[p].at)
      /\ persister # Nowhere /\ procs[p].end \in Ids /\ procs[p].seen = <<>>
      /\ procs[p].at \in Nat
  BY <1>1 DEF Shared, Local, Goroutine
<1>4. OwnIds' /\ FrameInv' /\ frame' \in FrameType
  BY FrameKept DEF IInv, OwnIds
<1>5. CASE procs[p].at > 0
  <2>1. procs' = [procs EXCEPT ![p] = [procs[p] EXCEPT !.pc = "unlist"]]
    BY <1>2, <1>5 DEF AfterPersist, Goto, Goroutine
  <2>2. /\ procs' \in [Procs -> Goroutine]
        /\ procs'[p] = [procs[p] EXCEPT !.pc = "unlist"]
        /\ \A q \in Procs \ {p} : procs'[q] = procs[q]
    BY <1>1, <1>2, <2>1 DEF Goroutine, Steps
  <2>3. Local(procs[p])'
    BY <1>3, <1>5, <2>2, <1>1 DEF Local, Goroutine
  <2>4. Shared(procs[p])' /\ procs'[p].pc \notin Waiting
    BY <1>1, <1>3, <1>5, <2>2 DEF Shared, Goroutine, Lists, Listing, Cached, Waiting
  <2> QED
    BY <1>1, <1>4, <2>2, <2>3, <2>4, StepInv DEF IInv, TypeOK
<1>6. CASE procs[p].at = 0
  <2> DEFINE t == IF procs[p].detail # None THEN [procs[p] EXCEPT !.pc = "cluster", !.detail = None]
                  ELSE Idle
  <2>1. procs' = [procs EXCEPT ![p] = t]
    BY <1>2, <1>6 DEF AfterPersist, Finish, Goroutine
  <2>2. t \in Goroutine
    BY <1>1, IdleType DEF Goroutine, Steps
  <2>3. t = Idle \/ (t.pc = "cluster" /\ t.detail = None /\ t.seen = <<>> /\ t.at = 0
                       /\ t.end \in Ids)
    BY <1>1, <1>3, <1>6 DEF Goroutine
  <2> HIDE DEF t
  <2>4. /\ procs' \in [Procs -> Goroutine] /\ procs'[p] = t
        /\ \A q \in Procs \ {p} : procs'[q] = procs[q]
    BY <1>2, <2>1, <2>2
  <2>5. Local(procs[p])'
    BY <2>3, <2>4 DEF Local, Idle
  <2>6. procs'[p].pc \in Waiting
    BY <2>3, <2>4 DEF Waiting, Idle
  <2>7. Lists(list)' /\ Cached(list)'
    BY <1>3, <1>6 DEF Lists, Listing, Cached
  <2> QED
    BY <1>1, <1>4, <2>4, <2>5, <2>6, <2>7, StepInv DEF IInv, TypeOK
<1> QED  BY <1>3, <1>5, <1>6

LEMMA WriteInv ==
    ASSUME IInv, NEW p \in Procs, Alone(p), Write(p)
    PROVE  IInv'
<1>1. Lists(cache)
  BY Here DEF Write, At, Waiting, Shared
<1>2. Persisted \in Seq(Entry) /\ DistinctEntries(Persisted)
  BY <1>1, PersistedRecords DEF IInv
<1>3. files' \in [Places -> Seq(Entry)] /\ FilesDistinct'
  BY <1>2 DEF Write, IInv, TypeOK, FilesDistinct
<1> QED  BY <1>3, AfterPersistInv DEF Write, At

LEMMA PersistFailsInv ==
    ASSUME IInv, NEW p \in Procs, Alone(p), PersistFails(p)
    PROVE  IInv'
<1>1. files' \in [Places -> Seq(Entry)] /\ FilesDistinct'
  BY DEF PersistFails, IInv, TypeOK, FilesDistinct
<1> QED  BY <1>1, AfterPersistInv DEF PersistFails, At

LEMMA ClusterDoneInv ==
    ASSUME IInv, NEW p \in Procs, Alone(p), ClusterDone(p)
    PROVE  IInv'
<1>1. /\ procs[p] \in Goroutine /\ Local(procs[p]) /\ procs[p].pc = "cluster" /\ up
      /\ UNCHANGED <<resIds, list, status, persister, cache, files, frame, up>>
  BY Here DEF ClusterDone, At
<1>2. Lists(list) /\ Cached(list)
  BY <1>1, AllWait DEF Waiting
<1>3. PICK pc \in {"status", "delete"} : Goto(p, pc)
  BY DEF ClusterDone
<1> DEFINE t == [procs[p] EXCEPT !.pc = pc]
<1>4. procs' = [procs EXCEPT ![p] = t]
  BY <1>3 DEF Goto, IInv, TypeOK, Goroutine
<1>5. /\ t \in Goroutine /\ t.pc = pc /\ t.at = procs[p].at /\ t.seen = procs[p].seen
      /\ t.end = procs[p].end /\ t.detail = procs[p].detail
  BY <1>1 DEF Goroutine, Steps
<1> HIDE DEF t
<1>6. Local(t) /\ t.at = 0
  BY <1>1, <1>5 DEF Local
<1> QED  BY <1>1, <1>2, <1>4, <1>5, <1>6, AgreeingStep

LEMMA DiedInv ==
    ASSUME IInv, Died
    PROVE  IInv'
<1>1. procs' = [p \in Procs |-> Idle] /\ \A p \in Procs : procs'[p] = Idle
  BY DEF Died
<1>2. Idle.pc = "idle" /\ Idle.seen = <<>> /\ Idle.at = 0
  BY DEF Idle
<1>3. /\ <<>> \in Seq(Detail) /\ DOMAIN <<>> = {}
      /\ NoFrame \in [rows : Seq(Ids), size : Nat, quiet : BOOLEAN]
      /\ NoFrame.quiet = FALSE
  BY EmptySeq DEF NoFrame
<1>4. TypeOK'
  <2>1. procs' \in [Procs -> Goroutine]
    BY <1>1, IdleType
  <2>2. /\ resIds' \in [Ids -> Detail \cup {None}] /\ status' \in [Detail -> Statuses]
        /\ list' \in Seq(Detail) /\ cache' \in Seq(Detail)
    BY <1>3 DEF Died, Statuses
  <2>3. /\ persister' \in Places \cup {Nowhere} /\ up' \in BOOLEAN
        /\ frame' \in [rows : Seq(Ids), size : Nat, quiet : BOOLEAN]
    BY <1>3 DEF Died
  <2>4. files' \in [Places -> Seq(Entry)]
    BY DEF Died, IInv, TypeOK
  <2> QED  BY <2>1, <2>2, <2>3, <2>4 DEF TypeOK
<1>5. Lists(list)' /\ Cached(list)'
  BY <1>3 DEF Died, Lists, Listing, Distinct, Cached
<1>6. GoroutinesInv'
  <2>1. \A p \in Procs : Local(procs[p])'
    BY <1>1, <1>2 DEF Local
  <2> QED  BY <1>1, <1>2, <1>5, <2>1 DEF GoroutinesInv, Waiting
<1>7. Mutex' /\ OwnIds' /\ FilesDistinct'
  BY <1>1, <1>2 DEF IInv, Mutex, OwnIds, FilesDistinct, Died, Waiting
<1>8. FrameInv' /\ DownInv'
  BY <1>1, <1>3 DEF Died, FrameInv, DownInv, Empty
<1> QED  BY <1>4, <1>6, <1>7, <1>8 DEF IInv

LEMMA DeployedInv ==
    ASSUME IInv, NEW p \in Procs, Alone(p), Deployed(p)
    PROVE  IInv'
<1> DEFINE d == resIds[procs[p].end]
<1>1. /\ procs[p] \in Goroutine /\ Local(procs[p]) /\ Shared(procs[p])
      /\ procs[p].pc = "status" /\ up
  BY Here DEF Deployed, At, Waiting
<1>2. /\ Lists(list) /\ Cached(list)
      /\ procs[p].end \in Ids /\ procs[p].at = 0 /\ procs[p].seen = <<>>
  BY <1>1 DEF Shared, Local
<1>3. CASE Died
  BY <1>3, DiedInv
<1>4. CASE ~Died
  <2>1. /\ d # None
        /\ status' = [status EXCEPT ![d] = "Deployed"]
        /\ UNCHANGED <<resIds, list, persister, cache, files, frame, up>>
    BY <1>4 DEF Deployed
  <2>2. d \in Detail /\ procs \in [Procs -> Goroutine]
    BY <1>2, <2>1 DEF IInv, TypeOK
  <2>3. status' \in [Detail -> Statuses]
    BY <2>1 DEF IInv, TypeOK, Statuses
  <2> DEFINE t == IF persister = Nowhere THEN Idle
                  ELSE [procs[p] EXCEPT !.pc = "truncate", !.detail = None]
  <2>4. procs' = [procs EXCEPT ![p] = t]
    BY <1>4, <2>2 DEF Deployed, Finish, Goroutine
  <2>5. t \in Goroutine
    BY <1>1, IdleType DEF Goroutine, Steps
  <2>6. /\ persister = Nowhere => t = Idle
        /\ persister # Nowhere => /\ t.pc = "truncate" /\ t.detail = None /\ t.at = 0
                                  /\ t.seen = <<>> /\ t.end \in Ids
    BY <1>1, <1>2 DEF Goroutine
  <2> HIDE DEF t
  <2>7. /\ procs' \in [Procs -> Goroutine] /\ procs'[p] = t
        /\ \A q \in Procs \ {p} : procs'[q] = procs[q]
    BY <2>2, <2>4, <2>5
  <2>8. Local(procs[p])'
    BY <2>1, <2>6, <2>7 DEF Local, Idle
  <2>9. Lists(list)' /\ Cached(list)'
    BY <1>2, <2>1 DEF Lists, Listing, Cached
  <2>10. procs'[p].pc \notin Waiting => Shared(procs[p])'
    <3>1. SUFFICES ASSUME persister # Nowhere
                   PROVE  Shared(procs[p])'
      BY <2>6, <2>7 DEF Waiting, Idle
    <3>2. procs'[p].pc = "truncate" /\ procs'[p].at = 0
      BY <3>1, <2>6, <2>7
    <3>3. cache' = list'
      BY <2>9, <2>1, <3>1 DEF Cached
    <3> QED  BY <3>2, <3>3, <2>9 DEF Shared
  <2>11. OwnIds' /\ FilesDistinct'
    BY <2>1 DEF IInv, OwnIds, FilesDistinct
  <2>12. FrameInv' /\ frame' \in FrameType
    BY <2>1, FrameKept
  <2> QED
    BY <1>1, <2>1, <2>3, <2>7, <2>8, <2>9, <2>10, <2>11, <2>12, StepInv DEF IInv, TypeOK
<1> QED  BY <1>3, <1>4

LEMMA RemoveFromMapInv ==
    ASSUME IInv, NEW p \in Procs, Alone(p), RemoveFromMap(p)
    PROVE  IInv'
<1> DEFINE id == procs[p].end
<1>1. /\ procs[p] \in Goroutine /\ Local(procs[p]) /\ Shared(procs[p])
      /\ procs[p].pc = "delete" /\ up
      /\ list \in Seq(Detail) /\ DOMAIN list = 1 .. Len(list)
  BY Here DEF RemoveFromMap, At, Waiting
<1>2. /\ Lists(list) /\ Cached(list)
      /\ id \in Ids /\ procs[p].at = 0 /\ procs[p].seen = <<>> /\ procs[p].detail = None
  BY <1>1 DEF Shared, Local
<1>3. /\ resIds \in [Ids -> Detail \cup {None}] /\ procs \in [Procs -> Goroutine]
      /\ resIds' = [resIds EXCEPT ![id] = None]
      /\ UNCHANGED <<list, status, persister, cache, files, up>>
  BY DEF IInv, TypeOK, RemoveFromMap
<1>4. Distinct(list)
  BY <1>2 DEF Lists, Listing
<1>5. PICK at \in Nat : at = Position(list, id)
  BY <1>1, <1>4, PositionFinds
<1>6. /\ at = 0 => \A i \in DOMAIN list : IdOf(list[i]) # id
      /\ at # 0 => at \in DOMAIN list /\ IdOf(list[at]) = id
      /\ at \in Nat
  BY <1>1, <1>4, <1>5, PositionFinds
<1>7. /\ resIds' \in [Ids -> Detail \cup {None}] /\ OwnIds'
      /\ \A o \in Ids : resIds'[o] = IF o = id THEN None ELSE resIds[o]
  BY <1>2, <1>3 DEF IInv, OwnIds
<1>8. FilesDistinct' /\ FrameInv' /\ frame' \in FrameType
  BY <1>3, FrameDisturbed DEF IInv, FilesDistinct, RemoveFromMap
<1> DEFINE t == IF at = 0 THEN Idle
                ELSE [procs[p] EXCEPT !.at = at, !.detail = list[at],
                          !.pc = IF persister = Nowhere THEN "unlist" ELSE "uncache"]
<1>9. procs' = [procs EXCEPT ![p] = t]
  BY <1>3, <1>5 DEF RemoveFromMap, Finish, Goroutine
<1>10. at # 0 => list[at] \in Detail
  BY <1>1, <1>6, ElementOfSeq
<1>11. t \in Goroutine
  BY <1>1, <1>6, <1>10, IdleType DEF Goroutine, Steps
<1>12. /\ at = 0 => t = Idle
       /\ at # 0 => /\ t.at = at /\ t.end = id /\ t.seen = <<>>
                    /\ t.pc = IF persister = Nowhere THEN "unlist" ELSE "uncache"
  BY <1>1, <1>2 DEF Goroutine
<1> HIDE DEF t
<1>13. /\ procs' \in [Procs -> Goroutine] /\ procs'[p] = t
       /\ \A q \in Procs \ {p} : procs'[q] = procs[q]
  BY <1>3, <1>9, <1>11
<1>14. Local(procs[p])'
  BY <1>2, <1>3, <1>6, <1>12, <1>13 DEF Local, Idle
<1>15. procs'[p].pc \notin Waiting => Shared(procs[p])'
  <2>1. SUFFICES ASSUME at # 0
                 PROVE  Shared(procs[p])'
    BY <1>12, <1>13 DEF Waiting, Idle
  <2>2. /\ procs'[p].at = at /\ procs'[p].end = id
        /\ procs'[p].pc = IF persister = Nowhere THEN "unlist" ELSE "uncache"
    BY <2>1, <1>12, <1>13
  <2>3. Lists(RemoveAt(list, at))'
    <3>1. PICK seq \in Seq(Detail) : seq = list
      BY <1>1
    <3>2. Lists(RemoveAt(seq, at))'
      BY <3>1, <2>1, <1>2, <1>3, <1>6, ListingRemove DEF IInv
    <3> QED  BY <3>1, <3>2, <1>3
  <2>4. persister = Nowhere => Cached(RemoveAt(list, at))'
    BY <1>2, <1>3 DEF Cached
  <2>5. persister # Nowhere => cache' = list'
    BY <1>2, <1>3 DEF Cached
  <2>6. Distinct(list)'
    BY <1>3, <1>4 DEF Distinct
  <2> QED  BY <2>1, <2>2, <2>3, <2>4, <2>5, <2>6, <1>3, <1>6 DEF Shared
<1>16. procs'[p].pc \in Waiting => Lists(list)' /\ Cached(list)'
  <2>1. SUFFICES ASSUME at = 0
                 PROVE  Lists(list)' /\ Cached(list)'
    BY <1>12, <1>13 DEF Waiting
  <2>2. resIds[id] = None
    BY <2>1, <1>2, <1>6 DEF Lists, Listing, IInv, OwnIds
  <2>3. resIds' = resIds
    BY <2>2, <1>3
  <2> QED  BY <2>3, <1>2, <1>3 DEF Lists, Listing, Cached
<1> QED
  BY <1>1, <1>3, <1>7, <1>8, <1>13, <1>14, <1>15, <1>16, StepInv DEF IInv, TypeOK

LEMMA RemoveFromCacheInv ==
    ASSUME IInv, NEW p \in Procs, Alone(p), RemoveFromCache(p)
    PROVE  IInv'
<1> DEFINE k == procs[p].at
<1>1. /\ procs[p] \in Goroutine /\ Local(procs[p]) /\ Shared(procs[p])
      /\ procs[p].pc = "uncache" /\ up
      /\ list \in Seq(Detail) /\ DOMAIN list = 1 .. Len(list)
      /\ UNCHANGED <<resIds, list, status, persister, files, frame, up>>
  BY Here DEF RemoveFromCache, At, Waiting
<1>2. /\ procs[p].seen = <<>> /\ k \in Nat /\ k > 0 /\ procs[p].end \in Ids
      /\ persister # Nowhere
  BY <1>1 DEF Local, Goroutine
<1>3. /\ cache = list
      /\ k \in DOMAIN list /\ IdOf(list[k]) = procs[p].end /\ Distinct(list)
      /\ Lists(RemoveAt(list, k))
  BY <1>1, <1>2 DEF Shared
<1>4. Position(cache, procs[p].end) = k
  BY <1>1, <1>3, PositionFinds DEF Distinct
<1>5. cache' = RemoveAt(list, k)
  BY <1>2, <1>3, <1>4 DEF RemoveFromCache
<1>6. cache' \in Seq(Detail)
  BY <1>1, <1>3, <1>5, RemoveAtProperties
<1>7. procs \in [Procs -> Goroutine]
  BY DEF IInv, TypeOK
<1>8. procs' = [procs EXCEPT ![p] = [procs[p] EXCEPT !.pc = "truncate"]]
  BY <1>7 DEF RemoveFromCache, Goto, Goroutine
<1>9. /\ procs' \in [Procs -> Goroutine]
      /\ procs'[p] = [procs[p] EXCEPT !.pc = "truncate"]
      /\ \A q \in Procs \ {p} : procs'[q] = procs[q]
  BY <1>1, <1>7, <1>8 DEF Goroutine, Steps
<1>10. /\ procs'[p].pc = "truncate" /\ procs'[p].at = k
       /\ procs'[p].end = procs[p].end /\ procs'[p].seen = <<>>
  BY <1>1, <1>2, <1>9 DEF Goroutine
<1>11. Local(procs[p])' /\ procs'[p].pc \notin Waiting
  BY <1>1, <1>2, <1>10 DEF Local, Waiting
<1>12. Shared(procs[p])'
  <2>1. Lists(cache)' /\ Lists(RemoveAt(list, k))'
    <3>1. Lists(cache') /\ Lists(RemoveAt(list', k))
      BY <1>1, <1>3, <1>5
    <3>2. k = procs'[p].at
      BY <1>10
    <3> QED  BY <3>1, <3>2, <1>1 DEF Lists, Listing, Distinct
  <2>2. Distinct(list)'
    BY <1>1, <1>3 DEF Distinct
  <2>3. cache' = RemoveAt(list', procs'[p].at)
    BY <1>1, <1>5, <1>10
  <2>4. procs'[p].at \in DOMAIN list' /\ IdOf(list'[procs'[p].at]) = procs'[p].end
    BY <1>1, <1>3, <1>10
  <2> QED  BY <1>2, <1>10, <2>1, <2>2, <2>3, <2>4 DEF Shared
<1>13. OwnIds' /\ FilesDistinct'
  BY <1>1 DEF IInv, OwnIds, FilesDistinct
<1>14. FrameInv' /\ frame' \in FrameType
  BY <1>1, FrameKept
<1> QED
  BY <1>1, <1>6, <1>9, <1>11, <1>12, <1>13, <1>14, StepInv DEF IInv, TypeOK

LEMMA RemoveFromListInv ==
    ASSUME IInv, NEW p \in Procs, Alone(p), RemoveFromList(p)
    PROVE  IInv'
<1> DEFINE k == procs[p].at
<1>1. /\ procs[p] \in Goroutine /\ Local(procs[p]) /\ Shared(procs[p])
      /\ procs[p].pc = "unlist" /\ up
      /\ list \in Seq(Detail) /\ DOMAIN list = 1 .. Len(list) /\ Len(list) \in Nat
  BY Here, LenProperties DEF RemoveFromList, At, Waiting
<1>2. k \in Nat /\ k > 0
  BY <1>1 DEF Local, Goroutine
<1>3. k \in DOMAIN list /\ Lists(RemoveAt(list, k)) /\ Cached(RemoveAt(list, k))
  BY <1>1, <1>2 DEF Shared
<1>4. /\ list' = RemoveAt(list, k) /\ Finish(p) /\ Disturbed
      /\ UNCHANGED <<resIds, status, persister, cache, files, up>>
  <2>1. ~(k > Len(list))
    BY <1>1, <1>2, <1>3
  <2> QED  BY <2>1, Zenon DEF RemoveFromList
<1>5. list' \in Seq(Detail)
  BY <1>1, <1>3, <1>4, RemoveAtProperties
<1>6. /\ procs' \in [Procs -> Goroutine] /\ procs'[p] = Idle
      /\ \A q \in Procs \ {p} : procs'[q] = procs[q]
  BY <1>4, IdleType DEF Finish, IInv, TypeOK
<1>7. Local(procs[p])' /\ procs'[p].pc \in Waiting
  BY <1>6 DEF Local, Idle, Waiting
<1>8. Lists(list)' /\ Cached(list)'
  BY <1>3, <1>4 DEF Lists, Listing, Distinct, Cached
<1>9. OwnIds' /\ FilesDistinct'
  BY <1>4 DEF IInv, OwnIds, FilesDistinct
<1>10. FrameInv' /\ frame' \in FrameType
  BY <1>4, FrameDisturbed
<1> QED
  BY <1>1, <1>4, <1>5, <1>6, <1>7, <1>8, <1>9, <1>10, StepInv DEF IInv, TypeOK

-----------------------------------------------------------------------------
(* Frames, starts, and the end of the process.                             *)

LEMMA FrameStepInv ==
    ASSUME IInv, up, frame' \in FrameType, FrameInv',
           UNCHANGED <<resIds, list, status, persister, cache, files, procs, up>>
    PROVE  IInv'
<1>1. TypeOK'
  BY DEF IInv, TypeOK, FrameType
<1>2. Mutex' /\ OwnIds' /\ FilesDistinct'
  BY DEF IInv, Mutex, OwnIds, FilesDistinct
<1>3. GoroutinesInv'
  <2>1. \A p \in Procs : Local(procs[p])'
    BY DEF IInv, GoroutinesInv, Local
  <2>2. \A p \in Procs : procs'[p].pc \notin Waiting => Shared(procs[p])'
    BY DEF IInv, GoroutinesInv, Shared, Lists, Listing, Cached
  <2>3. (\A p \in Procs : procs'[p].pc \in Waiting) => Lists(list)' /\ Cached(list)'
    BY DEF IInv, GoroutinesInv, Lists, Listing, Cached
  <2> QED  BY <2>1, <2>2, <2>3 DEF GoroutinesInv
<1>4. DownInv'
  BY DEF DownInv
<1> QED  BY <1>1, <1>2, <1>3, <1>4 DEF IInv

LEMMA RegisteredFinite ==
    IsFiniteSet(Registered) /\ Cardinality(Registered) \in Nat
<1>1. Registered \subseteq Ids
  BY DEF Registered
<1> QED  BY <1>1, FiniteAssumption, FS_Subset, FS_CardinalityType

LEMMA FrameStartInv ==
    ASSUME IInv, FrameStart
    PROVE  IInv'
<1> DEFINE quiet == \A p \in Procs : procs[p].pc \in Between
<1>1. /\ frame' = [rows |-> <<>>, size |-> Cardinality(Registered), quiet |-> quiet]
      /\ up /\ UNCHANGED <<resIds, list, status, persister, cache, files, procs, up>>
  BY DEF FrameStart, TableOf, Registered
<1>2. /\ <<>> \in Seq(Ids) /\ Len(<<>>) = 0 /\ DOMAIN <<>> = {}
      /\ quiet \in BOOLEAN /\ Cardinality(Registered) \in Nat
  BY EmptySeq, RegisteredFinite
<1>3. quiet => Lists(list)
  <2>1. CASE \A p \in Procs : procs[p].pc \in Waiting
    BY <2>1 DEF IInv, GoroutinesInv
  <2>2. CASE \E p \in Procs : procs[p].pc \notin Waiting
    BY <2>2 DEF IInv, GoroutinesInv, Shared, Between, Waiting
  <2> QED  BY <2>1, <2>2
<1>4. list \in Seq(Detail) /\ Len(list) \in Nat
  BY LenProperties DEF IInv, TypeOK
<1> HIDE DEF quiet
<1>5. /\ frame' \in FrameType
      /\ frame'.size = Cardinality(Registered) /\ frame'.rows = <<>> /\ frame'.quiet = quiet
  BY <1>1, <1>2 DEF FrameType
<1>6. Cardinality(Registered)' = Cardinality(Registered)
  BY <1>1 DEF Registered
<1>7. FrameInv'
  BY <1>1, <1>2, <1>3, <1>4, <1>5, <1>6 DEF FrameInv, Lists, Listing, Distinct
<1> QED  BY <1>1, <1>5, <1>7, FrameStepInv

LEMMA FrameRowInv ==
    ASSUME IInv, FrameRow
    PROVE  IInv'
<1> DEFINE i == Len(frame.rows) + 1
<1>1. CASE Died
  BY <1>1, DiedInv
<1>2. CASE ~Died
  <2>1. /\ frame' = [frame EXCEPT !.rows = Append(frame.rows, IdOf(list[i]))]
        /\ ~(i > Len(list)) /\ up
        /\ UNCHANGED <<resIds, list, status, persister, cache, files, procs, up>>
    BY <1>2, Zenon DEF FrameRow
  <2>2. /\ list \in Seq(Detail) /\ Len(list) \in Nat /\ DOMAIN list = 1 .. Len(list)
        /\ frame \in FrameType /\ frame.rows \in Seq(Ids) /\ Len(frame.rows) \in Nat
        /\ DOMAIN frame.rows = 1 .. Len(frame.rows)
    BY LenProperties DEF IInv, TypeOK, FrameType
  <2>3. i \in DOMAIN list /\ list[i] \in Detail
    <3>1. i \in 1 .. Len(list)
      BY <2>1, <2>2
    <3> QED  BY <3>1, <2>2, ElementOfSeq
  <2> DEFINE id == IdOf(list[i])
             rows == Append(frame.rows, id)
  <2>4. id \in Ids
    BY <2>3, DetailType
  <2>5. /\ rows \in Seq(Ids) /\ Len(rows) = i
        /\ \A k \in 1 .. Len(frame.rows) : rows[k] = frame.rows[k]
        /\ rows[i] = id
    BY <2>2, <2>4, AppendProperties
  <2>6. DOMAIN rows = 1 .. i
    BY <2>5, LenProperties
  <2> HIDE DEF rows
  <2>7. /\ frame' \in FrameType
        /\ frame'.rows = rows /\ frame'.size = frame.size /\ frame'.quiet = frame.quiet
    BY <2>1, <2>2, <2>5 DEF FrameType, rows
  <2>8. SUFFICES ASSUME frame.quiet
                 PROVE  FrameInv'
    BY <2>1, <2>7, FrameStepInv DEF FrameInv
  <2>9. /\ Lists(list) /\ frame.size = Cardinality(Registered)
        /\ \A k \in DOMAIN frame.rows : frame.rows[k] = IdOf(list[k])
    BY <2>8 DEF IInv, FrameInv
  <2>10. Lists(list)' /\ Cardinality(Registered)' = Cardinality(Registered)
    BY <2>1, <2>9 DEF Lists, Listing, Registered
  <2>11. \A k \in DOMAIN rows : rows[k] = IdOf(list[k])
    BY <2>2, <2>5, <2>6, <2>9
  <2>12. Len(rows) <= Len(list)
    BY <2>2, <2>3, <2>5
  <2> QED  BY <2>1, <2>7, <2>9, <2>10, <2>11, <2>12 DEF FrameInv
<1> QED  BY <1>1, <1>2

\* A start makes map, list and cache agree, on what the file it found says.
LEMMA StartLoads ==
    ASSUME TypeOK, FilesDistinct, NEW place \in Places \cup {Nowhere}, Start(place)
    PROVE  /\ resIds' \in [Ids -> Detail \cup {None}] /\ list' \in Seq(Detail)
           /\ status' \in [Detail -> Statuses] /\ cache' \in Seq(Detail)
           /\ Lists(list)' /\ Cached(list)' /\ OwnIds'
           /\ Recs' = IF place = Nowhere THEN [id \in Ids |-> None] ELSE RecordsOf(files[place])
<1> DEFINE entries == IF place = Nowhere THEN <<>> ELSE files[place]
           details == Loaded(entries)
<1>1. entries \in Seq(Entry) /\ DistinctEntries(entries)
  BY EmptySeq DEF TypeOK, FilesDistinct, DistinctEntries
<1>2. \A i \in DOMAIN entries : entries[i] \in Entry
  BY <1>1, ElementOfSeq, LenProperties
<1>3. /\ details \in Seq(Detail) /\ DOMAIN details = DOMAIN entries
      /\ \A i \in DOMAIN entries : details[i] = <<entries[i].id, 1>>
      /\ Distinct(details)
  BY <1>1, LoadedDetails
<1>4. /\ list' = details /\ cache' = details /\ persister' = place
      /\ resIds' = [id \in Ids |-> IF \E d \in ToSet(details) : IdOf(d) = id
                                   THEN CHOOSE d \in ToSet(details) : IdOf(d) = id
                                   ELSE None]
      /\ status' = [d \in Detail |->
             IF d \in ToSet(details)
             THEN entries[CHOOSE i \in DOMAIN details : details[i] = d].status
             ELSE "InDeploy"]
  BY DEF Start
<1>5. place = Nowhere => details = <<>>
  <2>1. SUFFICES ASSUME place = Nowhere
                 PROVE  details = <<>>
    OBVIOUS
  <2>2. DOMAIN details = {}
    BY <2>1, <1>3
  <2>3. Len(details) \in Nat /\ DOMAIN details = 1 .. Len(details)
    BY <1>3, LenProperties
  <2>4. Len(details) = 0
    BY <2>2, <2>3
  <2> QED  BY <2>4, <1>3, EmptySeq
<1>6. RecordsOf(entries) = IF place = Nowhere THEN [id \in Ids |-> None]
                           ELSE RecordsOf(files[place])
  BY NothingInEmpty
<1> HIDE DEF details, entries
<1>7. \A i \in DOMAIN details : details[i] \in Detail /\ IdOf(details[i]) = entries[i].id
                                 /\ entries[i].id \in Ids /\ entries[i].status \in Statuses
  <2>1. \A i \in DOMAIN details : entries[i].id \in Ids /\ entries[i].status \in Statuses
    BY <1>2, <1>3 DEF Entry
  <2> QED  BY <1>3, <2>1, DetailType
<1>8. ToSet(details) = {details[i] : i \in DOMAIN details}
  BY DEF ToSet
<1>9. ASSUME NEW i \in DOMAIN details
      PROVE  resIds'[IdOf(details[i])] = details[i]
  <2> DEFINE id == IdOf(details[i])
             d == CHOOSE d \in ToSet(details) : IdOf(d) = id
  <2>1. id \in Ids /\ details[i] \in ToSet(details)
    BY <1>7, <1>8
  <2>2. d \in ToSet(details) /\ IdOf(d) = id
    BY <2>1
  <2>3. PICK j \in DOMAIN details : d = details[j]
    BY <2>2, <1>8
  <2>4. j = i
    BY <2>2, <2>3, <1>3 DEF Distinct
  <2>5. resIds'[id] = d
    BY <2>1, <1>4
  <2> QED  BY <2>3, <2>4, <2>5
<1>10. ASSUME NEW id \in Ids
       PROVE  \/ resIds'[id] = None /\ \A i \in DOMAIN details : IdOf(details[i]) # id
              \/ \E i \in DOMAIN details : resIds'[id] = details[i] /\ IdOf(details[i]) = id
  <2>1. CASE \E i \in DOMAIN details : IdOf(details[i]) = id
    BY <2>1, <1>9
  <2>2. CASE \A i \in DOMAIN details : IdOf(details[i]) # id
    BY <2>2, <1>4, <1>8
  <2> QED  BY <2>1, <2>2
<1>11. resIds' \in [Ids -> Detail \cup {None}] /\ OwnIds'
  <2>1. \A id \in Ids : resIds'[id] \in Detail \cup {None}
    BY <1>7, <1>10
  <2>2. resIds' = [id \in Ids |-> resIds'[id]]
    BY <1>4
  <2>3. OwnIds'
    BY <1>10 DEF OwnIds
  <2> QED  BY <2>1, <2>2, <2>3
<1>12. Lists(list)'
  BY <1>3, <1>4, <1>7, <1>9, <1>10 DEF Lists, Listing, Distinct
<1>13. \A i \in DOMAIN details : status'[details[i]] = entries[i].status
  <2>1. SUFFICES ASSUME NEW i \in DOMAIN details
                 PROVE  status'[details[i]] = entries[i].status
    OBVIOUS
  <2> DEFINE j == CHOOSE j \in DOMAIN details : details[j] = details[i]
  <2>2. details[i] \in Detail /\ details[i] \in ToSet(details)
    BY <1>7, <1>8
  <2>3. j \in DOMAIN details /\ details[j] = details[i]
    OBVIOUS
  <2>4. j = i
    BY <2>3, <1>3 DEF Distinct
  <2>5. status'[details[i]] = entries[j].status
    BY <2>2, <1>4
  <2> QED  BY <2>4, <2>5
<1>14. status' \in [Detail -> Statuses]
  <2>1. ASSUME NEW d \in Detail
        PROVE  status'[d] \in Statuses
    <3>1. CASE d \in ToSet(details)
      BY <3>1, <1>7, <1>8, <1>13
    <3>2. CASE d \notin ToSet(details)
      BY <3>2, <1>4 DEF Statuses
    <3> QED  BY <3>1, <3>2
  <2>2. status' = [d \in Detail |-> status'[d]]
    BY <1>4
  <2> QED  BY <2>1, <2>2
<1>15. Cached(list)'
  BY <1>4, <1>5 DEF Cached
<1>16. Recs' = RecordsOf(entries)
  <2>1. ASSUME NEW id \in Ids
        PROVE  Recs'[id] = RecordsOf(entries)[id]
    <3>1. Recs'[id] = IF resIds'[id] = None THEN None ELSE status'[resIds'[id]]
      BY DEF Recs
    <3>2. CASE resIds'[id] = None
      <4>1. \A i \in DOMAIN details : IdOf(details[i]) # id
        BY <3>2, <1>7, <1>10, DetailType
      <4>2. \A i \in DOMAIN entries : entries[i].id # id
        BY <4>1, <1>3, <1>7
      <4> QED  BY <3>1, <3>2, <4>2, <1>1, RecordsOfEntries
    <3>3. CASE resIds'[id] # None
      <4>1. PICK i \in DOMAIN details : resIds'[id] = details[i] /\ IdOf(details[i]) = id
        BY <3>3, <1>10
      <4>2. i \in DOMAIN entries /\ entries[i].id = id
        BY <4>1, <1>3, <1>7
      <4>3. RecordsOf(entries)[id] = entries[i].status
        BY <4>2, <1>1, RecordsOfEntries
      <4> QED  BY <3>1, <3>3, <4>1, <4>3, <1>13
    <3> QED  BY <3>2, <3>3
  <2>2. Recs' = [id \in Ids |-> Recs'[id]]
    BY DEF Recs
  <2>3. RecordsOf(entries) = [id \in Ids |-> RecordsOf(entries)[id]]
    BY DEF RecordsOf
  <2> QED  BY <2>1, <2>2, <2>3
<1> QED  BY <1>3, <1>4, <1>6, <1>11, <1>12, <1>14, <1>15, <1>16

LEMMA StartInv ==
    ASSUME IInv, NEW place \in Places \cup {Nowhere}, Start(place)
    PROVE  IInv'
<1>1. /\ resIds' \in [Ids -> Detail \cup {None}] /\ list' \in Seq(Detail)
      /\ status' \in [Detail -> Statuses] /\ cache' \in Seq(Detail)
      /\ Lists(list)' /\ Cached(list)' /\ OwnIds'
  BY StartLoads DEF IInv
<1>2. /\ ~up /\ up' = TRUE /\ persister' = place /\ UNCHANGED <<files, procs, frame>>
      /\ procs = [p \in Procs |-> Idle] /\ frame = NoFrame
  BY DEF Start, IInv, DownInv
<1>3. /\ Idle.pc = "idle" /\ Idle.seen = <<>> /\ Idle.at = 0
      /\ NoFrame.quiet = FALSE
  BY DEF Idle, NoFrame
<1>4. TypeOK'
  BY <1>1, <1>2 DEF IInv, TypeOK
<1>5. \A p \in Procs : procs'[p] = Idle
  BY <1>2
<1>6. GoroutinesInv'
  <2>1. \A p \in Procs : Local(procs[p])'
    BY <1>3, <1>5 DEF Local
  <2> QED  BY <1>1, <1>3, <1>5, <2>1 DEF GoroutinesInv, Waiting
<1>7. Mutex' /\ FilesDistinct' /\ FrameInv' /\ DownInv'
  BY <1>2, <1>3, <1>5 DEF Mutex, Waiting, IInv, FilesDistinct, FrameInv, DownInv
<1> QED  BY <1>1, <1>4, <1>6, <1>7 DEF IInv

LEMMA InitInv == Init => IInv
<1> SUFFICES ASSUME Init
             PROVE  IInv
  OBVIOUS
<1>1. /\ Idle.pc = "idle" /\ Idle.seen = <<>> /\ Idle.at = 0
      /\ NoFrame \in [rows : Seq(Ids), size : Nat, quiet : BOOLEAN] /\ NoFrame.quiet = FALSE
      /\ <<>> \in Seq(Detail) /\ <<>> \in Seq(Entry) /\ DOMAIN <<>> = {}
  BY EmptySeq DEF Idle, NoFrame
<1>2. procs \in [Procs -> Goroutine] /\ \A p \in Procs : procs[p] = Idle
  BY IdleType DEF Init
<1>3. TypeOK
  BY <1>1, <1>2 DEF Init, Empty, TypeOK, Statuses
<1>4. Lists(list) /\ Cached(list)
  BY <1>1 DEF Init, Empty, Lists, Listing, Distinct, Cached
<1>5. GoroutinesInv
  <2>1. \A p \in Procs : Local(procs[p])
    BY <1>1, <1>2 DEF Local
  <2> QED  BY <1>1, <1>2, <1>4, <2>1 DEF GoroutinesInv, Waiting
<1>6. Mutex /\ OwnIds /\ FilesDistinct /\ FrameInv /\ DownInv
  BY <1>1, <1>2 DEF Init, Empty, Mutex, Waiting, OwnIds, FilesDistinct, DistinctEntries,
     FrameInv, DownInv
<1> QED  BY <1>3, <1>5, <1>6 DEF IInv

LEMMA StutterInv ==
    ASSUME IInv, UNCHANGED vars
    PROVE  IInv'
<1>1. UNCHANGED <<resIds, list, status, persister, cache, files, procs, frame, up>>
  BY DEF vars
<1>2. TypeOK' /\ Mutex' /\ OwnIds' /\ FilesDistinct'
  BY <1>1 DEF IInv, TypeOK, Mutex, OwnIds, FilesDistinct
<1>3. GoroutinesInv'
  BY <1>1 DEF IInv, GoroutinesInv, Local, Shared, Lists, Listing, Cached
<1>4. FrameInv'
  BY <1>1 DEF IInv, FrameInv, Lists, Listing, Registered
<1>5. DownInv'
  BY <1>1 DEF IInv, DownInv, Empty
<1> QED  BY <1>2, <1>3, <1>4, <1>5 DEF IInv

LEMMA NextInv ==
    ASSUME IInv, [SerialNext]_vars
    PROVE  IInv'
<1>1. ASSUME NEW p \in Procs, Alone(p), Step(p)
      PROVE  IInv'
  BY <1>1, LockAndAddInv, AddToMapInv, ReadListInv, AddToListInv, AddToCacheInv,
     TruncateInv, WriteInv, PersistFailsInv, ClusterDoneInv, DeployedInv,
     RemoveFromMapInv, RemoveFromCacheInv, RemoveFromListInv DEF Step
<1>2. ASSUME NEW p \in Procs, Alone(p), NEW id \in Ids,
             Deploy(p, id, id) \/ Undeploy(p, id)
      PROVE  IInv'
  BY <1>2, DeployInv, UndeployInv
<1>3. CASE FrameStart \/ FrameRow
  BY <1>3, FrameStartInv, FrameRowInv
<1>4. ASSUME NEW place \in Places \cup {Nowhere}, Start(place)
      PROVE  IInv'
  BY <1>4, StartInv
<1>5. CASE Crash
  BY <1>5, DiedInv DEF Crash
<1>6. CASE UNCHANGED vars
  BY <1>6, StutterInv
<1> QED  BY <1>1, <1>2, <1>3, <1>4, <1>5, <1>6 DEF SerialNext

-----------------------------------------------------------------------------
(* What follows.                                                           *)

\* The inductive invariant holds as long as operations do not overlap, with
\* every file operation that may fail and wherever the process ends.
THEOREM Invariance == SerialSpec => []IInv
BY InitInv, NextInv, PTL DEF SerialSpec

\* Every variable keeps its type; above all the entries of every file name a
\* node and a status, whatever was written and truncated before.
THEOREM TypeCorrect == SerialSpec => []TypeOK
<1>1. IInv => TypeOK
  BY DEF IInv
<1> QED  BY <1>1, Invariance, PTL

\* A sequence that lists the map has as many elements as the map.
LEMMA ListingCounts ==
    ASSUME TypeOK, OwnIds, Lists(list)
    PROVE  /\ Cardinality(Registered) = Len(list)
           /\ Registered = {IdOf(list[i]) : i \in DOMAIN list}
<1>1. /\ Len(list) \in Nat /\ DOMAIN list = 1 .. Len(list)
      /\ \A i \in DOMAIN list : list[i] \in Detail
  BY LenProperties, ElementOfSeq DEF TypeOK
<1>2. \A i \in DOMAIN list : IdOf(list[i]) \in Registered
  BY <1>1, DetailType DEF Lists, Listing, Registered
<1>3. \A id \in Registered : \E i \in DOMAIN list : IdOf(list[i]) = id
  BY DEF Lists, Listing, Registered, OwnIds
<1> DEFINE f == [i \in 1 .. Len(list) |-> IdOf(list[i])]
<1>4. f \in [1 .. Len(list) -> Registered]
  BY <1>1, <1>2
<1>5. \A i, j \in 1 .. Len(list) : f[i] = f[j] => i = j
  BY <1>1 DEF Lists, Listing, Distinct
<1>6. \A id \in Registered : \E i \in 1 .. Len(list) : f[i] = id
  BY <1>1, <1>3
<1>7. f \in Injection(1 .. Len(list), Registered)
  BY <1>4, <1>5 DEF Injection, IsInjective
<1>8. f \in Surjection(1 .. Len(list), Registered)
  BY <1>4, <1>6 DEF Surjection
<1>9. ExistsBijection(1 .. Len(list), Registered)
  BY <1>7, <1>8 DEF ExistsBijection, Bijection
<1>10. Cardinality(Registered) = Len(list)
  BY <1>1, <1>9, FS_CountingElements
<1> QED  BY <1>2, <1>3, <1>10

\* A frame no operation disturbs shows every deployment in one row: the size
\* it took from the map is the length of the list it indexes.
THEOREM CompleteFrames == SerialSpec => []QuietFramesComplete
<1>1. ASSUME IInv
      PROVE  QuietFramesComplete
  <2>1. SUFFICES ASSUME frame.quiet, Len(frame.rows) = frame.size
                 PROVE  ToSet(frame.rows) = Registered /\ IsInjective(frame.rows)
    BY DEF QuietFramesComplete, Registered
  <2>2. /\ Lists(list) /\ frame.size = Cardinality(Registered)
        /\ \A i \in DOMAIN frame.rows : frame.rows[i] = IdOf(list[i])
    BY <1>1, <2>1 DEF IInv, FrameInv
  <2>3. Len(frame.rows) = Len(list) /\ Registered = {IdOf(list[i]) : i \in DOMAIN list}
    BY <1>1, <2>1, <2>2, ListingCounts DEF IInv
  <2>4. /\ frame.rows \in Seq(Ids) /\ list \in Seq(Detail)
    BY <1>1 DEF IInv, TypeOK
  <2>5. DOMAIN frame.rows = DOMAIN list
    BY <2>3, <2>4, LenProperties
  <2>6. ToSet(frame.rows) = Registered
    BY <2>2, <2>3, <2>5 DEF ToSet
  <2>7. IsInjective(frame.rows)
    BY <2>2, <2>5 DEF IsInjective, Lists, Listing, Distinct
  <2> QED  BY <2>6, <2>7
<1> QED  BY <1>1, Invariance, PTL

-----------------------------------------------------------------------------
(* The register implements DurableRecords.                                 *)

\* Whether a change is under way, while p is the only one that may be at it.
LEMMA SettledAlone ==
    ASSUME NEW p \in Procs, Alone(p), \A q \in Procs \ {p} : procs'[q] = procs[q]
    PROVE  /\ Settled <=> persister = Nowhere \/ procs[p].pc \notin Changed
           /\ Settled' <=> persister' = Nowhere \/ procs'[p].pc \notin Changed
BY DEF Settled, Alone, Waiting, Changed

\* Steps that neither change a record nor end a change are not seen.
LEMMA Unseen ==
    ASSUME UNCHANGED <<resIds, status, files, persister, up>>, Settled' <=> Settled
    PROVE  UNCHANGED Promise!vars
<1>1. Recs' = Recs /\ Disk' = Disk
  BY DEF Recs, Disk, RecordsOf
<1>2. Settled' = Settled
  BY DEF Settled
<1> QED  BY <1>1, <1>2 DEF Promise!vars

\* One record changes.
LEMMA Changes ==
    ASSUME IInv, NEW p \in Procs, Alone(p), up, UNCHANGED <<files, persister, up>>,
           \A q \in Procs \ {p} : procs'[q] = procs[q],
           procs[p].pc \notin Changed,
           persister # Nowhere => procs'[p].pc \in Changed,
           NEW id \in Ids, NEW s \in Statuses \cup {None},
           Recs' = [Recs EXCEPT ![id] = s]
    PROVE  Promise!Next
<1>1. Settled /\ (Settled' <=> persister = Nowhere)
  BY SettledAlone
<1>2. Settled' = (persister = Nowhere)
  BY <1>1 DEF Settled
<1>3. Disk' = Disk
  BY DEF Disk, RecordsOf
<1>4. Promise!Change(id, s)
  BY <1>1, <1>2, <1>3 DEF Promise!Change
<1> QED  BY <1>4 DEF Promise!Next

LEMMA Stops ==
    ASSUME up, Died
    PROVE  Promise!Next
<1>1. Recs' = [id \in Ids |-> None]
  BY DEF Recs, Died
<1>2. Disk' = Disk
  BY DEF Disk, RecordsOf, Died
<1>3. Settled' = TRUE
  BY DEF Settled, Died
<1>4. Promise!Stop
  BY <1>1, <1>2, <1>3 DEF Promise!Stop, Promise!NoRecords, Died
<1> QED  BY <1>4 DEF Promise!Next

\* What persist does to a goroutine, and what it leaves alone.
LEMMA AfterPersistMoves ==
    ASSUME IInv, NEW p \in Procs, Alone(p), procs[p].pc \in {"truncate", "write"},
           AfterPersist(p), UNCHANGED persister
    PROVE  /\ ~Settled /\ Settled' = TRUE
           /\ persister \in Places
<1>1. /\ procs \in [Procs -> Goroutine] /\ persister \in Places \cup {Nowhere}
      /\ persister # Nowhere
  BY DEF IInv, TypeOK, GoroutinesInv, Local
<1>2. \A q \in Procs \ {p} : procs'[q] = procs[q]
  BY <1>1 DEF AfterPersist, Goto, Finish
<1>3. procs'[p].pc \in {"unlist", "cluster", "idle"}
  BY <1>1 DEF AfterPersist, Goto, Finish, Idle, Goroutine
<1>4. ~Settled /\ Settled'
  BY <1>1, <1>2, <1>3, SettledAlone DEF Changed
<1> QED  BY <1>1, <1>4 DEF Settled

LEMMA DiskChanges ==
    ASSUME TypeOK, persister \in Places, NEW entries,
           files' = [files EXCEPT ![persister] = entries]
    PROVE  Disk' = [Disk EXCEPT ![persister] = RecordsOf(entries)]
<1>1. files \in [Places -> Seq(Entry)]
  BY DEF TypeOK
<1>2. \A place \in Places : files'[place] = IF place = persister THEN entries ELSE files[place]
  BY <1>1
<1>3. Disk' = [place \in Places |-> RecordsOf(files'[place])]
  BY DEF Disk, RecordsOf
<1>4. \A place \in Places : RecordsOf(files'[place]) =
          IF place = persister THEN RecordsOf(entries) ELSE Disk[place]
  <2>1. \A place \in Places : Disk[place] = RecordsOf(files[place])
    BY DEF Disk
  <2> QED  BY <2>1, <1>2
<1>5. DOMAIN Disk = Places /\ Disk = [place \in Places |-> Disk[place]]
  BY DEF Disk
<1> HIDE DEF Disk
<1> QED  BY <1>3, <1>4, <1>5

\* The three steps of persist.
LEMMA PersistSteps ==
    ASSUME IInv, NEW p \in Procs, Alone(p), Truncate(p) \/ Write(p) \/ PersistFails(p)
    PROVE  Promise!Next
<1>1. CASE Truncate(p)
  <2>1. /\ procs[p].pc = "truncate" /\ up /\ persister \in Places
        /\ procs \in [Procs -> Goroutine]
        /\ UNCHANGED <<resIds, list, status, persister, cache, frame, up>>
        /\ files' = [files EXCEPT ![persister] = <<>>]
    BY <1>1 DEF Truncate, At, IInv, TypeOK, GoroutinesInv, Local
  <2>2. procs'[p].pc = "write" /\ \A q \in Procs \ {p} : procs'[q] = procs[q]
    BY <1>1, <2>1 DEF Truncate, Goto, Goroutine
  <2>3. ~Settled /\ ~Settled'
    BY <2>1, <2>2, NamesAssumption, SettledAlone DEF Changed
  <2>4. Settled' = Settled
    BY <2>3 DEF Settled
  <2>5. Disk' = [Disk EXCEPT ![persister] = [id \in Ids |-> None]]
    BY <2>1, DiskChanges, NothingInEmpty DEF IInv
  <2>6. Recs' = Recs
    BY <2>1 DEF Recs
  <2>7. Promise!Truncate
    BY <2>1, <2>3, <2>4, <2>5, <2>6 DEF Promise!Truncate, Promise!OnDisk, Promise!NoRecords
  <2> QED  BY <2>7 DEF Promise!Next
<1>2. CASE Write(p)
  <2>1. /\ procs[p].pc = "write" /\ up /\ AfterPersist(p)
        /\ UNCHANGED <<resIds, list, status, persister, cache, frame, up>>
        /\ files' = [files EXCEPT ![persister] = Persisted]
    BY <1>2 DEF Write, At
  <2>2. ~Settled /\ Settled' = TRUE /\ persister \in Places
    BY <2>1, AfterPersistMoves
  <2>3. Lists(cache)
    BY <2>1 DEF IInv, GoroutinesInv, Shared, Waiting
  <2>4. RecordsOf(Persisted) = Recs
    BY <2>3, PersistedRecords DEF IInv
  <2>5. Disk' = [Disk EXCEPT ![persister] = Recs]
    BY <2>1, <2>2, <2>4, DiskChanges DEF IInv
  <2>6. Recs' = Recs
    BY <2>1 DEF Recs
  <2>7. Promise!Flush
    BY <2>1, <2>2, <2>5, <2>6 DEF Promise!Flush, Promise!OnDisk
  <2> QED  BY <2>7 DEF Promise!Next
<1>3. CASE PersistFails(p)
  <2>1. /\ procs[p].pc \in {"truncate", "write"} /\ up /\ AfterPersist(p)
        /\ UNCHANGED <<resIds, list, status, persister, cache, files, frame, up>>
    BY <1>3 DEF PersistFails, At
  <2>2. ~Settled /\ Settled' = TRUE
    BY <2>1, AfterPersistMoves
  <2>3. Recs' = Recs /\ Disk' = Disk
    BY <2>1 DEF Recs, Disk, RecordsOf
  <2>4. Promise!FlushFails
    BY <2>1, <2>2, <2>3 DEF Promise!FlushFails
  <2> QED  BY <2>4 DEF Promise!Next
<1> QED  BY <1>1, <1>2, <1>3

\* A step of the goroutine that does not wait.
LEMMA StepImplements ==
    ASSUME IInv, IInv', NEW p \in Procs, Alone(p), Step(p)
    PROVE  [Promise!Next]_(Promise!vars)
<1>1. /\ procs \in [Procs -> Goroutine] /\ procs[p] \in Goroutine
      /\ resIds \in [Ids -> Detail \cup {None}] /\ status \in [Detail -> Statuses]
      /\ list \in Seq(Detail) /\ Local(procs[p])
      /\ \A id \in Ids : resIds[id] # None => IdOf(resIds[id]) = id
  BY DEF IInv, TypeOK, GoroutinesInv, OwnIds
<1>2. ASSUME UNCHANGED <<resIds, status, files, persister, up>>,
             \A q \in Procs \ {p} : procs'[q] = procs[q],
             persister # Nowhere => (procs[p].pc \in Changed <=> procs'[p].pc \in Changed)
      PROVE  UNCHANGED Promise!vars
  BY <1>2, SettledAlone, Unseen
<1>3. CASE LockAndAdd(p)
  <2>1. /\ procs[p].pc = "lookup" /\ procs'[p].pc \in {"cluster", "map", "idle"}
        /\ \A q \in Procs \ {p} : procs'[q] = procs[q]
    BY <1>1, <1>3 DEF LockAndAdd, At, Goto, Finish, Idle, Goroutine
  <2> QED  BY <1>2, <1>3, <2>1 DEF LockAndAdd, Changed
<1>4. CASE AddToMap(p)
  <2> DEFINE id == procs[p].add
             d == procs[p].detail
  <2>1. /\ procs[p].pc = "map" /\ procs'[p].pc = "list" /\ up
        /\ \A q \in Procs \ {p} : procs'[q] = procs[q]
        /\ UNCHANGED <<files, persister, up>>
    BY <1>1, <1>4 DEF AddToMap, At, Goto, Goroutine
  <2>2. id \in Ids /\ d \in Detail /\ IdOf(d) = id /\ d # None
    BY <1>1, <2>1 DEF Local, Goroutine
  <2>3. /\ resIds' = [resIds EXCEPT ![id] = d]
        /\ status' = [status EXCEPT ![d] = "InDeploy"]
    BY <1>4 DEF AddToMap
  <2>4. \A o \in Ids : (IF resIds'[o] = None THEN None ELSE status'[resIds'[o]]) =
                       IF o = id THEN "InDeploy"
                       ELSE IF resIds[o] = None THEN None ELSE status[resIds[o]]
    BY <1>1, <2>2, <2>3
  <2>5. Recs' = [Recs EXCEPT ![id] = "InDeploy"]
    BY <2>2, <2>4 DEF Recs
  <2> HIDE DEF id
  <2> QED  BY <2>1, <2>2, <2>5, Changes DEF Changed, Statuses
<1>5. CASE ReadList(p)
  <2>1. /\ procs[p].pc = "list" /\ procs'[p].pc = "list2"
        /\ \A q \in Procs \ {p} : procs'[q] = procs[q]
    BY <1>1, <1>5 DEF ReadList, At, Goroutine
  <2> QED  BY <1>2, <1>5, <2>1 DEF ReadList, Changed
<1>6. CASE AddToList(p)
  <2>1. /\ procs[p].pc = "list2"
        /\ procs'[p].pc = IF persister = Nowhere THEN "cluster" ELSE "cache"
        /\ \A q \in Procs \ {p} : procs'[q] = procs[q]
    BY <1>1, <1>6 DEF AddToList, At, Goroutine
  <2> QED  BY <1>2, <1>6, <2>1 DEF AddToList, Changed
<1>7. CASE AddToCache(p)
  <2>1. /\ procs[p].pc = "cache" /\ procs'[p].pc = "truncate"
        /\ \A q \in Procs \ {p} : procs'[q] = procs[q]
    BY <1>1, <1>7 DEF AddToCache, At, Goto, Goroutine
  <2> QED  BY <1>2, <1>7, <2>1 DEF AddToCache, Changed
<1>8. CASE Truncate(p) \/ Write(p) \/ PersistFails(p)
  BY <1>8, PersistSteps
<1>9. CASE ClusterDone(p)
  <2>1. /\ procs[p].pc = "cluster" /\ procs'[p].pc \in {"status", "delete"}
        /\ \A q \in Procs \ {p} : procs'[q] = procs[q]
    BY <1>1, <1>9 DEF ClusterDone, At, Goto, Goroutine
  <2> QED  BY <1>2, <1>9, <2>1 DEF ClusterDone, Changed
<1>10. CASE Deployed(p)
  <2> DEFINE id == procs[p].end
             d == resIds[id]
  <2>1. procs[p].pc = "status" /\ up /\ id \in Ids
    BY <1>1, <1>10 DEF Deployed, At, Local
  <2>2. CASE Died
    BY <2>1, <2>2, Stops
  <2>3. CASE ~Died
    <3>1. /\ d # None /\ status' = [status EXCEPT ![d] = "Deployed"]
          /\ UNCHANGED <<resIds, files, persister, up>>
      BY <1>10, <2>3 DEF Deployed
    <3>2. /\ persister # Nowhere => procs'[p].pc = "truncate"
          /\ \A q \in Procs \ {p} : procs'[q] = procs[q]
      BY <1>1, <1>10, <2>3 DEF Deployed, Finish, Goroutine
    <3>3. d \in Detail
      BY <1>1, <2>1, <3>1
    <3>4. \A o \in Ids : (IF resIds'[o] = None THEN None ELSE status'[resIds'[o]]) =
                         IF o = id THEN "Deployed"
                         ELSE IF resIds[o] = None THEN None ELSE status[resIds[o]]
      BY <1>1, <2>1, <3>1, <3>3
    <3>5. Recs' = [Recs EXCEPT ![id] = "Deployed"]
      BY <2>1, <3>4 DEF Recs
    <3> HIDE DEF id
    <3> QED  BY <2>1, <3>1, <3>2, <3>5, Changes DEF Changed, Statuses
  <2> QED  BY <2>2, <2>3
<1>11. CASE RemoveFromMap(p)
  <2> DEFINE id == procs[p].end
  <2>1. /\ procs[p].pc = "delete" /\ up /\ id \in Ids /\ Lists(list)
        /\ UNCHANGED <<status, files, persister, up>>
        /\ resIds' = [resIds EXCEPT ![id] = None]
    BY <1>1, <1>11 DEF RemoveFromMap, At, Local, IInv, GoroutinesInv, Shared, Waiting
  <2>2. PICK at \in Nat : at = Position(list, id)
    BY <1>1, <2>1, PositionFinds DEF Lists, Listing
  <2>3. /\ \A q \in Procs \ {p} : procs'[q] = procs[q]
        /\ at = 0 => procs'[p].pc = "idle"
        /\ at # 0 /\ persister # Nowhere => procs'[p].pc = "uncache"
    BY <1>1, <1>11, <2>2 DEF RemoveFromMap, Finish, Idle, Goroutine
  <2>4. CASE at = 0
    <3>1. \A i \in DOMAIN list : IdOf(list[i]) # id
      BY <1>1, <2>1, <2>2, <2>4, PositionFinds DEF Lists, Listing
    <3>2. resIds[id] = None
      BY <1>1, <2>1, <3>1 DEF Lists, Listing
    <3>3. resIds' = resIds
      BY <1>1, <2>1, <3>2
    <3> QED  BY <1>2, <2>1, <2>3, <2>4, <3>3 DEF Changed
  <2>5. CASE at # 0
    <3>1. \A o \in Ids : (IF resIds'[o] = None THEN None ELSE status'[resIds'[o]]) =
                         IF o = id THEN None
                         ELSE IF resIds[o] = None THEN None ELSE status[resIds[o]]
      BY <1>1, <2>1
    <3>2. Recs' = [Recs EXCEPT ![id] = None]
      BY <2>1, <3>1 DEF Recs
    <3> HIDE DEF id
    <3> QED  BY <2>1, <2>3, <2>5, <3>2, Changes DEF Changed
  <2> QED  BY <2>4, <2>5
<1>12. CASE RemoveFromCache(p)
  <2>1. /\ procs[p].pc = "uncache" /\ procs'[p].pc = "truncate"
        /\ \A q \in Procs \ {p} : procs'[q] = procs[q]
    BY <1>1, <1>12 DEF RemoveFromCache, At, Goto, Goroutine
  <2> QED  BY <1>2, <1>12, <2>1 DEF RemoveFromCache, Changed
<1>13. CASE RemoveFromList(p)
  <2>1. procs[p].pc = "unlist" /\ up
    BY <1>13 DEF RemoveFromList, At
  <2>2. CASE Died
    BY <2>1, <2>2, Stops
  <2>3. CASE ~Died
    <3>1. /\ Finish(p) /\ UNCHANGED <<resIds, status, files, persister, up>>
      BY <1>13, <2>3 DEF RemoveFromList
    <3>2. procs'[p].pc = "idle" /\ \A q \in Procs \ {p} : procs'[q] = procs[q]
      BY <1>1, <3>1 DEF Finish, Idle
    <3> QED  BY <1>2, <2>1, <3>1, <3>2 DEF Changed
  <2> QED  BY <2>2, <2>3
<1> QED
  BY <1>3, <1>4, <1>5, <1>6, <1>7, <1>8, <1>9, <1>10, <1>11, <1>12, <1>13 DEF Step

LEMMA StartImplements ==
    ASSUME IInv, NEW place \in Places \cup {Nowhere}, Start(place)
    PROVE  Promise!Next
<1>1. Recs' = IF place = Nowhere THEN [id \in Ids |-> None] ELSE RecordsOf(files[place])
  BY StartLoads DEF IInv
<1>2. /\ ~up /\ up' = TRUE /\ persister' = place /\ files' = files /\ procs' = procs
      /\ persister = Nowhere /\ procs = [p \in Procs |-> Idle]
  BY DEF Start, IInv, DownInv
<1>3. Settled = TRUE /\ Settled' = TRUE
  BY <1>2 DEF Settled, Idle, Changed
<1>4. Disk' = Disk /\ \A q \in Places : Disk[q] = RecordsOf(files[q])
  BY <1>2 DEF Disk, RecordsOf
<1>5. Recs' = IF place = Nowhere THEN Promise!NoRecords ELSE Disk[place]
  BY <1>1, <1>4 DEF Promise!NoRecords
<1>6. Promise!Start(place)
  BY <1>2, <1>3, <1>4, <1>5 DEF Promise!Start
<1> QED  BY <1>6 DEF Promise!Next

LEMMA NextImplements ==
    ASSUME IInv, IInv', [SerialNext]_vars
    PROVE  [Promise!Next]_(Promise!vars)
<1>1. ASSUME NEW p \in Procs, Alone(p), Step(p)
      PROVE  [Promise!Next]_(Promise!vars)
  BY <1>1, StepImplements
<1>2. ASSUME NEW p \in Procs, Alone(p), NEW id \in Ids,
             Deploy(p, id, id) \/ Undeploy(p, id)
      PROVE  UNCHANGED Promise!vars
  <2>1. procs \in [Procs -> Goroutine]
    BY DEF IInv, TypeOK
  <2>2. /\ \A q \in Procs \ {p} : procs'[q] = procs[q]
        /\ procs[p].pc = "idle" /\ procs'[p].pc \in {"lookup", "delete"}
        /\ UNCHANGED <<resIds, status, files, persister, up>>
    BY <1>2, <2>1 DEF Deploy, Undeploy, At, Idle
  <2> QED  BY <1>2, <2>2, SettledAlone, Unseen DEF Changed
<1>3. ASSUME UNCHANGED <<resIds, status, files, persister, procs, up>>
      PROVE  UNCHANGED Promise!vars
  BY <1>3, Unseen DEF Settled
<1>4. CASE FrameStart
  BY <1>3, <1>4 DEF FrameStart
<1>5. CASE FrameRow
  <2>1. CASE Died
    BY <1>5, <2>1, Stops DEF FrameRow
  <2>2. CASE ~Died
    BY <1>3, <1>5, <2>2 DEF FrameRow
  <2> QED  BY <2>1, <2>2
<1>6. ASSUME NEW place \in Places \cup {Nowhere}, Start(place)
      PROVE  Promise!Next
  BY <1>6, StartImplements
<1>7. CASE Crash
  BY <1>7, Stops DEF Crash
<1>8. CASE UNCHANGED vars
  BY <1>3, <1>8 DEF vars
<1> QED  BY <1>1, <1>2, <1>4, <1>5, <1>6, <1>7, <1>8 DEF SerialNext

LEMMA InitImplements == Init => Promise!Init
<1> SUFFICES ASSUME Init
             PROVE  Promise!Init
  OBVIOUS
<1>1. Recs = Promise!NoRecords
  BY DEF Init, Empty, Recs, Promise!NoRecords
<1>2. Disk = [place \in Places |-> Promise!NoRecords]
  BY NothingInEmpty DEF Init, Disk, Promise!NoRecords
<1>3. Settled = TRUE
  BY DEF Settled, Init
<1> QED  BY <1>1, <1>2, <1>3 DEF Promise!Init, Init

\* Map, list, cache and deployments.yaml are together one durable register:
\* every assignment and every file operation of Add, Deployed and Remove is
\* one of its steps or changes nothing it shows.
THEOREM Implements == SerialSpec => KeepsPromise
<1>1. SerialSpec => []IInv
  BY Invariance
<1>2. Init => Promise!Init
  BY InitImplements
<1>3. IInv /\ IInv' /\ [SerialNext]_vars => [Promise!Next]_(Promise!vars)
  BY NextImplements
<1> QED  BY <1>1, <1>2, <1>3, PTL DEF SerialSpec, KeepsPromise, Promise!Spec

=============================================================================
