---------------------------- MODULE InKubeProofs ----------------------------
(***************************************************************************)
(* Proofs about InKubeTab: its state is well typed, a query that nobody    *)
(* disturbs asks for what was selected, no query lists the instances of a  *)
(* namespaced resource twice, a tab that can be seen has lists that were   *)
(* loaded together, and the icon of a pod tells whether it runs.           *)
(*                                                                         *)
(* There may be any number of refreshes, queries and clicks; an answer of  *)
(* the cluster is any sequence that has nothing twice (ListsAssumption).   *)
(***************************************************************************)
EXTENDS InKubeTab, SequenceFacts

-----------------------------------------------------------------------------
(* The inductive invariant.                                                 *)

Line(T) == [name : T, of : Nat]

QueryRecord ==
    [pc : {"none", "start", "namespace", "fetch"},
     nss : Seq(Namespaces \union {NoNs}), rs : Seq(Resources), live : BOOLEAN,
     found : Seq(Reqs), asked : SUBSET Reqs, quiet : BOOLEAN]

Stages == {"idle", "namespaces", "clear", "fill", "list", "end", "done"}

\* Types of the lists.  What is selected is a line of a text the list was given.
ListsInv ==
    /\ nsTexts \in Seq(Seq(Namespaces)) /\ nsTexts # <<>>
    /\ resTexts \in Seq(Seq(Resources)) /\ resTexts # <<>>
    /\ nsSel \in Seq(Line(Namespaces)) /\ resSel \in Seq(Line(Resources))
    /\ \A l \in ToSet(nsSel) : l.of \in 1 .. Len(nsTexts)
    /\ \A l \in ToSet(resSel) : l.of \in 1 .. Len(resTexts)
    /\ resourceItems \in Seq(Resources) /\ resourceItemMap \subseteq Resources

\* Types of what the threads have.
ThreadsInv ==
    /\ criteria \in [ns : Seq(Namespaces), res : Seq(Resources)]
    /\ frame \in {"between", "adding", "button", "lists"}
    /\ adding \in Seq(Line(Resources))
    /\ inRefreshing \in BOOLEAN /\ inQuery \in BOOLEAN /\ overlapped \in BOOLEAN
    /\ refresh \in [Refreshes -> Stages]
    /\ query \in QueryRecord
    /\ result # None => result \in QueryRecord

\* A request for a namespaced resource was made once.
FoundOnce(found) ==
    \A i, j \in DOMAIN found : i # j /\ found[i] = found[j] => found[i].res \in ClusterScoped

Namespaced(found) == {f \in ToSet(found) : f.res \notin ClusterScoped}

CriteriaOnce == IsInjective(criteria.ns) /\ IsInjective(criteria.res)

\* Where a query is: it has asked for nothing in the namespaces that are left,
\* and in the one it is at for none of the resources that are left.
QueryOnce ==
    /\ IsInjective(query.nss) /\ IsInjective(query.rs)
    /\ FoundOnce(query.found)
    /\ query.pc \in {"none", "start"} => query.found = <<>>
    /\ query.pc = "namespace" =>
         \A f \in Namespaced(query.found) : f.ns \notin ToSet(query.nss)
    /\ query.pc = "fetch" =>
         /\ query.nss # <<>>
         /\ \A f \in Namespaced(query.found) :
              /\ f.ns \notin ToSet(Tail(query.nss))
              /\ f.ns = Head(query.nss) => f.res \notin ToSet(query.rs)

\* While a query shares the map of the criteria it has, in the namespace it is
\* at, only asked for what that has, so what a frame adds is new to it.
LiveInv ==
    query.live =>
        /\ query.pc = "fetch" /\ ToSet(query.rs) \subseteq ToSet(criteria.res)
        /\ \A f \in Namespaced(query.found) :
             f.ns = Head(query.nss) => f.res \in ToSet(criteria.res)

QueryInv ==
    /\ CriteriaOnce /\ QueryOnce /\ LiveInv
    /\ result # None => FoundOnce(result.found)

UnderWay(r) == refresh[r] \notin {"idle", "done"}

LoadedTogether == ToSet(resourceItems) = resourceItemMap /\ IsInjective(resourceItems)

\* Refreshes one after the other: while one is under way there are no frames
\* and no criteria.
RefreshInv ==
    ~overlapped =>
        /\ \A r, s \in Refreshes : UnderWay(r) /\ UnderWay(s) => r = s
        /\ inRefreshing <=> \E r \in Refreshes : UnderWay(r)
        /\ inRefreshing => frame = "between" /\ criteria = NoCriteria
        /\ ToSet(criteria.res) \subseteq resourceItemMap
        /\ \A r \in Refreshes :
             /\ refresh[r] = "fill" => resourceItems = <<>> /\ resourceItemMap = {}
             /\ refresh[r] = "list" => LoadedTogether
        /\ (\A r \in Refreshes : refresh[r] \notin {"fill", "list"}) =>
             LoadedTogether /\ Last(resTexts) = resourceItems

\* The requests of the two loops of Query.
Loop(rs, nss) == {Target(r, n) : r \in rs, n \in nss}

\* The requests a query has still to make.
Ahead ==
    CASE query.pc = "namespace" -> Loop(ToSet(criteria.res), ToSet(query.nss))
      [] query.pc = "fetch" ->
           Loop(ToSet(query.rs), {Head(query.nss)})
             \union Loop(ToSet(criteria.res), ToSet(Tail(query.nss)))
      [] OTHER -> query.asked

\* Nobody disturbs a query: there is no frame that changes the criteria, and
\* what it has asked for and what is ahead of it is what was selected.
Undisturbed == query.pc # "none" /\ query.quiet /\ ~overlapped

Calm == ~inRefreshing /\ ~Changed /\ frame # "adding"

Complete ==
    /\ query.asked = Requests(ToSet(criteria.ns), ToSet(criteria.res))
    /\ query.asked = ToSet(query.found) \union Ahead

QuietInv ==
    /\ Undisturbed => Calm /\ Complete
    /\ result # None /\ result.quiet /\ ~overlapped => ToSet(result.found) = result.asked

IInv == ListsInv /\ ThreadsInv /\ QueryInv /\ RefreshInv /\ QuietInv

-----------------------------------------------------------------------------
(* Lists, selections and criteria.                                          *)

\* Any answer of the cluster is a sequence of what the cluster has, each once.
LEMMA Answers ==
    /\ \A l \in NsLists \union {<<>>} : l \in Seq(Namespaces) /\ IsInjective(l)
    /\ \A l \in ResLists \union {<<>>} : l \in Seq(Resources) /\ IsInjective(l)
<1>1. ASSUME NEW L, NEW l \in L, l \in Seq(ToSet(l)) 
      PROVE  l \in Seq(UNION {ToSet(k) : k \in L})
  <2>1. ToSet(l) \subseteq UNION {ToSet(k) : k \in L}
    OBVIOUS
  <2> QED  BY <1>1, <2>1
<1>2. \A l \in NsLists : l \in Seq(Namespaces)
  BY <1>1, ListsAssumption DEF Namespaces
<1>3. \A l \in ResLists : l \in Seq(Resources)
  BY <1>1, ListsAssumption DEF Resources
<1>4. /\ IsInjective(<<>>)
      /\ <<>> \in Seq(Namespaces) /\ <<>> \in Seq(Resources)
  BY EmptySeq DEF IsInjective
<1>5. ASSUME NEW l \in NsLists \union {<<>>}
      PROVE  l \in Seq(Namespaces) /\ IsInjective(l)
  BY <1>2, <1>4, ListsAssumption
<1>6. ASSUME NEW l \in ResLists \union {<<>>}
      PROVE  l \in Seq(Resources) /\ IsInjective(l)
  BY <1>3, <1>4, ListsAssumption
<1> QED  BY <1>5, <1>6

\* Update's loop over a selection makes a criterion that has each name once.
LEMMA KeysFacts ==
    ASSUME NEW T, NEW sel \in Seq(Line(T))
    PROVE  /\ Keys(sel) \in Seq(T)
           /\ IsInjective(Keys(sel))
<1> DEFINE N == Len(sel)
           Solves(f) ==
               f = [i \in 0 .. N |->
                       IF i = 0 THEN <<>>
                       ELSE IF sel[i].name \in ToSet(f[i - 1]) THEN f[i - 1]
                       ELSE Append(f[i - 1], sel[i].name)]
           keys == CHOOSE f : Solves(f)
           body == [i \in 1 .. N |-> [ks \in Seq(T) |->
                       IF sel[i].name \in ToSet(ks) THEN ks ELSE Append(ks, sel[i].name)]]
<1>1. N \in Nat /\ \A i \in 1 .. N : sel[i].name \in T
  <2>1. N \in Nat /\ \A i \in 1 .. N : sel[i] \in Line(T)
    BY SeqFacts
  <2> QED  BY <2>1 DEF Line
<1>2. body \in [1 .. N -> [Seq(T) -> Seq(T)]]
  <2>1. ASSUME NEW i \in 1 .. N, NEW ks \in Seq(T)
        PROVE  Append(ks, sel[i].name) \in Seq(T)
    BY <1>1, AppendFacts
  <2> QED  BY <2>1
<1>3. \A i \in 1 .. N, ks \in Seq(T) :
          body[i][ks] = IF sel[i].name \in ToSet(ks) THEN ks ELSE Append(ks, sel[i].name)
  OBVIOUS
<1> HIDE DEF body, N
<1>4. \E f \in [0 .. N -> Seq(T)] :
          f[0] = <<>> /\ \A i \in 1 .. N : f[i] = body[i][f[i - 1]]
  <2> DEFINE W == Seq(T)
             z == <<>>
  <2>1. z \in W /\ body \in [1 .. N -> [W -> W]]
    BY <1>2, EmptySeq
  <2> HIDE DEF W, z
  <2>2. \E f \in [0 .. N -> W] : Iterated(f, N, z, body)
    BY <1>1, <2>1, Iterates
  <2> QED  BY <2>2 DEF W, z, Iterated
<1>5. PICK f \in [0 .. N -> Seq(T)] :
          f[0] = <<>> /\ \A i \in 1 .. N : f[i] = body[i][f[i - 1]]
  BY <1>4
<1>6. Solves(f)
  <2>1. ASSUME NEW i \in 0 .. N
        PROVE  f[i] = IF i = 0 THEN <<>>
                      ELSE IF sel[i].name \in ToSet(f[i - 1]) THEN f[i - 1]
                      ELSE Append(f[i - 1], sel[i].name)
    <3>1. CASE i = 0
      BY <3>1, <1>5
    <3>2. CASE i # 0
      <4>1. i \in 1 .. N /\ i - 1 \in 0 .. N
        BY <1>1, <3>2
      <4>2. f[i - 1] \in Seq(T)
        BY <4>1
      <4> QED  BY <1>3, <1>5, <3>2, <4>1, <4>2
    <3> QED  BY <3>1, <3>2
  <2>2. f = [i \in 0 .. N |-> f[i]]
    OBVIOUS
  <2> QED  BY <2>1, <2>2, Zenon
<1>7. Solves(keys)
  <2> HIDE DEF Solves
  <2> QED  BY <1>6
<1>8. Keys(sel) = keys[N]
  BY Zenon DEF Keys, N
<1> HIDE DEF keys
<1>9. \A i \in 0 .. N : keys[i] = IF i = 0 THEN <<>>
                                 ELSE IF sel[i].name \in ToSet(keys[i - 1]) THEN keys[i - 1]
                                 ELSE Append(keys[i - 1], sel[i].name)
  BY <1>7, Zenon
<1> HIDE DEF Solves
<1> DEFINE Good(i) == keys[i] \in Seq(T) /\ IsInjective(keys[i])
           Bad == {i \in 0 .. N : ~ Good(i)}
<1>10. Bad = {}
  <2>1. SUFFICES ASSUME Bad # {} PROVE FALSE
    OBVIOUS
  <2>2. Bad \in SUBSET Nat
    BY <1>1
  <2>3. PICK i \in Bad : \A j \in Bad : i <= j
    BY <2>1, <2>2, Smallest
  <2>4. i \in 0 .. N /\ ~ Good(i)
    OBVIOUS
  <2>5. CASE i = 0
    <3>1. keys[0] = <<>>
      BY <1>9, <2>4, <2>5
    <3> QED  BY <2>4, <2>5, <3>1 DEF IsInjective
  <2>6. CASE i # 0
    <3>1. i \in 1 .. N /\ i - 1 \in 0 .. N /\ i - 1 < i /\ i \in Nat
      BY <1>1, <2>4, <2>6
    <3>2. Good(i - 1)
      <4> HIDE DEF Good
      <4> QED  BY <2>3, <3>1
    <3>3. keys[i] = IF sel[i].name \in ToSet(keys[i - 1]) THEN keys[i - 1]
                    ELSE Append(keys[i - 1], sel[i].name)
      BY <1>9, <2>6, <3>1
    <3>4. sel[i].name \in T
      BY <1>1, <3>1
    <3> QED  BY <2>4, <3>2, <3>3, <3>4, AppendFacts
  <2> QED  BY <2>5, <2>6
<1>11. N \in 0 .. N
  BY <1>1
<1>12. Good(N)
  <2> HIDE DEF Good
  <2> QED  BY <1>10, <1>11
<1> QED  BY <1>8, <1>12

\* The test of Update finds every change of a selection that has no name twice:
\* the criterion has as many names, among them all that are selected.
LEMMA SelectionAgrees ==
    ASSUME NEW T, NEW sel \in Seq(Line(T)), NEW keys \in Seq(T),
           NamesOnce(sel), IsInjective(keys), ~Differs(sel, keys)
    PROVE  Names(sel) = ToSet(keys)
<1> DEFINE n == Len(sel)
<1>1. /\ n \in Nat /\ DOMAIN sel = 1 .. n /\ DOMAIN keys = 1 .. n /\ Len(keys) = n
      /\ Names(sel) \subseteq ToSet(keys)
      /\ ToSet(keys) = {keys[i] : i \in 1 .. n}
      /\ Names(sel) = {sel[i].name : i \in 1 .. n}
  BY SeqFacts DEF Differs, Names
<1>2. \A i, j \in 1 .. n : sel[i].name = sel[j].name => i = j
  BY <1>1 DEF NamesOnce
<1>3. \A i, j \in 1 .. n : keys[i] = keys[j] => i = j
  BY <1>1 DEF IsInjective
<1> HIDE DEF n
<1>4. IsFiniteSet(1 .. n)
  BY <1>1, FS_Interval
<1>5. IsFiniteSet(ToSet(keys)) /\ Cardinality(ToSet(keys)) = Cardinality(1 .. n)
  <2> DEFINE f == [i \in 1 .. n |-> keys[i]]
  <2>1. f \in Bijection(1 .. n, ToSet(keys))
    BY <1>1, <1>3 DEF Bijection, Injection, Surjection
  <2> QED  BY <2>1, <1>4, FS_Bijection DEF ExistsBijection
<1>6. Cardinality(Names(sel)) = Cardinality(1 .. n)
  <2> DEFINE f == [i \in 1 .. n |-> sel[i].name]
  <2>1. f \in Bijection(1 .. n, Names(sel))
    <3>1. /\ f \in [1 .. n -> Names(sel)]
          /\ \A i \in 1 .. n : f[i] = sel[i].name
          /\ DOMAIN f = 1 .. n
      BY <1>1
    <3>2. IsInjective(f)
      BY <1>2, <3>1 DEF IsInjective
    <3>3. \A t \in Names(sel) : \E i \in 1 .. n : f[i] = t
      BY <1>1, <3>1
    <3> HIDE DEF f
    <3> QED  BY <3>1, <3>2, <3>3 DEF Bijection, Injection, Surjection
  <2> QED  BY <2>1, <1>4, FS_Bijection DEF ExistsBijection
<1> QED  BY <1>1, <1>5, <1>6, FS_Subset

\* A click selects a line of a text, or takes it out of the selection.
LEMMA ToggledFacts ==
    ASSUME NEW S, NEW sel \in Seq(S), NEW l \in S
    PROVE  /\ Toggled(sel, l) \in Seq(S)
           /\ ToSet(Toggled(sel, l)) \subseteq ToSet(sel) \cup {l}
BY AppendFacts, RemoveFirstProperties DEF Toggled

LEMMA LinesFacts ==
    ASSUME NEW T, NEW texts \in Seq(Seq(T)), texts # <<>>, NEW l \in Lines(texts)
    PROVE  l \in Line(T) /\ l.of \in 1 .. Len(texts)
<1>1. Len(texts) \in Nat /\ Len(texts) >= 1 /\ \A g \in 1 .. Len(texts) : texts[g] \in Seq(T)
  BY SeqFacts
<1>2. PICK n \in Namespaces \union Resources, g \in {Len(texts), Len(texts) - 1} \ {0} :
          l = [name |-> n, of |-> g]
  BY DEF Lines, Drawn
<1>3. g \in 1 .. Len(texts)
  BY <1>1
<1>4. n \in ToSet(texts[g])
  BY <1>2 DEF Lines
<1>5. n \in T
  BY <1>1, <1>3, <1>4, SeqFacts
<1> QED  BY <1>2, <1>3, <1>5 DEF Line

-----------------------------------------------------------------------------
(* Requests.                                                                *)

LEMMA TargetFacts ==
    ASSUME NEW r \in Resources, NEW n \in Namespaces \union {NoNs}
    PROVE  /\ Target(r, n) \in Reqs
           /\ Target(r, n).res = r
           /\ r \notin ClusterScoped => Target(r, n).ns = n
BY DEF Target, Reqs

LEMMA NamesFacts ==
    ASSUME NEW T, NEW sel \in Seq(Line(T))
    PROVE  Names(sel) \subseteq T
<1>1. DOMAIN sel = 1 .. Len(sel) /\ \A i \in 1 .. Len(sel) : sel[i] \in Line(T)
  BY SeqFacts
<1> QED  BY <1>1 DEF Names, Line

LEMMA RequestsFacts ==
    ASSUME NEW nss \in SUBSET Namespaces, NEW rs \in SUBSET Resources
    PROVE  Requests(nss, rs) \subseteq Reqs
<1> SUFFICES ASSUME NEW q \in Requests(nss, rs)
             PROVE  q \in Reqs
  OBVIOUS
<1>1. PICK r \in rs, n \in (IF nss = {} THEN {NoNs} ELSE nss) : q = Target(r, n)
  BY DEF Requests
<1>2. r \in Resources /\ n \in Namespaces \union {NoNs}
  BY <1>1
<1> QED  BY <1>1, <1>2, TargetFacts

-----------------------------------------------------------------------------
(* Types.                                                                   *)

LEMMA InitTypes ==
    ASSUME Init
    PROVE  ListsInv /\ ThreadsInv
<1>1. PICK ns \in NsLists \union {<<>>}, rs \in ResLists \union {<<>>} :
          /\ nsTexts = <<ns>> /\ resTexts = <<rs>>
          /\ resourceItems = rs /\ resourceItemMap = ToSet(rs)
  BY DEF Init
<1>2. ns \in Seq(Namespaces) /\ rs \in Seq(Resources) /\ ToSet(rs) \subseteq Resources
  <2>1. ns \in Seq(Namespaces) /\ rs \in Seq(Resources)
    BY Answers
  <2> QED  BY <2>1, SeqFacts
<1>3. nsTexts \in Seq(Seq(Namespaces)) /\ resTexts \in Seq(Seq(Resources))
  BY <1>1, <1>2
<1>4. nsTexts # <<>> /\ resTexts # <<>>
  BY <1>1
<1>5. nsSel = <<>> /\ resSel = <<>> /\ ToSet(<<>>) = {}
  BY DEF Init, ToSet
<1>6. nsSel \in Seq(Line(Namespaces)) /\ resSel \in Seq(Line(Resources))
  BY <1>5, EmptySeq
<1>7. ListsInv
  BY <1>1, <1>2, <1>3, <1>4, <1>5, <1>6 DEF ListsInv
<1>8. NoQuery \in QueryRecord
  BY DEF NoQuery, QueryRecord
<1>9. criteria \in [ns : Seq(Namespaces), res : Seq(Resources)] /\ adding \in Seq(Line(Resources))
  BY EmptySeq DEF Init, NoCriteria
<1>10. refresh \in [Refreshes -> Stages]
  BY DEF Init, Stages
<1>11. ThreadsInv
  BY <1>8, <1>9, <1>10 DEF Init, ThreadsInv
<1> QED  BY <1>7, <1>11

\* A step that leaves the lists as they are.
LEMMA SameLists ==
    ASSUME ListsInv, UNCHANGED listVars
    PROVE  ListsInv'
BY DEF ListsInv, listVars

LEMMA FrameTypes ==
    ASSUME IInv, FrameStep
    PROVE  ListsInv' /\ ThreadsInv'
<1> USE DEF IInv
<1>1. CASE BeginFrame
  <2>1. ListsInv'
    BY <1>1, SameLists DEF BeginFrame
  <2>2. Keys(nsSel) \in Seq(Namespaces)
    BY KeysFacts DEF ListsInv
  <2> DEFINE ks == Keys(nsSel)
  <2> HIDE DEF ks
  <2>3. [ns |-> ks, res |-> <<>>] \in [ns : Seq(Namespaces), res : Seq(Resources)]
    BY <2>2, EmptySeq DEF ks
  <2>4. criteria' \in [ns : Seq(Namespaces), res : Seq(Resources)]
    BY <1>1, <2>3 DEF BeginFrame, NsCriterion, ThreadsInv, ks
  <2>5. query' \in QueryRecord
    BY <1>1 DEF BeginFrame, KeepMap, ThreadsInv, QueryRecord
  <2>6. adding' \in Seq(Line(Resources))
    BY <1>1 DEF BeginFrame, ThreadsInv, ListsInv
  <2>7. frame' \in {"between", "adding", "button", "lists"}
    BY <1>1 DEF BeginFrame
  <2> QED  BY <1>1, <2>1, <2>4, <2>5, <2>6, <2>7 DEF BeginFrame, ThreadsInv, countVars
<1>2. CASE AddResource
  <2>1. ListsInv'
    BY <1>2, SameLists DEF AddResource
  <2>2. CASE adding = <<>>
    BY <1>2, <2>1, <2>2 DEF AddResource, ThreadsInv, countVars
  <2>3. CASE adding # <<>>
    <3> DEFINE r == Head(adding).name
               new == r \in resourceItemMap /\ r \notin ToSet(criteria.res)
    <3>1. /\ adding' = Tail(adding)
          /\ criteria' = IF new THEN [criteria EXCEPT !.res = Append(@, r)] ELSE criteria
          /\ query' = IF new /\ query.live THEN [query EXCEPT !.rs = Append(@, r)] ELSE query
          /\ UNCHANGED <<frame, listVars, inRefreshing, refresh, inQuery, result, countVars>>
      BY <1>2, <2>3 DEF AddResource
    <3>2. r \in Resources /\ Tail(adding) \in Seq(Line(Resources))
      <4>1. Head(adding) \in Line(Resources) /\ Tail(adding) \in Seq(Line(Resources))
        BY <2>3, TailFacts DEF ThreadsInv
      <4> QED  BY <4>1 DEF Line
    <3> HIDE DEF r
    <3>3. Append(criteria.res, r) \in Seq(Resources) /\ Append(query.rs, r) \in Seq(Resources)
      BY <3>2 DEF ThreadsInv, QueryRecord
    <3>4. criteria' \in [ns : Seq(Namespaces), res : Seq(Resources)]
      BY <3>1, <3>3 DEF ThreadsInv
    <3>5. query' \in QueryRecord
      BY <3>1, <3>3 DEF ThreadsInv, QueryRecord
    <3> QED  BY <2>1, <3>1, <3>2, <3>4, <3>5 DEF ThreadsInv, countVars
  <2> QED  BY <2>2, <2>3
<1>3. CASE ClickQuery
  <2>1. ListsInv'
    BY <1>3, SameLists DEF ClickQuery
  <2> DEFINE new == Requests(Names(nsSel), Names(resSel) \intersect resourceItemMap)
             quiet == ~Changed /\ NamesOnce(nsSel) /\ NamesOnce(resSel)
  <2>2. new \subseteq Reqs
    <3>1. Names(nsSel) \in SUBSET Namespaces
          /\ Names(resSel) \intersect resourceItemMap \in SUBSET Resources
      BY NamesFacts DEF ListsInv
    <3> QED  BY <3>1, RequestsFacts
  <2>3. quiet \in BOOLEAN
    OBVIOUS
  <2>4. query' = [NoQuery EXCEPT !.pc = "start", !.quiet = quiet, !.asked = new]
    BY <1>3 DEF ClickQuery
  <2> HIDE DEF new, quiet
  <2>5. NoQuery \in QueryRecord
    BY DEF NoQuery, QueryRecord
  <2>6. query' \in QueryRecord
    BY <2>2, <2>3, <2>4, <2>5 DEF QueryRecord
  <2> QED  BY <1>3, <2>1, <2>6 DEF ClickQuery, ThreadsInv
<1>4. CASE SelectLine
  <2>1. query' \in QueryRecord
    BY <1>4 DEF SelectLine, ThreadsInv, QueryRecord
  <2>2. ThreadsInv'
    BY <1>4, <2>1 DEF SelectLine, ThreadsInv
  <2>3. CASE UNCHANGED resSel /\ \E l \in Lines(nsTexts) : nsSel' = Toggled(nsSel, l)
    <3>1. PICK l \in Lines(nsTexts) : nsSel' = Toggled(nsSel, l)
      BY <2>3
    <3>2. l \in Line(Namespaces) /\ l.of \in 1 .. Len(nsTexts)
      BY LinesFacts DEF ListsInv
    <3>3. nsSel' \in Seq(Line(Namespaces)) /\ ToSet(nsSel') \subseteq ToSet(nsSel) \union {l}
      BY <3>1, <3>2, ToggledFacts DEF ListsInv
    <3> QED  BY <1>4, <2>2, <2>3, <3>2, <3>3 DEF SelectLine, ListsInv
  <2>4. CASE UNCHANGED nsSel /\ \E l \in Lines(resTexts) : resSel' = Toggled(resSel, l)
    <3>1. PICK l \in Lines(resTexts) : resSel' = Toggled(resSel, l)
      BY <2>4
    <3>2. l \in Line(Resources) /\ l.of \in 1 .. Len(resTexts)
      BY LinesFacts DEF ListsInv
    <3>3. resSel' \in Seq(Line(Resources)) /\ ToSet(resSel') \subseteq ToSet(resSel) \union {l}
      BY <3>1, <3>2, ToggledFacts DEF ListsInv
    <3> QED  BY <1>4, <2>2, <2>4, <3>2, <3>3 DEF SelectLine, ListsInv
  <2> QED  BY <1>4, <2>3, <2>4 DEF SelectLine
<1>5. CASE EndFrame
  <2>1. ListsInv'
    BY <1>5, SameLists DEF EndFrame
  <2> QED  BY <1>5, <2>1 DEF EndFrame, ThreadsInv, countVars
<1> QED  BY <1>1, <1>2, <1>3, <1>4, <1>5 DEF FrameStep

LEMMA QueryTypes ==
    ASSUME IInv, QueryStep
    PROVE  ListsInv' /\ ThreadsInv'
<1> USE DEF IInv
<1>1. ListsInv'
  <2>1. UNCHANGED listVars
    BY DEF QueryStep, StartQuery, NextNamespace, Fetch, EndNamespace, EndQuery, QueryUnchanged
  <2> QED  BY <2>1, SameLists
<1>2. query' \in QueryRecord /\ (result' # None => result' \in QueryRecord)
  <2>1. CASE StartQuery
    <3> DEFINE nss == IF criteria.ns = <<>> THEN <<NoNs>> ELSE criteria.ns
    <3>1. nss \in Seq(Namespaces \union {NoNs})
      <4>1. criteria.ns \in Seq(Namespaces)
        BY DEF ThreadsInv
      <4> DEFINE ns == criteria.ns
                 all == Namespaces \union {NoNs}
      <4> HIDE DEF ns
      <4>2. ns \in Seq(all)
        BY <4>1 DEF ns
      <4>3. <<NoNs>> \in Seq(all)
        OBVIOUS
      <4> QED  BY <4>2, <4>3 DEF ns
    <3>2. query' = [query EXCEPT !.pc = "namespace", !.nss = nss] /\ result' = result
      BY <2>1 DEF StartQuery
    <3> HIDE DEF nss
    <3> QED  BY <3>1, <3>2 DEF ThreadsInv, QueryRecord
  <2>2. CASE NextNamespace
    <3>1. criteria.res \in Seq(Resources)
      BY DEF ThreadsInv
    <3> QED  BY <2>2, <3>1 DEF NextNamespace, ThreadsInv, QueryRecord
  <2>3. CASE Fetch
    <3> DEFINE tail == Tail(query.rs)
               t == Target(Head(query.rs), Head(query.nss))
               found == Append(query.found, t)
    <3>1. tail \in Seq(Resources) /\ Head(query.rs) \in Resources
      BY <2>3, TailFacts DEF Fetch, ThreadsInv, QueryRecord
    <3>2. Head(query.nss) \in Namespaces \union {NoNs}
      <4>1. query.nss \in Seq(Namespaces \union {NoNs}) /\ query.nss # <<>>
        BY <2>3 DEF Fetch, ThreadsInv, QueryRecord, QueryInv, QueryOnce
      <4> QED  BY <4>1, TailFacts
    <3>3. t \in Reqs
      BY <3>1, <3>2, TargetFacts
    <3>4. found \in Seq(Reqs)
      <4> HIDE DEF t
      <4> QED  BY <3>3, AppendFacts DEF ThreadsInv, QueryRecord
    <3>5. /\ \/ query' = [query EXCEPT !.rs = tail, !.found = found]
             \/ query' = [query EXCEPT !.rs = tail, !.quiet = FALSE]
          /\ result' = result
      BY <2>3 DEF Fetch
    <3> HIDE DEF tail, found
    <3> QED  BY <3>1, <3>4, <3>5 DEF ThreadsInv, QueryRecord
  <2>4. CASE EndNamespace
    <3> DEFINE tail == Tail(query.nss)
    <3>1. tail \in Seq(Namespaces \union {NoNs})
      BY <2>4, TailFacts DEF EndNamespace, ThreadsInv, QueryRecord, QueryInv, QueryOnce
    <3>2. query' = [query EXCEPT !.pc = "namespace", !.nss = tail, !.live = FALSE]
          /\ result' = result
      BY <2>4 DEF EndNamespace
    <3> HIDE DEF tail
    <3> QED  BY <3>1, <3>2 DEF ThreadsInv, QueryRecord
  <2>5. CASE EndQuery
    <3>1. NoQuery \in QueryRecord
      BY DEF NoQuery, QueryRecord
    <3> QED  BY <2>5, <3>1 DEF EndQuery, ThreadsInv
  <2> QED  BY <2>1, <2>2, <2>3, <2>4, <2>5 DEF QueryStep
<1>3. inQuery' \in BOOLEAN
  BY DEF QueryStep, StartQuery, NextNamespace, Fetch, EndNamespace, EndQuery, ThreadsInv
<1>4. UNCHANGED <<criteria, frame, adding, inRefreshing, refresh, overlapped>>
  BY DEF QueryStep, StartQuery, NextNamespace, Fetch, EndNamespace, EndQuery,
         QueryUnchanged, countVars
<1> QED  BY <1>1, <1>2, <1>3, <1>4 DEF ThreadsInv

LEMMA RefreshTypes ==
    ASSUME IInv, NEW r \in Refreshes, ClickRefresh(r) \/ RefreshStep(r)
    PROVE  ListsInv' /\ ThreadsInv'
<1> USE DEF IInv
<1>1. CASE ClickRefresh(r)
  <2>1. ListsInv'
    BY <1>1, SameLists DEF ClickRefresh
  <2>2. query' \in QueryRecord
    BY <1>1 DEF ClickRefresh, ThreadsInv, QueryRecord
  <2>3. criteria' \in [ns : Seq(Namespaces), res : Seq(Resources)]
    BY <1>1, EmptySeq DEF ClickRefresh, NoCriteria
  <2>4. refresh' \in [Refreshes -> Stages]
    BY <1>1 DEF ClickRefresh, ThreadsInv, Stages
  <2>5. overlapped' \in BOOLEAN
    BY <1>1 DEF ClickRefresh, ThreadsInv
  <2> QED  BY <1>1, <2>1, <2>2, <2>3, <2>4, <2>5 DEF ClickRefresh, ThreadsInv
<1>2. ASSUME RefreshStep(r)
      PROVE  ThreadsInv'
  <2>1. refresh' \in [Refreshes -> Stages]
    BY <1>2 DEF RefreshStep, RefreshNamespaces, ClearResources, FillResources,
                ListResources, EndRefresh, RefreshAt, ThreadsInv, Stages
  <2>2. RefreshUnchanged /\ inRefreshing' \in BOOLEAN
    BY <1>2 DEF RefreshStep, RefreshNamespaces, ClearResources, FillResources,
                ListResources, EndRefresh, ThreadsInv
  <2> QED  BY <2>1, <2>2 DEF RefreshUnchanged, ThreadsInv, countVars
<1>3. CASE RefreshNamespaces(r)
  <2>1. CASE UNCHANGED <<nsTexts, nsSel>>
    BY <1>2, <1>3, <2>1 DEF RefreshNamespaces, RefreshStep, ListsInv
  <2>2. CASE (\E ns \in NsLists : nsTexts' = Append(nsTexts, ns)) /\ nsSel' = <<>>
    <3>1. PICK ns \in NsLists : nsTexts' = Append(nsTexts, ns)
      BY <2>2
    <3>2. ns \in Seq(Namespaces)
      BY Answers
    <3>3. nsTexts' \in Seq(Seq(Namespaces)) /\ nsTexts' # <<>>
      BY <3>1, <3>2, AppendFacts DEF ListsInv
    <3>4. nsSel' \in Seq(Line(Namespaces)) /\ ToSet(nsSel') = {}
      BY <2>2, EmptySeq DEF ToSet
    <3> QED  BY <1>2, <1>3, <3>3, <3>4 DEF RefreshNamespaces, RefreshStep, ListsInv
  <2> QED  BY <1>3, <2>1, <2>2 DEF RefreshNamespaces
<1>4. CASE ClearResources(r)
  <2>1. resourceItems' \in Seq(Resources) /\ resourceItemMap' \subseteq Resources
    BY <1>4, EmptySeq DEF ClearResources
  <2> QED  BY <1>2, <1>4, <2>1 DEF ClearResources, RefreshStep, ListsInv
<1>5. CASE FillResources(r)
  <2>1. PICK rs \in ResLists \union {<<>>} :
            /\ resourceItems' = resourceItems \o rs
            /\ resourceItemMap' = resourceItemMap \union ToSet(rs)
    BY <1>5 DEF FillResources
  <2>2. rs \in Seq(Resources) /\ ToSet(rs) \subseteq Resources
    <3>1. rs \in Seq(Resources)
      BY Answers
    <3> QED  BY <3>1, SeqFacts
  <2>3. resourceItems' \in Seq(Resources) /\ resourceItemMap' \subseteq Resources
    BY <2>1, <2>2 DEF ListsInv
  <2> QED  BY <1>2, <1>5, <2>3 DEF FillResources, RefreshStep, ListsInv
<1>6. CASE ListResources(r)
  <2>1. resTexts' \in Seq(Seq(Resources)) /\ resTexts' # <<>>
    BY <1>6, AppendFacts DEF ListResources, ListsInv
  <2>2. resSel' \in Seq(Line(Resources)) /\ ToSet(resSel') = {}
    BY <1>6, EmptySeq DEF ListResources, ToSet
  <2> QED  BY <1>2, <1>6, <2>1, <2>2 DEF ListResources, RefreshStep, ListsInv
<1>7. CASE EndRefresh(r)
  <2>1. ListsInv'
    BY <1>7, SameLists DEF EndRefresh
  <2> QED  BY <1>2, <1>7, <2>1 DEF RefreshStep
<1> QED  BY <1>1, <1>3, <1>4, <1>5, <1>6, <1>7 DEF RefreshStep

-----------------------------------------------------------------------------
(* What a query asks for.                                                   *)

LEMMA FoundMore ==
    ASSUME NEW found \in Seq(Reqs), FoundOnce(found), NEW q \in Reqs,
           q \notin Namespaced(found)
    PROVE  /\ FoundOnce(Append(found, q))
           /\ Namespaced(Append(found, q)) \subseteq Namespaced(found) \union {q}
<1> DEFINE more == Append(found, q)
           n == Len(found)
<1>1. /\ n \in Nat /\ DOMAIN found = 1 .. n
      /\ ToSet(found) = {found[i] : i \in 1 .. n}
  BY SeqFacts
<1>2. /\ DOMAIN more = 1 .. n + 1 /\ more[n + 1] = q
      /\ \A i \in 1 .. n : more[i] = found[i]
  BY <1>1, AppendProperties
<1>3. ToSet(more) = ToSet(found) \union {q}
  BY AppendFacts
<1> HIDE DEF more, n
<1>4. ASSUME NEW i \in 1 .. n, found[i] = q
      PROVE  q.res \in ClusterScoped
  BY <1>1, <1>4 DEF Namespaced
<1>5. ASSUME NEW i \in DOMAIN more, NEW j \in DOMAIN more, i # j, more[i] = more[j]
      PROVE  more[i].res \in ClusterScoped
  <2>1. CASE i \in 1 .. n /\ j \in 1 .. n
    BY <1>1, <1>2, <1>5, <2>1 DEF FoundOnce
  <2>2. CASE i = n + 1
    <3>1. j \in 1 .. n
      BY <1>1, <1>2, <1>5, <2>2
    <3> QED  BY <1>2, <1>4, <1>5, <2>2, <3>1
  <2>3. CASE j = n + 1
    <3>1. i \in 1 .. n
      BY <1>1, <1>2, <1>5, <2>3
    <3> QED  BY <1>2, <1>4, <1>5, <2>3, <3>1
  <2> QED  BY <1>1, <1>2, <2>1, <2>2, <2>3
<1>6. FoundOnce(more)
  BY <1>5 DEF FoundOnce
<1>7. Namespaced(more) \subseteq Namespaced(found) \union {q}
  BY <1>3 DEF Namespaced
<1> QED  BY <1>6, <1>7 DEF more

LEMMA NothingFound == FoundOnce(<<>>) /\ Namespaced(<<>>) = {} /\ IsInjective(<<>>)
BY DEF FoundOnce, Namespaced, ToSet, IsInjective

LEMMA InitQueries ==
    ASSUME Init
    PROVE  QueryInv
<1>1. criteria = NoCriteria /\ query = NoQuery /\ result = None
  BY DEF Init
<1> QED  BY <1>1, NothingFound DEF QueryInv, CriteriaOnce, QueryOnce, LiveInv, NoCriteria, NoQuery

\* A step that leaves a query where it is.
LEMMA SamePlace ==
    ASSUME QueryOnce, query'.pc = query.pc, query'.nss = query.nss,
           query'.rs = query.rs, query'.found = query.found
    PROVE  QueryOnce'
BY DEF QueryOnce

LEMMA FrameQueries ==
    ASSUME IInv, FrameStep
    PROVE  QueryInv'
<1> USE DEF IInv, QueryInv
<1>1. query \in QueryRecord
  BY DEF ThreadsInv
<1>2. CASE UNCHANGED <<criteria, query, result>>
  BY <1>2 DEF CriteriaOnce, QueryOnce, LiveInv
<1>3. CASE BeginFrame
  <2>1. CASE ~Changed
    BY <1>2, <1>3, <2>1 DEF BeginFrame
  <2>2. CASE Changed
    <3>1. criteria' = [ns |-> Keys(nsSel), res |-> <<>>] /\ result' = result
          /\ query' = [query EXCEPT !.live = FALSE]
      BY <1>3, <2>2 DEF BeginFrame, NsCriterion, KeepMap
    <3>2. IsInjective(Keys(nsSel))
      BY KeysFacts DEF ListsInv
    <3>3. CriteriaOnce'
      BY <3>1, <3>2, NothingFound DEF CriteriaOnce
    <3>4. /\ query'.pc = query.pc /\ query'.nss = query.nss /\ query'.rs = query.rs
          /\ query'.found = query.found /\ ~query'.live
      BY <1>1, <3>1 DEF QueryRecord
    <3> QED  BY <3>1, <3>3, <3>4, SamePlace DEF LiveInv
  <2> QED  BY <2>1, <2>2
<1>4. CASE AddResource
  <2> DEFINE r == Head(adding).name
             new == r \in resourceItemMap /\ r \notin ToSet(criteria.res)
  <2>1. CASE adding = <<>> \/ ~new
    <3>1. UNCHANGED <<criteria, query, result>>
      BY <1>4, <2>1 DEF AddResource
    <3> QED  BY <3>1, <1>2
  <2>2. CASE adding # <<>> /\ new
    <3>1. /\ criteria' = [criteria EXCEPT !.res = Append(@, r)] /\ result' = result
          /\ query' = IF query.live THEN [query EXCEPT !.rs = Append(@, r)] ELSE query
      BY <1>4, <2>2 DEF AddResource
    <3>2. r \in Resources /\ r \notin ToSet(criteria.res)
      BY <2>2 DEF ListsInv
    <3> HIDE DEF r
    <3>3. /\ criteria.res \in Seq(Resources)
          /\ criteria'.ns = criteria.ns /\ criteria'.res = Append(criteria.res, r)
      BY <3>1 DEF ThreadsInv
    <3>4. /\ ToSet(criteria'.res) = ToSet(criteria.res) \union {r}
          /\ IsInjective(criteria'.res)
      BY <3>2, <3>3, AppendFacts DEF CriteriaOnce
    <3>5. CriteriaOnce'
      BY <3>3, <3>4 DEF CriteriaOnce
    <3>6. CASE ~query.live
      <4>1. query' = query
        BY <3>1, <3>6
      <4> QED  BY <3>1, <3>5, <3>6, <4>1, SamePlace DEF LiveInv
    <3>7. CASE query.live
      <4>1. /\ query'.pc = query.pc /\ query'.nss = query.nss /\ query'.live
            /\ query'.rs = Append(query.rs, r) /\ query'.found = query.found
            /\ query.rs \in Seq(Resources)
        BY <1>1, <3>1, <3>7 DEF QueryRecord
      <4>2. r \notin ToSet(query.rs) /\ query.pc = "fetch"
        BY <3>2, <3>7 DEF LiveInv
      <4>3. /\ ToSet(query'.rs) = ToSet(query.rs) \union {r}
            /\ IsInjective(query'.rs)
        BY <3>2, <4>1, <4>2, AppendFacts DEF QueryOnce
      <4>4. ASSUME NEW f \in Namespaced(query.found), f.ns = Head(query.nss)
            PROVE  f.res \notin ToSet(query'.rs)
        <5>1. f.res \in ToSet(criteria.res) /\ f.res \notin ToSet(query.rs)
          BY <3>7, <4>2, <4>4 DEF QueryOnce, LiveInv
        <5> QED  BY <3>2, <4>3, <5>1
      <4>5. QueryOnce'
        BY <4>1, <4>2, <4>3, <4>4 DEF QueryOnce
      <4>6. LiveInv'
        BY <3>4, <3>7, <4>1, <4>2, <4>3 DEF LiveInv
      <4> QED  BY <3>1, <3>5, <4>5, <4>6
    <3> QED  BY <3>6, <3>7
  <2> QED  BY <2>1, <2>2
<1>5. CASE ClickQuery
  <2>1. /\ query'.pc = "start" /\ query'.nss = <<>> /\ query'.rs = <<>> /\ query'.live = FALSE
        /\ query'.found = <<>> /\ criteria' = criteria /\ result' = result
    BY <1>5 DEF ClickQuery, NoQuery
  <2> QED  BY <2>1, NothingFound DEF CriteriaOnce, QueryOnce, LiveInv
<1>6. CASE SelectLine
  <2>1. /\ query'.pc = query.pc /\ query'.nss = query.nss /\ query'.rs = query.rs
        /\ query'.found = query.found /\ query'.live = query.live
        /\ criteria' = criteria /\ result' = result
    BY <1>1, <1>6 DEF SelectLine, QueryRecord
  <2> QED  BY <2>1, SamePlace DEF CriteriaOnce, LiveInv
<1>7. CASE EndFrame
  BY <1>2, <1>7 DEF EndFrame
<1> QED  BY <1>3, <1>4, <1>5, <1>6, <1>7 DEF FrameStep

LEMMA QueryQueries ==
    ASSUME IInv, QueryStep
    PROVE  QueryInv'
<1> USE DEF IInv, QueryInv
<1>1. query \in QueryRecord /\ criteria \in [ns : Seq(Namespaces), res : Seq(Resources)]
  BY DEF ThreadsInv
<1>2. CriteriaOnce'
  BY DEF QueryStep, StartQuery, NextNamespace, Fetch, EndNamespace, EndQuery,
         QueryUnchanged, CriteriaOnce
<1>3. CASE StartQuery
  <2>1. /\ query'.pc = "namespace" /\ query'.rs = query.rs /\ query'.live = query.live
        /\ query'.nss = (IF criteria.ns = <<>> THEN <<NoNs>> ELSE criteria.ns)
        /\ query'.found = query.found /\ result' = result /\ query.pc = "start"
    BY <1>1, <1>3 DEF StartQuery, QueryRecord
  <2>2. IsInjective(<<NoNs>>)
    BY DEF IsInjective
  <2>3. IsInjective(query'.nss)
    BY <2>1, <2>2 DEF CriteriaOnce
  <2>4. QueryOnce'
    BY <2>1, <2>3, NothingFound DEF QueryOnce
  <2>5. LiveInv'
    BY <2>1 DEF LiveInv
  <2> QED  BY <1>2, <2>1, <2>4, <2>5
<1>4. CASE NextNamespace
  <2>1. /\ query'.pc = "fetch" /\ query'.nss = query.nss /\ query'.live = TRUE
        /\ query'.rs = criteria.res /\ query'.found = query.found
        /\ query.nss \in Seq(Namespaces \union {NoNs}) /\ criteria' = criteria
        /\ result' = result /\ query.pc = "namespace" /\ query.nss # <<>>
    BY <1>1, <1>4 DEF NextNamespace, QueryRecord, QueryUnchanged
  <2>2. ToSet(query.nss) = {Head(query.nss)} \union ToSet(Tail(query.nss))
    BY <2>1, TailFacts
  <2>3. ASSUME NEW f \in Namespaced(query.found)
        PROVE  f.ns \notin ToSet(Tail(query.nss)) /\ f.ns # Head(query.nss)
    BY <2>1, <2>2 DEF QueryOnce
  <2>4. QueryOnce'
    BY <2>1, <2>3 DEF QueryOnce, CriteriaOnce
  <2>5. LiveInv'
    BY <2>1, <2>3 DEF LiveInv
  <2> QED  BY <1>2, <2>1, <2>4, <2>5
<1>5. CASE Fetch
  <2> DEFINE r == Head(query.rs)
             n == Head(query.nss)
             t == Target(r, n)
  <2>1. /\ query.pc = "fetch" /\ query.rs # <<>> /\ query.nss # <<>>
        /\ query.rs \in Seq(Resources) /\ query.nss \in Seq(Namespaces \union {NoNs})
        /\ query.found \in Seq(Reqs)
    BY <1>1, <1>5 DEF Fetch, QueryRecord, QueryOnce
  <2>2. /\ r \in Resources /\ r \in ToSet(query.rs) /\ r \notin ToSet(Tail(query.rs))
        /\ ToSet(query.rs) = {r} \union ToSet(Tail(query.rs))
        /\ IsInjective(Tail(query.rs))
    BY <2>1, TailFacts DEF QueryOnce
  <2>3. n \in Namespaces \union {NoNs} /\ n \notin ToSet(Tail(query.nss))
    BY <2>1, TailFacts DEF QueryOnce
  <2>4. t \in Reqs /\ t.res = r /\ (r \notin ClusterScoped => t.ns = n)
    BY <2>2, <2>3, TargetFacts
  <2>5. /\ query'.pc = "fetch" /\ query'.nss = query.nss /\ query'.live = query.live
        /\ query'.rs = Tail(query.rs)
        /\ query'.found \in {query.found, Append(query.found, t)}
        /\ result' = result /\ criteria' = criteria
    BY <1>1, <1>5, <2>1 DEF Fetch, QueryRecord, QueryUnchanged
  <2> HIDE DEF t, r, n
  <2>6. t \notin Namespaced(query.found)
    <3>1. SUFFICES ASSUME t \in Namespaced(query.found) PROVE FALSE
      OBVIOUS
    <3>2. t.res \notin ClusterScoped
      BY <3>1 DEF Namespaced
    <3> QED  BY <2>1, <2>2, <2>4, <3>1, <3>2 DEF QueryOnce, n
  <2>7. FoundOnce(query'.found) /\ Namespaced(query'.found) \subseteq Namespaced(query.found) \union {t}
    <3>1. CASE query'.found = query.found
      BY <3>1 DEF QueryOnce
    <3>2. CASE query'.found = Append(query.found, t)
      BY <2>1, <2>4, <2>6, <3>2, FoundMore DEF QueryOnce
    <3> QED  BY <2>5, <3>1, <3>2
  <2>8. ASSUME NEW f \in Namespaced(query'.found)
        PROVE  /\ f.ns \notin ToSet(Tail(query.nss))
               /\ f.ns = n => f.res \notin ToSet(Tail(query.rs))
    <3>1. CASE f \in Namespaced(query.found)
      BY <2>1, <2>2, <3>1 DEF QueryOnce, n
    <3>2. CASE f = t
      <4>1. t.res \notin ClusterScoped
        BY <2>8, <3>2 DEF Namespaced
      <4> QED  BY <2>2, <2>3, <2>4, <3>2, <4>1
    <3> QED  BY <2>7, <3>1, <3>2
  <2>9. QueryOnce'
    BY <2>1, <2>2, <2>5, <2>7, <2>8 DEF QueryOnce, n
  <2>10. LiveInv'
    <3>1. SUFFICES ASSUME query.live PROVE LiveInv'
      BY <2>5 DEF LiveInv
    <3>2. /\ ToSet(query.rs) \subseteq ToSet(criteria.res)
          /\ \A f \in Namespaced(query.found) : f.ns = n => f.res \in ToSet(criteria.res)
      BY <3>1 DEF LiveInv, n
    <3>3. \A f \in Namespaced(query'.found) : f.ns = n => f.res \in ToSet(criteria.res)
      BY <2>2, <2>4, <2>7, <3>2
    <3> QED  BY <2>2, <2>5, <3>2, <3>3 DEF LiveInv, n
  <2> QED  BY <1>2, <2>5, <2>9, <2>10
<1>6. CASE EndNamespace
  <2>1. /\ query'.pc = "namespace" /\ query'.nss = Tail(query.nss) /\ query'.live = FALSE
        /\ query'.rs = query.rs /\ query'.found = query.found /\ result' = result
        /\ query.pc = "fetch" /\ query.nss \in Seq(Namespaces \union {NoNs})
        /\ query.nss # <<>>
    BY <1>1, <1>6 DEF EndNamespace, QueryRecord, QueryOnce
  <2>2. IsInjective(Tail(query.nss))
    BY <2>1, TailFacts DEF QueryOnce
  <2>3. QueryOnce'
    BY <2>1, <2>2 DEF QueryOnce
  <2> QED  BY <1>2, <2>1, <2>3 DEF LiveInv
<1>7. CASE EndQuery
  <2>1. result' = query /\ query' = NoQuery
    BY <1>7 DEF EndQuery
  <2> QED  BY <1>2, <2>1, NothingFound DEF QueryOnce, LiveInv, NoQuery
<1> QED  BY <1>3, <1>4, <1>5, <1>6, <1>7 DEF QueryStep

LEMMA RefreshQueries ==
    ASSUME IInv, NEW r \in Refreshes, ClickRefresh(r) \/ RefreshStep(r)
    PROVE  QueryInv'
<1> USE DEF IInv, QueryInv
<1>1. CASE ClickRefresh(r)
  <2>1. query \in QueryRecord
    BY DEF ThreadsInv
  <2>2. /\ query'.pc = query.pc /\ query'.nss = query.nss /\ query'.rs = query.rs
        /\ query'.found = query.found /\ ~query'.live
        /\ criteria' = NoCriteria /\ result' = result
    BY <1>1, <2>1 DEF ClickRefresh, QueryRecord
  <2> QED  BY <2>2, SamePlace, NothingFound DEF CriteriaOnce, LiveInv, NoCriteria
<1>2. CASE RefreshStep(r)
  <2>1. UNCHANGED <<criteria, query, result>>
    BY <1>2 DEF RefreshStep, RefreshNamespaces, ClearResources, FillResources,
                ListResources, EndRefresh, RefreshUnchanged
  <2> QED  BY <2>1 DEF CriteriaOnce, QueryOnce, LiveInv
<1> QED  BY <1>1, <1>2

-----------------------------------------------------------------------------
(* Refreshes.                                                               *)

LEMMA LastAppended ==
    ASSUME NEW S, NEW s \in Seq(S), NEW e \in S
    PROVE  Last(Append(s, e)) = e
<1>1. Len(s) \in Nat
  BY LenProperties
<1>2. Len(Append(s, e)) = Len(s) + 1 /\ Append(s, e)[Len(s) + 1] = e
  BY <1>1, AppendProperties
<1> QED  BY <1>2 DEF Last

LEMMA InitRefreshes ==
    ASSUME Init
    PROVE  RefreshInv
<1>1. PICK rs \in ResLists \union {<<>>} :
          resTexts = <<rs>> /\ resourceItems = rs /\ resourceItemMap = ToSet(rs)
  BY DEF Init
<1>2. IsInjective(rs)
  BY Answers
<1>3. Last(resTexts) = resourceItems
  BY <1>1 DEF Last
<1>4. LoadedTogether
  BY <1>1, <1>2 DEF LoadedTogether
<1>5. \A r \in Refreshes : refresh[r] = "idle"
  BY DEF Init
<1>6. criteria = NoCriteria /\ ~inRefreshing /\ ToSet(criteria.res) = {}
  BY DEF Init, NoCriteria, ToSet
<1> QED  BY <1>3, <1>4, <1>5, <1>6 DEF RefreshInv, UnderWay

LEMMA FrameRefreshes ==
    ASSUME IInv, FrameStep
    PROVE  RefreshInv'
<1> USE DEF IInv
<1>1. SUFFICES ASSUME ~overlapped PROVE RefreshInv'
  <2>1. overlapped' = overlapped
    BY DEF FrameStep, BeginFrame, AddResource, ClickQuery, SelectLine, EndFrame, countVars
  <2> QED  BY <2>1 DEF RefreshInv
<1>2. /\ inRefreshing => frame = "between" /\ criteria = NoCriteria
      /\ ToSet(criteria.res) \subseteq resourceItemMap
  BY <1>1 DEF RefreshInv
<1>3. ~inRefreshing
  BY <1>2 DEF FrameStep, BeginFrame, AddResource, ClickQuery, SelectLine, EndFrame
<1>4. UNCHANGED <<resTexts, resourceItems, resourceItemMap, inRefreshing, refresh, overlapped>>
  BY DEF FrameStep, BeginFrame, AddResource, ClickQuery, SelectLine, EndFrame, countVars, listVars
<1>5. ToSet(criteria'.res) \subseteq resourceItemMap
  <2>1. CASE UNCHANGED criteria
    BY <1>2, <2>1
  <2>2. CASE BeginFrame /\ criteria' # criteria
    <3>1. criteria'.res = <<>>
      BY <2>2 DEF BeginFrame
    <3> QED  BY <3>1 DEF ToSet
  <2>3. CASE AddResource /\ criteria' # criteria
    <3> DEFINE r == Head(adding).name
    <3>1. criteria' = [criteria EXCEPT !.res = Append(@, r)] /\ r \in resourceItemMap
      BY <2>3 DEF AddResource
    <3> HIDE DEF r
    <3>2. r \in Resources /\ criteria.res \in Seq(Resources)
      BY <3>1 DEF ListsInv, ThreadsInv
    <3>3. criteria'.res = Append(criteria.res, r)
      BY <3>1 DEF ThreadsInv
    <3> QED  BY <1>2, <3>1, <3>2, <3>3, AppendFacts
  <2> QED  BY <2>1, <2>2, <2>3 DEF FrameStep, ClickQuery, SelectLine, EndFrame
<1> QED  BY <1>1, <1>3, <1>4, <1>5 DEF RefreshInv, UnderWay, LoadedTogether

LEMMA QueryRefreshes ==
    ASSUME IInv, QueryStep
    PROVE  RefreshInv'
<1>1. UNCHANGED <<resTexts, resourceItems, resourceItemMap, criteria, frame,
                  inRefreshing, refresh, overlapped>>
  BY DEF QueryStep, StartQuery, NextNamespace, Fetch, EndNamespace, EndQuery,
         QueryUnchanged, countVars, listVars
<1> QED  BY <1>1 DEF IInv, RefreshInv, UnderWay, LoadedTogether

LEMMA RefreshRefreshes ==
    ASSUME IInv, NEW r \in Refreshes, ClickRefresh(r) \/ RefreshStep(r)
    PROVE  RefreshInv'
<1> USE DEF IInv
<1>1. refresh \in [Refreshes -> Stages]
  BY DEF ThreadsInv
<1>2. CASE ClickRefresh(r)
  <2>1. /\ refresh' = [refresh EXCEPT ![r] = "namespaces"] /\ refresh[r] = "idle"
        /\ frame = "between" /\ frame' = frame /\ inRefreshing' /\ criteria' = NoCriteria
        /\ UNCHANGED <<resTexts, resourceItems, resourceItemMap>>
        /\ overlapped' = (overlapped \/ \E s \in Refreshes : UnderWay(s))
    BY <1>2 DEF ClickRefresh, UnderWay, listVars
  <2>2. SUFFICES ASSUME ~overlapped' PROVE RefreshInv'
    BY DEF RefreshInv
  <2>3. ~overlapped /\ \A s \in Refreshes : ~UnderWay(s)
    BY <2>1, <2>2
  <2>4. LoadedTogether /\ Last(resTexts) = resourceItems
    BY <2>3 DEF RefreshInv, UnderWay
  <2>5. \A s \in Refreshes : refresh'[s] = IF s = r THEN "namespaces" ELSE refresh[s]
    BY <1>1, <2>1
  <2>6. ToSet(criteria'.res) = {}
    BY <2>1 DEF NoCriteria, ToSet
  <2> QED  BY <2>1, <2>3, <2>4, <2>5, <2>6 DEF RefreshInv, UnderWay, LoadedTogether
<1>3. CASE RefreshStep(r)
  <2>1. /\ UNCHANGED <<criteria, frame, overlapped>>
        /\ refresh[r] \in {"namespaces", "clear", "fill", "list", "end"}
    BY <1>3 DEF RefreshStep, RefreshNamespaces, ClearResources, FillResources,
                ListResources, EndRefresh, RefreshAt, RefreshUnchanged, countVars
  <2>2. SUFFICES ASSUME ~overlapped PROVE RefreshInv'
    BY <2>1 DEF RefreshInv
  <2>3. /\ inRefreshing /\ frame = "between" /\ criteria = NoCriteria
        /\ \A s \in Refreshes : s # r => refresh[s] \in {"idle", "done"}
        /\ ToSet(criteria.res) = {}
    <3>1. UnderWay(r)
      BY <2>1 DEF UnderWay
    <3>2. inRefreshing /\ \A s \in Refreshes : UnderWay(s) => s = r
      BY <2>2, <3>1 DEF RefreshInv
    <3>3. frame = "between" /\ criteria = NoCriteria
      BY <2>2, <3>2 DEF RefreshInv
    <3> QED  BY <3>2, <3>3 DEF UnderWay, NoCriteria, ToSet
  <2>4. ASSUME NEW to \in Stages \ {"idle"}, refresh' = [refresh EXCEPT ![r] = to],
               inRefreshing' = (to # "done"),
               to = "fill" => resourceItems' = <<>> /\ resourceItemMap' = {},
               to = "list" => LoadedTogether',
               to \notin {"fill", "list"} => LoadedTogether' /\ Last(resTexts') = resourceItems'
        PROVE  RefreshInv'
    <3>1. \A s \in Refreshes : refresh'[s] = IF s = r THEN to ELSE refresh[s]
      BY <1>1, <2>4
    <3>2. \A s \in Refreshes : UnderWay(s)' => s = r
      BY <2>3, <3>1 DEF UnderWay
    <3>3. UnderWay(r)' <=> to # "done"
      BY <2>4, <3>1 DEF UnderWay
    <3>4. inRefreshing' <=> \E s \in Refreshes : UnderWay(s)'
      BY <2>4, <3>2, <3>3
    <3>5. \A s \in Refreshes : refresh'[s] \in {"fill", "list"} => s = r /\ refresh'[s] = to
      BY <2>3, <3>1
    <3>6. refresh'[r] = to
      BY <3>1
    <3>7. ToSet(criteria'.res) \subseteq resourceItemMap'
      BY <2>1, <2>3
    <3> QED  BY <2>1, <2>3, <2>4, <3>2, <3>4, <3>5, <3>6, <3>7 DEF RefreshInv
  <2> USE DEF RefreshAt, Stages
  <2>5. CASE RefreshNamespaces(r)
    <3>1. /\ refresh' = [refresh EXCEPT ![r] = "clear"] /\ refresh[r] = "namespaces"
          /\ UNCHANGED <<resTexts, resourceItems, resourceItemMap, inRefreshing>>
      BY <2>5 DEF RefreshNamespaces
    <3>2. LoadedTogether /\ Last(resTexts) = resourceItems
      BY <2>2, <2>3, <3>1 DEF RefreshInv
    <3> QED  BY <2>3, <2>4, <3>1, <3>2 DEF LoadedTogether
  <2>6. CASE ClearResources(r)
    <3>1. /\ refresh' = [refresh EXCEPT ![r] = "fill"] /\ inRefreshing' = inRefreshing
          /\ resourceItems' = <<>> /\ resourceItemMap' = {}
      BY <2>6 DEF ClearResources
    <3>2. inRefreshing' = ("fill" # "done")
      BY <2>3, <3>1 DEF ThreadsInv
    <3>3. "fill" \in Stages \ {"idle"} /\ "fill" # "list" /\ "fill" \in {"fill", "list"}
      OBVIOUS
    <3> QED  BY <2>4, <3>1, <3>2, <3>3
  <2>7. CASE FillResources(r)
    <3>1. PICK rs \in ResLists \union {<<>>} :
              /\ resourceItems' = resourceItems \o rs
              /\ resourceItemMap' = resourceItemMap \union ToSet(rs)
      BY <2>7 DEF FillResources
    <3>2. rs \in Seq(Resources) /\ IsInjective(rs)
      BY Answers
    <3>3. refresh' = [refresh EXCEPT ![r] = "list"] /\ inRefreshing' = inRefreshing
          /\ refresh[r] = "fill"
      BY <2>7 DEF FillResources
    <3>4. resourceItems = <<>> /\ resourceItemMap = {}
      BY <2>2, <3>3 DEF RefreshInv
    <3>5. resourceItems' = rs /\ resourceItemMap' = ToSet(rs)
      BY <3>1, <3>2, <3>4
    <3>6. LoadedTogether'
      BY <3>2, <3>5 DEF LoadedTogether
    <3> QED  BY <2>3, <2>4, <3>3, <3>6
  <2>8. CASE ListResources(r)
    <3>1. /\ refresh' = [refresh EXCEPT ![r] = "end"] /\ refresh[r] = "list"
          /\ resTexts' = Append(resTexts, resourceItems)
          /\ UNCHANGED <<resourceItems, resourceItemMap, inRefreshing>>
      BY <2>8 DEF ListResources
    <3>2. Last(resTexts') = resourceItems'
      BY <3>1, LastAppended DEF ListsInv
    <3>3. LoadedTogether
      BY <2>2, <3>1 DEF RefreshInv
    <3> QED  BY <2>3, <2>4, <3>1, <3>2, <3>3 DEF LoadedTogether
  <2>9. CASE EndRefresh(r)
    <3>1. /\ refresh' = [refresh EXCEPT ![r] = "done"] /\ refresh[r] = "end"
          /\ inRefreshing' = FALSE
          /\ UNCHANGED <<resTexts, resourceItems, resourceItemMap>>
      BY <2>9 DEF EndRefresh, listVars
    <3>2. LoadedTogether /\ Last(resTexts) = resourceItems
      BY <2>2, <2>3, <3>1 DEF RefreshInv
    <3> QED  BY <2>4, <3>1, <3>2 DEF LoadedTogether
  <2> QED  BY <1>3, <2>5, <2>6, <2>7, <2>8, <2>9 DEF RefreshStep
<1> QED  BY <1>2, <1>3

-----------------------------------------------------------------------------
(* A query that nobody disturbs.                                            *)

LEMMA NoLoop ==
    /\ \A rs : Loop(rs, {}) = {}
    /\ \A nss : Loop({}, nss) = {}
BY DEF Loop

LEMMA RequestsLoop ==
    ASSUME NEW nss, NEW rs
    PROVE  Requests(nss, rs) = Loop(rs, IF nss = {} THEN {NoNs} ELSE nss)
BY DEF Requests, Loop

LEMMA NoneLeft ==
    ASSUME NEW T, NEW s \in Seq(T)
    PROVE  ToSet(s) = {} <=> s = <<>>
<1>1. /\ Len(s) \in Nat /\ ToSet(s) = {s[i] : i \in 1 .. Len(s)}
      /\ (s # <<>> => Len(s) >= 1)
  BY SeqFacts
<1>2. ToSet(<<>>) = {}
  BY DEF ToSet
<1>3. s # <<>> => 1 \in 1 .. Len(s)
  BY <1>1
<1> QED  BY <1>1, <1>2, <1>3

LEMMA InitQuiet ==
    ASSUME Init
    PROVE  QuietInv
BY DEF Init, NoQuery, QuietInv, Undisturbed

\* A step that leaves an undisturbed query and its criteria as they are.
LEMMA StaysQuiet ==
    ASSUME QuietInv, UNCHANGED <<criteria, query, result, overlapped>>,
           Undisturbed => Calm'
    PROVE  QuietInv'
<1>1. Undisturbed' => Undisturbed
  BY DEF Undisturbed
<1>2. (result # None /\ result.quiet /\ ~overlapped => ToSet(result.found) = result.asked)'
  BY DEF QuietInv
<1>3. Complete => Complete'
  <2>1. Ahead' = Ahead
    BY DEF Ahead, Loop
  <2>2. Requests(ToSet(criteria.ns), ToSet(criteria.res))'
          = Requests(ToSet(criteria.ns), ToSet(criteria.res))
    BY DEF Requests
  <2> QED  BY <2>1, <2>2 DEF Complete
<1>4. Undisturbed => Complete
  BY DEF QuietInv, Complete
<1>5. Undisturbed' => Calm' /\ Complete'
  BY <1>1, <1>3, <1>4
<1> QED  BY <1>2, <1>5 DEF QuietInv, Calm, Complete

\* A step that disturbs the query, or finds it disturbed.
LEMMA NotQuiet ==
    ASSUME QuietInv, ~Undisturbed', result' = result, overlapped => overlapped'
    PROVE  QuietInv'
BY DEF QuietInv

LEMMA FrameQuiet ==
    ASSUME IInv, FrameStep
    PROVE  QuietInv'
<1> USE DEF IInv
<1>1. query \in QueryRecord
  BY DEF ThreadsInv
<1>2. overlapped' = overlapped /\ result' = result /\ inRefreshing' = inRefreshing
  BY DEF FrameStep, BeginFrame, AddResource, ClickQuery, SelectLine, EndFrame, countVars
<1>3. Undisturbed => Calm
  BY DEF QuietInv, Calm
<1>4. CASE BeginFrame
  <2>1. CASE Undisturbed
    <3>1. ~Changed
      BY <1>3, <2>1 DEF Calm
    <3>2. UNCHANGED <<criteria, query, nsSel, resSel>> /\ frame' = "button"
      BY <1>4, <3>1 DEF BeginFrame, listVars
    <3>3. Calm'
      BY <1>2, <1>3, <2>1, <3>2 DEF Calm, Changed, Differs, Names
    <3> QED  BY <1>2, <3>2, <3>3, StaysQuiet
  <2>2. CASE ~Undisturbed
    <3>1. query'.pc = query.pc /\ query'.quiet = query.quiet
      BY <1>1, <1>4 DEF BeginFrame, KeepMap, QueryRecord
    <3>2. ~Undisturbed'
      BY <1>2, <2>2, <3>1 DEF Undisturbed
    <3> QED  BY <1>2, <3>2, NotQuiet
  <2> QED  BY <2>1, <2>2
<1>5. CASE AddResource
  <2>1. query'.pc = query.pc /\ query'.quiet = query.quiet
    BY <1>1, <1>5 DEF AddResource, QueryRecord
  <2>2. ~Undisturbed
    BY <1>3, <1>5 DEF AddResource, Calm
  <2>3. ~Undisturbed'
    BY <1>2, <2>1, <2>2 DEF Undisturbed
  <2> QED  BY <1>2, <2>3, NotQuiet
<1>6. CASE ClickQuery
  <2> DEFINE asked == Requests(Names(nsSel), Names(resSel) \intersect resourceItemMap)
             quiet == ~Changed /\ NamesOnce(nsSel) /\ NamesOnce(resSel)
  <2>1. /\ query'.pc = "start" /\ query'.quiet = quiet /\ query'.found = <<>>
        /\ query'.asked = asked /\ frame = "button" /\ frame' = "lists"
        /\ UNCHANGED <<criteria, nsSel, resSel>>
    BY <1>6 DEF ClickQuery, NoQuery, listVars
  <2>2. CASE ~quiet \/ overlapped
    <3> HIDE DEF quiet
    <3>1. ~Undisturbed'
      BY <1>2, <2>1, <2>2 DEF Undisturbed
    <3> QED  BY <1>2, <3>1, NotQuiet
  <2>3. CASE quiet /\ ~overlapped
    <3>1. ~inRefreshing /\ ToSet(criteria.res) \subseteq resourceItemMap
      BY <2>1, <2>3 DEF RefreshInv
    <3>2. Calm'
      BY <1>2, <2>1, <2>3, <3>1 DEF Calm, Changed, Differs, Names
    <3>3. /\ criteria.ns \in Seq(Namespaces) /\ criteria.res \in Seq(Resources)
          /\ nsSel \in Seq(Line(Namespaces)) /\ resSel \in Seq(Line(Resources))
          /\ ~Differs(nsSel, criteria.ns) /\ ~Differs(resSel, criteria.res)
          /\ IsInjective(criteria.ns) /\ IsInjective(criteria.res)
      BY <2>3 DEF ThreadsInv, ListsInv, Changed, QueryInv, CriteriaOnce
    <3>4. Names(nsSel) = ToSet(criteria.ns)
      BY <2>3, <3>3, SelectionAgrees
    <3>5. Names(resSel) = ToSet(criteria.res)
      BY <2>3, <3>3, SelectionAgrees
    <3>6. Names(resSel) \intersect resourceItemMap = ToSet(criteria.res)
      BY <3>1, <3>5
    <3>7. query'.asked = Requests(ToSet(criteria.ns), ToSet(criteria.res))
      BY <2>1, <3>4, <3>6
    <3>8. ToSet(query'.found) = {} /\ Ahead' = query'.asked
      BY <2>1 DEF ToSet, Ahead
    <3>9. Requests(ToSet(criteria.ns), ToSet(criteria.res))'
            = Requests(ToSet(criteria.ns), ToSet(criteria.res))
      BY <2>1 DEF Requests
    <3>10. Complete'
      BY <3>7, <3>8, <3>9 DEF Complete
    <3>11. (result # None /\ result.quiet /\ ~overlapped => ToSet(result.found) = result.asked)'
      BY <1>2 DEF QuietInv
    <3> QED  BY <3>2, <3>10, <3>11 DEF QuietInv, Calm, Complete
  <2> QED  BY <2>2, <2>3
<1>7. CASE SelectLine
  <2>1. query'.quiet = FALSE
    BY <1>1, <1>7 DEF SelectLine, QueryRecord
  <2>2. ~Undisturbed'
    BY <2>1 DEF Undisturbed
  <2> QED  BY <1>2, <2>2, NotQuiet
<1>8. CASE EndFrame
  <2>1. UNCHANGED <<criteria, query, nsSel, resSel>> /\ frame' = "between"
    BY <1>8 DEF EndFrame, listVars
  <2>2. Undisturbed => Calm'
    BY <1>2, <1>3, <2>1 DEF Calm, Changed, Differs, Names
  <2> QED  BY <1>2, <2>1, <2>2, StaysQuiet
<1> QED  BY <1>4, <1>5, <1>6, <1>7, <1>8 DEF FrameStep

LEMMA QueryQuiet ==
    ASSUME IInv, QueryStep
    PROVE  QuietInv'
<1> USE DEF IInv
<1>1. /\ query \in QueryRecord
      /\ criteria.ns \in Seq(Namespaces) /\ criteria.res \in Seq(Resources)
      /\ query.nss \in Seq(Namespaces \union {NoNs}) /\ query.rs \in Seq(Resources)
      /\ query.found \in Seq(Reqs)
  BY DEF ThreadsInv, QueryRecord
<1>2. UNCHANGED <<criteria, frame, nsSel, resSel, inRefreshing, overlapped>>
  BY DEF QueryStep, StartQuery, NextNamespace, Fetch, EndNamespace, EndQuery,
         QueryUnchanged, countVars, listVars
<1>3. Undisturbed => Calm /\ Complete
  BY DEF QuietInv, Calm, Complete
<1>4. Calm => Calm'
  BY <1>2 DEF Calm, Changed, Differs, Names
<1> DEFINE C == ToSet(criteria.res)
           A == Requests(ToSet(criteria.ns), C)
<1>5. A' = A
  BY <1>2 DEF Requests
<1>6. ASSUME result' = result, query'.asked = query.asked,
             Undisturbed' => Undisturbed,
             Undisturbed => ToSet(query'.found) \union Ahead' = ToSet(query.found) \union Ahead
      PROVE  QuietInv'
  <2>1. (result # None /\ result.quiet /\ ~overlapped => ToSet(result.found) = result.asked)'
    BY <1>2, <1>6 DEF QuietInv
  <2>2. Undisturbed' => Calm' /\ Complete'
    BY <1>3, <1>4, <1>5, <1>6 DEF Complete
  <2> QED  BY <2>1, <2>2 DEF QuietInv, Calm, Complete
<1>7. CASE StartQuery
  <2>1. /\ query.pc = "start" /\ query'.pc = "namespace" /\ query'.found = query.found
        /\ query'.asked = query.asked /\ query'.quiet = query.quiet /\ result' = result
        /\ query'.nss = (IF criteria.ns = <<>> THEN <<NoNs>> ELSE criteria.ns)
    BY <1>1, <1>7 DEF StartQuery, QueryRecord
  <2>2. ToSet(query'.nss) = IF ToSet(criteria.ns) = {} THEN {NoNs} ELSE ToSet(criteria.ns)
    <3>1. ToSet(criteria.ns) = {} <=> criteria.ns = <<>>
      BY <1>1, NoneLeft
    <3>2. ToSet(<<NoNs>>) = {NoNs}
      BY DEF ToSet
    <3> QED  BY <2>1, <3>1, <3>2
  <2>3. Ahead' = Loop(C, ToSet(query'.nss))
    BY <1>2, <2>1 DEF Ahead, Loop
  <2>4. A = Ahead'
    BY <2>2, <2>3, RequestsLoop
  <2>5. Ahead = query.asked /\ ToSet(query.found) = {}
    BY <2>1 DEF Ahead, QueryInv, QueryOnce, ToSet
  <2>6. Undisturbed => Ahead' = Ahead
    BY <1>3, <2>4, <2>5 DEF Complete
  <2>7. Undisturbed' => Undisturbed
    BY <1>2, <2>1 DEF Undisturbed
  <2> QED  BY <1>6, <2>1, <2>6, <2>7
<1>8. CASE NextNamespace
  <2>1. /\ query.pc = "namespace" /\ query'.pc = "fetch" /\ query'.found = query.found
        /\ query'.asked = query.asked /\ query'.quiet = query.quiet /\ result' = result
        /\ query'.nss = query.nss /\ query'.rs = criteria.res /\ query.nss # <<>>
    BY <1>1, <1>8 DEF NextNamespace, QueryRecord
  <2>2. ToSet(query.nss) = {Head(query.nss)} \union ToSet(Tail(query.nss))
    BY <1>1, <2>1, TailFacts
  <2>3. Ahead = Loop(C, ToSet(query.nss))
    BY <2>1 DEF Ahead
  <2>4. Ahead' = Loop(C, {Head(query.nss)}) \union Loop(C, ToSet(Tail(query.nss)))
    BY <1>2, <2>1 DEF Ahead, Loop
  <2>5. Ahead' = Ahead
    <3> DEFINE all == ToSet(query.nss)
               nss == ToSet(Tail(query.nss))
               n == Head(query.nss)
    <3> HIDE DEF C, all, nss, n
    <3>1. all = {n} \union nss
      BY <2>2 DEF all, nss, n
    <3>2. Loop(C, all) = Loop(C, {n}) \union Loop(C, nss)
      BY <3>1 DEF Loop
    <3> QED  BY <2>3, <2>4, <3>2, Zenon DEF all, nss, n
  <2>6. Undisturbed' => Undisturbed
    BY <1>2, <2>1 DEF Undisturbed
  <2> QED  BY <1>6, <2>1, <2>5, <2>6
<1>9. CASE Fetch
  <2> DEFINE t == Target(Head(query.rs), Head(query.nss))
  <2>1. query'.pc = query.pc /\ query.pc = "fetch" /\ result' = result /\ query.rs # <<>>
        /\ query'.asked = query.asked /\ query'.nss = query.nss /\ query'.rs = Tail(query.rs)
    BY <1>1, <1>9 DEF Fetch, QueryRecord
  <2>2. CASE query' = [query EXCEPT !.rs = Tail(@), !.quiet = FALSE]
    <3>1. query'.quiet = FALSE
      BY <1>1, <2>2 DEF QueryRecord
    <3>2. ~Undisturbed'
      BY <3>1 DEF Undisturbed
    <3> QED  BY <1>2, <2>1, <3>2, NotQuiet
  <2>3. CASE query' = [query EXCEPT !.rs = Tail(@), !.found = Append(@, t)]
    <3>1. query'.quiet = query.quiet /\ query'.found = Append(query.found, t)
      BY <1>1, <2>3 DEF QueryRecord
    <3>2. /\ ToSet(query.rs) = {Head(query.rs)} \union ToSet(Tail(query.rs))
          /\ Head(query.rs) \in Resources
      BY <1>1, <2>1, TailFacts
    <3>3. Head(query.nss) \in Namespaces \union {NoNs}
      <4>1. query.nss # <<>>
        BY <2>1 DEF QueryInv, QueryOnce
      <4> QED  BY <1>1, <4>1, TailFacts
    <3>4. t \in Reqs
      BY <3>2, <3>3, TargetFacts
    <3> HIDE DEF t
    <3>5. ToSet(query'.found) = ToSet(query.found) \union {t}
      BY <1>1, <3>1, <3>4, AppendFacts
    <3> DEFINE later == Loop(C, ToSet(Tail(query.nss)))
    <3>6. Ahead = Loop(ToSet(query.rs), {Head(query.nss)}) \union later
      BY <2>1 DEF Ahead
    <3>7. Ahead' = Loop(ToSet(Tail(query.rs)), {Head(query.nss)}) \union later
      BY <1>2, <2>1 DEF Ahead, Loop
    <3>8. Loop(ToSet(query.rs), {Head(query.nss)})
            = {t} \union Loop(ToSet(Tail(query.rs)), {Head(query.nss)})
      <4> DEFINE all == ToSet(query.rs)
                 rest == ToSet(Tail(query.rs))
                 r == Head(query.rs)
                 n == Head(query.nss)
      <4>1. all = {r} \union rest
        BY <3>2
      <4> HIDE DEF all, rest, r, n
      <4>2. Loop(all, {n}) = {Target(r, n)} \union Loop(rest, {n})
        BY <4>1 DEF Loop
      <4> QED  BY <4>2, Zenon DEF all, rest, r, n, t
    <3> HIDE DEF later
    <3>9. ToSet(query'.found) \union Ahead' = ToSet(query.found) \union Ahead
      BY <3>5, <3>6, <3>7, <3>8
    <3>10. Undisturbed' => Undisturbed
      BY <1>2, <2>1, <3>1 DEF Undisturbed
    <3> QED  BY <1>6, <2>1, <3>9, <3>10
  <2> QED  BY <1>9, <2>2, <2>3 DEF Fetch
<1>10. CASE EndNamespace
  <2>1. /\ query.pc = "fetch" /\ query'.pc = "namespace" /\ query'.found = query.found
        /\ query'.asked = query.asked /\ query'.quiet = query.quiet /\ result' = result
        /\ query'.nss = Tail(query.nss) /\ query.rs = <<>>
    BY <1>1, <1>10 DEF EndNamespace, QueryRecord
  <2>2. ToSet(query.rs) = {}
    BY <2>1 DEF ToSet
  <2>3. Ahead = Loop({}, {Head(query.nss)}) \union Loop(C, ToSet(Tail(query.nss)))
    BY <2>1, <2>2 DEF Ahead
  <2>4. Ahead' = Loop(C, ToSet(Tail(query.nss)))
    BY <1>2, <2>1 DEF Ahead, Loop
  <2>5. Ahead' = Ahead
    BY <2>3, <2>4, NoLoop
  <2>6. Undisturbed' => Undisturbed
    BY <1>2, <2>1 DEF Undisturbed
  <2> QED  BY <1>6, <2>1, <2>5, <2>6
<1>11. CASE EndQuery
  <2>1. /\ query.pc = "namespace" /\ query.nss = <<>> /\ result' = query /\ query'.pc = "none"
    BY <1>11 DEF EndQuery, NoQuery
  <2>2. ToSet(query.nss) = {}
    BY <2>1 DEF ToSet
  <2>3. Ahead = {}
    BY <2>1, <2>2, NoLoop DEF Ahead
  <2>4. Undisturbed => ToSet(query.found) = query.asked
    BY <1>3, <2>3 DEF Complete
  <2>5. result'.quiet /\ ~overlapped' => ToSet(result'.found) = result'.asked
    BY <1>2, <2>1, <2>4 DEF Undisturbed
  <2>6. ~Undisturbed'
    BY <2>1 DEF Undisturbed
  <2> QED  BY <2>5, <2>6 DEF QuietInv
<1> QED  BY <1>7, <1>8, <1>9, <1>10, <1>11 DEF QueryStep

LEMMA RefreshQuiet ==
    ASSUME IInv, NEW r \in Refreshes, ClickRefresh(r) \/ RefreshStep(r)
    PROVE  QuietInv'
<1> USE DEF IInv
<1>1. CASE ClickRefresh(r)
  <2>1. query'.quiet = FALSE
    BY <1>1 DEF ClickRefresh, ThreadsInv, QueryRecord
  <2>2. ~Undisturbed'
    BY <2>1 DEF Undisturbed
  <2>3. result' = result /\ (overlapped => overlapped')
    BY <1>1 DEF ClickRefresh
  <2> QED  BY <2>2, <2>3, NotQuiet
<1>2. CASE RefreshStep(r)
  <2>1. UNCHANGED <<criteria, query, result, overlapped>> /\ UnderWay(r)
    BY <1>2 DEF RefreshStep, RefreshNamespaces, ClearResources, FillResources,
                ListResources, EndRefresh, RefreshAt, RefreshUnchanged, countVars, UnderWay
  <2>2. ~Undisturbed
    BY <2>1 DEF QuietInv, Calm, RefreshInv, Undisturbed
  <2>3. ~Undisturbed'
    BY <2>1, <2>2 DEF Undisturbed
  <2> QED  BY <2>1, <2>3, NotQuiet
<1> QED  BY <1>1, <1>2

-----------------------------------------------------------------------------
(* The invariant and what follows.                                          *)

LEMMA InitIInv == Init => IInv
BY InitTypes, InitQueries, InitRefreshes, InitQuiet DEF IInv

LEMMA NextIInv == IInv /\ [Next]_vars => IInv'
<1> SUFFICES ASSUME IInv, [Next]_vars
             PROVE  IInv'
  OBVIOUS
<1>1. CASE FrameStep
  BY <1>1, FrameTypes, FrameQueries, FrameRefreshes, FrameQuiet DEF IInv
<1>2. CASE QueryStep
  BY <1>2, QueryTypes, QueryQueries, QueryRefreshes, QueryQuiet DEF IInv
<1>3. ASSUME NEW r \in Refreshes, ClickRefresh(r) \/ RefreshStep(r)
      PROVE  IInv'
  BY <1>3, RefreshTypes, RefreshQueries, RefreshRefreshes, RefreshQuiet DEF IInv
<1>4. CASE UNCHANGED vars
  <2>1. UNCHANGED <<nsTexts, resTexts, nsSel, resSel, resourceItems, resourceItemMap,
                    criteria, frame, adding, inRefreshing, refresh, inQuery, query,
                    result, overlapped>>
    BY <1>4 DEF vars, listVars, countVars
  <2>2. ListsInv' /\ ThreadsInv'
    BY <2>1 DEF IInv, ListsInv, ThreadsInv
  <2>3. QueryInv'
    BY <2>1 DEF IInv, QueryInv, CriteriaOnce, QueryOnce, LiveInv
  <2>4. RefreshInv'
    BY <2>1 DEF IInv, RefreshInv, UnderWay, LoadedTogether
  <2>5. Undisturbed => Calm'
    BY <2>1 DEF IInv, QuietInv, Calm, Changed, Differs, Names
  <2>6. QuietInv'
    BY <2>1, <2>5, StaysQuiet DEF IInv
  <2> QED  BY <2>2, <2>3, <2>4, <2>6 DEF IInv
<1> QED  BY <1>1, <1>2, <1>3, <1>4 DEF Next

\* The invariant of the tab, for any answers of the cluster, any number of
\* clicks on lines, on the query and on refresh, and any errors.
THEOREM Invariance == Spec => []IInv
<1>1. Init => IInv
  BY InitIInv
<1>2. IInv /\ [Next]_vars => IInv'
  BY NextIInv
<1> QED  BY <1>1, <1>2, PTL DEF Spec

LEMMA LinesTyped ==
    ASSUME NEW T, NEW n \in Nat, NEW sel \in Seq(Line(T)),
           \A l \in ToSet(sel) : l.of \in 1 .. n
    PROVE  \A l \in ToSet(sel) : l \in [name : T, of : 1 .. n]
<1>1. ToSet(sel) \subseteq Line(T)
  BY SeqFacts
<1> QED  BY <1>1 DEF Line

LEMMA Typed == IInv => TypeOK
<1> SUFFICES ASSUME IInv PROVE TypeOK
  OBVIOUS
<1>1. ASSUME NEW q \in QueryRecord
      PROVE  QueryTypeOK(q)
  BY DEF QueryRecord, QueryTypeOK
<1>2. QueryTypeOK(query) /\ (result # None => QueryTypeOK(result))
  BY <1>1 DEF IInv, ThreadsInv
<1>3. Len(nsTexts) \in Nat /\ Len(resTexts) \in Nat
  BY DEF IInv, ListsInv
<1>4. \A l \in ToSet(nsSel) : l \in [name : Namespaces, of : 1..Len(nsTexts)]
  BY <1>3, LinesTyped DEF IInv, ListsInv
<1>5. \A l \in ToSet(resSel) : l \in [name : Resources, of : 1..Len(resTexts)]
  BY <1>3, LinesTyped DEF IInv, ListsInv
<1>6. \A r \in Refreshes :
        refresh[r] \in {"idle", "namespaces", "clear", "fill", "list", "end", "done"}
  BY DEF IInv, ThreadsInv, Stages
<1> QED  BY <1>2, <1>4, <1>5, <1>6 DEF IInv, ListsInv, ThreadsInv, TypeOK

\* A query that found the criteria in accord with the selection, and that neither
\* the user nor an error disturbed, asked for exactly what was selected.
THEOREM QueryComplete == Spec => []QuietQueryComplete
<1>1. IInv => QuietQueryComplete
  BY Typed DEF IInv, QuietInv, QuietQueryComplete
<1> QED  BY <1>1, Invariance, PTL

\* Whatever the user and the refreshes do to the criteria while a query reads
\* them, the query asks for a namespaced resource once per namespace.
THEOREM ListedOnce == Spec => []NamespacedListedOnce
<1>1. IInv => NamespacedListedOnce
  BY DEF IInv, QueryInv, FoundOnce, NamespacedListedOnce
<1> QED  BY <1>1, Invariance, PTL

\* While no refreshes overlap, the lists of a tab that can be seen were loaded
\* together.
THEOREM VisibleLoaded == Spec => []ShownTabIsLoaded
<1>1. IInv => ShownTabIsLoaded
  <2> SUFFICES ASSUME IInv, ~inRefreshing, ~overlapped
               PROVE  LoadedTogether /\ Last(resTexts) = resourceItems
    BY DEF ShownTabIsLoaded, LoadedTogether
  <2>1. \A r \in Refreshes : ~UnderWay(r)
    BY DEF IInv, RefreshInv
  <2> QED  BY <2>1 DEF IInv, RefreshInv, UnderWay
<1> QED  BY <1>1, Invariance, PTL

\* The icon of a pod, whatever containers the cluster says it has.
THEOREM Icons == Spec => []IconTellsRunning
<1>1. IconTellsRunning
  <2> SUFFICES ASSUME NEW pod \in FoundPods
               PROVE  StatusIcon(pod) = "PodRunning"
                        <=> pod.app # <<>> /\ ToSet(pod.app) = {"running"}
    BY Zenon DEF IconTellsRunning
  <2>1. pod \in PodStates
    BY DEF FoundPods
  <2>2. pod.app \in Seq(ContainerStates)
    BY <2>1, PodsAssumption
  <2> DEFINE app == pod.app
             stopped == {i \in DOMAIN app : app[i] # "running"}
  <2> HIDE DEF app
  <2>3. /\ Len(app) \in Nat /\ DOMAIN app = 1 .. Len(app)
        /\ \A i \in DOMAIN app : app[i] \in ContainerStates
        /\ app = <<>> <=> Len(app) = 0
    BY <2>2, EmptySeq DEF app
  <2>4. ToSet(app) = {app[i] : i \in DOMAIN app}
    BY DEF ToSet
  <2>5. ASSUME stopped # {}
        PROVE  Max(stopped) \in stopped
    <3>1. stopped \in SUBSET (0 .. Len(app))
      BY <2>3
    <3> QED  BY <3>1, <2>5, <2>3, MaxIsOne
  <2>6. StatusIcon(pod) =
          IF app = <<>> THEN "PodUnknown"
          ELSE IF stopped = {} THEN "PodRunning"
          ELSE ContainerStatus(app[Max(stopped)])
    BY DEF StatusIcon, app
  <2>7. CASE app = <<>>
    BY <2>6, <2>7 DEF app
  <2>8. CASE app # <<>> /\ stopped = {}
    <3>1. \A i \in DOMAIN app : app[i] = "running"
      BY <2>8
    <3>2. 1 \in DOMAIN app
      BY <2>3, <2>8
    <3>3. ToSet(app) = {"running"}
      BY <2>4, <3>1, <3>2
    <3> QED  BY <2>6, <2>8, <3>3 DEF app
  <2>9. CASE app # <<>> /\ stopped # {}
    <3>1. PICK m \in stopped : m = Max(stopped)
      BY <2>5, <2>9
    <3>2. app[m] \in ContainerStates /\ app[m] # "running" /\ m \in DOMAIN app
      BY <2>3
    <3>3. ContainerStatus(app[m]) # "PodRunning"
      BY <3>2 DEF ContainerStatus, ContainerStates
    <3>4. ToSet(app) # {"running"}
      BY <2>4, <3>2
    <3>5. StatusIcon(pod) = ContainerStatus(app[m])
      BY <2>6, <2>9, <3>1
    <3> QED  BY <3>3, <3>4, <3>5 DEF app
  <2> QED  BY <2>7, <2>8, <2>9 DEF app
<1> QED  BY <1>1, PTL
=============================================================================
