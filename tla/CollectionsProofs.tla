-------------------------- MODULE CollectionsProofs --------------------------
(***************************************************************************)
(* For any repository: the tree in memory, the files and the open tabs     *)
(* stay in step.                                                           *)
(*                                                                         *)
(* What the menus do to a branch of the tree is said by Below, a recursive *)
(* function; all the proofs need of it is its equation (BelowFacts) and    *)
(* that no branch returns to where it began (WellFounded).                 *)
(***************************************************************************)
EXTENDS Collections, SequenceFacts

-----------------------------------------------------------------------------
(* The inductive invariant.                                                *)

\* The parents of what is in the tree are collections in the tree.
ParentsInv(tree) ==
    \A x \in DOMAIN tree : x # root => tree[x].up \in Collections \cap DOMAIN tree

\* From every set of nodes some parent leads out.
WellFounded(tree) ==
    \A S \in SUBSET DOMAIN tree : S # {} => \E x \in S : tree[x].up \notin S

\* The tree in memory and the files have the same shape.
Agree(nodes, files) ==
    /\ DOMAIN files = DOMAIN nodes /\ root \in DOMAIN nodes
    /\ \A x \in DOMAIN nodes : files[x].up = nodes[x].up
    /\ nodes[root].up = None
    /\ ParentsInv(nodes) /\ WellFounded(nodes)

\* CleanIsSaved, of other nodes and files.
Clean(nodes, files) == \A x \in DOMAIN nodes : ~nodes[x].dirty => files[x].text = nodes[x].text

Typed(tree) ==
    /\ DOMAIN tree \subseteq Collections \cup Resources
    /\ \A x \in DOMAIN tree : tree[x] \in Node

TreeOk(nodes, files) ==
    Typed(nodes) /\ Typed(files) /\ Agree(nodes, files) /\ Clean(nodes, files)

BagsInv ==
    \A c \in DOMAIN bag :
        /\ bag[c] \in Seq(Resources)
        /\ ToSet(bag[c]) = Members(c, node)

TreeInv ==
    /\ TreeOk(node, disk)
    /\ DOMAIN bag = DOMAIN node \cap Collections /\ BagsInv
    /\ cell \in [Resources -> Nat]

Ids == Collections \cup Resources \cup {template}

\* What a tab shows.
Shows == [text : Texts, dirty : BOOLEAN]

\* Every open tab is there once and has something to show, and the tree
\* selects the node of the current tab.
PageInv ==
    /\ tabs \in Seq(Ids) /\ IsInjective(tabs)
    /\ DOMAIN own \subseteq Open /\ \A x \in DOMAIN own : own[x] \in Shows
    /\ template \in Open => template \in DOMAIN own
    /\ templateCell \in Nat
    /\ current \in Open \cup {None} /\ panel \in Texts \cup {None}
    /\ current # None => panel \in Texts
    /\ currentNode \in DOMAIN node \cup {None}
    /\ current \in DOMAIN node => currentNode = current
    /\ TabsAreOfNodes

IInv == TreeInv /\ PageInv

-----------------------------------------------------------------------------
(* Sequences.                                                              *)

\* The loop of prune and RemoveRefs: what is left of a sequence.
LEMMA RemainingFacts ==
    ASSUME NEW T, NEW s \in Seq(T), NEW S
    PROVE  /\ Remaining(s, S) \in Seq(T)
           /\ ToSet(Remaining(s, S)) = ToSet(s) \ S
           /\ IsInjective(s) => IsInjective(Remaining(s, S))
<1> DEFINE Solves(f, n) ==
        f = [i \in 0..n |->
                IF i = 0 THEN <<>>
                ELSE IF s[i] \in S THEN f[i - 1] ELSE Append(f[i - 1], s[i])]
           upTo == CHOOSE f : Solves(f, Len(s))
           N == Len(s)
<1>1. N \in Nat /\ DOMAIN s = 1 .. N /\ \A i \in 1 .. N : s[i] \in T
  BY SeqFacts
<1>2. \A n \in 0..N : \E f : Solves(f, n)
  <2> DEFINE Bad == {n \in 0..N : ~ \E f : Solves(f, n)}
  <2>1. SUFFICES ASSUME Bad # {} PROVE FALSE
    OBVIOUS
  <2>2. Bad \in SUBSET Nat
    BY <1>1
  <2>3. PICK n \in Bad : \A m \in Bad : n <= m
    BY <2>1, <2>2, Smallest
  <2>4. n \in 0..N /\ ~ \E f : Solves(f, n)
    OBVIOUS
  <2>5. CASE n = 0
    <3> DEFINE g == [i \in 0..0 |-> <<>>]
    <3>1. Solves(g, 0)
      OBVIOUS
    <3> QED  BY <2>4, <2>5, <3>1
  <2>6. CASE n # 0
    <3>1. n \in 0..N
      BY <2>4
    <3>2. n - 1 \in 0..N /\ n - 1 \notin Bad
      <4> HIDE DEF Bad, Solves
      <4> QED  BY <1>1, <2>3, <2>6, <3>1
    <3>3. \E g : Solves(g, n - 1)
      <4> HIDE DEF Solves
      <4> QED  BY <3>2
    <3>4. PICK g : Solves(g, n - 1)
      BY <3>3
    <3> DEFINE h == [i \in 0..n |->
                        IF i < n THEN g[i]
                        ELSE IF s[n] \in S THEN g[n - 1] ELSE Append(g[n - 1], s[n])]
    <3>5. \A i \in 0..n - 1 : h[i] = g[i]
      BY <1>1, <2>4
    <3>6. ASSUME NEW i \in 0..n
          PROVE  h[i] = IF i = 0 THEN <<>>
                        ELSE IF s[i] \in S THEN h[i - 1] ELSE Append(h[i - 1], s[i])
      <4>1. CASE i = n
        <5>1. h[i - 1] = g[n - 1]
          BY <1>1, <2>4, <2>6, <3>5, <4>1
        <5> QED  BY <1>1, <2>4, <2>6, <4>1, <5>1
      <4>2. CASE i # n /\ i # 0
        <5>1. i \in 0..n - 1 /\ i - 1 \in 0..n - 1
          BY <1>1, <2>4, <4>2
        <5>2. h[i] = g[i] /\ h[i - 1] = g[i - 1]
          BY <3>5, <5>1
        <5>3. g[i] = IF i = 0 THEN <<>>
                     ELSE IF s[i] \in S THEN g[i - 1] ELSE Append(g[i - 1], s[i])
          BY <3>4, <5>1, Zenon
        <5> HIDE DEF h
        <5> QED  BY <5>2, <5>3
      <4>3. CASE i # n /\ i = 0
        <5>1. i \in 0..n - 1
          BY <1>1, <2>4, <4>3
        <5>2. h[i] = g[i]
          BY <3>5, <5>1
        <5>3. g[i] = IF i = 0 THEN <<>>
                     ELSE IF s[i] \in S THEN g[i - 1] ELSE Append(g[i - 1], s[i])
          BY <3>4, <5>1, Zenon
        <5> HIDE DEF h
        <5> QED  BY <4>3, <5>2, <5>3
      <4> QED  BY <4>1, <4>2, <4>3
    <3>7. h = [i \in 0..n |-> h[i]]
      OBVIOUS
    <3> HIDE DEF h
    <3>8. Solves(h, n)
      BY <3>6, <3>7, Zenon
    <3> QED  BY <2>4, <3>8
  <2> QED  BY <2>5, <2>6
<1>3. Solves(upTo, N)
  <2>1. N \in 0..N
    BY <1>1
  <2>2. \E f : Solves(f, N)
    <3> HIDE DEF Solves, N
    <3> QED  BY <1>2, <2>1
  <2> QED  BY <2>2, Zenon
<1>4. Remaining(s, S) = upTo[N]
  BY Zenon DEF Remaining
<1> HIDE DEF upTo, N
<1>5. \A i \in 0..N : upTo[i] = IF i = 0 THEN <<>>
                                ELSE IF s[i] \in S THEN upTo[i - 1] ELSE Append(upTo[i - 1], s[i])
  BY <1>3, Zenon
<1> HIDE DEF Solves
<1> DEFINE Good(i) == /\ upTo[i] \in Seq(T)
                      /\ ToSet(upTo[i]) = {s[j] : j \in 1..i} \ S
                      /\ IsInjective(s) => IsInjective(upTo[i])
<1>6. \A i \in 0..N : Good(i)
  <2> DEFINE Bad == {i \in 0..N : ~ Good(i)}
  <2>1. SUFFICES ASSUME Bad # {} PROVE FALSE
    OBVIOUS
  <2>2. Bad \in SUBSET Nat
    BY <1>1
  <2>3. PICK i \in Bad : \A m \in Bad : i <= m
    BY <2>1, <2>2, Smallest
  <2>4. i \in 0..N /\ ~ Good(i)
    OBVIOUS
  <2>5. CASE i = 0
    <3>1. upTo[i] = <<>>
      BY <1>5, <2>4, <2>5
    <3>2. <<>> \in Seq(T) /\ ToSet(<<>>) = {} /\ {s[j] : j \in 1..0} = {} /\ IsInjective(<<>>)
      BY DEF ToSet, IsInjective
    <3> QED  BY <2>4, <2>5, <3>1, <3>2
  <2>6. CASE i # 0
    <3>1. i - 1 \in 0..N /\ Good(i - 1) /\ i \in 1..N
      <4>1. i \in 0..N
        BY <2>4
      <4>2. i - 1 \in 0..N /\ i - 1 \notin Bad /\ i \in 1..N
        <5> HIDE DEF Bad
        <5> QED  BY <1>1, <2>3, <2>6, <4>1
      <4> HIDE DEF Good
      <4> QED  BY <4>2
    <3> DEFINE q == upTo[i - 1]
    <3>2. /\ q \in Seq(T) /\ ToSet(q) = {s[j] : j \in 1..i - 1} \ S
          /\ IsInjective(s) => IsInjective(q)
      BY <3>1
    <3>3. upTo[i] = IF s[i] \in S THEN q ELSE Append(q, s[i])
      BY <1>5, <2>4, <2>6
    <3> HIDE DEF q
    <3>4. {s[j] : j \in 1..i} = {s[j] : j \in 1..i - 1} \cup {s[i]}
      BY <1>1, <3>1
    <3>5. CASE s[i] \in S
      <4>1. ToSet(q) = {s[j] : j \in 1..i} \ S
        BY <3>2, <3>4, <3>5
      <4> QED  BY <2>4, <3>2, <3>3, <3>5, <4>1
    <3>6. CASE s[i] \notin S
      <4>1. s[i] \in T
        BY <1>1, <3>1
      <4>2. /\ Append(q, s[i]) \in Seq(T)
            /\ ToSet(Append(q, s[i])) = ToSet(q) \cup {s[i]}
            /\ IsInjective(q) /\ s[i] \notin ToSet(q) => IsInjective(Append(q, s[i]))
        BY <3>2, <4>1, AppendFacts
      <4>3. IsInjective(s) => s[i] \notin ToSet(q)
        BY <1>1, <3>1, <3>2 DEF IsInjective
      <4>4. ToSet(Append(q, s[i])) = {s[j] : j \in 1..i} \ S
        BY <3>2, <3>4, <3>6, <4>2
      <4> QED  BY <2>4, <3>2, <3>3, <3>6, <4>2, <4>3, <4>4
    <3> QED  BY <3>5, <3>6
  <2> QED  BY <2>5, <2>6
<1>7. Good(N)
  <2>1. N \in 0..N
    BY <1>1
  <2> HIDE DEF Good
  <2> QED  BY <1>6, <2>1
<1>8. ToSet(s) = {s[j] : j \in 1..N}
  BY SeqFacts DEF N
<1> QED  BY <1>4, <1>7, <1>8

-----------------------------------------------------------------------------
(* Branches of a tree.                                                     *)

\* What is above a node is its parent and what is above that: the function in
\* Below exists, as the least sets that hold with a node its parent.
LEMMA AboveExists ==
    ASSUME NEW tree,
           \A x \in DOMAIN tree : tree[x].up # None => tree[x].up \in DOMAIN tree
    PROVE  \E f : f = [x \in DOMAIN tree |->
                         IF tree[x].up = None THEN {} ELSE {tree[x].up} \cup f[tree[x].up]]
<1> DEFINE D == DOMAIN tree
           up(x) == tree[x].up
           Ups == {up(x) : x \in D}
           Closed(S) == \A z \in S \cap D : up(z) # None => up(z) \in S
           From(x, S) == Closed(S) /\ (up(x) # None => up(x) \in S)
           f == [x \in D |-> {y \in Ups : \A S \in SUBSET Ups : From(x, S) => y \in S}]
<1>1. \A x \in D : up(x) # None => up(x) \in D
  OBVIOUS
<1>2. \A x \in D : up(x) \in Ups
  OBVIOUS
<1> HIDE DEF D, up, Ups
<1>3. ASSUME NEW x \in D
      PROVE  f[x] = IF up(x) = None THEN {} ELSE {up(x)} \cup f[up(x)]
  <2>1. CASE up(x) = None
    <3>1. {} \in SUBSET Ups /\ From(x, {})
      BY <2>1
    <3> QED  BY <2>1, <3>1
  <2>2. CASE up(x) # None
    <3> DEFINE p == up(x)
    <3>1. p \in D /\ p \in Ups /\ p # None
      BY <1>1, <1>2, <2>2
    <3> HIDE DEF p
    <3>2. up(x) = p
      BY DEF p
    <3>3. ASSUME NEW y \in f[x], y # p
          PROVE  y \in f[p]
      <4>1. ASSUME NEW S \in SUBSET Ups, From(p, S)
            PROVE  y \in S
        <5>1. S \cup {p} \in SUBSET Ups
          BY <3>1
        <5>2. From(x, S \cup {p})
          BY <3>2, <4>1
        <5> QED  BY <3>3, <5>1, <5>2
      <4> QED  BY <3>1, <3>3, <4>1
    <3>4. ASSUME NEW y \in f[p]
          PROVE  y \in f[x]
      <4>1. ASSUME NEW S \in SUBSET Ups, From(x, S)
            PROVE  y \in S
        <5>1. From(p, S)
          BY <3>1, <3>2, <4>1
        <5> QED  BY <3>1, <5>1
      <4> QED  BY <3>1, <4>1
    <3>5. p \in f[x]
      BY <3>1, <3>2
    <3> HIDE DEF f
    <3> QED  BY <3>1, <3>2, <3>3, <3>4, <3>5
  <2> QED  BY <2>1, <2>2
<1>4. f = [x \in D |-> f[x]]
  OBVIOUS
<1> HIDE DEF f
<1>5. f = [x \in D |-> IF up(x) = None THEN {} ELSE {up(x)} \cup f[up(x)]]
  BY <1>3, <1>4, Zenon
<1> QED  BY <1>5 DEF D, up

LEMMA BelowFacts ==
    ASSUME NEW tree, NEW c,
           \A x \in DOMAIN tree : tree[x].up # None => tree[x].up \in DOMAIN tree
    PROVE  /\ Below(c, tree) \subseteq DOMAIN tree
           /\ \A x \in DOMAIN tree :
                  x \in Below(c, tree) <=>
                      /\ tree[x].up # None
                      /\ tree[x].up = c \/ tree[x].up \in Below(c, tree)
<1> DEFINE Solves(f) ==
        f = [x \in DOMAIN tree |->
                IF tree[x].up = None THEN {} ELSE {tree[x].up} \cup f[tree[x].up]]
           above == CHOOSE f : Solves(f)
<1>1. Below(c, tree) = {x \in DOMAIN tree : c \in above[x]}
  BY Zenon DEF Below
<1>2. Solves(above)
  <2>1. \E f : Solves(f)
    BY AboveExists, Zenon
  <2> QED  BY <2>1, Zenon
<1> HIDE DEF above
<1>3. \A x \in DOMAIN tree : above[x] = IF tree[x].up = None THEN {}
                                        ELSE {tree[x].up} \cup above[tree[x].up]
  BY <1>2, Zenon
<1> HIDE DEF Solves
<1> QED  BY <1>1, <1>3

\* A node is not below itself, nor is the parent of a node below it.
LEMMA NotBelowItself ==
    ASSUME NEW tree, NEW c \in DOMAIN tree, WellFounded(tree),
           \A x \in DOMAIN tree : tree[x].up # None => tree[x].up \in DOMAIN tree
    PROVE  /\ c \notin Below(c, tree)
           /\ tree[c].up # None => tree[c].up \notin Within(c, tree)
<1> DEFINE B == Below(c, tree)
<1>1. /\ B \subseteq DOMAIN tree
      /\ \A x \in DOMAIN tree : x \in B <=> /\ tree[x].up # None
                                            /\ tree[x].up = c \/ tree[x].up \in B
  BY BelowFacts
<1> HIDE DEF B
<1>2. ASSUME c \in B
      PROVE  FALSE
  <2>1. \A x \in B : tree[x].up \in B
    BY <1>1, <1>2
  <2> QED  BY <1>1, <1>2, <2>1 DEF WellFounded
<1>3. ASSUME tree[c].up # None, tree[c].up \in Within(c, tree)
      PROVE  FALSE
  <2>1. tree[c].up = c \/ tree[c].up \in B
    BY <1>3 DEF Within, B
  <2>2. c \in B
    BY <1>1, <1>3, <2>1
  <2> QED  BY <1>2, <2>2
<1> QED  BY <1>2, <1>3 DEF B

-----------------------------------------------------------------------------
(* What the operators on trees return.                                     *)

LEMMA MaxFacts ==
    ASSUME NEW n \in Nat, NEW S \in SUBSET (0 .. n), S # {}
    PROVE  Max(S) \in S /\ \A x \in S : x <= Max(S)
<1> DEFINE R == {n - x : x \in S}
<1>1. R \in SUBSET Nat /\ R # {}
  <2>1. \A x \in S : n - x \in Nat
    OBVIOUS
  <2> QED  BY <2>1
<1>2. PICK y \in R : \A z \in R : y <= z
  BY <1>1, Smallest
<1>3. PICK x \in S : y = n - x
  BY <1>2
<1>4. \A z \in S : x >= z
  BY <1>2, <1>3
<1>5. Max(S) = CHOOSE m \in S : \A z \in S : m >= z
  BY DEF Max
<1> QED  BY <1>3, <1>4, <1>5

\* Only numbers change when resources are numbered again.
Renumbered(w, nodes) ==
    /\ DOMAIN w = DOMAIN nodes /\ Typed(w)
    /\ \A x \in DOMAIN nodes :
           /\ w[x].up = nodes[x].up
           /\ w[x].text = nodes[x].text /\ w[x].dirty = nodes[x].dirty

LEMMA OrderedFacts ==
    ASSUME NEW nodes, Typed(nodes), NEW s \in Seq(Resources), NEW from \in Nat \ {0}
    PROVE  Renumbered(Ordered(nodes, s, from), nodes)
<1> DEFINE at(x) == {i \in from..Len(s) : x \in Resources /\ SameOrder(x, s[i])}
           result == Ordered(nodes, s, from)
<1>1. result = [x \in DOMAIN nodes |->
                   IF at(x) = {} THEN nodes[x] ELSE [nodes[x] EXCEPT !.order = Max(at(x)) - 1]]
  BY DEF Ordered
<1>2. Len(s) \in Nat
  BY SeqFacts
<1>3. ASSUME NEW x \in DOMAIN nodes
      PROVE  \E k \in Nat : result[x] = [nodes[x] EXCEPT !.order = k]
  <2>1. nodes[x] \in Node
    BY DEF Typed
  <2>2. CASE at(x) = {}
    <3>1. result[x] = nodes[x]
      BY <1>1, <2>2
    <3>2. nodes[x] = [nodes[x] EXCEPT !.order = nodes[x].order] /\ nodes[x].order \in Nat
      BY <2>1 DEF Node
    <3> HIDE DEF result
    <3> QED  BY <3>1, <3>2
  <2>3. CASE at(x) # {}
    <3> DEFINE k == Max(at(x)) - 1
    <3>1. at(x) \in SUBSET (0 .. Len(s))
      BY <1>2
    <3>2. Max(at(x)) \in at(x)
      BY <1>2, <2>3, <3>1, MaxFacts
    <3>3. k \in Nat
      <4> DEFINE m == Max(at(x))
      <4>1. m \in from..Len(s)
        BY <3>2
      <4> HIDE DEF m
      <4>2. m - 1 \in Nat
        BY <1>2, <4>1
      <4> QED  BY <4>2 DEF m
    <3>4. result[x] = [nodes[x] EXCEPT !.order = k]
      BY <1>1, <2>3
    <3> HIDE DEF k, result
    <3> QED  BY <3>3, <3>4
  <2> QED  BY <2>2, <2>3
<1>4. DOMAIN result = DOMAIN nodes
  BY <1>1
<1> HIDE DEF result
<1>5. \A x \in DOMAIN nodes : /\ result[x] \in Node /\ result[x].up = nodes[x].up
                                /\ result[x].text = nodes[x].text /\ result[x].dirty = nodes[x].dirty
  <2>1. ASSUME NEW x \in DOMAIN nodes
        PROVE  /\ result[x] \in Node /\ result[x].up = nodes[x].up
               /\ result[x].text = nodes[x].text /\ result[x].dirty = nodes[x].dirty
    <3>1. PICK k \in Nat : result[x] = [nodes[x] EXCEPT !.order = k]
      BY <1>3
    <3> QED  BY <3>1 DEF Typed, Node
  <2> QED  BY <2>1
<1>6. Renumbered(result, nodes)
  BY <1>4, <1>5 DEF Renumbered, Typed
<1> QED  BY <1>6 DEF result

\* w has the shape, texts and numbers of nodes in S, and is files elsewhere.
IsWritten(w, files, nodes, S) ==
    /\ DOMAIN w = S \cup DOMAIN files /\ Typed(w)
    /\ \A x \in S : /\ w[x].up = nodes[x].up /\ w[x].text = nodes[x].text
                    /\ w[x].order = nodes[x].order
    /\ \A x \in DOMAIN files \ S : w[x] = files[x]

LEMMA WrittenFacts ==
    ASSUME NEW files, NEW nodes, NEW S \in SUBSET DOMAIN nodes, Typed(nodes), Typed(files)
    PROVE  IsWritten(Written(files, nodes, S), files, nodes, S)
<1> DEFINE result == Written(files, nodes, S)
           new(x) == [nodes[x] EXCEPT !.dirty = @ /\ x \in Resources]
<1>1. result = [x \in S \cup DOMAIN files |-> IF x \in S THEN new(x) ELSE files[x]]
  BY DEF Written
<1>2. ASSUME NEW x \in S
      PROVE  /\ new(x) \in Node /\ new(x).up = nodes[x].up
             /\ new(x).text = nodes[x].text /\ new(x).order = nodes[x].order
  <2> DEFINE flag == nodes[x].dirty /\ x \in Resources
  <2>1. nodes[x] \in Node /\ flag \in BOOLEAN
    BY DEF Typed
  <2>2. new(x) = [nodes[x] EXCEPT !.dirty = flag]
    OBVIOUS
  <2> HIDE DEF flag, new
  <2> QED  BY <2>1, <2>2 DEF Node
<1> HIDE DEF new
<1>3. DOMAIN result = S \cup DOMAIN files
  BY <1>1
<1>4. \A x \in S : result[x] = new(x)
  BY <1>1
<1>5. \A x \in DOMAIN files \ S : result[x] = files[x]
  BY <1>1
<1> HIDE DEF result
<1>6. Typed(result)
  BY <1>2, <1>3, <1>4, <1>5 DEF Typed
<1>7. IsWritten(result, files, nodes, S)
  BY <1>2, <1>3, <1>4, <1>5, <1>6 DEF IsWritten
<1> QED  BY <1>7 DEF result

\* A tree of other numbers, texts and flags, or without some whole branches.
LEMMA ShapeKept ==
    ASSUME NEW nodes, NEW files, Agree(nodes, files),
           NEW n2, NEW f2,
           DOMAIN n2 \subseteq DOMAIN nodes, DOMAIN f2 = DOMAIN n2, root \in DOMAIN n2,
           \A x \in DOMAIN n2 : n2[x].up = nodes[x].up /\ f2[x].up = nodes[x].up,
           \A x \in DOMAIN n2 \ {root} : nodes[x].up \in DOMAIN n2
    PROVE  Agree(n2, f2)
<1>1. \A x \in DOMAIN n2 : f2[x].up = n2[x].up
  OBVIOUS
<1>2. n2[root].up = None
  BY DEF Agree
<1>3. ParentsInv(n2)
  <2>1. \A x \in DOMAIN n2 : x # root => nodes[x].up \in Collections /\ nodes[x].up \in DOMAIN n2
    BY DEF Agree, ParentsInv
  <2> QED  BY <2>1 DEF ParentsInv
<1>4. WellFounded(n2)
  <2>1. ASSUME NEW S \in SUBSET DOMAIN n2, S # {}
        PROVE  \E x \in S : n2[x].up \notin S
    <3>1. PICK x \in S : nodes[x].up \notin S
      BY <2>1 DEF Agree, WellFounded
    <3>2. n2[x].up = nodes[x].up
      OBVIOUS
    <3> QED  BY <3>1, <3>2
  <2> QED  BY <2>1 DEF WellFounded
<1> QED  BY <1>1, <1>2, <1>3, <1>4 DEF Agree

\* What the files and the nodes say of each parent is the same.
LEMMA AgreeFacts ==
    ASSUME NEW nodes, NEW files, Agree(nodes, files)
    PROVE  /\ \A x \in DOMAIN nodes :
                  /\ nodes[x].up # None => nodes[x].up \in Collections \cap DOMAIN nodes
                  /\ nodes[x].up = None <=> x = root
                  /\ files[x].up = nodes[x].up
           /\ DOMAIN files = DOMAIN nodes
           /\ \A c : Members(c, files) = Members(c, nodes)
<1>1. None \notin Collections
  BY CollectionsAssumption
<1> QED  BY <1>1 DEF Agree, ParentsInv, Members

LEMMA BranchFacts ==
    ASSUME NEW nodes, NEW files, Typed(nodes), Agree(nodes, files), NEW c \in DOMAIN nodes
    PROVE  /\ Below(c, nodes) \subseteq DOMAIN nodes /\ Below(c, files) \subseteq DOMAIN nodes
           /\ Within(c, nodes) \subseteq DOMAIN nodes /\ Within(c, files) \subseteq DOMAIN nodes
           /\ c \in Within(c, nodes) /\ c \in Within(c, files)
           /\ \A x \in DOMAIN nodes : x \in Below(c, nodes) <=>
                  nodes[x].up # None /\ nodes[x].up \in Within(c, nodes)
           /\ c \notin Below(c, nodes)
           /\ nodes[c].up \notin Within(c, nodes)
<1>1. /\ \A x \in DOMAIN nodes : nodes[x].up # None => nodes[x].up \in DOMAIN nodes
      /\ \A x \in DOMAIN files : files[x].up # None => files[x].up \in DOMAIN files
      /\ DOMAIN files = DOMAIN nodes
  BY AgreeFacts
<1>2. /\ Below(c, nodes) \subseteq DOMAIN nodes
      /\ \A x \in DOMAIN nodes : x \in Below(c, nodes) <=>
             nodes[x].up # None /\ (nodes[x].up = c \/ nodes[x].up \in Below(c, nodes))
  BY <1>1, BelowFacts
<1>3. Below(c, files) \subseteq DOMAIN files
  BY <1>1, BelowFacts
<1>4. WellFounded(nodes)
  BY DEF Agree
<1>5. c \notin Below(c, nodes) /\ (nodes[c].up # None => nodes[c].up \notin Within(c, nodes))
  BY <1>1, <1>4, NotBelowItself
<1>6. None \notin Within(c, nodes)
  <2>1. None \notin DOMAIN nodes
    BY CollectionsAssumption DEF Typed
  <2> QED  BY <1>2, <2>1 DEF Within
<1> QED  BY <1>1, <1>2, <1>3, <1>5, <1>6 DEF Within

LEMMA SetToSeqsFacts ==
    ASSUME NEW S, IsFiniteSet(S), NEW s \in SetToSeqs(S)
    PROVE  s \in Seq(S) /\ ToSet(s) = S /\ IsInjective(s)
<1> DEFINE n == Cardinality(S)
<1>1. n \in Nat
  BY FS_CardinalityType
<1>2. s \in [1 .. n -> S] /\ \A i, j \in 1 .. n : i # j => s[i] # s[j]
  BY DEF SetToSeqs
<1>3. Cardinality(1 .. n) = n
  <2> HIDE DEF n
  <2> QED  BY <1>1, FS_Interval
<1>4. s \in Injection(1 .. n, S)
  BY <1>2 DEF Injection, IsInjective
<1>5. s \in Surjection(1 .. n, S)
  BY <1>3, <1>4, FS_Injection
<1> HIDE DEF n
<1>6. s \in Seq(S) /\ Len(s) = n
  BY <1>1, <1>2
<1>7. ToSet(s) = {s[i] : i \in 1 .. n}
  BY <1>6, SeqFacts
<1> QED  BY <1>2, <1>5, <1>6, <1>7 DEF Surjection, IsInjective

LEMMA SortedBagsFacts ==
    ASSUME NEW files, NEW S, NEW b \in SortedBags(S, files)
    PROVE  /\ DOMAIN b = S
           /\ \A c \in S :
                  /\ b[c] \in Seq(Resources) /\ ToSet(b[c]) = Members(c, files)
                  /\ IsInjective(b[c])
                  /\ \A i, j \in DOMAIN b[c] : i < j => files[b[c][i]].order <= files[b[c][j]].order
<1>1. /\ b \in [S -> UNION {Sorted(c, files) : c \in S}]
      /\ \A c \in S : ToSet(b[c]) = Members(c, files)
  BY DEF SortedBags
<1>2. ASSUME NEW c \in S
      PROVE  /\ b[c] \in Seq(Resources) /\ IsInjective(b[c])
             /\ \A i, j \in DOMAIN b[c] : i < j => files[b[c][i]].order <= files[b[c][j]].order
  <2>1. PICK d \in S : b[c] \in Sorted(d, files)
    BY <1>1
  <2>2. IsFiniteSet(Members(d, files)) /\ Members(d, files) \subseteq Resources
    BY CollectionsAssumption, FS_Subset DEF Members
  <2>3. /\ b[c] \in SetToSeqs(Members(d, files))
        /\ \A i, j \in DOMAIN b[c] : i < j => files[b[c][i]].order <= files[b[c][j]].order
    BY <2>1 DEF Sorted
  <2>4. b[c] \in Seq(Members(d, files)) /\ IsInjective(b[c])
    BY <2>2, <2>3, SetToSeqsFacts
  <2>5. b[c] \in Seq(Resources)
    BY <2>2, <2>4
  <2> QED  BY <2>3, <2>4, <2>5
<1> QED  BY <1>1, <1>2

\* Reload of c, when the bags outside the branch of c are up to date.
LEMMA Reloaded ==
    ASSUME NEW nodes, NEW files, TreeOk(nodes, files),
           NEW c \in Collections \cap DOMAIN nodes,
           \A d \in (Collections \cap DOMAIN nodes) \ Within(c, files) :
               bag[d] \in Seq(Resources) /\ ToSet(bag[d]) = Members(d, nodes),
           cell \in [Resources -> Nat],
           ReloadFrom(c, nodes, files)
    PROVE  /\ disk' = files /\ DOMAIN node' = DOMAIN nodes
           /\ TreeInv'
           /\ \A x \in Within(c, files) : node'[x].text = files[x].text
<1> DEFINE inside == Below(c, files)
           cols == Collections \cap Within(c, files)
           at(x) == IF x = c THEN [nodes[c] EXCEPT !.text = files[c].text]
                    ELSE IF x \in inside THEN files[x] ELSE nodes[x]
<1>1. /\ disk' = files
      /\ node' = [x \in DOMAIN nodes |-> at(x)]
      /\ cell' = [r \in Resources |-> IF r \in inside THEN 0 ELSE cell[r]]
      /\ \E b \in SortedBags(cols, files) :
             bag' = [d \in Collections \cap DOMAIN nodes |-> IF d \in cols THEN b[d] ELSE bag[d]]
  BY Zenon DEF ReloadFrom
<1>2. inside \subseteq DOMAIN nodes /\ cols \subseteq DOMAIN nodes
  BY BranchFacts DEF TreeOk
<1>3. /\ DOMAIN files = DOMAIN nodes
      /\ \A x \in DOMAIN nodes : files[x].up = nodes[x].up /\ files[x] \in Node /\ nodes[x] \in Node
      /\ \A d : Members(d, files) = Members(d, nodes)
  BY AgreeFacts DEF TreeOk, Typed
<1>4. ASSUME NEW x \in DOMAIN nodes
      PROVE  /\ at(x) \in Node /\ at(x).up = nodes[x].up
             /\ x \in Within(c, files) => at(x).text = files[x].text
             /\ ~at(x).dirty => files[x].text = at(x).text
  <2>1. CASE x = c
    BY <1>3, <2>1 DEF Node
  <2>2. CASE x # c /\ x \in inside
    BY <1>3, <2>2
  <2>3. CASE x # c /\ x \notin inside
    BY <1>3, <2>3 DEF TreeOk, Clean, Within
  <2> QED  BY <2>1, <2>2, <2>3
<1> HIDE DEF at
<1>5. DOMAIN node' = DOMAIN nodes /\ \A x \in DOMAIN nodes : node'[x] = at(x)
  BY <1>1
<1>6. Typed(node') /\ Typed(disk') /\ Clean(node', disk')
  BY <1>1, <1>3, <1>4, <1>5 DEF Typed, TreeOk, Clean
<1>7. Agree(node', disk')
  <2>1. \A x \in DOMAIN nodes : node'[x].up = nodes[x].up
    BY <1>4, <1>5
  <2>2. \A x \in DOMAIN nodes \ {root} : nodes[x].up \in DOMAIN nodes
    BY DEF TreeOk, Agree, ParentsInv
  <2>3. root \in DOMAIN nodes /\ Agree(nodes, files)
    BY DEF TreeOk, Agree
  <2> QED  BY <1>1, <1>3, <1>5, <2>1, <2>2, <2>3, ShapeKept
<1>8. \A d : Members(d, node') = Members(d, nodes)
  <2>1. \A x \in DOMAIN nodes : node'[x].up = nodes[x].up
    BY <1>4, <1>5
  <2> QED  BY <1>5, <2>1 DEF Members
<1>9. PICK b \in SortedBags(cols, files) :
        bag' = [d \in Collections \cap DOMAIN nodes |-> IF d \in cols THEN b[d] ELSE bag[d]]
  BY <1>1, Zenon
<1>10. \A d \in cols : b[d] \in Seq(Resources) /\ ToSet(b[d]) = Members(d, files)
  BY SortedBagsFacts
<1>11. DOMAIN bag' = DOMAIN node' \cap Collections
  BY <1>5, <1>9
<1>12. ASSUME NEW d \in Collections \cap DOMAIN nodes
       PROVE  bag'[d] \in Seq(Resources) /\ ToSet(bag'[d]) = Members(d, node')
  <2>1. CASE d \in cols
    BY <1>3, <1>8, <1>9, <1>10, <2>1
  <2>2. CASE d \notin cols
    <3>1. bag'[d] = bag[d] /\ d \notin Within(c, files)
      BY <1>9, <2>2
    <3> QED  BY <1>8, <3>1
  <2> QED  BY <2>1, <2>2
<1>13. BagsInv'
  BY <1>5, <1>11, <1>12 DEF BagsInv
<1>14. cell' \in [Resources -> Nat]
  BY <1>1
<1>15. \A x \in Within(c, files) : node'[x].text = files[x].text
  <2>1. Within(c, files) \subseteq DOMAIN nodes
    BY BranchFacts DEF TreeOk
  <2> QED  BY <1>4, <1>5, <2>1
<1> QED  BY <1>1, <1>5, <1>6, <1>7, <1>11, <1>13, <1>14, <1>15 DEF TreeInv, TreeOk

-----------------------------------------------------------------------------
(* The page.                                                               *)

\* What the invariant says of TypeOK and CleanIsSaved.
LEMMA Meanings ==
    ASSUME IInv
    PROVE  /\ TypeOK /\ CleanIsSaved
           /\ template \notin DOMAIN node /\ None \notin DOMAIN node
           /\ None \notin Ids
           /\ Open \subseteq Ids
<1>1. DOMAIN disk = DOMAIN node
  BY DEF IInv, TreeInv, TreeOk, Agree
<1>2. TypeOK
  BY <1>1 DEF IInv, TreeInv, TreeOk, Typed, PageInv, Ids, TypeOK
<1>3. CleanIsSaved
  BY DEF IInv, TreeInv, TreeOk, Clean, CleanIsSaved
<1>4. template \notin DOMAIN node /\ None \notin DOMAIN node /\ None \notin Ids
  BY CollectionsAssumption DEF IInv, TreeInv, TreeOk, Typed, Ids
<1>5. Open \subseteq Ids
  BY SeqFacts DEF IInv, PageInv, Open
<1> QED  BY <1>2, <1>3, <1>4, <1>5

LEMMA HeldFacts ==
    ASSUME IInv, NEW x \in DOMAIN own \cup DOMAIN node
    PROVE  Held(x) \in Shows
BY DEF IInv, PageInv, TreeInv, TreeOk, Typed, Node, Shows, Held, HeldIn

LEMMA KeptFacts ==
    ASSUME IInv, NEW S \in SUBSET Open, NEW inside \in SUBSET DOMAIN node
    PROVE  /\ DOMAIN Kept(S, inside) \subseteq S
           /\ \A x \in DOMAIN Kept(S, inside) : Kept(S, inside)[x] \in Shows
           /\ template \in S => template \in DOMAIN Kept(S, inside)
<1>1. DOMAIN Kept(S, inside) = S \cap (DOMAIN own \cup inside)
  BY DEF Kept
<1>2. \A x \in S \cap (DOMAIN own \cup inside) : Kept(S, inside)[x] = Held(x)
  BY DEF Kept
<1>3. \A x \in S \cap (DOMAIN own \cup inside) : Held(x) \in Shows
  BY HeldFacts
<1>4. template \in S => template \in DOMAIN own
  BY DEF IInv, PageInv
<1> QED  BY <1>1, <1>2, <1>3, <1>4

\* After the frames that follow a click.
LEMMA FrameFacts ==
    ASSUME Typed(node'), templateCell' \in Nat,
           NEW ts \in Seq(Ids), IsInjective(ts),
           ToSet(ts) \subseteq DOMAIN node' \cup {template},
           NEW cur \in ToSet(ts) \cup {None},
           NEW selected \in DOMAIN node' \cup {None},
           NEW text, current # None => text \in Texts,
           DOMAIN own' \subseteq ToSet(ts), \A x \in DOMAIN own' : own'[x] \in Shows,
           template \in ToSet(ts) => template \in DOMAIN own',
           Frames(ts, cur, selected, text)
    PROVE  PageInv'
<1>1. /\ tabs' = ts
      /\ current' = IF cur = None /\ ts # <<>> THEN Last(ts) ELSE cur
      /\ panel' = IF current' = None THEN None
                  ELSE IF current' # current THEN HeldIn(current', own', node').text ELSE text
      /\ currentNode' = IF current' \in DOMAIN node' THEN current' ELSE selected
  BY DEF Frames
<1>2. /\ Len(ts) \in Nat /\ ToSet(ts) = {ts[i] : i \in 1 .. Len(ts)} /\ ToSet(ts) \subseteq Ids
      /\ ts # <<>> => Len(ts) >= 1
  BY SeqFacts
<1>3. None \notin Ids /\ template \notin DOMAIN node' /\ None \notin DOMAIN node'
  BY CollectionsAssumption DEF Typed, Ids
<1>4. ts # <<>> => Last(ts) \in ToSet(ts)
  BY <1>2 DEF Last
<1>5. ToSet(<<>>) = {}
  BY DEF ToSet
<1>6. /\ current' \in ToSet(ts) \cup {None}
      /\ current' = None <=> ts = <<>>
  BY <1>1, <1>2, <1>3, <1>4, <1>5
<1>7. ASSUME current' # None
      PROVE  panel' \in Texts
  <2>1. CASE current' = current
    BY <1>1, <1>6, <1>7, <2>1
  <2>2. CASE current' # current
    <3>1. panel' = HeldIn(current', own', node').text
      BY <1>1, <1>7, <2>2
    <3>2. CASE current' \in DOMAIN own'
      BY <3>1, <3>2 DEF HeldIn, Shows
    <3>3. CASE current' \notin DOMAIN own'
      <4>1. current' \in DOMAIN node'
        BY <1>6, <1>7, <3>3
      <4>2. node'[current'].text \in Texts
        BY <4>1 DEF Typed, Node
      <4> QED  BY <3>1, <3>3, <4>2 DEF HeldIn
    <3> QED  BY <3>2, <3>3
  <2> QED  BY <2>1, <2>2
<1>8. panel' \in Texts \cup {None}
  BY <1>1, <1>7
<1>9. currentNode' \in DOMAIN node' \cup {None} /\ (current' \in DOMAIN node' => currentNode' = current')
  BY <1>1
<1>10. Open' = ToSet(ts)
  BY <1>1 DEF Open
<1>11. TabsAreOfNodes'
  BY <1>1, <1>6, <1>10 DEF TabsAreOfNodes
<1> QED  BY <1>1, <1>6, <1>7, <1>8, <1>9, <1>10, <1>11 DEF PageInv

LEMMA TreeUnchanged ==
    ASSUME TreeInv, UNCHANGED treeVars
    PROVE  TreeInv'
BY DEF TreeInv, TreeOk, BagsInv, treeVars

\* A tab of x comes up, opened if it was not.
LEMMA Activated ==
    ASSUME IInv, TreeInv', templateCell' \in Nat, DOMAIN node \subseteq DOMAIN node',
           NEW x \in DOMAIN node' \cup {template},
           DOMAIN own' \subseteq Open \cup {x}, \A y \in DOMAIN own' : own'[y] \in Shows,
           template \in Open \cup {x} => template \in DOMAIN own',
           Activate(x)
    PROVE  PageInv'
<1> DEFINE ts == IF x \in Open THEN tabs ELSE Append(tabs, x)
<1>1. Typed(node')
  BY DEF TreeInv, TreeOk
<1>2. x \in Ids
  BY <1>1 DEF Typed, Ids
<1>3. tabs \in Seq(Ids) /\ IsInjective(tabs) /\ Open = ToSet(tabs)
  BY DEF IInv, PageInv, Open
<1>4. ts \in Seq(Ids) /\ IsInjective(ts) /\ ToSet(ts) = Open \cup {x}
  <2>1. CASE x \in Open
    BY <1>3, <2>1
  <2>2. CASE x \notin Open
    BY <1>2, <1>3, <2>2, AppendFacts
  <2> QED  BY <2>1, <2>2
<1>5. Frames(ts, x, currentNode, panel)
  BY DEF Activate
<1> HIDE DEF ts
<1>6. ToSet(ts) \subseteq DOMAIN node' \cup {template} /\ x \in ToSet(ts) \cup {None}
  BY <1>4 DEF IInv, PageInv, TabsAreOfNodes
<1>7. currentNode \in DOMAIN node' \cup {None} /\ (current # None => panel \in Texts)
  BY DEF IInv, PageInv
<1> QED  BY <1>1, <1>4, <1>5, <1>6, <1>7, FrameFacts

LEMMA SelectKeeps ==
    ASSUME IInv, NEW x, SelectNode(x) \/ SelectTab(x)
    PROVE  IInv'
<1>1. /\ UNCHANGED <<treeVars, own, templateCell>> /\ Activate(x)
      /\ x \in DOMAIN node \cup Open
  BY DEF SelectNode, SelectTab
<1>2. TreeInv'
  BY <1>1, TreeUnchanged DEF IInv
<1>3. node' = node /\ own' = own /\ templateCell' = templateCell
  BY <1>1 DEF treeVars
<1>4. /\ x \in DOMAIN node' \cup {template}
      /\ DOMAIN own' \subseteq Open \cup {x} /\ \A y \in DOMAIN own' : own'[y] \in Shows
      /\ template \in Open \cup {x} => template \in DOMAIN own'
      /\ templateCell' \in Nat
  BY <1>1, <1>3, Meanings DEF IInv, PageInv, TabsAreOfNodes
<1> QED  BY <1>1, <1>2, <1>3, <1>4, Activated DEF IInv

\* The tab activated after some are closed is one of those that are left.
LEMMA ClosedTabs ==
    ASSUME IInv, NEW closed \in Seq(Ids), IsInjective(closed), ToSet(closed) \subseteq Open,
           CloseTabs(closed)
    PROVE  IInv'
<1> DEFINE rest == Remaining(tabs, ToSet(closed))
           before == Remaining(tabs, ToSet(Front(closed)))
           place == CHOOSE i \in DOMAIN before : before[i] = Last(closed)
           cur == IF rest = <<>> THEN None ELSE rest[Min({place, Len(rest)})]
<1>1. /\ closed # <<>>
      /\ own' = Restrict(own, DOMAIN own \cap ToSet(rest))
      /\ UNCHANGED <<treeVars, templateCell>>
      /\ Frames(rest, cur, currentNode, panel)
  BY DEF CloseTabs
<1>2. tabs \in Seq(Ids) /\ IsInjective(tabs) /\ Open = ToSet(tabs)
  BY DEF IInv, PageInv, Open
<1>3. /\ rest \in Seq(Ids) /\ IsInjective(rest) /\ ToSet(rest) = Open \ ToSet(closed)
      /\ before \in Seq(Ids) /\ ToSet(before) = Open \ ToSet(Front(closed))
  BY <1>2, RemainingFacts
<1> HIDE DEF rest, before
<1>4. place \in DOMAIN before
  <2> DEFINE n == Len(closed)
  <2>1. /\ n \in Nat /\ n >= 1 /\ DOMAIN closed = 1 .. n
        /\ \A i \in 1 .. n : closed[i] \in Ids
        /\ ToSet(closed) = {closed[i] : i \in 1 .. n}
    BY <1>1, SeqFacts
  <2>2. Last(closed) = closed[n] /\ Front(closed) = SubSeq(closed, 1, n - 1)
    BY DEF Last, Front
  <2> HIDE DEF n
  <2> DEFINE front == SubSeq(closed, 1, n - 1)
  <2>3. /\ front \in Seq(Ids) /\ Len(front) = n - 1
        /\ \A i \in 1 .. n - 1 : front[i] = closed[i]
    <3>1. 1 \in Int /\ n - 1 \in Int /\ \A i \in 1 .. n - 1 : closed[i] \in Ids
      BY <2>1
    <3>2. /\ front \in Seq(Ids) /\ Len(front) = IF 1 <= n - 1 THEN n - 1 - 1 + 1 ELSE 0
          /\ \A i \in 1 .. n - 1 - 1 + 1 : front[i] = closed[1 + i - 1]
      BY <3>1, SubSeqProperties
    <3> HIDE DEF front
    <3> QED  BY <2>1, <3>2
  <2> HIDE DEF front
  <2>4. closed[n] \notin ToSet(front)
    <3>1. ToSet(front) = {front[i] : i \in 1 .. n - 1}
      BY <2>3, SeqFacts
    <3>2. \A i \in 1 .. n - 1 : front[i] # closed[n]
      BY <2>1, <2>3 DEF IsInjective
    <3> QED  BY <3>1, <3>2
  <2>5. closed[n] \in ToSet(before)
    BY <1>3, <2>1, <2>2, <2>4 DEF front
  <2>6. \E i \in DOMAIN before : before[i] = Last(closed)
    BY <2>2, <2>5 DEF ToSet
  <2> QED  BY <2>6
<1> HIDE DEF place
<1>5. cur \in ToSet(rest) \cup {None}
  <2>1. CASE rest = <<>>
    BY <2>1
  <2>2. CASE rest # <<>>
    <3>1. Len(rest) \in Nat /\ Len(rest) >= 1 /\ ToSet(rest) = {rest[i] : i \in 1 .. Len(rest)}
      BY <1>3, <2>2, SeqFacts
    <3>2. place \in Nat /\ place >= 1
      <4>1. DOMAIN before = 1 .. Len(before) /\ Len(before) \in Nat
        BY <1>3, SeqFacts
      <4> QED  BY <1>4, <4>1
    <3> DEFINE m == Min({place, Len(rest)})
    <3>3. m \in {place, Len(rest)} /\ m <= Len(rest)
      <4> DEFINE two == {place, Len(rest)}
      <4>1. two \in SUBSET Nat /\ two # {}
        BY <3>1, <3>2
      <4>2. PICK x \in two : \A y \in two : x <= y
        BY <4>1, Smallest
      <4>3. m = CHOOSE z \in two : \A y \in two : z <= y
        BY DEF Min
      <4>4. m \in two /\ \A y \in two : m <= y
        <5> HIDE DEF m, two
        <5> QED  BY <4>2, <4>3
      <4> QED  BY <4>4
    <3>4. cur = rest[m]
      BY <2>2
    <3> HIDE DEF m, cur
    <3> QED  BY <3>1, <3>2, <3>3, <3>4
  <2> QED  BY <2>1, <2>2
<1> HIDE DEF cur
<1>6. TreeInv'
  BY <1>1, TreeUnchanged DEF IInv
<1>7. node' = node /\ templateCell' = templateCell
  BY <1>1 DEF treeVars
<1>8. DOMAIN own' = DOMAIN own \cap ToSet(rest) /\ \A x \in DOMAIN own' : own'[x] = own[x]
  BY <1>1 DEF Restrict
<1>9. /\ Typed(node') /\ templateCell' \in Nat
      /\ ToSet(rest) \subseteq DOMAIN node' \cup {template}
      /\ currentNode \in DOMAIN node' \cup {None} /\ (current # None => panel \in Texts)
      /\ DOMAIN own' \subseteq ToSet(rest) /\ \A x \in DOMAIN own' : own'[x] \in Shows
      /\ template \in ToSet(rest) => template \in DOMAIN own'
  BY <1>3, <1>6, <1>7, <1>8 DEF IInv, PageInv, TabsAreOfNodes, TreeInv, TreeOk
<1>10. PageInv'
  BY <1>1, <1>3, <1>5, <1>9, FrameFacts
<1> QED  BY <1>6, <1>10 DEF IInv

LEMMA PieceFacts ==
    ASSUME NEW T, NEW s \in Seq(T), IsInjective(s),
           NEW a \in Nat \ {0}, NEW b \in 0 .. Len(s)
    PROVE  /\ SubSeq(s, a, b) \in Seq(T) /\ IsInjective(SubSeq(s, a, b))
           /\ ToSet(SubSeq(s, a, b)) \subseteq {s[i] : i \in a .. b}
           /\ ToSet(SubSeq(s, a, b)) \subseteq ToSet(s)
<1> DEFINE piece == SubSeq(s, a, b)
<1>1. /\ Len(s) \in Nat /\ DOMAIN s = 1 .. Len(s) /\ \A i \in 1 .. Len(s) : s[i] \in T
      /\ ToSet(s) = {s[i] : i \in 1 .. Len(s)}
  BY SeqFacts
<1>2. /\ piece \in Seq(T) /\ Len(piece) = (IF a <= b THEN b - a + 1 ELSE 0)
      /\ \A i \in 1 .. b - a + 1 : piece[i] = s[a + i - 1]
  <2>1. a \in Int /\ b \in Int /\ \A i \in a .. b : s[i] \in T
    BY <1>1
  <2> QED  BY <2>1, SubSeqProperties
<1> HIDE DEF piece
<1>3. /\ DOMAIN piece = 1 .. Len(piece)
      /\ \A i \in 1 .. Len(piece) : piece[i] = s[a + i - 1] /\ a + i - 1 \in a .. b
                                    /\ a + i - 1 \in 1 .. Len(s)
  BY <1>1, <1>2, SeqFacts
<1>4. IsInjective(piece)
  <2>1. ASSUME NEW i \in DOMAIN piece, NEW j \in DOMAIN piece, piece[i] = piece[j]
        PROVE  i = j
    <3>1. a + i - 1 = a + j - 1
      BY <1>1, <1>3, <2>1 DEF IsInjective
    <3>2. i \in Int /\ j \in Int
      BY <1>2, <1>3, <2>1
    <3> QED  BY <3>1, <3>2
  <2> QED  BY <2>1 DEF IsInjective
<1>5. ToSet(piece) = {piece[i] : i \in 1 .. Len(piece)}
  BY <1>2, SeqFacts
<1> QED  BY <1>1, <1>2, <1>3, <1>4, <1>5 DEF piece

LEMMA JoinedFacts ==
    ASSUME NEW T, NEW s \in Seq(T), NEW t \in Seq(T), IsInjective(s), IsInjective(t),
           ToSet(s) \cap ToSet(t) = {}
    PROVE  /\ s \o t \in Seq(T) /\ IsInjective(s \o t)
           /\ ToSet(s \o t) \subseteq ToSet(s) \cup ToSet(t)
<1> DEFINE j == s \o t
<1>1. /\ Len(s) \in Nat /\ DOMAIN s = 1 .. Len(s) /\ ToSet(s) = {s[i] : i \in 1 .. Len(s)}
      /\ Len(t) \in Nat /\ DOMAIN t = 1 .. Len(t) /\ ToSet(t) = {t[i] : i \in 1 .. Len(t)}
  BY SeqFacts
<1>2. /\ j \in Seq(T) /\ Len(j) = Len(s) + Len(t)
      /\ \A i \in 1 .. Len(s) + Len(t) : j[i] = IF i <= Len(s) THEN s[i] ELSE t[i - Len(s)]
  BY ConcatProperties
<1> HIDE DEF j
<1>3. DOMAIN j = 1 .. Len(s) + Len(t) /\ ToSet(j) = {j[i] : i \in 1 .. Len(s) + Len(t)}
  BY <1>2, SeqFacts
<1>4. \A i \in 1 .. Len(s) + Len(t) :
          /\ i <= Len(s) => i \in 1 .. Len(s) /\ j[i] = s[i] /\ j[i] \in ToSet(s)
          /\ i > Len(s) => i - Len(s) \in 1 .. Len(t) /\ j[i] = t[i - Len(s)] /\ j[i] \in ToSet(t)
  BY <1>1, <1>2
<1>5. ToSet(j) \subseteq ToSet(s) \cup ToSet(t)
  BY <1>1, <1>3, <1>4
<1>6. ASSUME NEW i \in DOMAIN j, NEW k \in DOMAIN j, j[i] = j[k]
      PROVE  i = k
  <2>1. i \in 1 .. Len(s) + Len(t) /\ k \in 1 .. Len(s) + Len(t)
    BY <1>3
  <2>2. CASE i <= Len(s) /\ k <= Len(s)
    BY <1>1, <1>4, <1>6, <2>1, <2>2 DEF IsInjective
  <2>3. CASE i > Len(s) /\ k > Len(s)
    <3>1. i - Len(s) = k - Len(s)
      BY <1>1, <1>4, <1>6, <2>1, <2>3 DEF IsInjective
    <3> QED  BY <1>1, <2>1, <3>1
  <2>4. CASE (i <= Len(s) /\ k > Len(s)) \/ (i > Len(s) /\ k <= Len(s))
    BY <1>4, <1>6, <2>1, <2>4
  <2> QED  BY <1>1, <2>1, <2>2, <2>3, <2>4
<1> QED  BY <1>2, <1>5, <1>6 DEF IsInjective, j

LEMMA CloseKeeps ==
    ASSUME IInv, Close
    PROVE  IInv'
<1> DEFINE n == Len(tabs)
<1>1. tabs \in Seq(Ids) /\ IsInjective(tabs) /\ Open = ToSet(tabs)
  BY DEF IInv, PageInv, Open
<1>2. /\ n \in Nat /\ DOMAIN tabs = 1 .. n /\ \A i \in 1 .. n : tabs[i] \in Ids
      /\ Open = {tabs[i] : i \in 1 .. n}
  BY <1>1, SeqFacts
<1>3. PICK i \in 1 .. n :
        \/ CloseTabs(<<tabs[i]>>)
        \/ CloseTabs(tabs)
        \/ CloseTabs(SubSeq(tabs, 1, i - 1))
        \/ CloseTabs(SubSeq(tabs, i + 1, n))
        \/ CloseTabs(SubSeq(tabs, 1, i - 1) \o SubSeq(tabs, i + 1, n))
  BY DEF Close
<1> DEFINE before == SubSeq(tabs, 1, i - 1)
           behind == SubSeq(tabs, i + 1, n)
<1>4. /\ before \in Seq(Ids) /\ IsInjective(before) /\ ToSet(before) \subseteq Open
      /\ ToSet(before) \subseteq {tabs[k] : k \in 1 .. i - 1}
  <2>1. 1 \in Nat \ {0} /\ i - 1 \in 0 .. Len(tabs)
    BY <1>2
  <2> HIDE DEF n
  <2> QED  BY <1>1, <2>1, PieceFacts
<1>5. /\ behind \in Seq(Ids) /\ IsInjective(behind) /\ ToSet(behind) \subseteq Open
      /\ ToSet(behind) \subseteq {tabs[k] : k \in i + 1 .. n}
  <2>1. i + 1 \in Nat \ {0} /\ n \in 0 .. Len(tabs)
    BY <1>2
  <2> HIDE DEF n
  <2> QED  BY <1>1, <2>1, PieceFacts
<1> HIDE DEF before, behind, n
<1>6. ToSet(before) \cap ToSet(behind) = {}
  <2>1. \A k \in 1 .. i - 1, m \in i + 1 .. n : tabs[k] # tabs[m]
    BY <1>1, <1>2 DEF IsInjective
  <2> QED  BY <1>4, <1>5, <2>1
<1>7. before \o behind \in Seq(Ids) /\ IsInjective(before \o behind)
      /\ ToSet(before \o behind) \subseteq Open
  BY <1>4, <1>5, <1>6, JoinedFacts
<1>8. CASE CloseTabs(<<tabs[i]>>)
  <2> DEFINE one == <<tabs[i]>>
  <2>1. tabs[i] \in Ids /\ tabs[i] \in Open
    BY <1>2
  <2>2. one \in Seq(Ids) /\ IsInjective(one) /\ ToSet(one) \subseteq Open
    BY <2>1 DEF IsInjective, ToSet
  <2> HIDE DEF one
  <2> QED  BY <1>8, <2>2, ClosedTabs DEF one
<1>9. CASE CloseTabs(tabs)
  BY <1>1, <1>9, ClosedTabs
<1>10. CASE CloseTabs(before)
  BY <1>4, <1>10, ClosedTabs
<1>11. CASE CloseTabs(behind)
  BY <1>5, <1>11, ClosedTabs
<1>12. CASE CloseTabs(before \o behind)
  BY <1>7, <1>12, ClosedTabs
<1> QED  BY <1>3, <1>8, <1>9, <1>10, <1>11, <1>12 DEF before, behind

-----------------------------------------------------------------------------
(* The editor and its template.                                            *)

LEMMA TreeKept ==
    ASSUME TreeInv, Typed(node'), Typed(disk'), Clean(node', disk'),
           DOMAIN node' = DOMAIN node, DOMAIN disk' = DOMAIN node,
           \A x \in DOMAIN node : node'[x].up = node[x].up /\ disk'[x].up = node[x].up,
           bag' = bag, cell' \in [Resources -> Nat]
    PROVE  TreeInv'
<1>1. Agree(node, disk)
  BY DEF TreeInv, TreeOk
<1>2. root \in DOMAIN node' /\ \A x \in DOMAIN node' \ {root} : node[x].up \in DOMAIN node'
  BY <1>1 DEF Agree, ParentsInv
<1>3. Agree(node', disk')
  BY <1>1, <1>2, ShapeKept
<1>4. \A c : Members(c, node') = Members(c, node)
  BY DEF Members
<1>5. BagsInv'
  BY <1>4 DEF TreeInv, BagsInv
<1> QED  BY <1>3, <1>5 DEF TreeInv, TreeOk

LEMMA PageKept ==
    ASSUME PageInv, UNCHANGED <<tabs, current, currentNode, templateCell>>,
           DOMAIN node' = DOMAIN node, DOMAIN own' = DOMAIN own,
           \A x \in DOMAIN own' : own'[x] \in Shows,
           panel' \in Texts \cup {None}, current # None => panel' \in Texts
    PROVE  PageInv'
BY DEF PageInv, TabsAreOfNodes, Open

LEMMA SetCurrentFacts ==
    ASSUME IInv, current # None, NEW text \in Texts, NEW dirty \in BOOLEAN,
           SetCurrent(text, dirty)
    PROVE  /\ DOMAIN own' = DOMAIN own /\ \A x \in DOMAIN own' : own'[x] \in Shows
           /\ DOMAIN node' = DOMAIN node /\ Typed(node')
           /\ \A x \in DOMAIN node : node'[x].up = node[x].up /\ node'[x].order = node[x].order
           /\ \A x \in DOMAIN node : x # current \/ current \in DOMAIN own => node'[x] = node[x]
           /\ current \in DOMAIN node \ DOMAIN own =>
                  node'[current].text = text /\ node'[current].dirty = dirty
<1>1. Typed(node) /\ \A x \in DOMAIN own : own[x] \in Shows
  BY DEF IInv, TreeInv, TreeOk, PageInv
<1>2. CASE current \in DOMAIN own
  <2>1. /\ own' = [own EXCEPT ![current] = [text |-> text, dirty |-> dirty]]
        /\ node' = node
    BY <1>2 DEF SetCurrent
  <2>2. [text |-> text, dirty |-> dirty] \in Shows
    BY DEF Shows
  <2> QED  BY <1>1, <1>2, <2>1, <2>2
<1>3. CASE current \notin DOMAIN own
  <2>1. /\ node' = [node EXCEPT ![current].text = text, ![current].dirty = dirty]
        /\ own' = own
    BY <1>3 DEF SetCurrent
  <2> DEFINE old == node[current]
             new == [old EXCEPT !.text = text, !.dirty = dirty]
  <2>2. current \in DOMAIN node
    BY <1>3 DEF IInv, PageInv, TabsAreOfNodes
  <2>3. old \in Node
    BY <1>1, <2>2 DEF Typed
  <2>4. node' = [node EXCEPT ![current] = new]
    BY <2>1, <2>2
  <2> HIDE DEF old
  <2>5. /\ new \in Node /\ new.up = old.up /\ new.order = old.order
        /\ new.text = text /\ new.dirty = dirty
    BY <2>3 DEF Node
  <2> HIDE DEF new
  <2>6. /\ DOMAIN node' = DOMAIN node /\ node'[current] = new
        /\ \A x \in DOMAIN node : x # current => node'[x] = node[x]
    BY <2>2, <2>4
  <2> QED  BY <1>1, <1>3, <2>1, <2>2, <2>5, <2>6 DEF Typed, old
<1> QED  BY <1>2, <1>3

LEMMA EditKeeps ==
    ASSUME IInv, NEW t \in Texts, Edit(t)
    PROVE  IInv'
<1> DEFINE flag == Held(current).dirty \/ Held(current).text # t
<1>1. /\ current # None /\ panel' = t /\ SetCurrent(t, flag)
      /\ UNCHANGED <<disk, bag, cell, tabs, current, currentNode, templateCell>>
  BY DEF Edit
<1>2. current \in DOMAIN own \cup DOMAIN node
  BY <1>1 DEF IInv, PageInv, TabsAreOfNodes
<1>3. Held(current) \in Shows
  BY <1>2, HeldFacts
<1>4. flag \in BOOLEAN
  BY <1>3 DEF Shows
<1>5. current \notin DOMAIN own =>
          Held(current).text = node[current].text /\ Held(current).dirty = node[current].dirty
  BY DEF Held, HeldIn
<1>6. ~flag => Held(current).text = t /\ ~Held(current).dirty
  OBVIOUS
<1> HIDE DEF flag
<1>7. /\ DOMAIN own' = DOMAIN own /\ \A x \in DOMAIN own' : own'[x] \in Shows
      /\ DOMAIN node' = DOMAIN node /\ Typed(node')
      /\ \A x \in DOMAIN node : node'[x].up = node[x].up
      /\ \A x \in DOMAIN node : x # current \/ current \in DOMAIN own => node'[x] = node[x]
      /\ current \in DOMAIN node \ DOMAIN own =>
             node'[current].text = t /\ node'[current].dirty = flag
  BY <1>1, <1>4, SetCurrentFacts
<1>8. TreeOk(node, disk)
  BY DEF IInv, TreeInv
<1>9. Clean(node', disk')
  <2>1. ASSUME NEW x \in DOMAIN node, ~node'[x].dirty
        PROVE  disk[x].text = node'[x].text
    <3>1. CASE x # current \/ current \in DOMAIN own
      BY <1>7, <1>8, <2>1, <3>1 DEF TreeOk, Clean
    <3>2. CASE x = current /\ current \notin DOMAIN own
      <4>1. node'[x].text = t /\ node'[x].dirty = flag
        BY <1>7, <3>2
      <4>2. Held(current).text = t /\ ~Held(current).dirty
        BY <1>6, <2>1, <4>1
      <4> QED  BY <1>5, <1>8, <3>2, <4>1, <4>2 DEF TreeOk, Clean
    <3> QED  BY <3>1, <3>2
  <2> QED  BY <1>1, <1>7, <2>1 DEF Clean
<1>10. /\ Typed(disk') /\ DOMAIN disk' = DOMAIN node
       /\ \A x \in DOMAIN node : disk'[x].up = node[x].up
  BY <1>1, <1>8, AgreeFacts DEF TreeOk
<1>11. bag' = bag /\ cell' \in [Resources -> Nat]
  BY <1>1 DEF IInv, TreeInv
<1>12. TreeInv'
  BY <1>7, <1>9, <1>10, <1>11, TreeKept DEF IInv
<1>13. UNCHANGED <<tabs, current, currentNode, templateCell>> /\ panel' \in Texts
  BY <1>1
<1>14. PageInv'
  BY <1>7, <1>13, PageKept DEF IInv
<1> QED  BY <1>12, <1>14 DEF IInv

LEMMA SaveKeeps ==
    ASSUME IInv, Save
    PROVE  IInv'
<1> DEFINE saved == [node' EXCEPT ![current].dirty = node[current].dirty]
<1>1. /\ current \in Collections \cup Resources
      /\ SetCurrent(panel, FALSE)
      /\ disk' = IF current \in DOMAIN node THEN Written(disk, saved, {current}) ELSE disk
      /\ UNCHANGED <<bag, cell, tabs, current, panel, currentNode, templateCell>>
  BY DEF Save
<1>2. current # None /\ current # template /\ panel \in Texts /\ current \in DOMAIN node
  BY <1>1, CollectionsAssumption DEF IInv, PageInv, TabsAreOfNodes
<1>3. /\ DOMAIN own' = DOMAIN own /\ \A x \in DOMAIN own' : own'[x] \in Shows
      /\ DOMAIN node' = DOMAIN node /\ Typed(node')
      /\ \A x \in DOMAIN node : node'[x].up = node[x].up
      /\ \A x \in DOMAIN node : x # current \/ current \in DOMAIN own => node'[x] = node[x]
  <2>1. FALSE \in BOOLEAN
    OBVIOUS
  <2> QED  BY <1>1, <1>2, <2>1, SetCurrentFacts
<1>4. TreeOk(node, disk)
  BY DEF IInv, TreeInv
<1> DEFINE old == node'[current]
           flag == node[current].dirty
           new == [old EXCEPT !.dirty = flag]
<1>5. old \in Node /\ flag \in BOOLEAN
  BY <1>2, <1>3, <1>4 DEF TreeOk, Typed, Node
<1>6. saved = [node' EXCEPT ![current] = new]
  BY <1>2, <1>3
<1> HIDE DEF old, flag
<1>7. new \in Node /\ new.up = old.up /\ new.text = old.text
  BY <1>5 DEF Node
<1> HIDE DEF new, saved
<1>8. /\ DOMAIN saved = DOMAIN node /\ saved[current] = new
      /\ \A x \in DOMAIN node : x # current => saved[x] = node'[x]
  BY <1>2, <1>3, <1>6
<1>9. Typed(saved)
  BY <1>3, <1>7, <1>8 DEF Typed
<1>10. disk' = Written(disk, saved, {current}) /\ {current} \in SUBSET DOMAIN saved
  BY <1>1, <1>2, <1>8
<1>11. /\ DOMAIN disk' = {current} \cup DOMAIN disk /\ Typed(disk')
       /\ disk'[current].up = old.up /\ disk'[current].text = old.text
       /\ \A x \in DOMAIN disk \ {current} : disk'[x] = disk[x]
  <2> DEFINE S == {current}
             W == Written(disk, saved, S)
  <2>1. Typed(disk)
    BY <1>4 DEF TreeOk
  <2>2. disk' = W /\ S \in SUBSET DOMAIN saved
    BY <1>10
  <2>3. IsWritten(W, disk, saved, S)
    <3> HIDE DEF S
    <3> QED  BY <1>9, <2>1, <2>2, WrittenFacts
  <2> HIDE DEF W
  <2> QED  BY <1>7, <1>8, <2>2, <2>3 DEF IsWritten
<1>12. DOMAIN disk = DOMAIN node /\ \A x \in DOMAIN node : disk[x].up = node[x].up
  BY <1>4, AgreeFacts DEF TreeOk
<1>13. \A x \in DOMAIN node : disk'[x].up = node[x].up
  BY <1>3, <1>11, <1>12 DEF old
<1>14. Clean(node', disk')
  BY <1>3, <1>4, <1>11, <1>12 DEF TreeOk, Clean, old
<1>15. bag' = bag /\ cell' \in [Resources -> Nat] /\ DOMAIN disk' = DOMAIN node
  BY <1>1, <1>2, <1>11, <1>12 DEF IInv, TreeInv
<1>16. TreeInv'
  BY <1>3, <1>11, <1>13, <1>14, <1>15, TreeKept DEF IInv
<1>17. UNCHANGED <<tabs, current, currentNode, templateCell>> /\ panel' \in Texts
  BY <1>1, <1>2
<1>18. PageInv'
  BY <1>3, <1>17, PageKept DEF IInv
<1> QED  BY <1>16, <1>18 DEF IInv

\* There is a pointer of its own for the template.
LEMMA OwnCell ==
    ASSUME cell \in [Resources -> Nat]
    PROVE  \E n \in 1 .. Cardinality(Resources) + 1 : n \notin Range(cell)
<1> DEFINE m == Cardinality(Resources)
           S == 1 .. m + 1
<1>1. m \in Nat /\ IsFiniteSet(Resources)
  BY CollectionsAssumption, FS_CardinalityType
<1>2. IsFiniteSet(S) /\ Cardinality(S) = m + 1
  <2>1. 1 \in Int /\ m + 1 \in Int
    BY <1>1
  <2> HIDE DEF m
  <2> QED  BY <1>1, <2>1, FS_Interval
<1> SUFFICES ASSUME S \subseteq Range(cell) PROVE FALSE
  OBVIOUS
<1> DEFINE f == [k \in S |-> CHOOSE r \in Resources : cell[r] = k]
<1>3. \A k \in S : f[k] \in Resources /\ cell[f[k]] = k
  <2>1. \A k \in S : \E r \in Resources : cell[r] = k
    <3> HIDE DEF S
    <3> QED  BY DEF Range
  <2> HIDE DEF S
  <2> QED  BY <2>1
<1>4. f \in [S -> Resources]
  BY <1>3
<1> HIDE DEF f, S
<1>5. Cardinality(Resources) < Cardinality(S)
  BY <1>1, <1>2
<1>6. \E x, y \in S : x # y /\ f[x] = f[y]
  BY <1>1, <1>2, <1>4, <1>5, FS_PigeonHole
<1> QED  BY <1>3, <1>6

LEMMA OpenTemplateKeeps ==
    ASSUME IInv, OpenTemplate
    PROVE  IInv'
<1> DEFINE sheet == [text |-> sample, dirty |-> FALSE]
<1>1. /\ IF template \in Open THEN UNCHANGED <<own, templateCell>>
         ELSE /\ own' = With(own, template, sheet)
              /\ templateCell' = CHOOSE n \in 1..Cardinality(Resources) + 1 : n \notin Range(cell)
      /\ UNCHANGED treeVars
      /\ Activate(template)
  BY DEF OpenTemplate
<1>2. TreeInv'
  BY <1>1, TreeUnchanged DEF IInv
<1>3. sheet \in Shows
  BY CollectionsAssumption DEF Shows
<1> HIDE DEF sheet
<1>4. templateCell' \in Nat
  <2>1. CASE template \in Open
    BY <1>1, <2>1 DEF IInv, PageInv
  <2>2. CASE template \notin Open
    <3>1. \E n \in 1..Cardinality(Resources) + 1 : n \notin Range(cell)
      BY OwnCell DEF IInv, TreeInv
    <3>2. templateCell' \in 1..Cardinality(Resources) + 1
      BY <1>1, <2>2, <3>1
    <3>3. Cardinality(Resources) \in Nat
      BY CollectionsAssumption, FS_CardinalityType
    <3> QED  BY <3>2, <3>3
  <2> QED  BY <2>1, <2>2
<1>5. /\ DOMAIN own' \subseteq Open \cup {template} /\ \A y \in DOMAIN own' : own'[y] \in Shows
      /\ template \in DOMAIN own'
  <2>1. /\ DOMAIN own \subseteq Open /\ \A y \in DOMAIN own : own[y] \in Shows
        /\ template \in Open => template \in DOMAIN own
    BY DEF IInv, PageInv
  <2>2. CASE template \in Open
    BY <1>1, <2>1, <2>2
  <2>3. CASE template \notin Open
    BY <1>1, <1>3, <2>1, <2>3 DEF With
  <2> QED  BY <2>2, <2>3
<1>6. DOMAIN node \subseteq DOMAIN node' /\ template \in DOMAIN node' \cup {template}
  BY <1>1 DEF treeVars
<1>7. PageInv'
  BY <1>1, <1>2, <1>4, <1>5, <1>6, Activated
<1> QED  BY <1>2, <1>7 DEF IInv

LEMMA CancelKeeps ==
    ASSUME IInv, CancelTemplate
    PROVE  IInv'
<1>1. /\ current = template
      /\ own' = [own EXCEPT ![template].dirty = FALSE]
      /\ UNCHANGED <<treeVars, tabs, current, panel, currentNode, templateCell>>
  BY DEF CancelTemplate
<1>2. /\ DOMAIN own' = DOMAIN own
      /\ \A x \in DOMAIN own' : own'[x] \in Shows
  BY <1>1 DEF IInv, PageInv, Shows
<1>3. TreeInv'
  BY <1>1, TreeUnchanged DEF IInv
<1>4. /\ DOMAIN node' = DOMAIN node
      /\ panel' \in Texts \cup {None} /\ (current # None => panel' \in Texts)
      /\ UNCHANGED <<tabs, current, currentNode, templateCell>>
  BY <1>1 DEF IInv, PageInv, treeVars
<1>5. PageInv'
  BY <1>2, <1>4, PageKept DEF IInv
<1> QED  BY <1>3, <1>5 DEF IInv

-----------------------------------------------------------------------------
(* Additions.                                                              *)

\* A new x below c, whatever became of the numbers of the others.
LEMMA Added ==
    ASSUME TreeOk(node, disk), NEW nodes, Renumbered(nodes, node),
           NEW c \in Collections \cap DOMAIN node,
           NEW x \in Collections \cup Resources, x \notin DOMAIN node,
           NEW n \in Node, n.up = c,
           node' = With(nodes, x, n), disk' = Written(disk, node', {x})
    PROVE  /\ TreeOk(node', disk')
           /\ DOMAIN node' = {x} \cup DOMAIN node
           /\ \A d : Members(d, node') =
                       IF d = c /\ x \in Resources THEN Members(d, node) \cup {x} ELSE Members(d, node)
<1>1. /\ DOMAIN nodes = DOMAIN node /\ Typed(nodes)
      /\ \A y \in DOMAIN node : /\ nodes[y].up = node[y].up
                                /\ nodes[y].text = node[y].text /\ nodes[y].dirty = node[y].dirty
  BY DEF Renumbered
<1>2. /\ DOMAIN node' = {x} \cup DOMAIN node /\ node'[x] = n
      /\ \A y \in DOMAIN node : node'[y] = nodes[y]
  BY <1>1 DEF With
<1>3. Typed(node') /\ Typed(disk)
  BY <1>1, <1>2 DEF Typed, TreeOk
<1>4. IsWritten(disk', disk, node', {x})
  <2> DEFINE S == {x}
  <2>1. S \in SUBSET DOMAIN node' /\ disk' = Written(disk, node', S)
    BY <1>2
  <2> HIDE DEF S
  <2>2. IsWritten(disk', disk, node', S)
    BY <1>3, <2>1, WrittenFacts
  <2> QED  BY <2>2 DEF S
<1>5. DOMAIN disk = DOMAIN node /\ \A y \in DOMAIN node : disk[y].up = node[y].up
  BY AgreeFacts DEF TreeOk
<1>6. /\ DOMAIN disk' = {x} \cup DOMAIN node /\ Typed(disk')
      /\ disk'[x].up = c /\ disk'[x].text = n.text
      /\ \A y \in DOMAIN node : disk'[y] = disk[y]
  BY <1>2, <1>4, <1>5 DEF IsWritten
<1>7. ASSUME NEW y \in DOMAIN node'
      PROVE  /\ ~node'[y].dirty => disk'[y].text = node'[y].text
             /\ disk'[y].up = node'[y].up
  <2>1. CASE y = x
    BY <1>2, <1>6, <2>1
  <2>2. CASE y # x
    <3>1. y \in DOMAIN node
      BY <1>2, <2>2
    <3>2. ~node[y].dirty => disk[y].text = node[y].text
      BY <3>1 DEF TreeOk, Clean
    <3>3. disk'[y] = disk[y] /\ node'[y] = nodes[y]
      BY <1>2, <1>6, <3>1
    <3> QED  BY <1>1, <1>5, <3>1, <3>2, <3>3
  <2> QED  BY <2>1, <2>2
<1>8. Agree(node, disk)
  BY DEF TreeOk
<1>9. /\ root \in DOMAIN node /\ node[root].up = None /\ ParentsInv(node) /\ WellFounded(node)
  BY <1>8 DEF Agree
<1>10. c # x /\ x # root /\ None \notin Collections /\ x # None /\ root \in DOMAIN node'
  BY <1>2, <1>9, CollectionsAssumption
<1>11. Clean(node', disk')
  BY <1>7 DEF Clean
<1>12. ParentsInv(node') /\ node'[root].up = None
  BY <1>1, <1>2, <1>9, <1>10 DEF ParentsInv
<1>13. WellFounded(node')
  <2>1. ASSUME NEW S \in SUBSET DOMAIN node', S # {}
        PROVE  \E y \in S : node'[y].up \notin S
    <3>1. CASE S = {x}
      BY <1>2, <1>10, <3>1
    <3>2. CASE S # {x}
      <4> DEFINE R == S \ {x}
      <4>1. R \in SUBSET DOMAIN node /\ R # {}
        BY <1>2, <2>1, <3>2
      <4>2. PICK y \in R : node[y].up \notin R
        BY <1>9, <4>1 DEF WellFounded
      <4>3. y \in S /\ y \in DOMAIN node /\ node'[y].up = node[y].up
        BY <1>1, <1>2, <4>1
      <4>4. node[y].up # x
        BY <1>9, <1>10, <4>3 DEF ParentsInv
      <4> QED  BY <4>2, <4>3, <4>4
    <3> QED  BY <3>1, <3>2
  <2> QED  BY <2>1 DEF WellFounded
<1>14. Agree(node', disk')
  BY <1>2, <1>6, <1>7, <1>10, <1>12, <1>13 DEF Agree
<1>15. \A d : Members(d, node') =
               IF d = c /\ x \in Resources THEN Members(d, node) \cup {x} ELSE Members(d, node)
  <2>1. \A y \in DOMAIN node : node'[y].up = node[y].up
    BY <1>1, <1>2
  <2> QED  BY <1>2, <2>1 DEF Members
<1> QED  BY <1>2, <1>3, <1>6, <1>11, <1>14, <1>15 DEF TreeOk

\* The bag of c has the new resource r behind the others.
LEMMA BagAppended ==
    ASSUME IInv, NEW c \in Collections \cap DOMAIN node, NEW r \in Resources,
           bag' = [bag EXCEPT ![c] = Append(@, r)], DOMAIN node' = {r} \cup DOMAIN node,
           \A d : Members(d, node') =
                   IF d = c /\ r \in Resources THEN Members(d, node) \cup {r} ELSE Members(d, node)
    PROVE  DOMAIN bag' = DOMAIN node' \cap Collections /\ BagsInv'
<1>1. DOMAIN bag = DOMAIN node \cap Collections /\ BagsInv
  BY DEF IInv, TreeInv
<1>2. r \notin Collections
  BY CollectionsAssumption
<1>3. DOMAIN bag' = DOMAIN node' \cap Collections
  BY <1>1, <1>2
<1>4. /\ bag[c] \in Seq(Resources) /\ ToSet(bag[c]) = Members(c, node)
      /\ bag'[c] = Append(bag[c], r)
      /\ \A d \in DOMAIN bag : d # c => bag'[d] = bag[d]
  BY <1>1 DEF BagsInv
<1>5. bag'[c] \in Seq(Resources) /\ ToSet(bag'[c]) = Members(c, node')
  <2> DEFINE s == bag[c]
  <2>1. s \in Seq(Resources) /\ ToSet(s) = Members(c, node) /\ bag'[c] = Append(s, r)
    BY <1>4
  <2>2. Members(c, node') = Members(c, node) \cup {r}
    OBVIOUS
  <2> HIDE DEF s
  <2>3. Append(s, r) \in Seq(Resources) /\ ToSet(Append(s, r)) = ToSet(s) \cup {r}
    BY <2>1, AppendFacts
  <2> QED  BY <2>1, <2>2, <2>3
<1>6. BagsInv'
  BY <1>1, <1>2, <1>3, <1>4, <1>5 DEF BagsInv
<1> QED  BY <1>3, <1>6

LEMMA NewNodeFacts ==
    ASSUME NEW c \in Collections, NEW k \in Nat
    PROVE  NewNode(c, k) \in Node /\ NewNode(c, k).up = c
BY CollectionsAssumption DEF NewNode, Node

LEMMA AddResourceKeeps ==
    ASSUME IInv, NEW c \in Collections, NEW r \in Resources, AddResource(c, r)
    PROVE  IInv'
<1> DEFINE n == NewNode(c, Len(bag[c]))
<1>1. /\ c \in Collections \cap DOMAIN node /\ r \notin DOMAIN node
      /\ node' = With(node, r, n) /\ disk' = Written(disk, node', {r})
      /\ bag' = [bag EXCEPT ![c] = Append(@, r)]
      /\ cell' = [cell EXCEPT ![r] = 0]
      /\ UNCHANGED <<own, templateCell>>
      /\ Activate(r)
  BY DEF AddResource, Add, Fresh
<1>2. TreeOk(node, disk) /\ Renumbered(node, node)
  BY DEF IInv, TreeInv, TreeOk, Renumbered
<1>3. n \in Node /\ n.up = c
  <2>1. bag[c] \in Seq(Resources)
    BY <1>1 DEF IInv, TreeInv, BagsInv
  <2>2. Len(bag[c]) \in Nat
    BY <2>1, LenProperties
  <2> QED  BY <2>2, NewNodeFacts
<1> HIDE DEF n
<1>4. /\ TreeOk(node', disk')
      /\ DOMAIN node' = {r} \cup DOMAIN node
      /\ \A d : Members(d, node') =
                  IF d = c /\ r \in Resources THEN Members(d, node) \cup {r} ELSE Members(d, node)
  BY <1>1, <1>2, <1>3, Added
<1>5. DOMAIN bag' = DOMAIN node' \cap Collections /\ BagsInv'
  BY <1>1, <1>4, BagAppended
<1>6. cell' \in [Resources -> Nat]
  BY <1>1 DEF IInv, TreeInv
<1>7. TreeInv'
  BY <1>4, <1>5, <1>6 DEF TreeInv
<1>8. /\ templateCell' \in Nat /\ DOMAIN node \subseteq DOMAIN node' /\ r \in DOMAIN node' \cup {template}
      /\ DOMAIN own' \subseteq Open \cup {r} /\ \A y \in DOMAIN own' : own'[y] \in Shows
      /\ template \in Open \cup {r} => template \in DOMAIN own'
  BY <1>1, <1>4, CollectionsAssumption DEF IInv, PageInv
<1>9. PageInv'
  BY <1>1, <1>7, <1>8, Activated
<1> QED  BY <1>7, <1>9 DEF IInv

LEMMA AddCollectionKeeps ==
    ASSUME IInv, NEW c \in Collections, NEW d \in Collections, AddCollection(c, d)
    PROVE  IInv'
<1> DEFINE n == NewNode(c, 0)
<1>1. /\ c \in Collections \cap DOMAIN node /\ d \notin DOMAIN node
      /\ node' = With(node, d, n) /\ disk' = Written(disk, node', {d})
      /\ bag' = With(bag, d, <<>>)
      /\ UNCHANGED <<cell, own, templateCell>>
      /\ Activate(d)
  BY DEF AddCollection, Add, Fresh
<1>2. TreeOk(node, disk) /\ Renumbered(node, node)
  BY DEF IInv, TreeInv, TreeOk, Renumbered
<1>3. n \in Node /\ n.up = c
  BY NewNodeFacts
<1> HIDE DEF n
<1>4. d \notin Resources
  BY CollectionsAssumption
<1>5. /\ TreeOk(node', disk')
      /\ DOMAIN node' = {d} \cup DOMAIN node
      /\ \A e : Members(e, node') =
                  IF e = c /\ d \in Resources THEN Members(e, node) \cup {d} ELSE Members(e, node)
  BY <1>1, <1>2, <1>3, Added
<1>6. Members(d, node) = {}
  <2>1. Agree(node, disk)
    BY <1>2 DEF TreeOk
  <2>2. \A x \in DOMAIN node : node[x].up # d
    BY <1>1, <2>1, CollectionsAssumption DEF Agree, ParentsInv
  <2> QED  BY <2>2 DEF Members
<1>7. DOMAIN bag = DOMAIN node \cap Collections /\ BagsInv
  BY DEF IInv, TreeInv
<1>8. /\ DOMAIN bag' = {d} \cup DOMAIN bag /\ bag'[d] = <<>>
      /\ \A e \in DOMAIN bag : bag'[e] = bag[e]
  BY <1>1, <1>7 DEF With
<1>9. <<>> \in Seq(Resources) /\ ToSet(<<>>) = {}
  BY DEF ToSet
<1>10. DOMAIN bag' = DOMAIN node' \cap Collections
  BY <1>5, <1>7, <1>8
<1>11. BagsInv'
  <2>1. \A e : Members(e, node') = Members(e, node)
    BY <1>4, <1>5
  <2> QED  BY <1>6, <1>7, <1>8, <1>9, <2>1 DEF BagsInv
<1>12. cell' \in [Resources -> Nat]
  BY <1>1 DEF IInv, TreeInv
<1>13. TreeInv'
  BY <1>5, <1>10, <1>11, <1>12 DEF TreeInv
<1>14. /\ templateCell' \in Nat /\ DOMAIN node \subseteq DOMAIN node' /\ d \in DOMAIN node' \cup {template}
       /\ DOMAIN own' \subseteq Open \cup {d} /\ \A y \in DOMAIN own' : own'[y] \in Shows
       /\ template \in Open \cup {d} => template \in DOMAIN own'
  BY <1>1, <1>5, CollectionsAssumption DEF IInv, PageInv
<1>15. PageInv'
  BY <1>1, <1>13, <1>14, Activated
<1> QED  BY <1>13, <1>15 DEF IInv

LEMMA SaveTemplateKeeps ==
    ASSUME IInv, NEW c \in Collections, NEW r \in Resources, SaveTemplate(c, r)
    PROVE  IInv'
<1> DEFINE order == Len(bag[c])
           ordered == [x \in DOMAIN node |->
               IF x \in Resources /\ cell[x] = templateCell
               THEN [node[x] EXCEPT !.order = order] ELSE node[x]]
           n == [NewNode(c, order) EXCEPT !.text = own[template].text]
<1>1. /\ current = template /\ c \in Collections \cap DOMAIN node /\ r \notin DOMAIN node
      /\ node' = With(ordered, r, n) /\ disk' = Written(disk, node', {r})
      /\ bag' = [bag EXCEPT ![c] = Append(@, r)]
      /\ cell' = [cell EXCEPT ![r] = templateCell]
      /\ own' = [own EXCEPT ![template].dirty = FALSE]
      /\ Activate(r) /\ UNCHANGED templateCell
  BY DEF SaveTemplate, Fresh
<1>2. TreeOk(node, disk) /\ Typed(node)
  BY DEF IInv, TreeInv, TreeOk
<1>3. order \in Nat
  <2>1. bag[c] \in Seq(Resources)
    BY <1>1 DEF IInv, TreeInv, BagsInv
  <2> QED  BY <2>1, LenProperties
<1>4. template \in DOMAIN own /\ own[template] \in Shows
  BY <1>1, CollectionsAssumption DEF IInv, PageInv
<1> HIDE DEF order
<1>5. n \in Node /\ n.up = c
  BY <1>3, <1>4, NewNodeFacts DEF Node, Shows
<1>6. Renumbered(ordered, node)
  <2>1. ASSUME NEW x \in DOMAIN node
        PROVE  /\ ordered[x] \in Node /\ ordered[x].up = node[x].up
               /\ ordered[x].text = node[x].text /\ ordered[x].dirty = node[x].dirty
    <3>1. node[x] \in Node
      BY <1>2 DEF Typed
    <3>2. CASE x \in Resources /\ cell[x] = templateCell
      BY <1>3, <3>1, <3>2 DEF Node
    <3>3. CASE ~(x \in Resources /\ cell[x] = templateCell)
      BY <3>1, <3>3
    <3> QED  BY <3>2, <3>3
  <2>2. DOMAIN ordered = DOMAIN node
    OBVIOUS
  <2> HIDE DEF ordered
  <2> QED  BY <1>2, <2>1, <2>2 DEF Renumbered, Typed
<1> HIDE DEF ordered, n
<1>7. /\ TreeOk(node', disk')
      /\ DOMAIN node' = {r} \cup DOMAIN node
      /\ \A d : Members(d, node') =
                  IF d = c /\ r \in Resources THEN Members(d, node) \cup {r} ELSE Members(d, node)
  BY <1>1, <1>2, <1>5, <1>6, Added
<1>8. DOMAIN bag' = DOMAIN node' \cap Collections /\ BagsInv'
  BY <1>1, <1>7, BagAppended
<1>9. cell' \in [Resources -> Nat]
  BY <1>1 DEF IInv, TreeInv, PageInv
<1>10. TreeInv'
  BY <1>7, <1>8, <1>9 DEF TreeInv
<1>11. DOMAIN own' = DOMAIN own /\ \A y \in DOMAIN own' : own'[y] \in Shows
  BY <1>1, <1>4 DEF IInv, PageInv, Shows
<1>12. /\ templateCell' \in Nat /\ DOMAIN node \subseteq DOMAIN node' /\ r \in DOMAIN node' \cup {template}
       /\ DOMAIN own' \subseteq Open \cup {r}
       /\ template \in DOMAIN own'
  BY <1>1, <1>4, <1>7, <1>11 DEF IInv, PageInv
<1>13. PageInv'
  BY <1>1, <1>10, <1>11, <1>12, Activated
<1> QED  BY <1>10, <1>13 DEF IInv

-----------------------------------------------------------------------------
(* The menu of the tree.                                                   *)

LEMMA ShownKeeps ==
    ASSUME IInv, TreeInv', DOMAIN node' = DOMAIN node, templateCell' = templateCell,
           DOMAIN own' \subseteq Open, \A y \in DOMAIN own' : own'[y] \in Shows,
           template \in Open => template \in DOMAIN own',
           NEW ids, Shown(ids)
    PROVE  PageInv'
<1> DEFINE cur == IF currentNode \in Open THEN currentNode ELSE current
           text == IF current \in ids THEN HeldIn(current, own', node').text ELSE panel
<1>1. Frames(tabs, cur, currentNode, text)
  BY DEF Shown
<1>2. tabs \in Seq(Ids) /\ IsInjective(tabs) /\ Open = ToSet(tabs)
  BY DEF IInv, PageInv, Open
<1>3. Typed(node') /\ templateCell' \in Nat
  BY DEF TreeInv, TreeOk, IInv, PageInv
<1>4. ASSUME current # None
      PROVE  text \in Texts
  <2>1. panel \in Texts /\ current \in Open /\ Open \subseteq DOMAIN node \cup {template}
    BY <1>4 DEF IInv, PageInv, TabsAreOfNodes
  <2>2. CASE current \in DOMAIN own'
    BY <2>1, <2>2 DEF HeldIn, Shows
  <2>3. CASE current \notin DOMAIN own'
    <3>1. current \in DOMAIN node'
      BY <2>1, <2>3
    <3> QED  BY <1>3, <2>1, <2>3, <3>1 DEF HeldIn, Typed, Node
  <2> QED  BY <2>2, <2>3
<1>5. cur \in ToSet(tabs) \cup {None}
  BY <1>2 DEF IInv, PageInv
<1>6. currentNode \in DOMAIN node' \cup {None} /\ ToSet(tabs) \subseteq DOMAIN node' \cup {template}
  BY <1>2 DEF IInv, PageInv, TabsAreOfNodes
<1> HIDE DEF cur, text
<1> QED  BY <1>1, <1>2, <1>3, <1>4, <1>5, <1>6, FrameFacts

LEMMA UpdatedFacts ==
    ASSUME IInv, NEW c \in DOMAIN node
    PROVE  /\ DOMAIN UpdatedTabs(c) \subseteq Open
           /\ \A x \in DOMAIN UpdatedTabs(c) : UpdatedTabs(c)[x] \in Shows
           /\ template \in Open => template \in DOMAIN UpdatedTabs(c)
           /\ \A x \in DOMAIN UpdatedTabs(c) \cap Within(c, disk) : UpdatedTabs(c)[x].text = disk[x].text
<1> DEFINE ids == Within(c, disk)
           old == Kept(Open, Below(c, disk))
           result == UpdatedTabs(c)
<1>1. TreeOk(node, disk) /\ Typed(disk) /\ Typed(node) /\ Agree(node, disk)
  BY DEF IInv, TreeInv, TreeOk
<1>2. ids \subseteq DOMAIN node /\ Below(c, disk) \subseteq DOMAIN node /\ DOMAIN disk = DOMAIN node
  BY <1>1, BranchFacts, AgreeFacts
<1>3. /\ DOMAIN old \subseteq Open
      /\ \A x \in DOMAIN old : old[x] \in Shows
      /\ template \in Open => template \in DOMAIN old
  <2>1. Open \in SUBSET Open /\ Below(c, disk) \in SUBSET DOMAIN node
    BY <1>2
  <2> QED  BY <2>1, KeptFacts
<1>4. result = [x \in DOMAIN old \ (ids \cap Collections) |->
                   IF x \in ids THEN [old[x] EXCEPT !.text = disk[x].text] ELSE old[x]]
  BY DEF UpdatedTabs
<1> HIDE DEF old, ids, result
<1>5. DOMAIN result = DOMAIN old \ (ids \cap Collections)
  BY <1>4
<1>6. \A x \in DOMAIN result : /\ result[x] \in Shows
                               /\ x \in ids => result[x].text = disk[x].text
  <2>1. \A x \in ids : disk[x].text \in Texts
    BY <1>1, <1>2 DEF Typed, Node
  <2> QED  BY <1>3, <1>4, <1>5, <2>1 DEF Shows
<1>7. template \notin Collections
  BY CollectionsAssumption
<1> QED  BY <1>3, <1>5, <1>6, <1>7 DEF result, ids

LEMMA ReloadCollectionKeeps ==
    ASSUME IInv, ReloadCollection
    PROVE  /\ IInv'
           /\ \A x \in Within(currentNode, disk) : node'[x].text = disk[x].text
<1> DEFINE c == currentNode
<1>1. /\ c \in Collections
      /\ ReloadFrom(c, node, disk)
      /\ own' = UpdatedTabs(c)
      /\ Shown(Within(c, disk))
      /\ templateCell' = templateCell
  BY DEF ReloadCollection
<1>2. c \in Collections \cap DOMAIN node
  BY <1>1, CollectionsAssumption DEF IInv, PageInv
<1>3. TreeOk(node, disk) /\ cell \in [Resources -> Nat]
  BY DEF IInv, TreeInv
<1>4. \A d \in (Collections \cap DOMAIN node) \ Within(c, disk) :
          bag[d] \in Seq(Resources) /\ ToSet(bag[d]) = Members(d, node)
  BY DEF IInv, TreeInv, BagsInv
<1>5. /\ disk' = disk /\ DOMAIN node' = DOMAIN node
      /\ TreeInv'
      /\ \A x \in Within(c, disk) : node'[x].text = disk[x].text
  BY <1>1, <1>2, <1>3, <1>4, Reloaded
<1>6. /\ DOMAIN own' \subseteq Open /\ \A y \in DOMAIN own' : own'[y] \in Shows
      /\ template \in Open => template \in DOMAIN own'
  BY <1>1, <1>2, UpdatedFacts
<1>7. PageInv'
  BY <1>1, <1>5, <1>6, ShownKeeps
<1> QED  BY <1>5, <1>7 DEF IInv

LEMMA ReloadResourceKeeps ==
    ASSUME IInv, ReloadResource
    PROVE  IInv' /\ node'[currentNode].text = disk[currentNode].text
<1> DEFINE r == currentNode
           old == node[r]
           new == [old EXCEPT !.text = disk[r].text, !.order = disk[r].order]
<1>1. /\ r \in Resources
      /\ node' = [node EXCEPT ![r].text = disk[r].text, ![r].order = disk[r].order]
      /\ cell' = [cell EXCEPT ![r] = 0]
      /\ own' = UpdatedTabs(r)
      /\ Shown({r})
      /\ UNCHANGED <<disk, bag, templateCell>>
  BY DEF ReloadResource
<1>2. r \in DOMAIN node
  BY <1>1, CollectionsAssumption DEF IInv, PageInv
<1>3. TreeOk(node, disk) /\ Typed(node) /\ Typed(disk)
  BY DEF IInv, TreeInv, TreeOk
<1>4. DOMAIN disk = DOMAIN node /\ \A x \in DOMAIN node : disk[x].up = node[x].up
  BY <1>3, AgreeFacts DEF TreeOk
<1>5. old \in Node /\ disk[r] \in Node
  BY <1>2, <1>3, <1>4 DEF Typed
<1>6. node' = [node EXCEPT ![r] = new]
  BY <1>1, <1>2
<1> HIDE DEF r, old
<1>7. new \in Node /\ new.up = old.up /\ new.text = disk[r].text
  BY <1>5 DEF Node
<1> HIDE DEF new
<1>8. /\ DOMAIN node' = DOMAIN node /\ node'[r] = new
      /\ \A x \in DOMAIN node : x # r => node'[x] = node[x]
  BY <1>2, <1>6
<1>9. Typed(node') /\ Typed(disk') /\ Clean(node', disk')
  BY <1>1, <1>3, <1>7, <1>8 DEF Typed, TreeOk, Clean
<1>10. \A x \in DOMAIN node : node'[x].up = node[x].up /\ disk'[x].up = node[x].up
  BY <1>1, <1>4, <1>7, <1>8 DEF old
<1>11. bag' = bag /\ cell' \in [Resources -> Nat] /\ DOMAIN disk' = DOMAIN node
  BY <1>1, <1>4 DEF IInv, TreeInv
<1>12. TreeInv'
  BY <1>8, <1>9, <1>10, <1>11, TreeKept DEF IInv
<1>13. /\ DOMAIN own' \subseteq Open /\ \A y \in DOMAIN own' : own'[y] \in Shows
       /\ template \in Open => template \in DOMAIN own'
  BY <1>1, <1>2, UpdatedFacts
<1>14. PageInv'
  BY <1>1, <1>8, <1>12, <1>13, ShownKeeps
<1> QED  BY <1>7, <1>8, <1>12, <1>14 DEF IInv, r

LEMMA RestartKeeps ==
    ASSUME IInv, Restart
    PROVE  IInv'
<1>1. /\ node' = disk /\ disk' = disk
      /\ bag' \in SortedBags(Collections \cap DOMAIN disk, disk)
      /\ cell' = [r \in Resources |-> 0] /\ templateCell' = 0
      /\ tabs' = <<>> /\ own' = <<>>
      /\ current' = None /\ panel' = None /\ currentNode' = None
  BY DEF Restart
<1>2. TreeOk(node, disk) /\ Agree(node, disk) /\ Typed(disk)
  BY DEF IInv, TreeInv, TreeOk
<1>3. Agree(disk, disk)
  <2>1. DOMAIN disk = DOMAIN node /\ \A x \in DOMAIN node : disk[x].up = node[x].up
    BY <1>2, AgreeFacts
  <2>2. root \in DOMAIN disk /\ \A x \in DOMAIN disk \ {root} : node[x].up \in DOMAIN disk
    BY <1>2, <2>1 DEF Agree, ParentsInv
  <2> QED  BY <1>2, <2>1, <2>2, ShapeKept
<1>4. TreeOk(node', disk')
  BY <1>1, <1>2, <1>3 DEF TreeOk, Clean
<1>5. /\ DOMAIN bag' = Collections \cap DOMAIN disk
      /\ \A c \in Collections \cap DOMAIN disk : bag'[c] \in Seq(Resources) /\ ToSet(bag'[c]) = Members(c, disk)
  BY <1>1, SortedBagsFacts
<1>6. BagsInv'
  BY <1>1, <1>5 DEF BagsInv
<1>7. TreeInv'
  BY <1>1, <1>4, <1>5, <1>6 DEF TreeInv
<1>8. ToSet(<<>>) = {} /\ IsInjective(<<>>) /\ <<>> \in Seq(Ids)
  BY DEF ToSet, IsInjective
<1>9. Open' = {}
  BY <1>1, <1>8 DEF Open
<1>10. None \notin DOMAIN node'
  BY <1>1, <1>2, CollectionsAssumption DEF Typed
<1>11. PageInv'
  BY <1>1, <1>8, <1>9, <1>10 DEF PageInv, TabsAreOfNodes
<1> QED  BY <1>7, <1>11 DEF IInv

\* What Reload and ReloadFrom need of other bags.
BagsOf(nodes, S) ==
    \A d \in (Collections \cap DOMAIN nodes) \ S :
        bag[d] \in Seq(Resources) /\ ToSet(bag[d]) = Members(d, nodes)

\* The nodes and files that the dialog leaves before the reload.
LEMMA ReorderTree ==
    ASSUME IInv, currentNode \in Collections,
           NEW s \in SetToSeqs(ToSet(bag[currentNode])),
           NEW nodes, nodes = Ordered(node, s, 1),
           NEW files, files = Written(disk, nodes, ToSet(s))
    PROVE  /\ currentNode \in DOMAIN node
           /\ s \in Seq(Resources) /\ IsInjective(s) /\ ToSet(s) = Members(currentNode, node)
           /\ Renumbered(nodes, node) /\ IsWritten(files, disk, nodes, ToSet(s))
           /\ TreeOk(nodes, files)
           /\ BagsOf(nodes, Within(currentNode, files))
<1> DEFINE c == currentNode
<1>2. /\ c \in Collections \cap DOMAIN node
      /\ c \in DOMAIN bag /\ DOMAIN bag = DOMAIN node \cap Collections
      /\ ToSet(bag[c]) = Members(c, node)
  BY CollectionsAssumption DEF IInv, PageInv, TreeInv, BagsInv
<1>3. s \in Seq(Resources) /\ ToSet(s) = Members(c, node) /\ IsInjective(s)
      /\ ToSet(s) \subseteq DOMAIN node
  <2> DEFINE M == Members(c, node)
  <2>1. M \subseteq Resources /\ M \subseteq DOMAIN node /\ s \in SetToSeqs(M)
    BY <1>2 DEF Members
  <2> HIDE DEF M
  <2>2. IsFiniteSet(M)
    BY <2>1, CollectionsAssumption, FS_Subset
  <2>3. s \in Seq(M) /\ ToSet(s) = M /\ IsInjective(s)
    BY <2>1, <2>2, SetToSeqsFacts
  <2> QED  BY <2>1, <2>3 DEF M
<1>4. TreeOk(node, disk) /\ Typed(node) /\ Typed(disk) /\ Agree(node, disk)
  BY DEF IInv, TreeInv, TreeOk
<1>5. Renumbered(nodes, node)
  <2>1. Renumbered(Ordered(node, s, 1), node)
    BY <1>3, <1>4, OrderedFacts
  <2> QED  BY <2>1
<1>6. /\ DOMAIN nodes = DOMAIN node /\ Typed(nodes)
      /\ \A x \in DOMAIN node : /\ nodes[x].up = node[x].up
                                /\ nodes[x].text = node[x].text /\ nodes[x].dirty = node[x].dirty
  BY <1>5 DEF Renumbered
<1>7. IsWritten(files, disk, nodes, ToSet(s))
  <2> DEFINE S == ToSet(s)
  <2>1. S \in SUBSET DOMAIN nodes
    BY <1>3, <1>6
  <2> HIDE DEF S
  <2>2. IsWritten(Written(disk, nodes, S), disk, nodes, S)
    BY <1>4, <1>6, <2>1, WrittenFacts
  <2> QED  BY <2>2 DEF S
<1>8. DOMAIN disk = DOMAIN node /\ \A x \in DOMAIN node : disk[x].up = node[x].up
  BY <1>4, AgreeFacts
<1>9. /\ DOMAIN files = DOMAIN node /\ Typed(files)
      /\ \A x \in DOMAIN node : /\ files[x].up = node[x].up
                                /\ ~nodes[x].dirty => files[x].text = nodes[x].text
  <2>1. DOMAIN files = DOMAIN node /\ Typed(files)
    BY <1>3, <1>7, <1>8 DEF IsWritten
  <2>2. ASSUME NEW x \in DOMAIN node
        PROVE  /\ files[x].up = node[x].up
               /\ ~nodes[x].dirty => files[x].text = nodes[x].text
    <3>1. CASE x \in ToSet(s)
      BY <1>6, <1>7, <3>1 DEF IsWritten
    <3>2. CASE x \notin ToSet(s)
      <4>1. files[x] = disk[x]
        BY <1>7, <1>8, <3>2 DEF IsWritten
      <4> QED  BY <1>4, <1>6, <1>8, <4>1 DEF TreeOk, Clean
    <3> QED  BY <3>1, <3>2
  <2> QED  BY <2>1, <2>2
<1>10. root \in DOMAIN nodes /\ \A x \in DOMAIN nodes \ {root} : node[x].up \in DOMAIN nodes
  BY <1>4, <1>6 DEF Agree, ParentsInv
<1>11. Agree(nodes, files)
  BY <1>4, <1>6, <1>9, <1>10, ShapeKept
<1>12. TreeOk(nodes, files)
  BY <1>6, <1>9, <1>11 DEF TreeOk, Clean
<1>13. \A d : Members(d, nodes) = Members(d, node)
  BY <1>6 DEF Members
<1>14. BagsOf(nodes, Within(c, files))
  BY <1>6, <1>13 DEF IInv, TreeInv, BagsInv, BagsOf
<1> QED  BY <1>2, <1>3, <1>5, <1>7, <1>12, <1>14

LEMMA ReorderKeeps ==
    ASSUME IInv, currentNode \in Collections,
           NEW s \in SetToSeqs(ToSet(bag[currentNode])), Reorder(s)
    PROVE  IInv'
<1> DEFINE c == currentNode
           nodes == Ordered(node, s, 1)
           files == Written(disk, nodes, ToSet(s))
<1>1. /\ ReloadFrom(c, nodes, files)
      /\ own' = Kept(Open, Below(c, files))
      /\ Shown({})
      /\ templateCell' = templateCell
  BY DEF Reorder
<1>2. /\ c \in Collections \cap DOMAIN node
      /\ Renumbered(nodes, node) /\ TreeOk(nodes, files) /\ BagsOf(nodes, Within(c, files))
  <2>1. nodes = Ordered(node, s, 1) /\ files = Written(disk, nodes, ToSet(s))
    OBVIOUS
  <2> HIDE DEF nodes, files
  <2> QED  BY <2>1, ReorderTree
<1> HIDE DEF nodes, files
<1>3. DOMAIN nodes = DOMAIN node /\ Agree(nodes, files) /\ Typed(nodes)
  BY <1>2 DEF Renumbered, TreeOk
<1>4. cell \in [Resources -> Nat] /\ c \in Collections \cap DOMAIN nodes
  BY <1>2, <1>3 DEF IInv, TreeInv
<1>5. DOMAIN node' = DOMAIN nodes /\ TreeInv'
  BY <1>1, <1>2, <1>4, Reloaded DEF BagsOf
<1>6. Open \in SUBSET Open /\ Below(c, files) \in SUBSET DOMAIN node
  BY <1>3, <1>4, BranchFacts
<1>7. /\ DOMAIN own' \subseteq Open /\ \A y \in DOMAIN own' : own'[y] \in Shows
      /\ template \in Open => template \in DOMAIN own'
  BY <1>1, <1>6, KeptFacts
<1>8. DOMAIN node' = DOMAIN node
  BY <1>3, <1>5
<1>9. PageInv'
  BY <1>1, <1>5, <1>7, <1>8, ShownKeeps
<1> QED  BY <1>5, <1>9 DEF IInv

\* What is left when the selection x is gone, its parent is reloaded and the
\* tabs on its branch are closed.
LEMMA RemovedKeeps ==
    ASSUME IInv, NEW x \in DOMAIN node, x = currentNode,
           NEW nodes, NEW files, TreeOk(nodes, files), DOMAIN nodes \subseteq DOMAIN node,
           DOMAIN node \ Within(x, node) \subseteq DOMAIN nodes,
           node[x].up \in Collections \cap DOMAIN nodes,
           BagsOf(nodes, Within(node[x].up, files)),
           Removed(x, nodes, files)
    PROVE  IInv'
<1> DEFINE p == node[x].up
           rest == TabsWithout(x)
           cur == IF current = x THEN None ELSE current
<1>1. /\ ReloadFrom(p, nodes, files)
      /\ own' = Kept(ToSet(rest), Below(p, node))
      /\ Frames(rest, cur, None, panel)
      /\ templateCell' = templateCell
  BY DEF Removed
<1>2. TreeOk(node, disk) /\ Agree(node, disk) /\ Typed(node)
  BY DEF IInv, TreeInv, TreeOk
<1>3. tabs \in Seq(Ids) /\ IsInjective(tabs) /\ Open = ToSet(tabs)
  BY DEF IInv, PageInv, Open
<1>4. rest \in Seq(Ids) /\ IsInjective(rest) /\ ToSet(rest) = Open \ Within(x, node)
  BY <1>3, RemainingFacts DEF TabsWithout
<1> HIDE DEF rest
<1>5. Within(x, node) \subseteq DOMAIN node /\ Below(p, node) \subseteq DOMAIN node
  <2>1. p \in DOMAIN node
    OBVIOUS
  <2> HIDE DEF p
  <2> QED  BY <1>2, <2>1, BranchFacts
<1>6. cell \in [Resources -> Nat]
  BY DEF IInv, TreeInv
<1>7. DOMAIN node' = DOMAIN nodes /\ TreeInv'
  <2>1. p \in Collections \cap DOMAIN nodes
    OBVIOUS
  <2>2. \A d \in (Collections \cap DOMAIN nodes) \ Within(p, files) :
            bag[d] \in Seq(Resources) /\ ToSet(bag[d]) = Members(d, nodes)
    BY DEF BagsOf
  <2> HIDE DEF p
  <2> QED  BY <1>1, <1>6, <2>1, <2>2, Reloaded
<1>8. ToSet(rest) \subseteq DOMAIN node' \cup {template}
  BY <1>4, <1>7 DEF IInv, PageInv, TabsAreOfNodes
<1>9. cur \in ToSet(rest) \cup {None}
  <2>1. CASE current \in Within(x, node)
    <3>1. current = x
      BY <1>5, <2>1 DEF IInv, PageInv
    <3> QED  BY <3>1
  <2>2. CASE current \notin Within(x, node)
    BY <1>4, <2>2 DEF IInv, PageInv
  <2> QED  BY <2>1, <2>2
<1>10. /\ DOMAIN own' \subseteq ToSet(rest)
       /\ \A y \in DOMAIN own' : own'[y] \in Shows
       /\ template \in ToSet(rest) => template \in DOMAIN own'
  <2>1. ToSet(rest) \in SUBSET Open /\ Below(p, node) \in SUBSET DOMAIN node
    BY <1>4, <1>5
  <2> HIDE DEF p
  <2> QED  BY <1>1, <2>1, KeptFacts
<1>11. /\ Typed(node') /\ templateCell' \in Nat
       /\ current # None => panel \in Texts
  BY <1>1, <1>7 DEF TreeInv, TreeOk, IInv, PageInv
<1> HIDE DEF cur, p
<1>12. PageInv'
  BY <1>1, <1>4, <1>8, <1>9, <1>10, <1>11, FrameFacts
<1> QED  BY <1>7, <1>12 DEF IInv

Place(r) == CHOOSE i \in DOMAIN bag[node[r].up] : bag[node[r].up][i] = r

\* What RemoveResource leaves before the parent is reloaded.
NodesWithout(r) ==
    Ordered(Without(node, {r}), RemoveAt(bag[node[r].up], Place(r)), Place(r))

FilesWithout(r) ==
    Without(Written(disk, NodesWithout(r), Within(node[r].up, NodesWithout(r))), {r})

\* What RemoveCollection leaves.
NodesOutside(c) ==
    [x \in DOMAIN node \ Within(c, node) |->
        IF x \in Resources /\ \E d \in Collections \cap Within(c, node) :
               \E i \in DOMAIN bag[d] \ {1} : SameOrder(x, bag[d][i])
        THEN [node[x] EXCEPT !.order = 0] ELSE node[x]]

FilesOutside(c) == Without(disk, Within(c, node))

LEMMA RemoveResourceTree ==
    ASSUME IInv, NEW r \in Resources, r = currentNode
    PROVE  /\ r \in DOMAIN node /\ node[r].up \in Collections \cap DOMAIN NodesWithout(r)
           /\ bag[node[r].up] \in Seq(Resources) /\ ToSet(bag[node[r].up]) = Members(node[r].up, node)
           /\ Place(r) \in 1 .. Len(bag[node[r].up]) /\ bag[node[r].up][Place(r)] = r
           /\ DOMAIN NodesWithout(r) = DOMAIN node \ {r}
           /\ \A x \in DOMAIN NodesWithout(r) :
                  FilesWithout(r)[x].order = IF x \in Within(node[r].up, NodesWithout(r))
                                             THEN NodesWithout(r)[x].order ELSE disk[x].order
           /\ TreeOk(NodesWithout(r), FilesWithout(r))
           /\ BagsOf(NodesWithout(r), Within(node[r].up, FilesWithout(r)))
<1> DEFINE p == node[r].up
           place == Place(r)
           left == Without(node, {r})
           nodes == NodesWithout(r)
           written == Written(disk, nodes, Within(p, nodes))
           files == FilesWithout(r)
<1>2. TreeOk(node, disk) /\ Agree(node, disk) /\ Typed(node) /\ Typed(disk)
  BY DEF IInv, TreeInv, TreeOk
<1>3. r \in DOMAIN node /\ r \notin Collections /\ r # root
  BY CollectionsAssumption DEF IInv, PageInv
<1>4. p \in Collections \cap DOMAIN node
  BY <1>2, <1>3 DEF Agree, ParentsInv
<1> DEFINE b == bag[p]
<1>5. /\ b \in Seq(Resources) /\ ToSet(b) = Members(p, node)
      /\ DOMAIN bag = DOMAIN node \cap Collections
  BY <1>4 DEF IInv, TreeInv, BagsInv
<1>6. r \in Members(p, node)
  BY <1>3 DEF Members
<1> HIDE DEF b
<1>7. place \in 1 .. Len(b) /\ b[place] = r
  <2>1. \E i \in DOMAIN b : b[i] = r
    BY <1>5, <1>6 DEF ToSet
  <2>2. DOMAIN b = 1 .. Len(b)
    BY <1>5, SeqFacts
  <2>3. place = CHOOSE i \in DOMAIN b : b[i] = r
    BY DEF b, Place
  <2> HIDE DEF place
  <2> QED  BY <2>1, <2>2, <2>3
<1> HIDE DEF place
<1>8. RemoveAt(b, place) \in Seq(Resources) /\ place \in Nat \ {0}
  <2>1. RemoveAt(b, place) \in Seq(Resources)
    BY <1>5, <1>7, RemoveAtProperties
  <2>2. Len(b) \in Nat
    BY <1>5, LenProperties
  <2> QED  BY <1>7, <2>1, <2>2
<1>9. Typed(left) /\ DOMAIN left = DOMAIN node \ {r} /\ \A x \in DOMAIN left : left[x] = node[x]
  BY <1>2 DEF Without, Restrict, Typed
<1> HIDE DEF left
<1>10. Renumbered(nodes, left)
  <2>1. nodes = Ordered(left, RemoveAt(b, place), place)
    BY DEF b, left, place, NodesWithout
  <2> HIDE DEF nodes
  <2> QED  BY <1>8, <1>9, <2>1, OrderedFacts
<1> HIDE DEF nodes
<1>11. /\ DOMAIN nodes = DOMAIN node \ {r} /\ Typed(nodes)
       /\ \A x \in DOMAIN nodes : /\ nodes[x].up = node[x].up
                                  /\ nodes[x].text = node[x].text /\ nodes[x].dirty = node[x].dirty
  BY <1>9, <1>10 DEF Renumbered
<1>12. /\ root \in DOMAIN nodes /\ DOMAIN nodes \subseteq DOMAIN node
       /\ \A x \in DOMAIN nodes \ {root} : node[x].up \in DOMAIN nodes
  BY <1>2, <1>3, <1>11 DEF Agree, ParentsInv
<1>13. Agree(nodes, nodes)
  BY <1>2, <1>11, <1>12, ShapeKept
<1>14. p \in Collections \cap DOMAIN nodes
  BY <1>3, <1>4, <1>11
<1>15. Within(p, nodes) \in SUBSET DOMAIN nodes
  BY <1>11, <1>13, <1>14, BranchFacts
<1>16. IsWritten(written, disk, nodes, Within(p, nodes))
  <2> DEFINE S == Within(p, nodes)
  <2>1. S \in SUBSET DOMAIN nodes
    BY <1>15
  <2> HIDE DEF S
  <2>2. IsWritten(Written(disk, nodes, S), disk, nodes, S)
    BY <1>2, <1>11, <2>1, WrittenFacts
  <2> QED  BY <2>2 DEF S
<1>24. files = Without(written, {r})
  BY DEF FilesWithout, nodes
<1> HIDE DEF written, files
<1>17. DOMAIN disk = DOMAIN node /\ \A x \in DOMAIN node : disk[x].up = node[x].up
  BY <1>2, AgreeFacts
<1>18. /\ DOMAIN files = DOMAIN nodes /\ Typed(files)
       /\ \A x \in DOMAIN nodes : files[x] = written[x]
  <2>1. DOMAIN written = DOMAIN node /\ Typed(written)
    BY <1>12, <1>15, <1>16, <1>17 DEF IsWritten
  <2> QED  BY <1>11, <1>24, <2>1 DEF Without, Restrict, Typed
<1>19. ASSUME NEW x \in DOMAIN nodes
       PROVE  /\ files[x].up = node[x].up
              /\ files[x].order = IF x \in Within(p, nodes) THEN nodes[x].order ELSE disk[x].order
              /\ ~nodes[x].dirty => files[x].text = nodes[x].text
  <2>1. CASE x \in Within(p, nodes)
    BY <1>11, <1>16, <1>18, <2>1 DEF IsWritten
  <2>2. CASE x \notin Within(p, nodes)
    <3>1. files[x] = disk[x] /\ x \in DOMAIN node
      BY <1>12, <1>16, <1>17, <1>18, <2>2 DEF IsWritten
    <3> QED  BY <1>2, <1>11, <1>17, <2>2, <3>1 DEF TreeOk, Clean
  <2> QED  BY <2>1, <2>2
<1>20. Agree(nodes, files)
  BY <1>2, <1>11, <1>12, <1>18, <1>19, ShapeKept
<1>21. TreeOk(nodes, files)
  BY <1>11, <1>18, <1>19, <1>20 DEF TreeOk, Clean
<1>22. BagsOf(nodes, Within(p, files))
  <2>1. \A d : d # p => Members(d, nodes) = Members(d, node)
    BY <1>11 DEF Members
  <2> QED  BY <1>5, <1>12, <2>1 DEF Within, IInv, TreeInv, BagsInv, BagsOf
<1> QED  BY <1>3, <1>4, <1>5, <1>7, <1>10, <1>11, <1>14, <1>18, <1>19, <1>21, <1>22
           DEF b, place, nodes, files

LEMMA RemoveResourceKeeps ==
    ASSUME IInv, RemoveResource
    PROVE  IInv'
<1> DEFINE r == currentNode
<1>1. r \in Resources /\ Removed(r, NodesWithout(r), FilesWithout(r))
  BY DEF RemoveResource, FilesWithout, NodesWithout, Place
<1>2. r = currentNode
  OBVIOUS
<1> HIDE DEF r
<1>3. /\ r \in DOMAIN node /\ node[r].up \in Collections \cap DOMAIN NodesWithout(r)
      /\ DOMAIN NodesWithout(r) = DOMAIN node \ {r}
      /\ TreeOk(NodesWithout(r), FilesWithout(r))
      /\ BagsOf(NodesWithout(r), Within(node[r].up, FilesWithout(r)))
  BY <1>1, <1>2, RemoveResourceTree
<1>4. /\ DOMAIN node \ Within(r, node) \subseteq DOMAIN NodesWithout(r)
      /\ DOMAIN NodesWithout(r) \subseteq DOMAIN node
  BY <1>3 DEF Within
<1> QED  BY <1>1, <1>2, <1>3, <1>4, RemovedKeeps

LEMMA RemoveCollectionTree ==
    ASSUME IInv, NEW c \in Collections \ {root}, c = currentNode
    PROVE  /\ c \in DOMAIN node /\ node[c].up \in Collections \cap DOMAIN NodesOutside(c)
           /\ DOMAIN NodesOutside(c) = DOMAIN node \ Within(c, node)
           /\ \A x \in DOMAIN NodesOutside(c) : FilesOutside(c)[x] = disk[x]
           /\ \A d \in DOMAIN NodesOutside(c) :
                  d \in Collections => Members(d, NodesOutside(c)) = Members(d, node)
           /\ TreeOk(NodesOutside(c), FilesOutside(c))
           /\ BagsOf(NodesOutside(c), Within(node[c].up, FilesOutside(c)))
<1> DEFINE gone == Within(c, node)
           again(x) == x \in Resources /\ \E d \in Collections \cap gone :
                           \E i \in DOMAIN bag[d] \ {1} : SameOrder(x, bag[d][i])
           nodes == NodesOutside(c)
           files == FilesOutside(c)
           p == node[c].up
<1>1. /\ nodes = [x \in DOMAIN node \ gone |->
                     IF again(x) THEN [node[x] EXCEPT !.order = 0] ELSE node[x]]
      /\ files = Without(disk, gone)
  BY DEF NodesOutside, FilesOutside
<1> HIDE DEF nodes, files
<1>2. TreeOk(node, disk) /\ Agree(node, disk) /\ Typed(node) /\ Typed(disk)
  BY DEF IInv, TreeInv, TreeOk
<1>3. c \in DOMAIN node
  BY CollectionsAssumption DEF IInv, PageInv
<1>4. p \in Collections \cap DOMAIN node
  BY <1>2, <1>3 DEF Agree, ParentsInv
<1>5. /\ gone \subseteq DOMAIN node /\ c \in gone /\ p \notin gone
      /\ \A x \in DOMAIN node : x # c /\ x \in gone <=> x # c /\ node[x].up # None /\ node[x].up \in gone
  BY <1>2, <1>3, BranchFacts DEF Within
<1> HIDE DEF again, gone
<1>6. DOMAIN nodes = DOMAIN node \ gone
  BY <1>1
<1>7. \A x \in DOMAIN nodes : /\ nodes[x] \in Node /\ nodes[x].up = node[x].up
                              /\ nodes[x].text = node[x].text /\ nodes[x].dirty = node[x].dirty
  <2>1. ASSUME NEW x \in DOMAIN node \ gone
        PROVE  /\ nodes[x] \in Node /\ nodes[x].up = node[x].up
               /\ nodes[x].text = node[x].text /\ nodes[x].dirty = node[x].dirty
    <3>1. node[x] \in Node
      BY <1>2 DEF Typed
    <3>2. CASE again(x)
      BY <1>1, <3>1, <3>2 DEF Node
    <3>3. CASE ~again(x)
      BY <1>1, <3>1, <3>3
    <3> QED  BY <3>2, <3>3
  <2> QED  BY <1>6, <2>1
<1>8. DOMAIN disk = DOMAIN node /\ \A x \in DOMAIN node : disk[x].up = node[x].up
  BY <1>2, AgreeFacts
<1>9. DOMAIN files = DOMAIN nodes /\ \A x \in DOMAIN nodes : files[x] = disk[x]
  BY <1>1, <1>6, <1>8 DEF Without, Restrict
<1>10. root \in DOMAIN nodes /\ DOMAIN nodes \subseteq DOMAIN node
  <2>1. root \in DOMAIN node /\ node[root].up = None /\ root # c
    BY <1>2 DEF Agree
  <2> QED  BY <1>5, <1>6, <2>1
<1>11. \A x \in DOMAIN nodes \ {root} : node[x].up \in DOMAIN nodes
  <2>1. None \notin Collections
    BY CollectionsAssumption
  <2>2. \A x \in DOMAIN nodes \ {root} : node[x].up \in Collections \cap DOMAIN node
    BY <1>2, <1>10 DEF Agree, ParentsInv
  <2> QED  BY <1>5, <1>6, <2>1, <2>2
<1>12. Agree(nodes, files)
  BY <1>2, <1>7, <1>8, <1>9, <1>10, <1>11, ShapeKept
<1>13. TreeOk(nodes, files)
  BY <1>2, <1>7, <1>8, <1>9, <1>10, <1>12 DEF TreeOk, Typed, Clean
<1>14. \A d \in DOMAIN nodes : d \in Collections => Members(d, nodes) = Members(d, node)
  <2>1. ASSUME NEW d \in DOMAIN nodes, d \in Collections, NEW r \in Members(d, node)
        PROVE  r \in DOMAIN nodes
    <3>1. r \in DOMAIN node /\ r \in Resources /\ node[r].up = d
      BY <2>1 DEF Members
    <3>2. r # c /\ d \notin gone
      BY <1>6, <3>1, CollectionsAssumption
    <3> QED  BY <1>5, <1>6, <3>1, <3>2
  <2> QED  BY <1>7, <1>10, <2>1 DEF Members
<1>15. BagsOf(nodes, Within(p, files))
  BY <1>10, <1>14 DEF IInv, TreeInv, BagsInv, BagsOf
<1> QED  BY <1>3, <1>4, <1>5, <1>6, <1>9, <1>13, <1>14, <1>15 DEF gone, nodes, files

LEMMA RemoveCollectionKeeps ==
    ASSUME IInv, RemoveCollection
    PROVE  IInv'
<1> DEFINE c == currentNode
<1>1. c \in Collections \ {root} /\ Removed(c, NodesOutside(c), FilesOutside(c))
  BY DEF RemoveCollection, NodesOutside, FilesOutside
<1>2. c = currentNode
  OBVIOUS
<1> HIDE DEF c
<1>3. /\ c \in DOMAIN node /\ node[c].up \in Collections \cap DOMAIN NodesOutside(c)
      /\ DOMAIN NodesOutside(c) = DOMAIN node \ Within(c, node)
      /\ TreeOk(NodesOutside(c), FilesOutside(c))
      /\ BagsOf(NodesOutside(c), Within(node[c].up, FilesOutside(c)))
  BY <1>1, <1>2, RemoveCollectionTree
<1>4. /\ DOMAIN node \ Within(c, node) \subseteq DOMAIN NodesOutside(c)
      /\ DOMAIN NodesOutside(c) \subseteq DOMAIN node
  BY <1>3
<1> QED  BY <1>1, <1>2, <1>3, <1>4, RemovedKeeps

-----------------------------------------------------------------------------
(* The invariant.                                                          *)

LEMMA InitInv == Init => IInv
<1> SUFFICES ASSUME Init PROVE IInv
  OBVIOUS
<1>1. /\ disk = node /\ node = [x \in {root} |-> NewNode(None, 0)]
      /\ bag = [x \in {root} |-> <<>>]
      /\ cell = [r \in Resources |-> 0] /\ templateCell = 0
      /\ tabs = <<>> /\ own = <<>>
      /\ current = None /\ panel = None /\ currentNode = None
  BY DEF Init
<1>2. /\ NewNode(None, 0) \in Node /\ NewNode(None, 0).up = None
  BY CollectionsAssumption DEF NewNode, Node
<1>3. DOMAIN node = {root} /\ node[root] \in Node /\ node[root].up = None
  BY <1>1, <1>2
<1>4. root \in Collections /\ root # None /\ root \notin Resources /\ None \notin Ids
  BY CollectionsAssumption DEF Ids
<1>5. Typed(node) /\ ParentsInv(node) /\ Clean(node, disk)
  BY <1>1, <1>3, <1>4 DEF Typed, ParentsInv, Clean
<1>6. WellFounded(node)
  <2>1. ASSUME NEW S \in SUBSET DOMAIN node, S # {}
        PROVE  \E x \in S : node[x].up \notin S
    BY <1>3, <1>4, <2>1
  <2> QED  BY <2>1 DEF WellFounded
<1>7. TreeOk(node, disk)
  BY <1>1, <1>3, <1>5, <1>6 DEF TreeOk, Agree
<1>8. ToSet(<<>>) = {} /\ IsInjective(<<>>) /\ <<>> \in Seq(Ids) /\ <<>> \in Seq(Resources)
  BY DEF ToSet, IsInjective
<1>9. BagsInv /\ DOMAIN bag = DOMAIN node \cap Collections
  <2>1. Members(root, node) = {}
    BY <1>3, <1>4 DEF Members
  <2> QED  BY <1>1, <1>3, <1>4, <1>8, <2>1 DEF BagsInv
<1>10. TreeInv
  BY <1>1, <1>7, <1>9 DEF TreeInv
<1>11. Open = {}
  BY <1>1, <1>8 DEF Open
<1>12. PageInv
  BY <1>1, <1>3, <1>4, <1>8, <1>11 DEF PageInv, TabsAreOfNodes
<1> QED  BY <1>10, <1>12 DEF IInv

LEMMA NextInv == IInv /\ [Next]_vars => IInv'
<1> SUFFICES ASSUME IInv, [Next]_vars PROVE IInv'
  OBVIOUS
<1>1. CASE PageStep
  <2>1. ASSUME NEW x \in Open, SelectTab(x)
        PROVE  IInv'
    BY <2>1, SelectKeeps
  <2>2. CASE Close
    BY <2>2, CloseKeeps
  <2>3. ASSUME NEW t \in Texts, Edit(t)
        PROVE  IInv'
    BY <2>3, EditKeeps
  <2>4. CASE Save
    BY <2>4, SaveKeeps
  <2> QED  BY <1>1, <2>1, <2>2, <2>3, <2>4 DEF PageStep
<1>2. CASE TreeStep
  <2>1. ASSUME NEW x \in DOMAIN node, SelectNode(x)
        PROVE  IInv'
    BY <2>1, SelectKeeps
  <2>2. ASSUME NEW c \in Collections, NEW r \in Resources, AddResource(c, r)
        PROVE  IInv'
    BY <2>2, AddResourceKeeps
  <2>3. ASSUME NEW c \in Collections, NEW d \in Collections, AddCollection(c, d)
        PROVE  IInv'
    BY <2>3, AddCollectionKeeps
  <2>4. CASE Reload
    BY <2>4, ReloadCollectionKeeps, ReloadResourceKeeps DEF Reload
  <2>5. CASE RemoveSelected
    BY <2>5, RemoveResourceKeeps, RemoveCollectionKeeps DEF RemoveSelected
  <2>6. ASSUME currentNode \in Collections,
               NEW s \in SetToSeqs(ToSet(bag[currentNode])), Reorder(s)
        PROVE  IInv'
    BY <2>6, ReorderKeeps
  <2> QED  BY <1>2, <2>1, <2>2, <2>3, <2>4, <2>5, <2>6 DEF TreeStep
<1>3. CASE TemplateStep
  <2>1. CASE OpenTemplate
    BY <2>1, OpenTemplateKeeps
  <2>2. CASE CancelTemplate
    BY <2>2, CancelKeeps
  <2>3. ASSUME NEW c \in Collections, NEW r \in Resources, SaveTemplate(c, r)
        PROVE  IInv'
    BY <2>3, SaveTemplateKeeps
  <2> QED  BY <1>3, <2>1, <2>2, <2>3 DEF TemplateStep
<1>4. CASE Restart
  BY <1>4, RestartKeeps
<1>5. CASE UNCHANGED vars
  <2>1. TreeInv'
    BY <1>5, TreeUnchanged DEF IInv, vars
  <2>2. PageInv'
    BY <1>5 DEF IInv, PageInv, TabsAreOfNodes, Open, vars, treeVars, pageVars
  <2> QED  BY <2>1, <2>2 DEF IInv
<1> QED  BY <1>1, <1>2, <1>3, <1>4, <1>5 DEF Next

\* The tree in memory and its files keep one shape, and every tab shows a
\* node or the template, whatever menus and dialogs do and in any sequence.
THEOREM Invariance == Spec => []IInv
<1>1. Init => IInv
  BY InitInv
<1>2. IInv /\ [Next]_vars => IInv'
  BY NextInv
<1> QED  BY <1>1, <1>2, PTL DEF Spec

\* Nodes, files, bags and tabs stay what they are in the code.
THEOREM TypeCorrect == Spec => []TypeOK
<1>1. IInv => TypeOK
  BY Meanings
<1> QED  BY <1>1, Invariance, PTL

\* RemoveRefs closes the tab of whatever a removal takes out of the tree, on
\* any level below it, and the page has a current tab while one is open.
THEOREM NoOrphanTab == Spec => []TabsAreOfNodes
<1>1. IInv => TabsAreOfNodes
  BY DEF IInv, PageInv
<1> QED  BY <1>1, Invariance, PTL

\* What is not marked as changed is what its file has.
THEOREM CleanSaved == Spec => []CleanIsSaved
<1>1. IInv => CleanIsSaved
  BY Meanings
<1> QED  BY <1>1, Invariance, PTL

-----------------------------------------------------------------------------
(* Reload.                                                                 *)

\* Nothing is below a resource.
LEMMA NothingBelow ==
    ASSUME IInv, NEW r \in Resources \cap DOMAIN node
    PROVE  Within(r, disk) = {r}
<1>1. TreeOk(node, disk) /\ Agree(node, disk) /\ root \in Collections
  BY CollectionsAssumption DEF IInv, TreeInv, TreeOk
<1>2. /\ DOMAIN disk = DOMAIN node
      /\ \A x \in DOMAIN node : /\ disk[x].up = node[x].up
                                /\ node[x].up # None => node[x].up \in Collections \cap DOMAIN node
  BY <1>1, AgreeFacts
<1>3. \A x \in DOMAIN disk : disk[x].up # None => disk[x].up \in DOMAIN disk
  BY <1>2
<1> DEFINE B == Below(r, disk)
<1>4. /\ B \subseteq DOMAIN disk
      /\ \A x \in DOMAIN disk : x \in B <=> disk[x].up # None /\ (disk[x].up = r \/ disk[x].up \in B)
  BY <1>3, BelowFacts
<1> HIDE DEF B
<1>5. B = {}
  <2>1. SUFFICES ASSUME B # {} PROVE FALSE
    OBVIOUS
  <2>2. PICK x \in B : node[x].up \notin B
    BY <1>1, <1>2, <1>4, <2>1 DEF Agree, WellFounded
  <2>3. x \in DOMAIN node /\ node[x].up = r /\ node[x].up # None
    BY <1>2, <1>4, <2>2
  <2> QED  BY <1>2, <2>3, CollectionsAssumption
<1> QED  BY <1>5 DEF Within, B

\* Once the objects have been replaced and the tabs updated, the frames fill
\* the editor with what is in the files.
LEMMA ShownText ==
    ASSUME IInv, NEW c \in DOMAIN node, own' = UpdatedTabs(c),
           \A x \in Within(c, disk) : node'[x].text = disk[x].text,
           Shown(Within(c, disk)), NEW x \in Open \cap Within(c, disk)
    PROVE  /\ Held(x)'.text = disk[x].text
           /\ current' = x => panel' = disk[x].text
<1> DEFINE ids == Within(c, disk)
           cur == IF currentNode \in Open THEN currentNode ELSE current
           text == IF current \in ids THEN HeldIn(current, own', node').text ELSE panel
<1>1. \A y \in DOMAIN own' \cap ids : own'[y].text = disk[y].text
  BY UpdatedFacts
<1>2. HeldIn(x, own', node').text = disk[x].text
  BY <1>1 DEF HeldIn
<1>3. Held(x)' = HeldIn(x, own', node')
  BY DEF Held
<1>4. Frames(tabs, cur, currentNode, text)
  BY DEF Shown
<1>5. x # None
  BY Meanings
<1> HIDE DEF cur
<1>6. panel' = IF current' = None THEN None
               ELSE IF current' # current THEN HeldIn(current', own', node').text ELSE text
  BY <1>4 DEF Frames
<1>7. ASSUME current' = x
      PROVE  panel' = disk[x].text
  <2>1. CASE current # x
    BY <1>2, <1>5, <1>6, <1>7, <2>1
  <2>2. CASE current = x
    <3>1. text = HeldIn(x, own', node').text
      BY <2>2
    <3> HIDE DEF text
    <3> QED  BY <1>2, <1>5, <1>6, <1>7, <2>2, <3>1
  <2> QED  BY <2>1, <2>2
<1> QED  BY <1>2, <1>3, <1>7

\* Reload shows what is in the files in every tab below the selection, also
\* in those that still hold the object from before an earlier reload.
THEOREM ReloadShows == Spec => ReloadShowsFiles
<1> DEFINE Shows2 == \A x \in Open \cap Within(currentNode, disk) :
                        /\ Held(x)'.text = disk[x].text
                        /\ current' = x => panel' = disk[x].text
<1>1. ASSUME IInv, Reload
      PROVE  Shows2
  <2> DEFINE c == currentNode
  <2>1. CASE ReloadCollection
    <3>1. c \in DOMAIN node
      BY <1>1, <2>1, CollectionsAssumption DEF ReloadCollection, IInv, PageInv
    <3>2. own' = UpdatedTabs(c) /\ Shown(Within(c, disk))
      BY <2>1 DEF ReloadCollection
    <3>3. \A x \in Within(c, disk) : node'[x].text = disk[x].text
      BY <1>1, <2>1, ReloadCollectionKeeps
    <3> HIDE DEF c
    <3>4. ASSUME NEW x \in Open \cap Within(c, disk)
          PROVE  /\ Held(x)'.text = disk[x].text
                 /\ current' = x => panel' = disk[x].text
      BY <1>1, <3>1, <3>2, <3>3, ShownText
    <3> QED  BY <3>4 DEF c
  <2>2. CASE ReloadResource
    <3>1. c \in Resources \cap DOMAIN node
      BY <1>1, <2>2, CollectionsAssumption DEF ReloadResource, IInv, PageInv
    <3>2. own' = UpdatedTabs(c) /\ Shown({c})
      BY <2>2 DEF ReloadResource
    <3>3. node'[c].text = disk[c].text
      BY <1>1, <2>2, ReloadResourceKeeps
    <3> HIDE DEF c
    <3>4. Within(c, disk) = {c}
      BY <1>1, <3>1, NothingBelow
    <3>5. \A x \in Within(c, disk) : node'[x].text = disk[x].text
      BY <3>3, <3>4
    <3>6. Shown(Within(c, disk))
      BY <3>2, <3>4
    <3>7. ASSUME NEW x \in Open \cap Within(c, disk)
          PROVE  /\ Held(x)'.text = disk[x].text
                 /\ current' = x => panel' = disk[x].text
      BY <1>1, <3>1, <3>2, <3>5, <3>6, ShownText
    <3> QED  BY <3>7 DEF c
  <2> QED  BY <1>1, <2>1, <2>2 DEF Reload
<1>2. IInv /\ [Next]_vars => [Reload => Shows2]_vars
  BY <1>1
<1> QED  BY <1>2, Invariance, PTL DEF Spec, ReloadShowsFiles

-----------------------------------------------------------------------------
(* The numbers of resources, for a user who saves a template once.         *)

Counted(s, tree) == \A i \in DOMAIN s : tree[s[i]].order = i - 1

NumbersInv == \A c \in DOMAIN bag : Counted(bag[c], node) /\ Counted(bag[c], disk)

\* No two resources share a pointer.
CellsInv == \A r, q \in Resources : r # q /\ cell[r] = cell[q] => cell[r] = 0

CountedInv == IInv /\ NumbersInv /\ CellsInv

\* Sequences of all of a set in which nothing is twice are of one length.
LEMMA SameLength ==
    ASSUME NEW T, IsFiniteSet(T), NEW s \in Seq(T), NEW t \in Seq(T),
           ToSet(s) = ToSet(t), IsInjective(s), IsInjective(t)
    PROVE  Len(s) = Len(t)
<1> DEFINE M == ToSet(s)
<1>1. M = ToSet(t) /\ IsFiniteSet(M)
  BY SeqFacts, FS_Subset
<1>2. ASSUME NEW q \in Seq(T), ToSet(q) = M, IsInjective(q)
      PROVE  Cardinality(M) = Len(q)
  <2> DEFINE n == Len(q)
  <2>1. n \in Nat /\ DOMAIN q = 1 .. n /\ ToSet(q) = {q[i] : i \in 1 .. n}
    BY SeqFacts
  <2>2. q = [i \in 1 .. n |-> q[i]]
    BY <2>1
  <2> HIDE DEF n, M
  <2>3. q \in [1 .. n -> M] /\ \A x \in M : \E i \in 1 .. n : q[i] = x
    BY <1>2, <2>1, <2>2
  <2>4. q \in Injection(1 .. n, M) /\ q \in Surjection(1 .. n, M)
    BY <1>2, <2>3 DEF Injection, Surjection, IsInjective
  <2>5. Cardinality(M) = Cardinality(1 .. n)
    BY <1>1, <2>4, FS_Injection
  <2>6. Cardinality(1 .. n) = n
    BY <2>1, FS_Interval
  <2> QED  BY <2>5, <2>6 DEF n
<1> HIDE DEF M
<1>3. Cardinality(M) = Len(s) /\ Cardinality(M) = Len(t)
  <2>1. ToSet(s) = M
    BY DEF M
  <2> QED  BY <1>1, <1>2, <2>1
<1> QED  BY <1>3

\* Sorting resources that are counted somehow can only yield that sequence.
LEMMA OneSorted ==
    ASSUME NEW tree, NEW t \in Seq(Resources), Counted(t, tree),
           NEW s \in Seq(Resources), ToSet(s) = ToSet(t), IsInjective(s),
           \A i, j \in DOMAIN s : i < j => tree[s[i]].order <= tree[s[j]].order
    PROVE  Counted(s, tree)
<1> DEFINE n == Len(t)
           f == [i \in 1 .. n |-> tree[s[i]].order + 1]
<1>1. n \in Nat /\ DOMAIN t = 1 .. n /\ ToSet(t) = {t[i] : i \in 1 .. n}
  BY SeqFacts
<1>2. \A i \in 1 .. n : tree[t[i]].order = i - 1
  BY <1>1 DEF Counted
<1>3. IsInjective(t)
  <2> HIDE DEF n
  <2>1. ASSUME NEW i \in 1 .. n, NEW j \in 1 .. n, t[i] = t[j]
        PROVE  i = j
    <3>1. i - 1 = j - 1
      BY <1>2, <2>1
    <3> QED  BY <1>1, <3>1
  <2> QED  BY <1>1, <2>1 DEF IsInjective
<1>4. DOMAIN s = 1 .. n /\ ToSet(s) = {s[i] : i \in 1 .. n}
  <2>1. Len(s) = n
    BY <1>3, SameLength, CollectionsAssumption
  <2> QED  BY <2>1, SeqFacts
<1> HIDE DEF n
<1>5. ASSUME NEW i \in 1 .. n
      PROVE  f[i] \in 1 .. n /\ tree[s[i]].order = f[i] - 1 /\ s[i] = t[f[i]]
  <2>1. PICK j \in 1 .. n : s[i] = t[j]
    BY <1>1, <1>4
  <2>2. tree[s[i]].order = j - 1
    BY <1>2, <2>1
  <2>3. f[i] = j
    BY <1>1, <2>2
  <2> QED  BY <2>1, <2>2, <2>3
<1>6. f \in [1 .. n -> 1 .. n]
  BY <1>5
<1> HIDE DEF f
<1>7. ASSUME NEW i \in 1 .. n, NEW j \in 1 .. n, i < j
      PROVE  f[i] < f[j]
  <2>1. tree[s[i]].order <= tree[s[j]].order
    BY <1>4, <1>7
  <2>2. f[i] \in 1 .. n /\ f[j] \in 1 .. n /\ f[i] - 1 <= f[j] - 1
    BY <1>5, <2>1
  <2>3. f[i] # f[j]
    <3>1. i # j
      BY <1>1, <1>7
    <3>2. s[i] # s[j]
      BY <1>4, <3>1 DEF IsInjective
    <3> QED  BY <1>5, <3>2
  <2> QED  BY <1>1, <2>2, <2>3
<1>8. \A i \in 1 .. n : f[i] = i
  BY <1>1, <1>6, <1>7, OnlyOrder
<1> QED  BY <1>4, <1>5, <1>8 DEF Counted

\* The resources of each collection in S are counted in files in some sequence.
CanCount(S, files) ==
    \A d \in Collections \cap S :
        \E t \in Seq(Resources) : ToSet(t) = Members(d, files) /\ Counted(t, files)

\* The bags outside S show how nodes and files are counted.
OthersCounted(nodes, files, S) ==
    \A d \in (Collections \cap DOMAIN nodes) \ S :
        Counted(bag[d], nodes) /\ Counted(bag[d], files)

LEMMA SortedIsCounted ==
    ASSUME NEW files, NEW S \in SUBSET Collections, CanCount(S, files),
           NEW b \in SortedBags(S, files), NEW d \in S
    PROVE  Counted(b[d], files)
<1>1. PICK t \in Seq(Resources) : ToSet(t) = Members(d, files) /\ Counted(t, files)
  BY DEF CanCount
<1> DEFINE s == b[d]
<1>2. /\ s \in Seq(Resources) /\ ToSet(s) = Members(d, files) /\ IsInjective(s)
      /\ \A i, j \in DOMAIN s : i < j => files[s[i]].order <= files[s[j]].order
  BY SortedBagsFacts
<1> HIDE DEF s
<1>3. Counted(s, files)
  BY <1>1, <1>2, OneSorted
<1> QED  BY <1>3 DEF s

LEMMA ReloadedNumbers ==
    ASSUME NEW nodes, NEW files, TreeOk(nodes, files),
           NEW c \in Collections \cap DOMAIN nodes,
           CanCount(Within(c, files), files),
           BagsOf(nodes, Within(c, files)), OthersCounted(nodes, files, Within(c, files)),
           CellsInv, ReloadFrom(c, nodes, files)
    PROVE  NumbersInv' /\ CellsInv'
<1> DEFINE inside == Below(c, files)
           cols == Collections \cap Within(c, files)
           at(x) == IF x = c THEN [nodes[c] EXCEPT !.text = files[c].text]
                    ELSE IF x \in inside THEN files[x] ELSE nodes[x]
<1>1. /\ disk' = files
      /\ node' = [x \in DOMAIN nodes |-> at(x)]
      /\ cell' = [r \in Resources |-> IF r \in inside THEN 0 ELSE cell[r]]
      /\ \E b \in SortedBags(cols, files) :
             bag' = [d \in Collections \cap DOMAIN nodes |-> IF d \in cols THEN b[d] ELSE bag[d]]
  BY Zenon DEF ReloadFrom
<1>2. PICK b \in SortedBags(cols, files) :
        bag' = [d \in Collections \cap DOMAIN nodes |-> IF d \in cols THEN b[d] ELSE bag[d]]
  BY <1>1, Zenon
<1>3. /\ DOMAIN files = DOMAIN nodes
      /\ \A x \in DOMAIN nodes : files[x].up = nodes[x].up
      /\ \A x \in DOMAIN nodes : files[x].up # None => files[x].up \in DOMAIN nodes
      /\ \A d : Members(d, files) = Members(d, nodes)
  BY AgreeFacts DEF TreeOk
<1>4. /\ inside \subseteq DOMAIN nodes
      /\ \A x \in DOMAIN nodes :
             x \in inside <=> files[x].up # None /\ files[x].up \in Within(c, files)
  <2>1. \A x \in DOMAIN files : files[x].up # None => files[x].up \in DOMAIN files
    BY <1>3
  <2> QED  BY <1>3, <2>1, BelowFacts DEF Within
<1>5. \A x \in Resources \cap DOMAIN nodes :
          node'[x] = IF x \in inside THEN files[x] ELSE nodes[x]
  <2>1. c \notin Resources
    BY CollectionsAssumption
  <2> QED  BY <1>1, <2>1
<1> HIDE DEF at, inside
<1>6. ASSUME NEW d \in cols
      PROVE  Counted(b[d], node') /\ Counted(b[d], disk')
  <2>1. Counted(b[d], files)
    <3>1. cols \in SUBSET Collections /\ CanCount(cols, files)
      BY DEF CanCount
    <3> HIDE DEF cols
    <3> QED  BY <3>1, SortedIsCounted
  <2> DEFINE s == b[d]
  <2>2. s \in Seq(Resources) /\ ToSet(s) = Members(d, files)
    BY SortedBagsFacts
  <2> HIDE DEF s
  <2>3. \A i \in DOMAIN s : s[i] \in Members(d, files)
    BY <2>2 DEF ToSet
  <2>4. d \in Within(c, files) /\ d # None
    BY CollectionsAssumption
  <2>5. \A x \in Members(d, files) : node'[x] = files[x]
    BY <1>3, <1>4, <1>5, <2>4 DEF Members
  <2> QED  BY <1>1, <2>1, <2>3, <2>5 DEF Counted, s
<1>7. ASSUME NEW d \in (Collections \cap DOMAIN nodes) \ Within(c, files)
      PROVE  Counted(bag[d], node') /\ Counted(bag[d], disk')
  <2> DEFINE s == bag[d]
  <2>1. Counted(s, nodes) /\ Counted(s, files)
    BY DEF OthersCounted
  <2>2. s \in Seq(Resources) /\ ToSet(s) = Members(d, nodes)
    BY DEF BagsOf
  <2> HIDE DEF s
  <2>3. \A i \in DOMAIN s : s[i] \in Members(d, nodes)
    BY <2>2 DEF ToSet
  <2>4. \A x \in Members(d, nodes) : node'[x] = nodes[x]
    BY <1>3, <1>4, <1>5 DEF Members
  <2> QED  BY <1>1, <2>1, <2>3, <2>4 DEF Counted, s
<1>8. ASSUME NEW d \in DOMAIN bag'
      PROVE  Counted(bag'[d], node') /\ Counted(bag'[d], disk')
  <2>1. d \in Collections \cap DOMAIN nodes /\ bag'[d] = IF d \in cols THEN b[d] ELSE bag[d]
    BY <1>2
  <2>2. CASE d \in cols
    BY <1>6, <2>1, <2>2
  <2>3. CASE d \notin cols
    <3>1. d \in (Collections \cap DOMAIN nodes) \ Within(c, files)
      BY <2>1, <2>3
    <3>2. bag'[d] = bag[d]
      BY <2>1, <2>3
    <3> HIDE DEF cols
    <3> QED  BY <1>7, <3>1, <3>2
  <2> QED  BY <2>2, <2>3
<1>9. CellsInv'
  <2>1. \A r \in Resources : cell'[r] = IF r \in inside THEN 0 ELSE cell[r]
    BY <1>1
  <2> QED  BY <2>1 DEF CellsInv
<1> QED  BY <1>8, <1>9 DEF NumbersInv

\* With no pointer shared each resource in s gets its own index.
LEMMA OrderedNumbers ==
    ASSUME CellsInv, NEW nodes, Typed(nodes),
           NEW s \in Seq(Resources), IsInjective(s), NEW from \in Nat \ {0}
    PROVE  /\ \A i \in from .. Len(s) : s[i] \in DOMAIN nodes => Ordered(nodes, s, from)[s[i]].order = i - 1
           /\ \A x \in DOMAIN nodes :
                  (\A i \in from .. Len(s) : s[i] # x) => Ordered(nodes, s, from)[x] = nodes[x]
<1> DEFINE at(x) == {i \in from..Len(s) : x \in Resources /\ SameOrder(x, s[i])}
           result == Ordered(nodes, s, from)
<1>1. result = [x \in DOMAIN nodes |->
                   IF at(x) = {} THEN nodes[x] ELSE [nodes[x] EXCEPT !.order = Max(at(x)) - 1]]
  BY DEF Ordered
<1> HIDE DEF result
<1>2. Len(s) \in Nat /\ DOMAIN s = 1 .. Len(s) /\ \A i \in 1 .. Len(s) : s[i] \in Resources
  BY SeqFacts
<1>3. \A r, q \in Resources : SameOrder(r, q) <=> r = q
  BY DEF SameOrder, CellsInv
<1>4. ASSUME NEW i \in from .. Len(s), s[i] \in DOMAIN nodes
      PROVE  result[s[i]].order = i - 1
  <2>1. i \in 1 .. Len(s)
    BY <1>2
  <2>2. \A j \in from .. Len(s) : s[i] = s[j] => j = i
    BY <1>2, <2>1 DEF IsInjective
  <2>3. at(s[i]) = {i}
    BY <1>2, <1>3, <2>1, <2>2
  <2>4. Max({i}) = i
    <3> DEFINE T == {i}
    <3>1. T \in SUBSET (0 .. Len(s)) /\ T # {}
      BY <1>2, <2>1
    <3> HIDE DEF T
    <3>2. Max(T) \in T
      BY <1>2, <3>1, MaxFacts
    <3> QED  BY <3>2 DEF T
  <2>5. nodes[s[i]] \in Node
    BY <1>4 DEF Typed
  <2>6. result[s[i]] = [nodes[s[i]] EXCEPT !.order = Max(at(s[i])) - 1]
    BY <1>1, <1>4, <2>3
  <2> HIDE DEF at
  <2> QED  BY <2>3, <2>4, <2>5, <2>6 DEF Node
<1>5. ASSUME NEW x \in DOMAIN nodes, \A i \in from .. Len(s) : s[i] # x
      PROVE  result[x] = nodes[x]
  <2>1. at(x) = {}
    BY <1>2, <1>3, <1>5
  <2> QED  BY <1>1, <2>1
<1> QED  BY <1>4, <1>5 DEF result

\* What a resource is and which bag shows it.
LEMMA ShownIn ==
    ASSUME IInv, NEW r \in Resources \cap DOMAIN node
    PROVE  /\ node[r].up \in DOMAIN bag
           /\ \E i \in DOMAIN bag[node[r].up] : bag[node[r].up][i] = r
<1>1. /\ DOMAIN bag = DOMAIN node \cap Collections
      /\ \A c \in DOMAIN bag : ToSet(bag[c]) = Members(c, node)
      /\ ParentsInv(node) /\ r # root
  BY CollectionsAssumption DEF IInv, TreeInv, TreeOk, Agree, BagsInv
<1>2. node[r].up \in DOMAIN bag /\ r \in Members(node[r].up, node)
  BY <1>1 DEF ParentsInv, Members
<1> QED  BY <1>1, <1>2 DEF ToSet

LEMMA SameNumbers ==
    ASSUME CountedInv, NEW r \in Resources \cap DOMAIN node
    PROVE  disk[r].order = node[r].order
<1> DEFINE s == bag[node[r].up]
<1>1. node[r].up \in DOMAIN bag
  BY ShownIn DEF CountedInv
<1>2. PICK i \in DOMAIN s : s[i] = r
  BY ShownIn DEF CountedInv
<1>3. Counted(s, node) /\ Counted(s, disk)
  BY <1>1 DEF CountedInv, NumbersInv
<1> QED  BY <1>2, <1>3 DEF Counted

LEMMA NumbersKept ==
    ASSUME CountedInv, bag' = bag,
           \A r \in Resources \cap DOMAIN node :
               node'[r].order = node[r].order /\ disk'[r].order = disk[r].order
    PROVE  NumbersInv'
<1>1. ASSUME NEW c \in DOMAIN bag
      PROVE  Counted(bag[c], node') /\ Counted(bag[c], disk')
  <2>1. /\ bag[c] \in Seq(Resources) /\ ToSet(bag[c]) = Members(c, node)
        /\ Counted(bag[c], node) /\ Counted(bag[c], disk)
    BY DEF CountedInv, IInv, TreeInv, BagsInv, NumbersInv
  <2>2. \A i \in DOMAIN bag[c] : bag[c][i] \in Resources \cap DOMAIN node
    BY <2>1 DEF ToSet, Members
  <2> QED  BY <2>1, <2>2 DEF Counted
<1> QED  BY <1>1 DEF NumbersInv

LEMMA EditNumbers ==
    ASSUME CountedInv, NEW t \in Texts, Edit(t)
    PROVE  NumbersInv' /\ CellsInv'
<1> DEFINE dirty == Held(current).dirty \/ Held(current).text # t
<1>1. current # None /\ SetCurrent(t, dirty) /\ bag' = bag /\ disk' = disk /\ cell' = cell
  BY DEF Edit
<1>2. dirty \in BOOLEAN
  <2>1. current \in DOMAIN own \cup DOMAIN node
    BY <1>1 DEF CountedInv, IInv, PageInv, TabsAreOfNodes
  <2>2. Held(current) \in Shows
    BY <2>1, HeldFacts DEF CountedInv
  <2> QED  BY <2>2 DEF Shows
<1> HIDE DEF dirty
<1>3. \A x \in DOMAIN node : node'[x].order = node[x].order
  BY <1>1, <1>2, SetCurrentFacts DEF CountedInv
<1>4. NumbersInv'
  BY <1>1, <1>3, NumbersKept
<1> QED  BY <1>1, <1>4 DEF CountedInv, CellsInv

LEMMA SaveNumbers ==
    ASSUME CountedInv, Save
    PROVE  NumbersInv' /\ CellsInv'
<1> DEFINE saved == [node' EXCEPT ![current].dirty = node[current].dirty]
<1>1. /\ current \in Collections \cup Resources
      /\ SetCurrent(panel, FALSE)
      /\ disk' = IF current \in DOMAIN node THEN Written(disk, saved, {current}) ELSE disk
      /\ bag' = bag /\ cell' = cell
  BY DEF Save
<1>2. current # None /\ panel \in Texts /\ current \in DOMAIN node
  BY <1>1, CollectionsAssumption DEF CountedInv, IInv, PageInv, TabsAreOfNodes
<1>3. /\ DOMAIN node' = DOMAIN node /\ Typed(node')
      /\ \A x \in DOMAIN node : node'[x].order = node[x].order
  <2>1. FALSE \in BOOLEAN
    OBVIOUS
  <2> QED  BY <1>1, <1>2, <2>1, SetCurrentFacts DEF CountedInv
<1>4. DOMAIN disk = DOMAIN node
  BY DEF CountedInv, IInv, TreeInv, TreeOk, Agree
<1>5. saved[current].order = node[current].order /\ saved[current] \in Node
  <2> DEFINE flag == node[current].dirty
             old == node'[current]
  <2>1. old \in Node /\ flag \in BOOLEAN
    BY <1>2, <1>3 DEF CountedInv, IInv, TreeInv, TreeOk, Typed, Node
  <2>2. saved[current] = [old EXCEPT !.dirty = flag] /\ old.order = node[current].order
    BY <1>2, <1>3
  <2> HIDE DEF flag, old, saved
  <2> QED  BY <2>1, <2>2 DEF Node
<1> HIDE DEF saved
<1>6. /\ \A x \in DOMAIN node : x # current => disk'[x] = disk[x]
      /\ disk'[current].order = saved[current].order
  <2> DEFINE flag == saved[current].dirty /\ current \in Resources
  <2>1. flag \in BOOLEAN
    OBVIOUS
  <2>2. disk' = [x \in {current} \cup DOMAIN disk |->
                    IF x \in {current} THEN [saved[x] EXCEPT !.dirty = @ /\ x \in Resources]
                    ELSE disk[x]]
    BY <1>1, <1>2 DEF Written
  <2>3. disk'[current] = [saved[current] EXCEPT !.dirty = flag]
    BY <2>2
  <2>4. \A x \in DOMAIN node : x # current => disk'[x] = disk[x]
    BY <1>4, <2>2
  <2> HIDE DEF flag
  <2> QED  BY <1>5, <2>1, <2>3, <2>4 DEF Node
<1>7. \A r \in Resources \cap DOMAIN node : disk'[r].order = disk[r].order
  BY <1>5, <1>6, SameNumbers
<1>8. NumbersInv'
  BY <1>1, <1>3, <1>7, NumbersKept
<1> QED  BY <1>1, <1>8 DEF CountedInv, CellsInv

LEMMA ReloadResourceNumbers ==
    ASSUME CountedInv, ReloadResource
    PROVE  NumbersInv' /\ CellsInv'
<1> DEFINE r == currentNode
<1>1. /\ r \in Resources
      /\ node' = [node EXCEPT ![r].text = disk[r].text, ![r].order = disk[r].order]
      /\ cell' = [cell EXCEPT ![r] = 0] /\ disk' = disk /\ bag' = bag
  BY DEF ReloadResource
<1>2. r \in DOMAIN node
  BY <1>1, CollectionsAssumption DEF CountedInv, IInv, PageInv
<1>3. Typed(node) /\ node[r] \in Node /\ cell \in [Resources -> Nat]
  BY <1>2 DEF CountedInv, IInv, TreeInv, TreeOk, Typed
<1>4. disk[r].order = node[r].order
  BY <1>1, <1>2, SameNumbers
<1> HIDE DEF r
<1>5. \A x \in DOMAIN node : node'[x].order = node[x].order
  BY <1>1, <1>2, <1>3, <1>4 DEF Node
<1>6. NumbersInv'
  BY <1>1, <1>5, NumbersKept
<1>7. CellsInv'
  BY <1>1, <1>3 DEF CountedInv, CellsInv
<1> QED  BY <1>6, <1>7

LEMMA ReloadCollectionNumbers ==
    ASSUME CountedInv, ReloadCollection
    PROVE  NumbersInv' /\ CellsInv'
<1> DEFINE c == currentNode
<1>1. c \in Collections /\ ReloadFrom(c, node, disk)
  BY DEF ReloadCollection
<1>2. c \in Collections \cap DOMAIN node
  BY <1>1, CollectionsAssumption DEF CountedInv, IInv, PageInv
<1>3. TreeOk(node, disk) /\ Typed(node) /\ Agree(node, disk)
  BY DEF CountedInv, IInv, TreeInv, TreeOk
<1>4. /\ Within(c, disk) \subseteq DOMAIN node
      /\ \A d : Members(d, disk) = Members(d, node)
  BY <1>2, <1>3, BranchFacts, AgreeFacts
<1>5. \A d \in Collections \cap DOMAIN node :
          /\ bag[d] \in Seq(Resources) /\ ToSet(bag[d]) = Members(d, node)
          /\ Counted(bag[d], node) /\ Counted(bag[d], disk)
  BY DEF CountedInv, IInv, TreeInv, BagsInv, NumbersInv
<1>6. CanCount(Within(c, disk), disk)
  BY <1>4, <1>5 DEF CanCount
<1>7. BagsOf(node, Within(c, disk)) /\ OthersCounted(node, disk, Within(c, disk))
  BY <1>5 DEF BagsOf, OthersCounted
<1> HIDE DEF c
<1> QED  BY <1>1, <1>2, <1>3, <1>6, <1>7, ReloadedNumbers DEF CountedInv

LEMMA RestartNumbers ==
    ASSUME CountedInv, Restart
    PROVE  NumbersInv' /\ CellsInv'
<1> DEFINE S == Collections \cap DOMAIN disk
<1>1. /\ node' = disk /\ disk' = disk /\ bag' \in SortedBags(S, disk)
      /\ cell' = [r \in Resources |-> 0]
  BY DEF Restart
<1>2. Agree(node, disk) /\ DOMAIN disk = DOMAIN node /\ \A d : Members(d, disk) = Members(d, node)
  BY AgreeFacts DEF CountedInv, IInv, TreeInv, TreeOk
<1>3. CanCount(S, disk)
  BY <1>2 DEF CountedInv, IInv, TreeInv, BagsInv, NumbersInv, CanCount
<1>4. S \in SUBSET Collections
  OBVIOUS
<1> HIDE DEF S
<1>5. DOMAIN bag' = S /\ \A d \in S : Counted(bag'[d], disk)
  BY <1>1, <1>3, <1>4, SortedBagsFacts, SortedIsCounted
<1>6. NumbersInv'
  BY <1>1, <1>5 DEF NumbersInv
<1> QED  BY <1>1, <1>6 DEF CellsInv

\* A new resource gets the number behind those of its collection.
LEMMA AddedNumbers ==
    ASSUME CountedInv, NEW c \in Collections \cap DOMAIN node,
           NEW r \in Resources, r \notin DOMAIN node,
           NEW nodes, DOMAIN nodes = DOMAIN node, \A x \in DOMAIN node : nodes[x] = node[x],
           NEW n \in Node, n.order = Len(bag[c]),
           node' = With(nodes, r, n), disk' = Written(disk, node', {r}),
           bag' = [bag EXCEPT ![c] = Append(@, r)]
    PROVE  NumbersInv'
<1>1. /\ DOMAIN bag = DOMAIN node \cap Collections
      /\ \A d \in DOMAIN bag : /\ bag[d] \in Seq(Resources) /\ ToSet(bag[d]) = Members(d, node)
                               /\ Counted(bag[d], node) /\ Counted(bag[d], disk)
  BY DEF CountedInv, IInv, TreeInv, BagsInv, NumbersInv
<1>2. DOMAIN disk = DOMAIN node
  BY DEF CountedInv, IInv, TreeInv, TreeOk, Agree
<1>3. node'[r] = n /\ \A x \in DOMAIN node : node'[x] = node[x]
  BY DEF With
<1>4. disk'[r].order = n.order /\ \A x \in DOMAIN node : disk'[x] = disk[x]
  <2> DEFINE flag == n.dirty /\ r \in Resources
  <2>1. flag \in BOOLEAN
    OBVIOUS
  <2>2. disk' = [x \in {r} \cup DOMAIN disk |->
                    IF x \in {r} THEN [node'[x] EXCEPT !.dirty = @ /\ x \in Resources]
                    ELSE disk[x]]
    BY DEF Written
  <2>3. disk'[r] = [n EXCEPT !.dirty = flag]
    BY <1>3, <2>2
  <2>4. \A x \in DOMAIN node : disk'[x] = disk[x]
    BY <1>2, <2>2
  <2> HIDE DEF flag
  <2> QED  BY <2>1, <2>3, <2>4 DEF Node
<1>5. ASSUME NEW d \in DOMAIN bag
      PROVE  Counted(bag[d], node') /\ Counted(bag[d], disk')
  <2> DEFINE s == bag[d]
  <2>1. Counted(s, node) /\ Counted(s, disk) /\ ToSet(s) = Members(d, node)
    BY <1>1
  <2> HIDE DEF s
  <2>2. \A i \in DOMAIN s : s[i] \in DOMAIN node
    BY <2>1 DEF ToSet, Members
  <2> QED  BY <1>3, <1>4, <2>1, <2>2 DEF Counted, s
<1>6. Counted(Append(bag[c], r), node') /\ Counted(Append(bag[c], r), disk')
  <2> DEFINE s == bag[c]
             t == Append(s, r)
  <2>1. s \in Seq(Resources) /\ Counted(s, node') /\ Counted(s, disk') /\ n.order = Len(s)
    BY <1>1, <1>5
  <2> HIDE DEF s
  <2>2. Len(s) \in Nat /\ DOMAIN s = 1 .. Len(s)
    BY <2>1, SeqFacts
  <2>3. /\ DOMAIN t = 1 .. Len(s) + 1
        /\ \A i \in 1 .. Len(s) : t[i] = s[i]
        /\ t[Len(s) + 1] = r
    <3>1. t \in Seq(Resources) /\ Len(t) = Len(s) + 1
      BY <2>1, AppendProperties
    <3> QED  BY <2>1, <3>1, AppendProperties, SeqFacts
  <2> HIDE DEF t
  <2>4. ASSUME NEW i \in DOMAIN t
        PROVE  node'[t[i]].order = i - 1 /\ disk'[t[i]].order = i - 1
    <3>1. CASE i \in 1 .. Len(s)
      BY <2>1, <2>2, <2>3, <3>1 DEF Counted
    <3>2. CASE i = Len(s) + 1
      BY <1>3, <1>4, <2>1, <2>2, <2>3, <3>2
    <3> QED  BY <2>2, <2>3, <3>1, <3>2
  <2> QED  BY <2>4 DEF Counted, s, t
<1>7. /\ DOMAIN bag' = DOMAIN bag /\ bag'[c] = Append(bag[c], r)
      /\ \A d \in DOMAIN bag : d # c => bag'[d] = bag[d]
  BY <1>1
<1> QED  BY <1>5, <1>6, <1>7 DEF NumbersInv

LEMMA AddResourceNumbers ==
    ASSUME CountedInv, NEW c \in Collections, NEW r \in Resources, AddResource(c, r)
    PROVE  NumbersInv' /\ CellsInv'
<1> DEFINE n == NewNode(c, Len(bag[c]))
<1>1. /\ c \in Collections \cap DOMAIN node /\ r \notin DOMAIN node
      /\ node' = With(node, r, n) /\ disk' = Written(disk, node', {r})
      /\ bag' = [bag EXCEPT ![c] = Append(@, r)]
      /\ cell' = [cell EXCEPT ![r] = 0]
  BY DEF AddResource, Add, Fresh
<1>2. n \in Node /\ n.order = Len(bag[c])
  <2>1. bag[c] \in Seq(Resources)
    BY <1>1 DEF CountedInv, IInv, TreeInv, BagsInv
  <2>2. Len(bag[c]) \in Nat
    BY <2>1, LenProperties
  <2> QED  BY <2>2, NewNodeFacts DEF NewNode
<1> HIDE DEF n
<1>3. NumbersInv'
  BY <1>1, <1>2, AddedNumbers
<1>4. CellsInv'
  BY <1>1 DEF CountedInv, IInv, TreeInv, CellsInv
<1> QED  BY <1>3, <1>4

\* The pointer of a template that has not been saved is no other's, so the
\* assignment through it changes the new resource only.
LEMMA SaveTemplateNumbers ==
    ASSUME CountedInv, NEW c \in Collections, NEW r \in Resources,
           templateCell \notin Range(cell), SaveTemplate(c, r)
    PROVE  NumbersInv' /\ CellsInv'
<1> DEFINE order == Len(bag[c])
           ordered == [x \in DOMAIN node |->
               IF x \in Resources /\ cell[x] = templateCell
               THEN [node[x] EXCEPT !.order = order] ELSE node[x]]
           n == [NewNode(c, order) EXCEPT !.text = own[template].text]
<1>1. /\ current = template /\ c \in Collections \cap DOMAIN node /\ r \notin DOMAIN node
      /\ node' = With(ordered, r, n) /\ disk' = Written(disk, node', {r})
      /\ bag' = [bag EXCEPT ![c] = Append(@, r)]
      /\ cell' = [cell EXCEPT ![r] = templateCell]
  BY DEF SaveTemplate, Fresh
<1>2. cell \in [Resources -> Nat]
  BY DEF CountedInv, IInv, TreeInv
<1>3. \A q \in Resources : cell[q] # templateCell
  BY <1>2 DEF Range
<1>4. DOMAIN ordered = DOMAIN node /\ \A x \in DOMAIN node : ordered[x] = node[x]
  BY <1>3
<1>5. n \in Node /\ n.order = order
  <2>1. template \in DOMAIN own /\ own[template] \in Shows
    BY <1>1, CollectionsAssumption DEF CountedInv, IInv, PageInv
  <2>2. bag[c] \in Seq(Resources)
    BY <1>1 DEF CountedInv, IInv, TreeInv, BagsInv
  <2>3. order \in Nat
    BY <2>2, LenProperties
  <2> HIDE DEF order
  <2>4. NewNode(c, order) \in Node /\ NewNode(c, order).order = order
    BY <2>3, NewNodeFacts DEF NewNode
  <2> QED  BY <2>1, <2>4 DEF Node, Shows
<1> HIDE DEF ordered, n
<1>6. NumbersInv'
  BY <1>1, <1>4, <1>5, AddedNumbers
<1>7. CellsInv'
  BY <1>1, <1>2, <1>3 DEF CountedInv, CellsInv
<1> QED  BY <1>6, <1>7

LEMMA AddCollectionNumbers ==
    ASSUME CountedInv, NEW c \in Collections, NEW d \in Collections, AddCollection(c, d)
    PROVE  NumbersInv' /\ CellsInv'
<1>1. /\ d \notin DOMAIN node
      /\ node' = With(node, d, NewNode(c, 0)) /\ disk' = Written(disk, node', {d})
      /\ bag' = With(bag, d, <<>>) /\ cell' = cell
  BY DEF AddCollection, Add, Fresh
<1>2. d \notin Resources
  BY CollectionsAssumption
<1>3. DOMAIN disk = DOMAIN node
  BY DEF CountedInv, IInv, TreeInv, TreeOk, Agree
<1>4. \A x \in DOMAIN node : node'[x] = node[x] /\ disk'[x] = disk[x]
  BY <1>1, <1>3 DEF With, Written
<1>5. /\ DOMAIN bag' = {d} \cup DOMAIN bag /\ bag'[d] = <<>>
      /\ \A e \in DOMAIN bag : e # d => bag'[e] = bag[e]
  BY <1>1 DEF With
<1>6. Counted(<<>>, node') /\ Counted(<<>>, disk')
  BY DEF Counted
<1>7. ASSUME NEW e \in DOMAIN bag
      PROVE  Counted(bag[e], node') /\ Counted(bag[e], disk')
  <2> DEFINE s == bag[e]
  <2>1. Counted(s, node) /\ Counted(s, disk) /\ ToSet(s) = Members(e, node)
    BY DEF CountedInv, IInv, TreeInv, BagsInv, NumbersInv
  <2> HIDE DEF s
  <2>2. \A i \in DOMAIN s : s[i] \in DOMAIN node
    BY <2>1 DEF ToSet, Members
  <2> QED  BY <1>4, <2>1, <2>2 DEF Counted, s
<1>8. NumbersInv'
  <2>1. ASSUME NEW e \in DOMAIN bag'
        PROVE  Counted(bag'[e], node') /\ Counted(bag'[e], disk')
    <3>1. CASE e = d
      BY <1>5, <1>6, <3>1
    <3>2. CASE e # d
      BY <1>5, <1>7, <3>2
    <3> QED  BY <3>1, <3>2
  <2> QED  BY <2>1 DEF NumbersInv
<1> QED  BY <1>1, <1>8 DEF CountedInv, CellsInv

\* doReorder: the bag in its new sequence is counted in memory and in files.
LEMMA ReorderNumbers ==
    ASSUME CountedInv, currentNode \in Collections,
           NEW s \in SetToSeqs(ToSet(bag[currentNode])), Reorder(s)
    PROVE  NumbersInv' /\ CellsInv'
<1> DEFINE c == currentNode
           nodes == Ordered(node, s, 1)
           files == Written(disk, nodes, ToSet(s))
<1>1. ReloadFrom(c, nodes, files) /\ nodes = Ordered(node, s, 1) /\ files = Written(disk, nodes, ToSet(s))
  BY DEF Reorder
<1> HIDE DEF files
<1>2. /\ c \in DOMAIN node
      /\ s \in Seq(Resources) /\ IsInjective(s) /\ ToSet(s) = Members(c, node)
      /\ Renumbered(nodes, node) /\ IsWritten(files, disk, nodes, ToSet(s))
      /\ TreeOk(nodes, files)
      /\ BagsOf(nodes, Within(c, files))
  <2> HIDE DEF nodes
  <2> QED  BY <1>1, ReorderTree DEF CountedInv
<1>3. Typed(node) /\ DOMAIN disk = DOMAIN node
  BY DEF CountedInv, IInv, TreeInv, TreeOk, Agree
<1>4. Len(s) \in Nat /\ DOMAIN s = 1 .. Len(s) /\ ToSet(s) = {s[i] : i \in 1 .. Len(s)}
  BY <1>2, SeqFacts
<1>5. /\ \A i \in 1 .. Len(s) : s[i] \in DOMAIN node => nodes[s[i]].order = i - 1
      /\ \A x \in DOMAIN node : (\A i \in 1 .. Len(s) : s[i] # x) => nodes[x] = node[x]
  BY <1>2, <1>3, OrderedNumbers DEF CountedInv
<1> HIDE DEF nodes
<1>6. /\ DOMAIN nodes = DOMAIN node /\ DOMAIN files = DOMAIN node
      /\ \A d : Members(d, nodes) = Members(d, node) /\ Members(d, files) = Members(d, node)
  <2>1. \A x \in DOMAIN node : nodes[x].up = node[x].up
    BY <1>2 DEF Renumbered
  <2>2. DOMAIN nodes = DOMAIN node /\ Agree(nodes, files)
    BY <1>2 DEF Renumbered, TreeOk
  <2> QED  BY <2>1, <2>2, AgreeFacts DEF Members
<1>7. Counted(s, nodes) /\ Counted(s, files)
  <2>1. \A i \in DOMAIN s : s[i] \in DOMAIN node /\ s[i] \in ToSet(s)
    BY <1>2, <1>4 DEF Members
  <2>2. \A x \in ToSet(s) : files[x].order = nodes[x].order
    BY <1>2 DEF IsWritten
  <2> QED  BY <1>4, <1>5, <2>1, <2>2 DEF Counted
<1>8. ASSUME NEW d \in Collections \cap DOMAIN node, d # c
      PROVE  /\ bag[d] \in Seq(Resources) /\ ToSet(bag[d]) = Members(d, node)
             /\ Counted(bag[d], nodes) /\ Counted(bag[d], files)
  <2> DEFINE b == bag[d]
  <2>1. /\ b \in Seq(Resources) /\ ToSet(b) = Members(d, node)
        /\ Counted(b, node) /\ Counted(b, disk)
    BY DEF CountedInv, IInv, TreeInv, BagsInv, NumbersInv
  <2> HIDE DEF b
  <2>2. \A i \in DOMAIN b : b[i] \in DOMAIN node /\ b[i] \notin ToSet(s)
    BY <1>2, <1>8, <2>1 DEF ToSet, Members
  <2>3. \A x \in DOMAIN node : x \notin ToSet(s) => nodes[x] = node[x] /\ files[x] = disk[x]
    BY <1>2, <1>3, <1>4, <1>5 DEF IsWritten
  <2> QED  BY <2>1, <2>2, <2>3 DEF Counted, b
<1>9. CanCount(Within(c, files), files)
  <2>1. Within(c, files) \subseteq DOMAIN node
    BY <1>2, <1>6, BranchFacts DEF TreeOk
  <2>2. ASSUME NEW d \in Collections \cap Within(c, files)
        PROVE  \E t \in Seq(Resources) : ToSet(t) = Members(d, files) /\ Counted(t, files)
    <3>1. CASE d = c
      BY <1>2, <1>6, <1>7, <3>1
    <3>2. CASE d # c
      BY <1>6, <1>8, <2>1, <3>2
    <3> QED  BY <3>1, <3>2
  <2> QED  BY <2>2 DEF CanCount
<1>10. OthersCounted(nodes, files, Within(c, files))
  BY <1>6, <1>8 DEF OthersCounted, Within
<1>11. c \in Collections \cap DOMAIN nodes
  BY <1>2, <1>6
<1> HIDE DEF c
<1> QED  BY <1>1, <1>2, <1>9, <1>10, <1>11, ReloadedNumbers DEF CountedInv

\* Those behind the removed resource move up, and all of the collection is
\* saved with its new numbers.
LEMMA RemoveResourceNumbers ==
    ASSUME CountedInv, RemoveResource
    PROVE  NumbersInv' /\ CellsInv'
<1> DEFINE r == currentNode
           p == node[r].up
           nodes == NodesWithout(r)
           files == FilesWithout(r)
           b == bag[p]
           k == Place(r)
           left == RemoveAt(b, k)
<1>1. r \in Resources /\ r = currentNode /\ ReloadFrom(p, nodes, files)
  BY DEF RemoveResource, Removed, FilesWithout, NodesWithout, Place
<1>2. nodes = Ordered(Without(node, {r}), left, k)
  BY DEF NodesWithout
<1> HIDE DEF r, nodes, files, k
<1>3. /\ r \in DOMAIN node /\ p \in Collections \cap DOMAIN nodes
      /\ b \in Seq(Resources) /\ ToSet(b) = Members(p, node)
      /\ k \in 1 .. Len(b) /\ b[k] = r
      /\ DOMAIN nodes = DOMAIN node \ {r}
      /\ \A x \in DOMAIN nodes : files[x].order = IF x \in Within(p, nodes) THEN nodes[x].order
                                                  ELSE disk[x].order
      /\ TreeOk(nodes, files)
      /\ BagsOf(nodes, Within(p, files))
  BY <1>1, RemoveResourceTree DEF CountedInv, nodes, files, k
<1>4. Counted(b, node) /\ Counted(b, disk) /\ Typed(node)
  BY <1>3 DEF CountedInv, IInv, TreeInv, TreeOk, NumbersInv
<1> HIDE DEF p, b
<1>5. Len(b) \in Nat /\ DOMAIN b = 1 .. Len(b) /\ ToSet(b) = {b[i] : i \in 1 .. Len(b)}
  BY <1>3, SeqFacts
<1>6. IsInjective(b)
  <2>1. ASSUME NEW i \in 1 .. Len(b), NEW j \in 1 .. Len(b), b[i] = b[j]
        PROVE  i = j
    <3>1. i - 1 = j - 1
      BY <1>4, <1>5, <2>1 DEF Counted
    <3> QED  BY <1>5, <3>1
  <2> QED  BY <1>5, <2>1 DEF IsInjective
<1>7. /\ left \in Seq(Resources) /\ Len(left) = Len(b) - 1
      /\ \A i \in 1 .. Len(b) - 1 : left[i] = IF i < k THEN b[i] ELSE b[i + 1]
      /\ IsInjective(left)
  BY <1>3, <1>6, RemoveAtProperties, RemoveAtInjective
<1>8. ToSet(left) = Members(p, node) \ {r}
  <2>1. \A i \in 1 .. Len(b) : i # k => \E j \in 1 .. Len(b) - 1 : left[j] = b[i]
    BY <1>3, RemoveAtKeeps
  <2>2. \A j \in 1 .. Len(b) - 1 : \E i \in 1 .. Len(b) : i # k /\ left[j] = b[i]
    BY <1>3, RemoveAtKeeps
  <2> HIDE DEF left
  <2>3. ToSet(left) = {left[j] : j \in 1 .. Len(b) - 1}
    BY <1>7, SeqFacts
  <2>4. \A i \in 1 .. Len(b) : b[i] = r => i = k
    BY <1>3, <1>5, <1>6 DEF IsInjective
  <2>5. ASSUME NEW x \in ToSet(left)
        PROVE  x \in ToSet(b) /\ x # r
    <3>1. PICK j \in 1 .. Len(b) - 1 : left[j] = x
      BY <2>3
    <3>2. PICK i \in 1 .. Len(b) : i # k /\ left[j] = b[i]
      BY <2>2
    <3> QED  BY <1>5, <2>4, <3>1, <3>2
  <2>6. ASSUME NEW x \in ToSet(b), x # r
        PROVE  x \in ToSet(left)
    <3>1. PICK i \in 1 .. Len(b) : b[i] = x
      BY <1>5
    <3>2. i # k
      BY <1>3, <2>6, <3>1
    <3> QED  BY <2>1, <2>3, <3>1, <3>2
  <2> QED  BY <1>3, <2>5, <2>6
<1> HIDE DEF left
<1>9. DOMAIN left = 1 .. Len(b) - 1
  BY <1>7, SeqFacts
<1>10. /\ \A i \in k .. Len(b) - 1 : left[i] \in DOMAIN nodes => nodes[left[i]].order = i - 1
       /\ \A x \in DOMAIN nodes : (\A i \in k .. Len(b) - 1 : left[i] # x) => nodes[x] = node[x]
  <2> DEFINE rest == Without(node, {r})
  <2>1. Typed(rest) /\ DOMAIN rest = DOMAIN nodes /\ \A x \in DOMAIN nodes : rest[x] = node[x]
    BY <1>3, <1>4 DEF Without, Restrict, Typed
  <2>2. k \in Nat \ {0} /\ nodes = Ordered(rest, left, k)
    BY <1>2, <1>3, <1>5
  <2> HIDE DEF rest
  <2>3. /\ \A i \in k .. Len(left) : left[i] \in DOMAIN rest => Ordered(rest, left, k)[left[i]].order = i - 1
        /\ \A x \in DOMAIN rest :
               (\A i \in k .. Len(left) : left[i] # x) => Ordered(rest, left, k)[x] = rest[x]
    BY <1>7, <2>1, <2>2, OrderedNumbers DEF CountedInv
  <2> QED  BY <1>7, <2>1, <2>2, <2>3
<1>11. /\ DOMAIN files = DOMAIN nodes
       /\ \A x \in DOMAIN nodes : nodes[x].up = node[x].up
       /\ \A d : Members(d, files) = Members(d, nodes)
       /\ \A d : Members(d, nodes) = Members(d, node) \ {r}
  <2>1. Renumbered(nodes, Without(node, {r}))
    <3>1. Typed(Without(node, {r})) /\ k \in Nat \ {0}
      BY <1>3, <1>4, <1>5 DEF Without, Restrict, Typed
    <3> QED  BY <1>2, <1>7, <3>1, OrderedFacts
  <2>2. \A x \in DOMAIN nodes : nodes[x].up = node[x].up
    BY <1>3, <2>1 DEF Renumbered, Without, Restrict
  <2>3. Agree(nodes, files)
    BY <1>3 DEF TreeOk
  <2> QED  BY <1>3, <2>2, <2>3, AgreeFacts DEF Members
<1>12. Counted(left, nodes) /\ Counted(left, files)
  <2>1. ASSUME NEW i \in DOMAIN left
        PROVE  nodes[left[i]].order = i - 1 /\ files[left[i]].order = i - 1
    <3>1. left[i] \in DOMAIN nodes /\ nodes[left[i]].up = p
      <4>1. left[i] \in ToSet(left)
        BY <1>9 DEF ToSet
      <4> QED  BY <1>3, <1>8, <1>11, <4>1 DEF Members
    <3>2. left[i] \in Within(p, nodes)
      <4>1. p # None /\ p \in DOMAIN nodes /\ Typed(nodes) /\ Agree(nodes, files)
        BY <1>3, CollectionsAssumption DEF TreeOk
      <4>2. /\ p \in Within(p, nodes)
            /\ \A x \in DOMAIN nodes : x \in Below(p, nodes) <=>
                   nodes[x].up # None /\ nodes[x].up \in Within(p, nodes)
        BY <4>1, BranchFacts
      <4>3. left[i] \in Below(p, nodes)
        BY <3>1, <4>1, <4>2
      <4> QED  BY <4>3 DEF Within
    <3>3. nodes[left[i]].order = i - 1
      <4>1. CASE i \in k .. Len(b) - 1
        BY <1>10, <3>1, <4>1
      <4>2. CASE i \notin k .. Len(b) - 1
        <5>1. i \in 1 .. Len(b) /\ i < k /\ left[i] = b[i]
          BY <1>3, <1>5, <1>7, <1>9, <4>2
        <5>2. \A j \in k .. Len(b) - 1 : left[j] # left[i]
          <6>1. \A j \in k .. Len(b) - 1 : j \in DOMAIN left /\ j # i
            BY <1>3, <1>5, <1>9, <4>2
          <6> QED  BY <1>7, <6>1 DEF IsInjective
        <5>3. nodes[left[i]] = node[left[i]]
          BY <1>10, <3>1, <5>2
        <5> QED  BY <1>4, <1>5, <5>1, <5>3 DEF Counted
      <4> QED  BY <4>1, <4>2
    <3> QED  BY <1>3, <3>1, <3>2, <3>3
  <2> QED  BY <2>1 DEF Counted
<1>13. ASSUME NEW d \in Collections \cap DOMAIN node, d # p
       PROVE  /\ bag[d] \in Seq(Resources) /\ ToSet(bag[d]) = Members(d, files)
              /\ Counted(bag[d], nodes) /\ Counted(bag[d], files)
  <2> DEFINE s == bag[d]
  <2>1. /\ s \in Seq(Resources) /\ ToSet(s) = Members(d, node)
        /\ Counted(s, node) /\ Counted(s, disk)
    BY DEF CountedInv, IInv, TreeInv, BagsInv, NumbersInv
  <2> HIDE DEF s
  <2>2. r \notin Members(d, node)
    BY <1>13 DEF Members, p
  <2>3. ASSUME NEW i \in DOMAIN s
        PROVE  s[i] \in DOMAIN nodes /\ nodes[s[i]] = node[s[i]]
    <3>1. s[i] \in Members(d, node)
      BY <2>1 DEF ToSet
    <3>2. s[i] \in DOMAIN nodes /\ s[i] \notin Members(p, node)
      BY <1>3, <1>13, <2>2, <3>1 DEF Members
    <3>3. \A j \in k .. Len(b) - 1 : left[j] \in Members(p, node)
      <4>1. \A j \in DOMAIN left : left[j] \in ToSet(left)
        BY DEF ToSet
      <4>2. \A j \in k .. Len(b) - 1 : j \in DOMAIN left
        BY <1>3, <1>5, <1>9
      <4> QED  BY <1>8, <4>1, <4>2
    <3> QED  BY <1>10, <3>2, <3>3
  <2>4. ToSet(s) = Members(d, files)
    BY <1>11, <2>1, <2>2
  <2>5. Counted(s, nodes) /\ Counted(s, files)
    BY <1>3, <2>1, <2>3 DEF Counted
  <2> QED  BY <2>1, <2>4, <2>5 DEF s
<1>14. CanCount(Within(p, files), files)
  <2>1. Within(p, files) \subseteq DOMAIN node
    BY <1>3, BranchFacts DEF TreeOk
  <2>2. ASSUME NEW d \in Collections \cap Within(p, files)
        PROVE  \E t \in Seq(Resources) : ToSet(t) = Members(d, files) /\ Counted(t, files)
    <3>1. CASE d = p
      BY <1>7, <1>8, <1>11, <1>12, <3>1
    <3>2. CASE d # p
      BY <1>13, <2>1, <3>2
    <3> QED  BY <3>1, <3>2
  <2> QED  BY <2>2 DEF CanCount
<1>15. OthersCounted(nodes, files, Within(p, files))
  BY <1>3, <1>13 DEF OthersCounted, Within
<1> QED  BY <1>1, <1>3, <1>14, <1>15, ReloadedNumbers DEF CountedInv

\* A removed collection takes all of its resources with it: nobody else's
\* number is assigned.
LEMMA RemoveCollectionNumbers ==
    ASSUME CountedInv, RemoveCollection
    PROVE  NumbersInv' /\ CellsInv'
<1> DEFINE c == currentNode
           p == node[c].up
           nodes == NodesOutside(c)
           files == FilesOutside(c)
           gone == Within(c, node)
<1>1. c \in Collections \ {root} /\ c = currentNode /\ ReloadFrom(p, nodes, files)
  BY DEF RemoveCollection, Removed, NodesOutside, FilesOutside
<1>2. \A x \in DOMAIN node \ gone :
          nodes[x] = IF x \in Resources /\ \E d \in Collections \cap gone :
                            \E i \in DOMAIN bag[d] \ {1} : SameOrder(x, bag[d][i])
                     THEN [node[x] EXCEPT !.order = 0] ELSE node[x]
  BY DEF NodesOutside
<1> HIDE DEF c, nodes, files
<1>3. /\ c \in DOMAIN node /\ p \in Collections \cap DOMAIN nodes
      /\ DOMAIN nodes = DOMAIN node \ gone
      /\ \A x \in DOMAIN nodes : files[x] = disk[x]
      /\ \A d \in DOMAIN nodes : d \in Collections => Members(d, nodes) = Members(d, node)
      /\ TreeOk(nodes, files)
      /\ BagsOf(nodes, Within(p, files))
  BY <1>1, RemoveCollectionTree DEF CountedInv, nodes, files
<1>4. /\ DOMAIN bag = DOMAIN node \cap Collections
      /\ \A d \in DOMAIN bag : /\ bag[d] \in Seq(Resources) /\ ToSet(bag[d]) = Members(d, node)
                               /\ Counted(bag[d], node) /\ Counted(bag[d], disk)
  BY DEF CountedInv, IInv, TreeInv, BagsInv, NumbersInv
<1>5. /\ gone \subseteq DOMAIN node
      /\ \A x \in DOMAIN node : x \in Resources /\ node[x].up \in Collections \cap gone => x \in gone
  <2>1. Typed(node) /\ Agree(node, disk) /\ None \notin Collections
    BY CollectionsAssumption DEF CountedInv, IInv, TreeInv, TreeOk
  <2>2. /\ Within(c, node) \subseteq DOMAIN node
        /\ \A x \in DOMAIN node : x \in Below(c, node) <=>
               node[x].up # None /\ node[x].up \in Within(c, node)
    BY <1>3, <2>1, BranchFacts
  <2> QED  BY <2>1, <2>2 DEF Within
<1> HIDE DEF gone, p
<1>6. ASSUME NEW x \in DOMAIN nodes
      PROVE  nodes[x] = node[x]
  <2>1. x \in DOMAIN node \ gone
    BY <1>3
  <2>2. ASSUME x \in Resources, NEW d \in Collections \cap gone, NEW i \in DOMAIN bag[d]
        PROVE  ~SameOrder(x, bag[d][i])
    <3> DEFINE s == bag[d]
    <3>1. s \in Seq(Resources) /\ ToSet(s) = Members(d, node)
      BY <1>4, <1>5
    <3>2. s[i] \in Members(d, node)
      BY <3>1 DEF ToSet
    <3> HIDE DEF s
    <3>3. s[i] \in gone /\ s[i] \in Resources
      BY <1>5, <3>2 DEF Members
    <3>4. ~SameOrder(x, s[i])
      BY <2>1, <2>2, <3>3 DEF SameOrder, CountedInv, CellsInv
    <3> QED  BY <3>4 DEF s
  <2> QED  BY <1>2, <2>1, <2>2
<1>7. ASSUME NEW d \in Collections \cap DOMAIN nodes
      PROVE  /\ bag[d] \in Seq(Resources) /\ ToSet(bag[d]) = Members(d, files)
             /\ Counted(bag[d], nodes) /\ Counted(bag[d], files)
  <2> DEFINE s == bag[d]
  <2>1. /\ s \in Seq(Resources) /\ ToSet(s) = Members(d, node)
        /\ Counted(s, node) /\ Counted(s, disk)
    BY <1>3, <1>4
  <2> HIDE DEF s
  <2>2. ToSet(s) = Members(d, nodes)
    BY <1>3, <2>1
  <2>3. \A i \in DOMAIN s : s[i] \in DOMAIN nodes
    BY <2>2 DEF ToSet, Members
  <2>4. Counted(s, nodes) /\ Counted(s, files)
    BY <1>3, <1>6, <2>1, <2>3 DEF Counted
  <2>5. Members(d, files) = Members(d, nodes)
    BY <1>3, AgreeFacts DEF TreeOk
  <2> QED  BY <2>1, <2>2, <2>4, <2>5 DEF s
<1>8. CanCount(Within(p, files), files)
  <2>1. Within(p, files) \subseteq DOMAIN nodes
    BY <1>3, BranchFacts DEF TreeOk
  <2> QED  BY <1>7, <2>1 DEF CanCount
<1>9. OthersCounted(nodes, files, Within(p, files))
  BY <1>7 DEF OthersCounted
<1> QED  BY <1>1, <1>3, <1>8, <1>9, ReloadedNumbers DEF CountedInv, p

\* What only the page does leaves all numbers.
LEMMA TreeNumbers ==
    ASSUME CountedInv, UNCHANGED treeVars
    PROVE  NumbersInv' /\ CellsInv'
BY DEF CountedInv, NumbersInv, Counted, CellsInv, treeVars

LEMMA OnceIsNext == [OnceNext]_vars => [Next]_vars
BY DEF OnceNext, Next, TemplateStep

\* The theorems above hold for that user too.
LEMMA OnceIsSpec == OnceSpec => Spec
BY OnceIsNext, PTL DEF OnceSpec, Spec

LEMMA CountedStep == CountedInv /\ [OnceNext]_vars => NumbersInv' /\ CellsInv'
<1> SUFFICES ASSUME CountedInv, [OnceNext]_vars PROVE NumbersInv' /\ CellsInv'
  OBVIOUS
<1>1. CASE PageStep
  <2>1. ASSUME NEW x \in Open, SelectTab(x)
        PROVE  UNCHANGED treeVars
    BY <2>1 DEF SelectTab
  <2>2. CASE Close
    <3>1. UNCHANGED treeVars
      BY <2>2 DEF Close, CloseTabs
    <3> QED  BY <3>1, TreeNumbers
  <2>3. ASSUME NEW t \in Texts, Edit(t)
        PROVE  NumbersInv' /\ CellsInv'
    BY <2>3, EditNumbers
  <2>4. CASE Save
    BY <2>4, SaveNumbers
  <2> QED  BY <1>1, <2>1, <2>2, <2>3, <2>4, TreeNumbers DEF PageStep
<1>2. CASE TreeStep
  <2>1. ASSUME NEW x \in DOMAIN node, SelectNode(x)
        PROVE  UNCHANGED treeVars
    BY <2>1 DEF SelectNode
  <2>2. ASSUME NEW c \in Collections, NEW r \in Resources, AddResource(c, r)
        PROVE  NumbersInv' /\ CellsInv'
    BY <2>2, AddResourceNumbers
  <2>3. ASSUME NEW c \in Collections, NEW d \in Collections, AddCollection(c, d)
        PROVE  NumbersInv' /\ CellsInv'
    BY <2>3, AddCollectionNumbers
  <2>4. CASE Reload
    BY <2>4, ReloadCollectionNumbers, ReloadResourceNumbers DEF Reload
  <2>5. CASE RemoveSelected
    BY <2>5, RemoveResourceNumbers, RemoveCollectionNumbers DEF RemoveSelected
  <2>6. ASSUME currentNode \in Collections,
               NEW s \in SetToSeqs(ToSet(bag[currentNode])), Reorder(s)
        PROVE  NumbersInv' /\ CellsInv'
    BY <2>6, ReorderNumbers
  <2> QED  BY <1>2, <2>1, <2>2, <2>3, <2>4, <2>5, <2>6, TreeNumbers DEF TreeStep
<1>3. CASE Restart
  BY <1>3, RestartNumbers
<1>4. CASE OpenTemplate \/ CancelTemplate \/ UNCHANGED vars
  <2>1. UNCHANGED treeVars
    BY <1>4 DEF OpenTemplate, CancelTemplate, vars
  <2> QED  BY <2>1, TreeNumbers
<1>5. ASSUME templateCell \notin Range(cell),
             NEW c \in Collections, NEW r \in Resources, SaveTemplate(c, r)
      PROVE  NumbersInv' /\ CellsInv'
  BY <1>5, SaveTemplateNumbers
<1> QED  BY <1>1, <1>2, <1>3, <1>4, <1>5 DEF OnceNext

\* Whatever is added, saved, moved, removed and reloaded, the resources of
\* each collection are numbered as they are shown, in memory and in the files.
THEOREM InSequence == OnceSpec => []Sequential
<1>1. Init => CountedInv
  <2> SUFFICES ASSUME Init PROVE NumbersInv /\ CellsInv
    BY InitInv DEF CountedInv
  <2>1. bag = [x \in {root} |-> <<>>] /\ cell = [r \in Resources |-> 0]
    BY DEF Init
  <2>2. \A tree : Counted(<<>>, tree)
    BY DEF Counted
  <2> QED  BY <2>1, <2>2 DEF NumbersInv, CellsInv
<1>2. CountedInv /\ [OnceNext]_vars => CountedInv'
  BY NextInv, OnceIsNext, CountedStep DEF CountedInv
<1>3. CountedInv => Sequential
  <2> SUFFICES ASSUME CountedInv PROVE Sequential
    OBVIOUS
  <2>1. DOMAIN disk = DOMAIN node /\ \A c : Members(c, disk) = Members(c, node)
    BY AgreeFacts DEF CountedInv, IInv, TreeInv, TreeOk
  <2>2. ASSUME NEW c \in DOMAIN bag
        PROVE  /\ ToSet(bag[c]) = Members(c, disk)
               /\ \A i \in DOMAIN bag[c] : {disk[bag[c][i]].order, node[bag[c][i]].order} = {i - 1}
    <3>1. ToSet(bag[c]) = Members(c, disk)
      BY <2>1 DEF CountedInv, IInv, TreeInv, BagsInv
    <3>2. \A i \in DOMAIN bag[c] : disk[bag[c][i]].order = i - 1 /\ node[bag[c][i]].order = i - 1
      BY DEF CountedInv, NumbersInv, Counted
    <3> QED  BY <3>1, <3>2
  <2> QED  BY <2>1, <2>2 DEF Sequential
<1> QED  BY <1>1, <1>2, <1>3, PTL DEF OnceSpec

=============================================================================
