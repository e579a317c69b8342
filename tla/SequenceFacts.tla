--------------------------- MODULE SequenceFacts ----------------------------
(***************************************************************************)
(* What the operators on sequences return that the specifications use and  *)
(* the library states nothing about.                                       *)
(***************************************************************************)
EXTENDS SequencesExt, SequenceTheorems, FiniteSetTheorems, NaturalsInduction, TLAPS

\* What a sequence of elements of T is.
LEMMA SeqFacts ==
    ASSUME NEW T, NEW s \in Seq(T)
    PROVE  /\ Len(s) \in Nat /\ DOMAIN s = 1 .. Len(s)
           /\ \A i \in 1 .. Len(s) : s[i] \in T
           /\ ToSet(s) = {s[i] : i \in 1 .. Len(s)} /\ ToSet(s) \subseteq T
           /\ s # <<>> => Len(s) >= 1
BY LenProperties, ElementOfSeq, EmptySeq DEF ToSet

\* One more element at the end.
LEMMA AppendFacts ==
    ASSUME NEW T, NEW s \in Seq(T), NEW e \in T
    PROVE  /\ Append(s, e) \in Seq(T) /\ Append(s, e) # <<>>
           /\ ToSet(Append(s, e)) = ToSet(s) \cup {e}
           /\ IsInjective(s) /\ e \notin ToSet(s) => IsInjective(Append(s, e))
<1> DEFINE r == Append(s, e)
<1>1. /\ r \in Seq(T) /\ Len(r) = Len(s) + 1
      /\ \A i \in 1 .. Len(s) : r[i] = s[i]
      /\ r[Len(s) + 1] = e
  BY AppendProperties
<1>2. Len(s) \in Nat /\ DOMAIN s = 1 .. Len(s) /\ DOMAIN r = 1 .. Len(s) + 1
  BY <1>1, SeqFacts
<1> HIDE DEF r
<1>3. ToSet(r) = ToSet(s) \cup {e}
  BY <1>1, <1>2 DEF ToSet
<1>4. ASSUME IsInjective(s), e \notin ToSet(s),
             NEW i \in DOMAIN r, NEW j \in DOMAIN r, r[i] = r[j]
      PROVE  i = j
  <2>1. \A k \in 1 .. Len(s) : s[k] # e
    BY <1>2, <1>4 DEF ToSet
  <2>2. \A k, m \in 1 .. Len(s) : s[k] = s[m] => k = m
    BY <1>2, <1>4 DEF IsInjective
  <2> QED  BY <1>1, <1>2, <1>4, <2>1, <2>2
<1>5. r # <<>>
  BY <1>1, <1>2
<1> QED  BY <1>1, <1>3, <1>4, <1>5 DEF IsInjective, r

\* Where a first one is looked for there is one.
LEMMA Smallest ==
    ASSUME NEW T \in SUBSET Nat, T # {}
    PROVE  \E x \in T : \A y \in T : x <= y
<1> DEFINE R == OpToRel(<, Nat)
<1>1. PICK x \in T : \A y \in T : <<y, x>> \notin R
  BY WFMin, NatLessThanWellFounded
<1>2. ASSUME NEW y \in T
      PROVE  x <= y
  <2>1. <<y, x>> \notin R
    BY <1>1
  <2>2. ~(y < x)
    BY <2>1 DEF OpToRel
  <2> QED  BY <2>2
<1> QED  BY <1>2

LEMMA MinIsOne ==
    ASSUME NEW T \in SUBSET Nat, T # {}
    PROVE  Min(T) \in T
BY Smallest DEF Min

LEMMA MaxIsOne ==
    ASSUME NEW n \in Nat, NEW T \in SUBSET (0 .. n), T # {}
    PROVE  /\ Max(T) \in T
           /\ \A y \in T : y <= Max(T)
<1> DEFINE U == {n - y : y \in T}
<1>1. U \in SUBSET Nat /\ U # {}
  <2>1. \A y \in T : n - y \in Nat
    OBVIOUS
  <2> QED  BY <2>1
<1>2. PICK u \in U : \A v \in U : u <= v
  BY <1>1, Smallest
<1>3. PICK x \in T : u = n - x
  OBVIOUS
<1>4. ASSUME NEW y \in T
      PROVE  x >= y
  <2>1. n - x <= n - y
    BY <1>2, <1>3
  <2> QED  BY <2>1
<1>5. Max(T) \in T /\ \A y \in T : Max(T) >= y
  BY <1>4 DEF Max
<1> QED  BY <1>5

\* One element goes, those behind it move up (slices.Delete).
LEMMA RemoveAtProperties ==
    ASSUME NEW S, NEW s \in Seq(S), NEW k \in 1 .. Len(s)
    PROVE  /\ RemoveAt(s, k) \in Seq(S)
           /\ Len(RemoveAt(s, k)) = Len(s) - 1
           /\ \A i \in 1 .. Len(s) - 1 :
                  RemoveAt(s, k)[i] = IF i < k THEN s[i] ELSE s[i + 1]
<1> DEFINE before == SubSeq(s, 1, k - 1)
           behind == SubSeq(s, k + 1, Len(s))
<1>1. Len(s) \in Nat /\ \A i \in 1 .. Len(s) : s[i] \in S
  BY LenProperties, ElementOfSeq
<1>2. /\ before \in Seq(S) /\ Len(before) = k - 1
      /\ \A i \in 1 .. k - 1 : before[i] = s[i]
  <2>1. 1 \in Int /\ k - 1 \in Int /\ \A i \in 1 .. k - 1 : s[i] \in S
    BY <1>1
  <2>2. /\ before \in Seq(S) /\ Len(before) = IF 1 <= k - 1 THEN k - 1 - 1 + 1 ELSE 0
        /\ \A i \in 1 .. k - 1 - 1 + 1 : before[i] = s[1 + i - 1]
    BY <2>1, SubSeqProperties
  <2> QED  BY <2>2, <1>1
<1>3. /\ behind \in Seq(S) /\ Len(behind) = Len(s) - k
      /\ \A i \in 1 .. Len(s) - k : behind[i] = s[k + i]
  <2>1. k + 1 \in Int /\ Len(s) \in Int /\ \A i \in k + 1 .. Len(s) : s[i] \in S
    BY <1>1
  <2>2. /\ behind \in Seq(S)
        /\ Len(behind) = IF k + 1 <= Len(s) THEN Len(s) - (k + 1) + 1 ELSE 0
        /\ \A i \in 1 .. Len(s) - (k + 1) + 1 : behind[i] = s[k + 1 + i - 1]
    BY <2>1, SubSeqProperties
  <2> QED  BY <2>2, <1>1
<1>4. RemoveAt(s, k) = before \o behind
  BY DEF RemoveAt
<1>5. /\ before \o behind \in Seq(S)
      /\ Len(before \o behind) = Len(before) + Len(behind)
      /\ \A i \in 1 .. Len(before) + Len(behind) :
             (before \o behind)[i] = IF i <= Len(before) THEN before[i]
                                     ELSE behind[i - Len(before)]
  BY <1>2, <1>3, ConcatProperties
<1> HIDE DEF before, behind
<1>6. ASSUME NEW i \in 1 .. Len(s) - 1
      PROVE  RemoveAt(s, k)[i] = IF i < k THEN s[i] ELSE s[i + 1]
  <2>1. CASE i < k
    BY <2>1, <1>1, <1>2, <1>3, <1>4, <1>5
  <2>2. CASE ~(i < k)
    <3>1. i - (k - 1) \in 1 .. Len(s) - k /\ k + (i - (k - 1)) = i + 1
      BY <2>2, <1>1
    <3>2. (before \o behind)[i] = behind[i - (k - 1)]
      BY <2>2, <1>1, <1>2, <1>3, <1>5
    <3> QED  BY <2>2, <3>1, <3>2, <1>3, <1>4
  <2> QED  BY <2>1, <2>2
<1> QED  BY <1>1, <1>2, <1>3, <1>4, <1>5, <1>6

\* Positions of what is left: those that were there, without the one.
LEMMA RemoveAtKeeps ==
    ASSUME NEW S, NEW s \in Seq(S), NEW k \in 1 .. Len(s)
    PROVE  /\ \A i \in 1 .. Len(s) : i # k =>
                  \E j \in 1 .. Len(s) - 1 : RemoveAt(s, k)[j] = s[i]
           /\ \A j \in 1 .. Len(s) - 1 :
                  \E i \in 1 .. Len(s) : i # k /\ RemoveAt(s, k)[j] = s[i]
<1>1. Len(s) \in Nat
  BY LenProperties
<1>2. ASSUME NEW i \in 1 .. Len(s), i # k
      PROVE  \E j \in 1 .. Len(s) - 1 : RemoveAt(s, k)[j] = s[i]
  <2>1. CASE i < k
    BY <2>1, <1>1, RemoveAtProperties
  <2>2. CASE i > k
    <3>1. i - 1 \in 1 .. Len(s) - 1 /\ ~(i - 1 < k) /\ i - 1 + 1 = i
      BY <2>2, <1>1
    <3> QED  BY <3>1, RemoveAtProperties
  <2> QED  BY <2>1, <2>2, <1>2
<1>3. ASSUME NEW j \in 1 .. Len(s) - 1
      PROVE  \E i \in 1 .. Len(s) : i # k /\ RemoveAt(s, k)[j] = s[i]
  <2>1. CASE j < k
    BY <2>1, <1>1, RemoveAtProperties
  <2>2. CASE ~(j < k)
    <3>1. j + 1 \in 1 .. Len(s) /\ j + 1 # k
      BY <2>2, <1>1
    <3> QED  BY <2>2, <3>1, RemoveAtProperties
  <2> QED  BY <2>1, <2>2
<1> QED  BY <1>2, <1>3

\* A sequence whose elements differ keeps that.
LEMMA RemoveAtInjective ==
    ASSUME NEW S, NEW s \in Seq(S), NEW k \in 1 .. Len(s), IsInjective(s)
    PROVE  /\ IsInjective(RemoveAt(s, k))
           /\ \A j \in DOMAIN RemoveAt(s, k) : RemoveAt(s, k)[j] # s[k]
<1> DEFINE r == RemoveAt(s, k)
<1>1. Len(s) \in Nat /\ DOMAIN s = 1 .. Len(s)
  BY LenProperties
<1>2. r \in Seq(S) /\ Len(r) = Len(s) - 1
      /\ \A i \in 1 .. Len(s) - 1 : r[i] = IF i < k THEN s[i] ELSE s[i + 1]
  BY RemoveAtProperties
<1>3. DOMAIN r = 1 .. Len(s) - 1
  BY <1>2, LenProperties
<1>4. \A i \in DOMAIN s, j \in DOMAIN s : s[i] = s[j] => i = j
  BY DEF IsInjective
<1> HIDE DEF r
<1>5. ASSUME NEW i \in DOMAIN r, NEW j \in DOMAIN r, r[i] = r[j]
      PROVE  i = j
  <2> DEFINE place(m) == IF m < k THEN m ELSE m + 1
  <2>1. \A m \in 1 .. Len(s) - 1 : r[m] = s[place(m)] /\ place(m) \in 1 .. Len(s)
    BY <1>1, <1>2
  <2>2. i \in 1 .. Len(s) - 1 /\ j \in 1 .. Len(s) - 1
    BY <1>3
  <2>3. s[place(i)] = s[place(j)]
    BY <1>5, <2>1, <2>2
  <2>4. place(i) = place(j)
    BY <1>1, <1>4, <2>1, <2>2, <2>3
  <2> QED  BY <1>1, <2>2, <2>4
<1>6. ASSUME NEW j \in DOMAIN r
      PROVE  r[j] # s[k]
  <2>1. j \in 1 .. Len(s) - 1
    BY <1>3
  <2>2. \E i \in 1 .. Len(s) : i # k /\ RemoveAt(s, k)[j] = s[i]
    BY <2>1, RemoveAtKeeps
  <2> QED  BY <2>2, <1>1, <1>4 DEF r
<1> QED  BY <1>5, <1>6 DEF IsInjective, r

\* The numbers of the places do not grow faster than the places.
LEMMA NotBelow ==
    ASSUME NEW n \in Nat, NEW f \in [1 .. n -> 1 .. n],
           \A i, j \in 1 .. n : i < j => f[i] < f[j]
    PROVE  \A i \in 1 .. n : i <= f[i]
<1> DEFINE B == {i \in 1 .. n : f[i] < i}
<1>1. SUFFICES ASSUME B # {} PROVE FALSE
  OBVIOUS
<1>2. B \in SUBSET Nat
  OBVIOUS
<1>3. PICK k \in B : \A i \in B : k <= i
  BY <1>1, <1>2, Smallest
<1>4. k \in 1 .. n /\ f[k] < k /\ f[k] \in 1 .. n /\ k - 1 \in 1 .. n /\ k - 1 < k
  BY <1>3
<1>5. f[k - 1] < f[k] /\ f[k - 1] \in 1 .. n
  BY <1>4
<1>6. f[k - 1] < k - 1
  BY <1>4, <1>5
<1>7. k - 1 \in B
  BY <1>4, <1>6
<1> QED  BY <1>3, <1>4, <1>7

\* As many numbers as places, in order, are the places.
LEMMA OnlyOrder ==
    ASSUME NEW n \in Nat, NEW f \in [1 .. n -> 1 .. n],
           \A i, j \in 1 .. n : i < j => f[i] < f[j]
    PROVE  \A i \in 1 .. n : f[i] = i
<1> DEFINE g == [i \in 1 .. n |-> n + 1 - f[n + 1 - i]]
<1>1. \A i \in 1 .. n : n + 1 - i \in 1 .. n /\ f[n + 1 - i] \in 1 .. n
  OBVIOUS
<1>2. g \in [1 .. n -> 1 .. n]
  BY <1>1
<1>3. \A i, j \in 1 .. n : i < j => g[i] < g[j]
  <2> SUFFICES ASSUME NEW i \in 1 .. n, NEW j \in 1 .. n, i < j
               PROVE  g[i] < g[j]
    OBVIOUS
  <2>1. n + 1 - j < n + 1 - i
    OBVIOUS
  <2>2. f[n + 1 - j] < f[n + 1 - i]
    BY <1>1, <2>1
  <2> QED  BY <1>1, <2>2
<1>4. \A i \in 1 .. n : i <= g[i]
  <2> HIDE DEF g
  <2> QED  BY <1>2, <1>3, NotBelow
<1>5. \A i \in 1 .. n : i <= f[i]
  BY NotBelow
<1>6. ASSUME NEW i \in 1 .. n
      PROVE  f[i] <= i
  <2>1. n + 1 - i \in 1 .. n /\ n + 1 - (n + 1 - i) = i
    OBVIOUS
  <2>2. g[n + 1 - i] = n + 1 - f[i]
    BY <2>1
  <2>3. n + 1 - i <= n + 1 - f[i] /\ f[i] \in 1 .. n
    BY <1>4, <2>1, <2>2
  <2> QED  BY <2>3
<1>7. \A i \in 1 .. n : f[i] \in 1 .. n
  OBVIOUS
<1> QED  BY <1>5, <1>6, <1>7

\* A loop takes the elements of a sequence one by one.
LEMMA TailFacts ==
    ASSUME NEW T, NEW s \in Seq(T), s # <<>>
    PROVE  /\ Head(s) \in T /\ Tail(s) \in Seq(T)
           /\ ToSet(s) = {Head(s)} \cup ToSet(Tail(s))
           /\ IsInjective(s) => IsInjective(Tail(s)) /\ Head(s) \notin ToSet(Tail(s))
<1> DEFINE r == Tail(s)
<1>1. /\ r \in Seq(T) /\ Len(r) = Len(s) - 1 /\ Len(s) \in Nat /\ Len(s) >= 1
      /\ \A i \in 1 .. Len(s) - 1 : r[i] = s[i + 1]
      /\ Head(s) = s[1] /\ s[1] \in T
  BY SeqFacts, HeadTailProperties
<1>2. /\ DOMAIN s = 1 .. Len(s) /\ DOMAIN r = 1 .. Len(s) - 1
      /\ ToSet(s) = {s[i] : i \in 1 .. Len(s)} /\ ToSet(r) = {r[i] : i \in 1 .. Len(s) - 1}
  BY <1>1, SeqFacts
<1> HIDE DEF r
<1>3. ToSet(s) \subseteq {s[1]} \cup ToSet(r)
  <2> SUFFICES ASSUME NEW i \in 1 .. Len(s), i # 1
               PROVE  s[i] \in ToSet(r)
    BY <1>2
  <2>1. i - 1 \in 1 .. Len(s) - 1 /\ r[i - 1] = s[i - 1 + 1] /\ i - 1 + 1 = i
    BY <1>1
  <2> QED  BY <1>2, <2>1
<1>4. {s[1]} \cup ToSet(r) \subseteq ToSet(s)
  <2>1. 1 \in 1 .. Len(s) /\ \A i \in 1 .. Len(s) - 1 : i + 1 \in 1 .. Len(s)
    BY <1>1
  <2> QED  BY <1>1, <1>2, <2>1
<1>5. ASSUME IsInjective(s)
      PROVE  IsInjective(r) /\ s[1] \notin ToSet(r)
  <2>1. \A i, j \in 1 .. Len(s) : s[i] = s[j] => i = j
    BY <1>2, <1>5 DEF IsInjective
  <2>2. ASSUME NEW i \in 1 .. Len(s) - 1, NEW j \in 1 .. Len(s) - 1, r[i] = r[j]
        PROVE  i = j
    <3>1. i + 1 \in 1 .. Len(s) /\ j + 1 \in 1 .. Len(s) /\ s[i + 1] = s[j + 1]
      BY <1>1, <2>2
    <3>2. i + 1 = j + 1
      BY <2>1, <3>1
    <3> QED  BY <3>2
  <2>3. ASSUME NEW i \in 1 .. Len(s) - 1
        PROVE  r[i] # s[1]
    <3>1. i + 1 \in 1 .. Len(s) /\ 1 \in 1 .. Len(s) /\ i + 1 # 1
      BY <1>1
    <3> QED  BY <1>1, <2>1, <3>1
  <2> QED  BY <1>2, <2>2, <2>3 DEF IsInjective
<1> QED  BY <1>1, <1>3, <1>4, <1>5 DEF r

\* The element that is looked for goes, the first time it is there.
LEMMA RemoveFirstProperties ==
    ASSUME NEW S, NEW s \in Seq(S), NEW e \in ToSet(s)
    PROVE  /\ RemoveFirst(s, e) \in Seq(S)
           /\ ToSet(RemoveFirst(s, e)) \subseteq ToSet(s)
           /\ IsInjective(s) => /\ IsInjective(RemoveFirst(s, e))
                               /\ ToSet(RemoveFirst(s, e)) = ToSet(s) \ {e}
<1> DEFINE I == {i \in 1 .. Len(s) : s[i] = e}
           k == Min(I)
           r == RemoveAt(s, k)
<1>1. Len(s) \in Nat /\ DOMAIN s = 1 .. Len(s) /\ ToSet(s) = {s[i] : i \in 1 .. Len(s)}
  BY LenProperties DEF ToSet
<1>2. I # {} /\ I \in SUBSET Nat
  BY <1>1
<1>3. k \in I
  BY <1>2, MinIsOne
<1>4. RemoveFirst(s, e) = r
  BY <1>2 DEF RemoveFirst, SelectInSeq
<1>5. k \in 1 .. Len(s) /\ s[k] = e
  BY <1>3
<1> HIDE DEF I, k
<1>6. r \in Seq(S) /\ Len(r) = Len(s) - 1
  BY <1>5, RemoveAtProperties
<1>7. /\ \A i \in 1 .. Len(s) : i # k => \E j \in 1 .. Len(s) - 1 : r[j] = s[i]
      /\ \A j \in 1 .. Len(s) - 1 : \E i \in 1 .. Len(s) : i # k /\ r[j] = s[i]
  BY <1>5, RemoveAtKeeps
<1>8. DOMAIN r = 1 .. Len(s) - 1 /\ ToSet(r) = {r[i] : i \in 1 .. Len(s) - 1}
  BY <1>6, LenProperties DEF ToSet
<1>9. ASSUME IsInjective(s)
      PROVE  IsInjective(r) /\ e \notin ToSet(r)
  <2> HIDE DEF r
  <2>1. IsInjective(r) /\ \A j \in DOMAIN r : r[j] # s[k]
    BY <1>5, <1>9, RemoveAtInjective DEF r
  <2> QED  BY <2>1, <1>5, <1>8
<1> HIDE DEF r
<1>10. ToSet(r) \subseteq ToSet(s)
  BY <1>1, <1>7, <1>8
<1>11. ToSet(s) \ {e} \subseteq ToSet(r)
  BY <1>1, <1>5, <1>7, <1>8
<1> QED  BY <1>4, <1>6, <1>9, <1>10, <1>11

\* What a loop does n times, of which g is the body: f[i] is the value it has
\* after i times.
Iterated(f, n, z, g) == f[0] = z /\ \A i \in 1 .. n : f[i] = g[i][f[i - 1]]

\* The equation of a function that is defined by its value before has a solution.
LEMMA Iterates ==
    ASSUME NEW S, NEW n \in Nat, NEW z \in S, NEW g \in [1 .. n -> [S -> S]]
    PROVE  \E f \in [0 .. n -> S] : Iterated(f, n, z, g)
<1> DEFINE Solves(f, m) == /\ f \in [0 .. m -> S]
                           /\ f[0] = z
                           /\ \A i \in 1 .. m : f[i] = g[i][f[i - 1]]
           Bad == {m \in 0 .. n : ~ \E f : Solves(f, m)}
<1>1. Bad = {}
  <2>1. SUFFICES ASSUME Bad # {} PROVE FALSE
    OBVIOUS
  <2>2. Bad \in SUBSET Nat
    OBVIOUS
  <2>3. PICK m \in Bad : \A k \in Bad : m <= k
    BY <2>1, <2>2, Smallest
  <2>4. m \in 0 .. n /\ ~ \E f : Solves(f, m)
    OBVIOUS
  <2>5. CASE m = 0
    <3> DEFINE h == [i \in 0 .. 0 |-> z]
    <3>1. h \in [0 .. 0 -> S] /\ h[0] = z /\ 1 .. 0 = {}
      OBVIOUS
    <3>2. Solves(h, 0)
      <4> HIDE DEF h
      <4> QED  BY <3>1
    <3> QED  BY <2>4, <2>5, <3>2
  <2>6. CASE m # 0
    <3>1. m - 1 \in 0 .. n /\ m - 1 \notin Bad /\ m \in 1 .. n /\ m \in Nat
      <4> HIDE DEF Bad
      <4> QED  BY <2>3, <2>4, <2>6
    <3>2. \E f : Solves(f, m - 1)
      <4> HIDE DEF Solves
      <4> QED  BY <3>1
    <3>3. PICK f : Solves(f, m - 1)
      BY <3>2
    <3> DEFINE last == g[m][f[m - 1]]
               h == [i \in 0 .. m |-> IF i < m THEN f[i] ELSE last]
    <3>4. f \in [0 .. m - 1 -> S] /\ f[0] = z
          /\ \A i \in 1 .. m - 1 : f[i] = g[i][f[i - 1]]
      BY <3>3
    <3>5. f[m - 1] \in S
      BY <3>1, <3>4
    <3>6. last \in S
      <4>1. g[m] \in [S -> S]
        BY <3>1
      <4> QED  BY <3>5, <4>1
    <3>7. h[m] = last /\ \A i \in 0 .. m - 1 : h[i] = f[i]
      BY <3>1
    <3>8. h \in [0 .. m -> S]
      <4> HIDE DEF last
      <4>1. \A i \in 0 .. m : i < m => i \in 0 .. m - 1
        BY <3>1
      <4> QED  BY <3>4, <3>6, <4>1
    <3> HIDE DEF h
    <3>9. h[0] = z
      BY <3>1, <3>4, <3>7
    <3>10. ASSUME NEW i \in 1 .. m
           PROVE  h[i] = g[i][h[i - 1]]
      <4>1. CASE i = m
        <5>1. m - 1 \in 0 .. m - 1
          BY <3>1
        <5> QED  BY <3>7, <4>1, <5>1
      <4>2. CASE i # m
        <5>1. i \in 1 .. m - 1 /\ i \in 0 .. m - 1 /\ i - 1 \in 0 .. m - 1
          BY <3>1, <4>2
        <5> QED  BY <3>4, <3>7, <5>1
      <4> QED  BY <4>1, <4>2
    <3>11. Solves(h, m)
      BY <3>8, <3>9, <3>10
    <3> QED  BY <2>4, <3>11
  <2> QED  BY <2>5, <2>6
<1>2. n \in 0 .. n
  OBVIOUS
<1>3. \E f : Solves(f, n)
  <2> HIDE DEF Solves
  <2> QED  BY <1>1, <1>2
<1> QED  BY <1>3 DEF Iterated

=============================================================================
