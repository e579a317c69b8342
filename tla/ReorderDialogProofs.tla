------------------------ MODULE ReorderDialogProofs -------------------------
(***************************************************************************)
(* For any collections and resources: numbers stay those of places, OK     *)
(* saves what the dialog shows, and moves and restore follow the selected  *)
(* resource, whatever files were torn before.                              *)
(*                                                                         *)
(* The argument: every list the dialog and the tree have of a collection   *)
(* is an arrangement of the resources left in it.  Each collection that is *)
(* not just being written is sorted by the numbers in its files, and only  *)
(* one arrangement is sorted by numbers that count its places: so to be    *)
(* numbered as the dialog shows it is to be loaded as the dialog shows it. *)
(***************************************************************************)
EXTENDS ReorderDialog, SequenceFacts

\* The files number the list s from 0.
Counted(s, ord) == \A i \in DOMAIN s : ord[s[i]] = i - 1

\* What a load finds of a collection.
Left(c) == MembersBut(c, lost)

-----------------------------------------------------------------------------
(* The inductive invariant.                                                *)

\* The numbers in the files, the files that are gone, and the tree that was
\* loaded from what is left.
OrderInv ==
    /\ order \in [Resources -> Nat]
    /\ \A r \in Resources : order[r] < Cardinality(Members(Owner[r]))
LostInv ==
    /\ lost \subseteq Resources /\ fatal \in (Resources \ lost) \union {None}
    /\ fatal # None => ~IsOpen /\ saving = None
BagInv ==
    fatal = None =>
        /\ DOMAIN bag = Collections
        /\ \A c \in Collections : bag[c] \in Arrangements(Left(c))
        /\ \A c \in Collections : saving = None \/ saving.col # c => InOrder(bag[c], order)

\* The lists of an open dialog, and the selection in them.  Only a list that a
\* failed save has done with may have a resource that is lost.
ToSave(c) == saving = None \/ ~saving.failed \/ c = saving.col \/ c \in saving.todo
Lists(c, s) == s \in Rows /\ Left(c) \subseteq ToSet(s) /\ ToSet(s) \subseteq Members(c)
ItemsInv ==
    IsOpen => /\ items \in ReorderMaps
              /\ \A c \in Seen : Lists(c, items[c])
              /\ \A c \in Seen : ToSave(c) => items[c] \in Arrangements(Left(c))
SelectedInv ==
    /\ selected \in Collections \union {None}
    /\ selected # None => IsOpen /\ selected \in Seen
    /\ target \in Nat
    /\ target # 0 => selected # None /\ picked \in Collections
                     /\ target <= Cardinality(Members(picked))

\* The writing of one collection after the other: those done, or not changed,
\* are numbered as they are shown, and the present one as far as it got.
SavingInv ==
    saving # None =>
        /\ saving \in Saves /\ IsOpen
        /\ saving.col \in Seen /\ saving.todo \subseteq Seen
        /\ saving.next <= Len(items[saving.col])
        /\ \A c \in saving.todo : items[c] # <<>>
        /\ saving.col \notin saving.todo
        /\ ~saving.failed =>
               /\ \A i \in 1 .. saving.next - 1 : order[items[saving.col][i]] = i - 1
               /\ \A c \in Seen \ (saving.todo \union {saving.col}) :
                      Counted(items[c], order)

IInv == OrderInv /\ LostInv /\ BagInv /\ ItemsInv /\ SelectedInv /\ SavingInv

-----------------------------------------------------------------------------
(* Arrangements.                                                           *)

LEMMA MembersFacts ==
    /\ Cardinality(Resources) \in Nat
    /\ \A c \in Collections :
           /\ IsFiniteSet(Members(c)) /\ Cardinality(Members(c)) \in Nat
           /\ Cardinality(Members(c)) <= Cardinality(Resources)
           /\ \A r \in Members(c) : r \in Resources /\ Owner[r] = c
           /\ Left(c) \in SUBSET Members(c)
    /\ \A r \in Resources : Owner[r] \in Collections /\ r \in Members(Owner[r])
<1>1. ASSUME NEW c \in Collections
      PROVE  /\ IsFiniteSet(Members(c)) /\ Cardinality(Members(c)) \in Nat
             /\ Cardinality(Members(c)) <= Cardinality(Resources)
  <2>1. Members(c) \in SUBSET Resources
    BY DEF Members
  <2>2. IsFiniteSet(Members(c)) /\ Cardinality(Members(c)) <= Cardinality(Resources)
    BY <2>1, OwnerAssumption, FS_Subset
  <2> QED  BY <2>2, FS_CardinalityType
<1> QED  BY <1>1, OwnerAssumption, FS_CardinalityType DEF Members, Left, MembersBut

\* An arrangement has every resource of its set at one place.
LEMMA ArrangementFacts ==
    ASSUME NEW c \in Collections, NEW S \in SUBSET Members(c), NEW s \in Arrangements(S)
    PROVE  /\ IsFiniteSet(S) /\ Cardinality(S) \in Nat
           /\ Cardinality(S) <= Cardinality(Members(c))
           /\ s \in Seq(S) /\ s \in [1 .. Cardinality(S) -> S]
           /\ DOMAIN s = 1 .. Cardinality(S) /\ Len(s) = Cardinality(S)
           /\ \A i, j \in 1 .. Cardinality(S) : s[i] = s[j] => i = j
           /\ \A r \in S : \E i \in 1 .. Cardinality(S) : s[i] = r
<1>1. PICK d \in Collections : \E T \in SUBSET Members(d) : s \in SetToSeqs(T)
  BY DEF Arrangements, Rows
<1>2. PICK T \in SUBSET Members(d) : s \in SetToSeqs(T)
  BY <1>1
<1>3. IsFiniteSet(T) /\ Cardinality(T) \in Nat
  BY MembersFacts, FS_Subset, FS_CardinalityType
<1>4. /\ s \in [1 .. Cardinality(T) -> T]
      /\ \A i, j \in 1 .. Cardinality(T) : s[i] = s[j] => i = j
  BY <1>2 DEF SetToSeqs
<1>5. \A r \in T : \E i \in 1 .. Cardinality(T) : s[i] = r
  <2>1. s \in Injection(1 .. Cardinality(T), T)
    BY <1>4 DEF Injection, IsInjective
  <2>2. Cardinality(1 .. Cardinality(T)) = Cardinality(T)
    BY <1>3, FS_Interval
  <2>3. s \in Surjection(1 .. Cardinality(T), T)
    BY <1>3, <2>1, <2>2, FS_Injection
  <2> QED  BY <2>3 DEF Surjection
<1>6. ToSet(s) = S
  BY DEF Arrangements
<1>7. T = S
  <2>1. \A r \in T : r \in ToSet(s)
    BY <1>4, <1>5 DEF ToSet
  <2>2. \A r \in ToSet(s) : r \in T
    BY <1>4 DEF ToSet
  <2> QED  BY <1>6, <2>1, <2>2
<1>8. s \in Seq(T) /\ Len(s) = Cardinality(T) /\ DOMAIN s = 1 .. Cardinality(T)
  BY <1>3, <1>4
<1>9. Cardinality(S) <= Cardinality(Members(c))
  BY MembersFacts, FS_Subset
<1> QED  BY <1>3, <1>4, <1>5, <1>7, <1>8, <1>9

LEMMA IsArrangement ==
    ASSUME NEW c \in Collections, NEW S \in SUBSET Members(c),
           NEW s \in [1 .. Cardinality(S) -> S],
           \A i, j \in 1 .. Cardinality(S) : s[i] = s[j] => i = j
    PROVE  s \in Arrangements(S)
<1>1. IsFiniteSet(S) /\ Cardinality(S) \in Nat
  BY MembersFacts, FS_Subset, FS_CardinalityType
<1>2. s \in Rows
  <2>1. s \in SetToSeqs(S)
    BY DEF SetToSeqs
  <2>2. S \in UNION {SUBSET Members(d) : d \in Collections}
    OBVIOUS
  <2> QED  BY <2>1, <2>2 DEF Rows
<1>3. s \in Injection(1 .. Cardinality(S), S)
  BY DEF Injection, IsInjective
<1>4. Cardinality(1 .. Cardinality(S)) = Cardinality(S)
  BY <1>1, FS_Interval
<1>5. s \in Surjection(1 .. Cardinality(S), S)
  BY <1>1, <1>3, <1>4, FS_Injection
<1>6. ToSet(s) = S
  BY <1>5 DEF Surjection, ToSet
<1> QED  BY <1>2, <1>6 DEF Arrangements

\* Only one arrangement is in an order in which another one is counted.
LEMMA OneInOrder ==
    ASSUME NEW c \in Collections, NEW S \in SUBSET Members(c),
           NEW s \in Arrangements(S), NEW t \in Arrangements(S),
           NEW ord \in [Resources -> Nat], Counted(s, ord), InOrder(t, ord)
    PROVE  t = s
<1> DEFINE n == Cardinality(S)
           f == [i \in 1 .. n |-> ord[t[i]] + 1]
<1>1. /\ n \in Nat
      /\ \A r \in S : r \in Resources
  BY MembersFacts, ArrangementFacts
<1>2. /\ s \in [1 .. n -> S] /\ DOMAIN s = 1 .. n
      /\ \A i, j \in 1 .. n : s[i] = s[j] => i = j
      /\ \A r \in S : \E i \in 1 .. n : s[i] = r
  BY MembersFacts, ArrangementFacts
<1>3. /\ t \in [1 .. n -> S] /\ DOMAIN t = 1 .. n
      /\ \A i, j \in 1 .. n : t[i] = t[j] => i = j
  BY MembersFacts, ArrangementFacts
<1> HIDE DEF n
<1>4. ASSUME NEW i \in 1 .. n
      PROVE  f[i] \in 1 .. n /\ t[i] = s[f[i]]
  <2>1. t[i] \in S
    BY <1>3
  <2>2. PICK j \in 1 .. n : s[j] = t[i]
    BY <1>2, <2>1
  <2>3. ord[t[i]] = j - 1
    BY <1>2, <2>2 DEF Counted
  <2> QED  BY <1>1, <2>2, <2>3
<1>5. f \in [1 .. n -> 1 .. n]
  BY <1>4
<1>6. ASSUME NEW i \in 1 .. n, NEW j \in 1 .. n, i < j
      PROVE  f[i] < f[j]
  <2>1. t[i] \in Resources /\ t[j] \in Resources /\ ord[t[i]] \in Nat /\ ord[t[j]] \in Nat
    BY <1>1, <1>3
  <2>2. ord[t[i]] <= ord[t[j]]
    BY <1>3, <1>6 DEF InOrder
  <2>3. f[i] # f[j]
    <3>1. i # j
      BY <1>1, <1>6
    <3> HIDE DEF f
    <3> QED  BY <1>3, <1>4, <3>1
  <2> QED  BY <2>1, <2>2, <2>3
<1>7. \A i \in 1 .. n : f[i] = i
  <2> HIDE DEF f
  <2> QED  BY <1>1, <1>5, <1>6, OnlyOrder
<1>8. \A i \in 1 .. n : t[i] = s[i]
  <2> HIDE DEF f
  <2> QED  BY <1>4, <1>7
<1>9. s = [i \in 1 .. n |-> s[i]] /\ t = [i \in 1 .. n |-> t[i]]
  BY ONLY <1>2, <1>3
<1>10. [i \in 1 .. n |-> s[i]] = [i \in 1 .. n |-> t[i]]
  BY ONLY <1>8
<1> QED  BY ONLY <1>9, <1>10, Zenon

\* A counted list is in order.
LEMMA CountedInOrder ==
    ASSUME NEW c \in Collections, NEW S \in SUBSET Members(c),
           NEW s \in Arrangements(S), NEW ord, Counted(s, ord)
    PROVE  InOrder(s, ord)
BY ArrangementFacts, MembersFacts DEF Counted, InOrder

\* A move is a permutation that takes the one resource to its place.
LEMMA SliceArranges ==
    ASSUME NEW c \in Collections, NEW S \in SUBSET Members(c),
           NEW s \in Arrangements(S),
           NEW from \in 1 .. Cardinality(S), NEW to \in 1 .. Cardinality(S)
    PROVE  /\ ReorderSlice(s, from, to) \in Arrangements(S)
           /\ ReorderSlice(s, from, to)[to] = s[from]
<1> DEFINE n == Cardinality(S)
           r == ReorderSlice(s, from, to)
           p(i) == IF i = to THEN from ELSE IF to < i /\ i <= from THEN i - 1
                   ELSE IF from <= i /\ i < to THEN i + 1 ELSE i
<1>1. /\ n \in Nat /\ s \in [1 .. n -> S] /\ DOMAIN s = 1 .. n
      /\ \A i, j \in 1 .. n : s[i] = s[j] => i = j
  BY MembersFacts, ArrangementFacts
<1> HIDE DEF n
<1>2. from \in 1 .. n /\ to \in 1 .. n
  BY DEF n
<1>3. \A i \in 1 .. n : p(i) \in 1 .. n
  BY <1>1, <1>2
<1>4. DOMAIN r = 1 .. n /\ \A i \in 1 .. n : r[i] = s[p(i)]
  BY <1>1, <1>2 DEF ReorderSlice
<1>5. \A i, j \in 1 .. n : p(i) = p(j) => i = j
  BY <1>1, <1>2
<1>6. r[to] = s[from]
  BY <1>2, <1>4
<1>7. r = [i \in 1 .. n |-> r[i]]
  BY <1>1 DEF ReorderSlice
<1> HIDE DEF r, p
<1>8. r \in [1 .. n -> S]
  BY <1>1, <1>3, <1>4, <1>7
<1>9. \A i, j \in 1 .. n : r[i] = r[j] => i = j
  BY <1>1, <1>3, <1>4, <1>5
<1>10. r \in Arrangements(S)
  BY <1>8, <1>9, IsArrangement DEF n
<1> QED  BY <1>6, <1>10 DEF r

-----------------------------------------------------------------------------
(* Steps of the dialog.                                                    *)

\* What is left of a collection is the same as long as no file is torn.
LEMMA LeftStays ==
    ASSUME UNCHANGED lost
    PROVE  /\ \A c : Left(c)' = Left(c)
           /\ \A c, s : Lists(c, s)' <=> Lists(c, s)
BY DEF Left, MembersBut, Lists

LEMMA ArrangementLists ==
    ASSUME NEW c \in Collections, NEW s \in Arrangements(Left(c))
    PROVE  Lists(c, s)
BY MembersFacts DEF Arrangements, Lists

\* A list is put into an open dialog.
LEMMA PutItem ==
    ASSUME IInv, IsOpen, saving = None, NEW c \in Collections, NEW s \in Arrangements(Left(c)),
           items' = [items EXCEPT ![c] = s], UNCHANGED <<lost, saving>>
    PROVE  /\ ItemsInv' /\ IsOpen' /\ Seen' = Seen \union {c}
           /\ items'[c] = s /\ \A d \in Collections \ {c} : items'[d] = items[d]
<1>1. items \in ReorderMaps
  BY DEF IInv, ItemsInv
<1>2. s \in Rows /\ s # None
  BY NoneAssumption DEF Arrangements
<1>3. /\ items' \in ReorderMaps /\ items'[c] = s
      /\ \A d \in Collections \ {c} : items'[d] = items[d]
  BY <1>1, <1>2 DEF ReorderMaps
<1>4. items' # None
  BY <1>3, NoneAssumption
<1>5. Seen' = Seen \union {c}
  BY <1>2, <1>3 DEF Seen
<1>6. \A d \in Seen : items[d] \in Arrangements(Left(d)) /\ d \in Collections
  BY DEF IInv, ItemsInv, ToSave, Seen
<1>7. \A d \in Seen' : items'[d] \in Arrangements(Left(d)) /\ d \in Collections
  BY <1>3, <1>5, <1>6
<1>8. \A d \in Seen' : Lists(d, items'[d])
  BY <1>7, ArrangementLists
<1>9. ItemsInv'
  BY <1>3, <1>7, <1>8, LeftStays DEF ItemsInv
<1> QED  BY <1>3, <1>4, <1>5, <1>9 DEF IsOpen

\* What the selection of a collection tells.
LEMMA SelectedFacts ==
    ASSUME IInv, selected # None, ToSave(selected)
    PROVE  /\ selected \in Collections /\ IsOpen /\ selected \in Seen
           /\ Left(selected) \in SUBSET Members(selected)
           /\ Shown \in Arrangements(Left(selected)) /\ Len(Shown) = Cardinality(Left(selected))
           /\ DOMAIN Shown = 1 .. Cardinality(Left(selected))
           /\ Cardinality(Left(selected)) \in Nat
           /\ Cardinality(Left(selected)) <= Cardinality(Members(selected))
           /\ Cardinality(Members(selected)) \in Nat
<1>1. selected \in Collections /\ IsOpen /\ selected \in Seen
  BY DEF IInv, SelectedInv
<1>2. Shown \in Arrangements(Left(selected))
  BY <1>1 DEF IInv, ItemsInv, Shown
<1>3. Left(selected) \in SUBSET Members(selected) /\ Cardinality(Members(selected)) \in Nat
  BY <1>1, MembersFacts
<1> QED  BY <1>1, <1>2, <1>3, ArrangementFacts

\* An open dialog is that of a program that runs.
LEMMA OpenRuns ==
    ASSUME IInv, IsOpen \/ saving # None
    PROVE  fatal = None
BY DEF IInv, LostInv

\* While nothing is saved, only the lists and the selection are at stake.
LEMMA DialogStep ==
    ASSUME IInv, UNCHANGED <<order, lost, fatal, bag, saving>>, saving = None, fatal = None,
           ItemsInv', SelectedInv'
    PROVE  IInv'
<1>1. OrderInv' /\ LostInv' /\ SavingInv'
  BY DEF IInv, OrderInv, LostInv, SavingInv
<1>2. BagInv'
  BY LeftStays DEF IInv, BagInv
<1> QED  BY <1>1, <1>2 DEF IInv

\* The dialog is gone.
LEMMA ClosedInv ==
    ASSUME Closed
    PROVE  ItemsInv' /\ SelectedInv' /\ ~IsOpen'
BY DEF Closed, ItemsInv, SelectedInv, IsOpen

LEMMA OpenDialogInv ==
    ASSUME IInv, OpenDialog
    PROVE  IInv'
<1>1. saving = None /\ fatal = None /\ UNCHANGED <<order, lost, fatal, bag, saving>>
  BY DEF IInv, SavingInv, OpenDialog
<1>2. ItemsInv'
  <2>1. items' = Unseen
    BY DEF OpenDialog
  <2>2. items' \in ReorderMaps /\ \A c \in Collections : items'[c] = None
    BY <2>1 DEF Unseen, ReorderMaps
  <2>3. Seen' = {}
    BY <2>2 DEF Seen
  <2> QED  BY <2>2, <2>3 DEF ItemsInv
<1>3. SelectedInv'
  BY DEF OpenDialog, SelectedInv
<1> QED  BY <1>1, <1>2, <1>3, DialogStep

LEMMA CancelInv ==
    ASSUME IInv, Cancel
    PROVE  IInv'
BY ClosedInv, OpenRuns, DialogStep DEF Cancel, Ready

\* The same lists in the same dialog.
LEMMA ItemsStay ==
    ASSUME IInv, UNCHANGED <<items, lost, saving>>
    PROVE  ItemsInv' /\ IsOpen' = IsOpen /\ Seen' = Seen
BY LeftStays DEF IInv, ItemsInv, IsOpen, Seen, ToSave

LEMMA SelectCollectionInv ==
    ASSUME IInv, NEW c \in Collections, SelectCollection(c)
    PROVE  IInv'
<1>1. /\ saving = None /\ IsOpen /\ fatal = None
      /\ UNCHANGED <<order, lost, fatal, bag, saving>> /\ selected' = c
  BY OpenRuns DEF SelectCollection, Ready
<1>2. CASE c \in Seen
  <2>1. UNCHANGED <<items, target, picked>>
    BY <1>2 DEF SelectCollection
  <2>2. ItemsInv' /\ IsOpen' /\ Seen' = Seen
    BY <1>1, <2>1, ItemsStay
  <2>3. SelectedInv'
    BY <1>1, <1>2, <2>1, <2>2, OwnerAssumption DEF IInv, SelectedInv
  <2> QED  BY <1>1, <2>2, <2>3, DialogStep
<1>3. CASE c \notin Seen
  <2>1. items' = [items EXCEPT ![c] = bag[c]] /\ target' = 0 /\ picked' = None
    BY <1>3 DEF SelectCollection
  <2>2. bag[c] \in Arrangements(Left(c))
    BY <1>1 DEF IInv, BagInv
  <2>3. ItemsInv' /\ IsOpen' /\ c \in Seen'
    BY <1>1, <2>1, <2>2, PutItem
  <2>4. SelectedInv'
    BY <1>1, <2>1, <2>3 DEF SelectedInv
  <2> QED  BY <1>1, <2>3, <2>4, DialogStep
<1> QED  BY <1>2, <1>3

LEMMA PickInv ==
    ASSUME IInv, NEW i, Pick(i)
    PROVE  IInv'
<1>1. /\ saving = None /\ fatal = None
      /\ UNCHANGED <<order, lost, fatal, bag, saving, items, selected>>
      /\ selected # None /\ target' = i /\ picked' = selected /\ i \in DOMAIN Shown
  BY OpenRuns DEF Pick, Ready
<1>2. selected \in Collections /\ i \in Nat /\ i <= Cardinality(Members(selected))
  BY <1>1, SelectedFacts DEF ToSave
<1>3. ItemsInv' /\ IsOpen' = IsOpen /\ Seen' = Seen
  BY <1>1, ItemsStay
<1>4. SelectedInv'
  BY <1>1, <1>2, <1>3 DEF IInv, SelectedInv
<1> QED  BY <1>1, <1>3, <1>4, DialogStep

\* A selection that is drawn is a place of the list.
LEMMA DrawnTarget ==
    ASSUME IInv, selected # None, saving = None, Drawn, target # 0
    PROVE  target \in 1 .. Cardinality(Left(selected))
BY SelectedFacts DEF IInv, SelectedInv, Drawn, ToSave

LEMMA MoveCurrentInv ==
    ASSUME IInv, MoveCurrent
    PROVE  IInv' /\ Shown'[target'] = Shown[target]
<1> DEFINE S == Left(selected)
<1>1. selected # None /\ Drawn /\ saving = None /\ fatal = None /\ Destinations # {}
  BY OpenRuns DEF MoveCurrent, Ready
<1>2. target # 0
  BY <1>1 DEF Destinations
<1>3. PICK to \in Destinations : Move(to)
  BY DEF MoveCurrent
<1>4. /\ selected \in Collections /\ S \in SUBSET Members(selected)
      /\ Shown \in Arrangements(S) /\ IsOpen
      /\ target \in 1 .. Cardinality(S) /\ Len(Shown) = Cardinality(S)
      /\ Cardinality(S) \in Nat /\ Cardinality(S) <= Cardinality(Members(selected))
      /\ Cardinality(Members(selected)) \in Nat
  BY <1>1, <1>2, SelectedFacts, DrawnTarget DEF ToSave
<1>5. to \in 1 .. Cardinality(S)
  BY <1>3, <1>4 DEF Destinations
<1> DEFINE moved == ReorderSlice(Shown, target, to)
<1>6. moved \in Arrangements(S) /\ moved[to] = Shown[target]
  BY <1>4, <1>5, SliceArranges
<1>7. items' = [items EXCEPT ![selected] = moved]
  BY <1>3 DEF Move
<1>8. /\ target' = to /\ picked' = selected
      /\ UNCHANGED <<order, lost, fatal, bag, selected, saving>>
  BY <1>3 DEF Move
<1> HIDE DEF moved
<1>9. ItemsInv' /\ IsOpen' /\ Seen' = Seen \union {selected} /\ items'[selected] = moved
  BY <1>1, <1>4, <1>6, <1>7, <1>8, PutItem
<1>10. to \in Nat /\ to <= Cardinality(Members(selected))
  BY <1>4, <1>5
<1>11. SelectedInv'
  BY <1>1, <1>4, <1>8, <1>9, <1>10 DEF SelectedInv
<1>12. IInv'
  BY <1>1, <1>8, <1>9, <1>11, DialogStep
<1> QED  BY <1>6, <1>8, <1>9, <1>12 DEF Shown

LEMMA RestoreOrderInv ==
    ASSUME IInv, RestoreOrder
    PROVE  /\ IInv' /\ Shown' \in Sorted(Left(selected), order)
           /\ selected \in Collections /\ Left(selected) \in SUBSET Members(selected)
           /\ Shown \in Arrangements(Left(selected))
           /\ target \in 1 .. Cardinality(Left(selected)) /\ fatal = None /\ saving = None
<1> DEFINE S == Left(selected)
<1>1. /\ selected # None /\ Drawn /\ target # 0 /\ saving = None /\ fatal = None
      /\ target' = order[Shown[target]] + 1 /\ picked' = selected
      /\ UNCHANGED <<order, lost, fatal, bag, selected, saving>>
  BY OpenRuns DEF RestoreOrder, Ready, RestoredTarget
<1>2. PICK s \in Sorted(ToSet(Shown), order) : items' = [items EXCEPT ![selected] = s]
  BY DEF RestoreOrder, Restored
<1>3. /\ selected \in Collections /\ S \in SUBSET Members(selected)
      /\ Shown \in Arrangements(S) /\ IsOpen
      /\ target \in 1 .. Cardinality(S) /\ Cardinality(Members(selected)) \in Nat
  BY <1>1, SelectedFacts, DrawnTarget DEF ToSave
<1>4. s \in Sorted(S, order) /\ s \in Arrangements(S)
  BY <1>2, <1>3 DEF Sorted, Arrangements
<1>5. target' \in 1 .. Cardinality(Members(selected))
  <2>1. Shown[target] \in S
    BY <1>3, ArrangementFacts
  <2>2. Shown[target] \in Resources /\ Owner[Shown[target]] = selected
    BY <1>3, <2>1, MembersFacts
  <2>3. order[Shown[target]] \in Nat /\ order[Shown[target]] < Cardinality(Members(selected))
    BY <2>2 DEF IInv, OrderInv
  <2> QED  BY <1>1, <1>3, <2>3
<1>6. ItemsInv' /\ IsOpen' /\ Seen' = Seen \union {selected} /\ items'[selected] = s
  BY <1>1, <1>2, <1>3, <1>4, PutItem
<1>7. target' \in Nat /\ target' <= Cardinality(Members(selected))
  BY <1>3, <1>5
<1>8. SelectedInv'
  BY <1>1, <1>3, <1>6, <1>7 DEF SelectedInv
<1>9. IInv'
  BY <1>1, <1>6, <1>8, DialogStep
<1>10. Shown' \in Sorted(S, order)
  BY <1>1, <1>4, <1>6 DEF Shown
<1> QED  BY <1>1, <1>3, <1>9, <1>10

LEMMA OkInv ==
    ASSUME IInv, Ok
    PROVE  IInv'
<1> DEFINE changed == {c \in Seen : HasOrderChanged(items[c])}
<1>1. saving = None /\ IsOpen /\ fatal = None /\ UNCHANGED <<order, lost, fatal, bag>>
  BY OpenRuns DEF Ok, Ready
<1>2. CASE changed = {}
  <2>1. Closed /\ UNCHANGED saving
    BY <1>2 DEF Ok
  <2> QED  BY <1>1, <2>1, ClosedInv, DialogStep
<1>3. CASE changed # {}
  <2>1. PICK c \in changed :
            saving' = [col |-> c, next |-> 1, todo |-> changed \ {c}, failed |-> FALSE]
    BY <1>3 DEF Ok
  <2>2. UNCHANGED dialogVars
    BY <1>3 DEF Ok
  <2>3. ASSUME NEW d \in Seen
        PROVE  /\ d \in Collections /\ items[d] \in Arrangements(Left(d))
               /\ Left(d) \in SUBSET Members(d)
    BY <1>1, MembersFacts DEF IInv, ItemsInv, ToSave, Seen
  <2>4. ASSUME NEW d \in changed
        PROVE  /\ d \in Seen /\ d \in Collections /\ items[d] # <<>>
               /\ Len(items[d]) \in Nat /\ 1 <= Len(items[d])
               /\ Len(items[d]) <= Cardinality(Resources)
    <3>1. d \in Seen /\ d \in Collections /\ HasOrderChanged(items[d])
      BY DEF Seen
    <3> DEFINE S == Left(d)
               s == items[d]
    <3>2. s \in Arrangements(S) /\ S \in SUBSET Members(d)
      BY <2>3, <3>1
    <3> HIDE DEF S, s
    <3>3. DOMAIN s = 1 .. Cardinality(S) /\ Len(s) = Cardinality(S) /\ Cardinality(S) \in Nat
          /\ Cardinality(S) <= Cardinality(Members(d)) /\ s \in Seq(S)
      BY <3>1, <3>2, ArrangementFacts
    <3>4. \E i : i \in 1 .. Cardinality(S)
      BY <3>1, <3>3 DEF HasOrderChanged, s
    <3>5. Cardinality(Members(d)) <= Cardinality(Resources) /\ Cardinality(Members(d)) \in Nat
          /\ Cardinality(Resources) \in Nat
      BY <3>1, MembersFacts
    <3>6. 1 <= Len(s) /\ Len(s) <= Cardinality(Resources) /\ Len(s) \in Nat
      BY <3>3, <3>4, <3>5
    <3>7. s # <<>>
      BY <3>3, <3>4
    <3> QED  BY <3>1, <3>6, <3>7 DEF s
  <2>5. changed \subseteq Seen /\ changed \subseteq Collections
    BY <2>4
  <2>6. \A d \in Seen \ changed : Counted(items[d], order)
    BY DEF HasOrderChanged, Counted
  <2> HIDE DEF changed
  <2>7. /\ saving' \in Saves /\ saving'.col = c /\ saving'.next = 1
        /\ saving'.todo = changed \ {c}
    BY <2>1, <2>4, <2>5, MembersFacts DEF Saves
  <2>8. UNCHANGED items /\ IsOpen' /\ Seen' = Seen
    BY <1>1, <2>2 DEF IsOpen, Seen, dialogVars
  <2>9. \A i \in 1 .. saving'.next - 1 : order'[items'[saving'.col][i]] = i - 1
    BY <2>7
  <2>10. \A d \in Seen' \ (saving'.todo \union {saving'.col}) : Counted(items[d], order)'
    BY <1>1, <2>6, <2>7, <2>8 DEF Counted
  <2>11. /\ saving'.next <= Len(items'[saving'.col])
         /\ \A d \in saving'.todo : items'[d] # <<>>
         /\ saving'.col \in Seen' /\ saving'.todo \subseteq Seen' /\ saving'.col \notin saving'.todo
    BY <2>4, <2>5, <2>7, <2>8
  <2>12. SavingInv'
    BY <2>7, <2>8, <2>9, <2>10, <2>11 DEF SavingInv
  <2>13. ItemsInv'
    BY <1>1, <2>8, LeftStays DEF IInv, ItemsInv, ToSave
  <2>14. SelectedInv'
    BY <2>2, <2>8 DEF IInv, SelectedInv, dialogVars
  <2>15. OrderInv' /\ LostInv' /\ BagInv'
    BY <1>1, LeftStays DEF IInv, OrderInv, LostInv, BagInv
  <2> QED  BY <2>12, <2>13, <2>14, <2>15 DEF IInv
<1> QED  BY <1>2, <1>3

-----------------------------------------------------------------------------
(* Steps of a save.                                                        *)

LEMMA SavingFacts ==
    ASSUME IInv, saving # None
    PROVE  /\ saving.col \in Collections /\ saving.todo \subseteq Collections
           /\ Left(saving.col) \in SUBSET Members(saving.col)
           /\ items[saving.col] \in Arrangements(Left(saving.col))
           /\ saving.next \in 1 .. Cardinality(Left(saving.col)) /\ saving.failed \in BOOLEAN
           /\ Written \in Left(saving.col) /\ Written \in Resources \ lost
           /\ Owner[Written] = saving.col
           /\ fatal = None
<1>1. /\ saving.col \in Collections /\ saving.todo \subseteq Collections
      /\ saving.next \in 1 .. Cardinality(Resources) /\ saving.failed \in BOOLEAN
  BY DEF IInv, SavingInv, Saves
<1> DEFINE S == Left(saving.col)
           s == items[saving.col]
<1>2. s \in Arrangements(S) /\ S \in SUBSET Members(saving.col)
  BY <1>1, MembersFacts DEF IInv, SavingInv, ItemsInv, ToSave
<1>3. saving.next <= Len(s)
  BY DEF IInv, SavingInv
<1>4. Written = s[saving.next]
  BY DEF Written
<1> HIDE DEF S, s
<1>5. Len(s) = Cardinality(S) /\ Cardinality(S) \in Nat /\ s \in [1 .. Cardinality(S) -> S]
  BY <1>1, <1>2, ArrangementFacts
<1>6. saving.next \in 1 .. Cardinality(S)
  BY <1>1, <1>3, <1>5
<1>7. Written \in S
  BY <1>4, <1>5, <1>6
<1>8. Written \in Resources \ lost /\ Owner[Written] = saving.col
  BY <1>1, <1>7, MembersFacts DEF S, Left, MembersBut
<1> QED  BY <1>1, <1>2, <1>6, <1>7, <1>8, OpenRuns DEF S, s

\* The collection is loaded with what the files say by now.
LEMMA LoadedInv ==
    ASSUME IInv, saving # None, NEW failed \in BOOLEAN, OrderInv', lost' \subseteq Resources,
           Loaded(lost', order', failed),
           \A c \in Collections \ {saving.col} : InOrder(bag[c], order') /\ Left(c)' = Left(c),
           \A c \in Collections : Left(c)' \subseteq Left(c),
           ~failed => /\ ~saving.failed /\ UNCHANGED lost
                      /\ \A c \in Seen \ saving.todo : Counted(items[c], order')
    PROVE  IInv'
<1> DEFINE col == saving.col
           todo == saving.todo
<1>1. col \in Collections /\ todo \subseteq Collections /\ col \notin todo
      /\ todo \subseteq Seen /\ IsOpen /\ \A c \in todo : items[c] # <<>>
  BY SavingFacts DEF IInv, SavingInv
<1>2. PICK s \in Sorted(MembersBut(col, lost'), order') : bag' = [bag EXCEPT ![col] = s]
  BY DEF Loaded
<1>3. s \in Arrangements(MembersBut(col, lost')) /\ InOrder(s, order')
  BY <1>2 DEF Sorted
<1>4. /\ DOMAIN bag = Collections /\ fatal = None /\ fatal' = None
      /\ \A c \in Collections : bag[c] \in Arrangements(Left(c))
  BY SavingFacts DEF IInv, BagInv, Loaded
<1> HIDE DEF col, todo
<1>5. DOMAIN bag' = Collections /\ bag'[col] = s
      /\ \A c \in Collections \ {col} : bag'[c] = bag[c]
  BY <1>1, <1>2, <1>4
<1>6. \A c \in Collections : bag'[c] \in Arrangements(MembersBut(c, lost')) /\ InOrder(bag'[c], order')
  <2> SUFFICES ASSUME NEW c \in Collections
               PROVE  bag'[c] \in Arrangements(MembersBut(c, lost')) /\ InOrder(bag'[c], order')
    OBVIOUS
  <2>1. CASE c = col
    BY <1>3, <1>5, <2>1
  <2>2. CASE c # col
    <3>1. InOrder(bag[c], order') /\ MembersBut(c, lost') = Left(c)
      BY <2>2 DEF col, Left
    <3> QED  BY <1>4, <1>5, <2>2, <3>1
  <2> QED  BY <2>1, <2>2
<1>7. BagInv'
  BY <1>5, <1>6 DEF BagInv, Left
<1>8. LostInv'
  BY <1>4, NoneAssumption DEF LostInv
<1>9. CASE todo = {}
  <2>1. saving' = None /\ Closed
    BY <1>9 DEF Loaded, todo
  <2> QED  BY <1>7, <1>8, <2>1, ClosedInv DEF IInv, SavingInv
<1>10. CASE todo # {}
  <2>1. UNCHANGED dialogVars
    BY <1>10 DEF Loaded, todo
  <2>2. PICK c \in todo :
            saving' = [col |-> c, next |-> 1, todo |-> todo \ {c}, failed |-> failed]
    BY <1>10 DEF Loaded, todo
  <2>3. UNCHANGED items /\ IsOpen' /\ Seen' = Seen
    BY <1>1, <2>1 DEF IsOpen, Seen, dialogVars
  <2>4. SelectedInv'
    BY <2>1, <2>3, <1>1 DEF IInv, SelectedInv, dialogVars
  <2>5. c \in Collections /\ c \in Seen /\ items[c] \in Arrangements(Left(c))
        /\ items[c] # <<>> /\ Left(c) \in SUBSET Members(c)
    BY <1>1, MembersFacts DEF IInv, ItemsInv, ToSave, todo
  <2> DEFINE S == Left(c)
             s2 == items[c]
  <2>6. 1 <= Len(items[c]) /\ Len(items[c]) <= Cardinality(Resources)
        /\ Cardinality(Resources) \in Nat
    <3>1. s2 \in Arrangements(S) /\ S \in SUBSET Members(c) /\ s2 # <<>>
      BY <2>5
    <3> HIDE DEF S, s2
    <3>2. Len(s2) = Cardinality(S) /\ Cardinality(S) \in Nat /\ s2 \in Seq(S)
          /\ Cardinality(S) <= Cardinality(Members(c))
      BY <2>5, <3>1, ArrangementFacts
    <3>3. Len(s2) # 0
      BY <3>1, <3>2
    <3>4. Cardinality(Members(c)) <= Cardinality(Resources) /\ Cardinality(Members(c)) \in Nat
          /\ Cardinality(Resources) \in Nat
      BY <2>5, MembersFacts
    <3>5. 1 <= Len(s2) /\ Len(s2) <= Cardinality(Resources)
      BY <3>2, <3>3, <3>4
    <3> QED  BY <3>4, <3>5 DEF s2
  <2>7. /\ saving'.col = c /\ saving'.next = 1 /\ saving'.todo = todo \ {c}
        /\ saving'.failed = failed /\ saving' \in Saves
    BY <1>1, <2>2, <2>5, <2>6 DEF Saves
  <2>8. ItemsInv'
    <3>1. items' \in ReorderMaps
      BY <1>1, <2>3 DEF IInv, ItemsInv
    <3>2. ASSUME NEW d \in Seen
          PROVE  Lists(d, items[d])' /\ (ToSave(d)' => items[d] \in Arrangements(Left(d)'))
      <4>1. d \in Collections /\ Lists(d, items[d]) /\ Left(d)' \subseteq Left(d)
        BY <1>1 DEF IInv, ItemsInv, Seen
      <4>2. Lists(d, items[d])'
        BY <2>3, <4>1 DEF Lists
      <4>3. ASSUME failed, ToSave(d)' PROVE items[d] \in Arrangements(Left(d)')
        <5>1. d \in todo
          BY <2>7, <4>3, NoneAssumption DEF ToSave
        <5>2. d # col /\ ToSave(d)
          BY <1>1, <5>1 DEF ToSave, todo
        <5>3. Left(d)' = Left(d)
          BY <4>1, <5>2 DEF col
        <5> QED  BY <1>1, <5>2, <5>3 DEF IInv, ItemsInv
      <4>4. ASSUME ~failed PROVE items[d] \in Arrangements(Left(d)')
        <5>1. ToSave(d)
          BY <4>4 DEF ToSave
        <5>2. Left(d)' = Left(d)
          BY <4>4, LeftStays
        <5> QED  BY <1>1, <5>1, <5>2 DEF IInv, ItemsInv
      <4> QED  BY <4>2, <4>3, <4>4
    <3> QED  BY <2>3, <3>1, <3>2 DEF ItemsInv
  <2>9. ~failed => \A d \in Seen \ ((todo \ {c}) \union {c}) : Counted(items[d], order')
    BY DEF todo
  <2>10. ~saving'.failed =>
           /\ \A i \in 1 .. saving'.next - 1 : order'[items'[saving'.col][i]] = i - 1
           /\ \A d \in Seen' \ (saving'.todo \union {saving'.col}) :
                  Counted(items[d], order)'
    <3>1. 1 .. saving'.next - 1 = {}
      BY <2>7
    <3>2. \A d : Counted(items[d], order)' <=> Counted(items[d], order')
      BY <2>3 DEF Counted
    <3> QED  BY <2>7, <2>9, <2>3, <3>1, <3>2
  <2>11. /\ saving'.next <= Len(items'[saving'.col])
         /\ \A d \in saving'.todo : items'[d] # <<>>
         /\ saving'.col \notin saving'.todo /\ saving'.todo \subseteq Seen'
         /\ saving'.col \in Seen'
    BY <1>1, <2>3, <2>5, <2>6, <2>7
  <2>12. SavingInv'
    BY <2>3, <2>7, <2>10, <2>11 DEF SavingInv
  <2> QED  BY <1>7, <1>8, <2>4, <2>8, <2>12 DEF IInv
<1> QED  BY <1>9, <1>10

\* One number comes to be in a file: nobody else's numbers change, and the list
\* of the collection is counted one place further.
LEMMA WriteFacts ==
    ASSUME IInv, saving # None, order' = WrittenOrder
    PROVE  /\ OrderInv'
           /\ \A c \in Collections \ {saving.col} : \A S \in SUBSET Members(c) :
                  \A s \in Arrangements(S) :
                      /\ InOrder(s, order) => InOrder(s, order')
                      /\ Counted(s, order) => Counted(s, order')
           /\ \A c \in Collections \ {saving.col} : InOrder(bag[c], order')
           /\ ~saving.failed =>
                  \A i \in 1 .. saving.next : order'[items[saving.col][i]] = i - 1
<1> DEFINE col == saving.col
           k == saving.next
           s == items[col]
           L == Left(col)
           r == s[k]
<1>2. /\ col \in Collections /\ L \in SUBSET Members(col)
      /\ k \in 1 .. Cardinality(L) /\ s \in Arrangements(L)
      /\ r \in Resources /\ Owner[r] = col
  BY SavingFacts DEF Written
<1>3. order' = [order EXCEPT ![r] = k - 1]
  BY DEF WrittenOrder, Written, Numbered
<1>4. /\ order \in [Resources -> Nat]
      /\ \A q \in Resources : order[q] < Cardinality(Members(Owner[q]))
  BY DEF IInv, OrderInv
<1>5. ~saving.failed => \A i \in 1 .. k - 1 : order[s[i]] = i - 1
  BY DEF IInv, SavingInv
<1> HIDE DEF col, k, s, L
<1>6. /\ \A i \in 1 .. Cardinality(L) : s[i] \in L
      /\ \A i, j \in 1 .. Cardinality(L) : s[i] = s[j] => i = j
      /\ Cardinality(L) \in Nat /\ Cardinality(L) <= Cardinality(Members(col))
      /\ Cardinality(Members(col)) \in Nat
      /\ \A i \in 1 .. Cardinality(L) : s[i] \in Resources
  BY <1>2, ArrangementFacts, MembersFacts
<1> HIDE DEF r
<1>8. order'[r] = k - 1 /\ \A q \in Resources \ {r} : order'[q] = order[q]
  BY <1>2, <1>3, <1>4
<1>9. OrderInv'
  <2>1. order' \in [Resources -> Nat]
    BY <1>2, <1>3, <1>4, <1>6
  <2>2. k - 1 < Cardinality(Members(col))
    BY <1>2, <1>6
  <2>3. \A q \in Resources : order'[q] < Cardinality(Members(Owner[q]))
    BY <1>2, <1>4, <1>8, <2>2
  <2> QED  BY <2>1, <2>3 DEF OrderInv
<1>10. ASSUME NEW c \in Collections \ {col}, NEW S \in SUBSET Members(c),
              NEW t \in Arrangements(S)
       PROVE  /\ InOrder(t, order) => InOrder(t, order')
              /\ Counted(t, order) => Counted(t, order')
  <2>1. \A i \in DOMAIN t : t[i] \in Members(c)
    BY <1>10, ArrangementFacts
  <2>2. \A i \in DOMAIN t : order'[t[i]] = order[t[i]]
    BY <1>2, <1>8, <2>1, MembersFacts
  <2> QED  BY <2>2 DEF InOrder, Counted
<1>11. ASSUME ~saving.failed, NEW i \in 1 .. k
       PROVE  order'[s[i]] = i - 1
  <2>1. CASE i = k
    BY <1>8, <2>1 DEF r
  <2>2. CASE i # k
    <3>1. i \in 1 .. k - 1 /\ i \in 1 .. Cardinality(L)
      BY <1>2, <1>6, <2>2
    <3>2. s[i] # r /\ s[i] \in Resources
      BY <1>2, <1>6, <2>2, <3>1 DEF r
    <3> QED  BY <1>5, <1>8, <1>11, <3>1, <3>2
  <2> QED  BY <2>1, <2>2
<1>12. ASSUME NEW c \in Collections \ {col}
       PROVE  InOrder(bag[c], order')
  <2>1. Left(c) \in SUBSET Members(c)
    BY MembersFacts
  <2>2. bag[c] \in Arrangements(Left(c)) /\ InOrder(bag[c], order)
    BY SavingFacts DEF IInv, BagInv, col
  <2> QED  BY <1>10, <2>1, <2>2
<1> QED  BY <1>9, <1>10, <1>11, <1>12 DEF col, k, s

LEMMA WriteResourceInv ==
    ASSUME IInv, WriteResource
    PROVE  IInv'
<1> DEFINE s == items[saving.col]
           S == Left(saving.col)
<1>1. /\ saving # None /\ s \in Arrangements(S) /\ saving.col \in Collections
      /\ S \in SUBSET Members(saving.col)
      /\ saving.next \in 1 .. Cardinality(S) /\ saving.failed \in BOOLEAN
      /\ order' = WrittenOrder /\ UNCHANGED lost
  BY SavingFacts DEF WriteResource
<1>2. /\ DOMAIN s = 1 .. Cardinality(S) /\ Len(s) = Cardinality(S) /\ Cardinality(S) \in Nat
      /\ Cardinality(S) <= Cardinality(Resources) /\ Cardinality(Resources) \in Nat
  <2> HIDE DEF s, S
  <2> QED  BY <1>1, ArrangementFacts, MembersFacts
<1>3. OrderInv' /\ \A c \in Collections \ {saving.col} : InOrder(bag[c], order')
  BY <1>1, WriteFacts
<1>4. /\ \A c : Left(c)' = Left(c)
      /\ lost' \subseteq Resources
  BY <1>1, LeftStays DEF IInv, LostInv
<1>5. ASSUME ~saving.failed, NEW c \in Seen \ (saving.todo \union {saving.col})
      PROVE  Counted(items[c], order')
  <2>1. c \in Collections \ {saving.col} /\ items[c] \in Arrangements(Left(c))
        /\ Left(c) \in SUBSET Members(c) /\ Counted(items[c], order)
    BY <1>1, <1>5, MembersFacts DEF IInv, SavingInv, ItemsInv, Seen, ToSave
  <2> QED  BY <1>1, <2>1, WriteFacts
<1>6. ~saving.failed => \A i \in 1 .. saving.next : order'[s[i]] = i - 1
  BY <1>1, WriteFacts
<1>7. CASE saving.next = Len(s)
  <2>1. Loaded(lost', order', saving.failed)
    BY <1>1, <1>7 DEF WriteResource
  <2>2. ~saving.failed => Counted(s, order')
    BY <1>1, <1>2, <1>6, <1>7 DEF Counted
  <2>3. ~saving.failed => \A c \in Seen \ saving.todo : Counted(items[c], order')
    BY <1>5, <2>2
  <2> QED  BY <1>1, <1>3, <1>4, <2>1, <2>3, LoadedInv
<1>8. CASE saving.next # Len(s)
  <2>1. saving' = [saving EXCEPT !.next = @ + 1] /\ UNCHANGED <<bag, fatal, dialogVars>>
    BY <1>8 DEF WriteResource
  <2>2. UNCHANGED <<items, selected, target, picked>> /\ IsOpen' = IsOpen /\ Seen' = Seen
    BY <2>1 DEF dialogVars, IsOpen, Seen
  <2>3. saving \in Saves
    BY <1>1 DEF IInv, SavingInv
  <2>4. /\ saving' \in Saves /\ saving'.col = saving.col /\ saving'.todo = saving.todo
        /\ saving'.next = saving.next + 1 /\ saving'.failed = saving.failed
    <3>1. saving.next + 1 \in 1 .. Cardinality(Resources)
      BY <1>1, <1>2, <1>8
    <3> QED  BY <2>1, <2>3, <3>1 DEF Saves
  <2>5. saving'.next <= Len(s) /\ saving'.next - 1 = saving.next
    BY <1>1, <1>2, <1>8, <2>4
  <2>6. ~saving.failed => \A c \in Seen \ (saving.todo \union {saving.col}) :
                              Counted(items[c], order)'
    BY <1>5, <2>2 DEF Counted
  <2>7. SavingInv'
    BY <1>1, <1>6, <2>2, <2>4, <2>5, <2>6 DEF IInv, SavingInv
  <2>8. saving' # None
    BY <2>4, NoneAssumption
  <2>9. BagInv'
    BY <2>1, <2>4, <2>8, <1>3, <1>4 DEF IInv, BagInv
  <2>10. ItemsInv'
    <3>1. \A c : ToSave(c)' <=> ToSave(c)
      BY <1>1, <2>4, <2>8 DEF ToSave
    <3> QED  BY <1>1, <2>2, <3>1, LeftStays DEF IInv, ItemsInv
  <2>11. SelectedInv'
    BY <2>2 DEF IInv, SelectedInv
  <2>12. LostInv'
    BY <1>1, <2>1, SavingFacts DEF IInv, LostInv
  <2> QED  BY <1>3, <2>7, <2>9, <2>10, <2>11, <2>12 DEF IInv
<1> QED  BY <1>7, <1>8

LEMMA WriteFailsInv ==
    ASSUME IInv, WriteFails
    PROVE  IInv'
<1>1. saving # None /\ order' \in {order, WrittenOrder} /\ Loaded(lost', order', TRUE)
      /\ UNCHANGED lost
  BY DEF WriteFails
<1>2. OrderInv' /\ \A c \in Collections \ {saving.col} : InOrder(bag[c], order')
  <2>1. CASE order' = order
    BY <1>1, <2>1, SavingFacts DEF IInv, OrderInv, BagInv
  <2>2. CASE order' = WrittenOrder
    BY <1>1, <2>2, WriteFacts
  <2> QED  BY <1>1, <2>1, <2>2
<1>3. (\A c : Left(c)' = Left(c)) /\ lost' \subseteq Resources
  BY <1>1, LeftStays DEF IInv, LostInv
<1> QED  BY <1>1, <1>2, <1>3, LoadedInv

\* A torn file is that of one resource of the collection that is saved.
LEMMA TornFacts ==
    ASSUME IInv, saving # None, lost' = lost \union {Written}, UNCHANGED order
    PROVE  /\ OrderInv' /\ lost' \subseteq Resources
           /\ \A c \in Collections \ {saving.col} : InOrder(bag[c], order') /\ Left(c)' = Left(c)
           /\ \A c \in Collections : Left(c)' \subseteq Left(c)
<1>1. Written \in Resources /\ Owner[Written] = saving.col /\ fatal = None
  BY SavingFacts
<1>2. OrderInv' /\ lost' \subseteq Resources
  BY <1>1 DEF IInv, OrderInv, LostInv
<1>3. \A c \in Collections \ {saving.col} : Written \notin Members(c)
  BY <1>1, MembersFacts
<1>4. \A c \in Collections \ {saving.col} : Left(c)' = Left(c)
  BY <1>3 DEF Left, MembersBut
<1>5. \A c \in Collections : Left(c)' \subseteq Left(c)
  BY DEF Left, MembersBut
<1>6. \A c \in Collections \ {saving.col} : InOrder(bag[c], order')
  BY <1>1 DEF IInv, BagInv
<1> QED  BY <1>2, <1>4, <1>5, <1>6

LEMMA WriteTearsInv ==
    ASSUME IInv, WriteTears
    PROVE  IInv'
<1>1. saving # None /\ lost' = lost \union {Written} /\ UNCHANGED order
      /\ Loaded(lost', order', TRUE)
  BY DEF WriteTears
<1> QED  BY <1>1, TornFacts, LoadedInv

\* A start loads what is left.
LEMMA StartInv ==
    ASSUME IInv, UNCHANGED order, lost' \subseteq Resources, fatal' = None,
           bag' \in Trees(lost', order), saving' = None, ItemsInv', SelectedInv'
    PROVE  IInv'
<1>1. \A c \in Collections : ToSet(bag'[c]) = Left(c)' /\ bag'[c] \in Rows
                             /\ InOrder(bag'[c], order')
  BY DEF Trees, Left
<1>2. DOMAIN bag' = Collections
  BY DEF Trees
<1>3. BagInv'
  BY <1>1, <1>2 DEF BagInv, Arrangements
<1>4. OrderInv' /\ SavingInv' /\ LostInv'
  BY DEF IInv, OrderInv, SavingInv, LostInv
<1> QED  BY <1>3, <1>4 DEF IInv

LEMMA RestartInv ==
    ASSUME IInv, Restart
    PROVE  IInv'
<1>1. /\ Closed /\ saving' = None /\ UNCHANGED <<order, lost>> /\ fatal' = None
      /\ bag' \in Trees(lost', order)
  BY DEF Restart
<1>2. lost' \subseteq Resources
  BY <1>1 DEF IInv, LostInv
<1> QED  BY <1>1, <1>2, ClosedInv, StartInv

LEMMA EndTearsInv ==
    ASSUME IInv, EndTears
    PROVE  IInv'
<1>1. /\ saving # None /\ Closed /\ saving' = None /\ UNCHANGED <<order, fatal>>
      /\ lost' = lost \union {Written} /\ bag' \in Trees(lost', order)
  BY DEF EndTears
<1>2. lost' \subseteq Resources /\ fatal' = None
  BY <1>1, TornFacts, OpenRuns
<1> QED  BY <1>1, <1>2, ClosedInv, StartInv

LEMMA TearsFatallyInv ==
    ASSUME IInv, TearsFatally
    PROVE  IInv'
<1>1. /\ saving # None /\ Closed /\ saving' = None /\ UNCHANGED <<order, lost, bag>>
      /\ fatal' = Written
  BY DEF TearsFatally
<1>2. Written \in Resources \ lost
  BY <1>1, SavingFacts
<1>3. ItemsInv' /\ SelectedInv' /\ ~IsOpen'
  BY <1>1, ClosedInv
<1>4. OrderInv' /\ SavingInv'
  BY <1>1 DEF IInv, OrderInv, SavingInv
<1>5. LostInv'
  BY <1>1, <1>2, <1>3 DEF IInv, LostInv
<1>6. BagInv'
  BY <1>1, <1>2, NoneAssumption DEF BagInv
<1> QED  BY <1>3, <1>4, <1>5, <1>6 DEF IInv

LEMMA FileRemovedInv ==
    ASSUME IInv, FileRemoved
    PROVE  IInv'
<1>1. /\ fatal # None /\ fatal' = None /\ lost' = lost \union {fatal}
      /\ bag' \in Trees(lost', order) /\ UNCHANGED <<order, dialogVars, saving>>
  BY DEF FileRemoved
<1>2. ~IsOpen /\ saving = None /\ lost' \subseteq Resources
  BY <1>1 DEF IInv, LostInv
<1>3. UNCHANGED <<items, selected, target, picked>> /\ IsOpen' = IsOpen
  BY <1>1 DEF dialogVars, IsOpen
<1>4. ItemsInv'
  BY <1>2, <1>3 DEF ItemsInv
<1>5. SelectedInv'
  BY <1>2, <1>3 DEF IInv, SelectedInv
<1> QED  BY <1>1, <1>2, <1>4, <1>5, StartInv

-----------------------------------------------------------------------------
LEMMA InitInv ==
    ASSUME Init
    PROVE  IInv
<1>0. lost = {} /\ \A c \in Collections : Left(c) = Members(c) /\ MembersBut(c, {}) = Members(c)
  BY DEF Init, Left, MembersBut
<1>1. /\ DOMAIN bag = Collections
      /\ \A c \in Collections : bag[c] \in Arrangements(Members(c))
  BY <1>0 DEF Init, Trees, Arrangements
<1>2. ASSUME NEW r \in Resources
      PROVE  /\ order[r] \in Nat /\ order[r] < Cardinality(Members(Owner[r]))
             /\ order[r] + 1 \in 1 .. Cardinality(Members(Owner[r])) /\ bag[Owner[r]][order[r] + 1] = r
  <2> DEFINE c == Owner[r]
             i == CHOOSE i \in DOMAIN bag[c] : bag[c][i] = r
  <2>1. c \in Collections /\ r \in Members(c) /\ Cardinality(Members(c)) \in Nat
    BY MembersFacts
  <2>2. DOMAIN bag[c] = 1 .. Cardinality(Members(c)) /\ \E j \in 1 .. Cardinality(Members(c)) : bag[c][j] = r
    <3> DEFINE s == bag[c]
    <3> HIDE DEF c
    <3>1. s \in Arrangements(Members(c))
      BY <1>1, <2>1
    <3> HIDE DEF s
    <3>2. DOMAIN s = 1 .. Cardinality(Members(c)) /\ \E j \in 1 .. Cardinality(Members(c)) : s[j] = r
      BY <2>1, <3>1, ArrangementFacts
    <3> QED  BY <3>2 DEF s
  <2>3. i \in 1 .. Cardinality(Members(c)) /\ bag[c][i] = r
    BY <2>2
  <2>4. order[r] = i - 1
    BY DEF Init
  <2> HIDE DEF i, c
  <2>5. order[r] \in Nat /\ order[r] < Cardinality(Members(c)) /\ order[r] + 1 = i
    BY <2>1, <2>3, <2>4
  <2> QED  BY <2>3, <2>5 DEF c
<1>3. order = [r \in Resources |-> order[r]]
  BY DEF Init
<1>4. order \in [Resources -> Nat]
  <2> DEFINE number(r) == order[r]
  <2>1. \A r \in Resources : number(r) \in Nat
    BY <1>2
  <2>2. order = [r \in Resources |-> number(r)]
    BY <1>3
  <2> HIDE DEF number
  <2> QED  BY <2>1, <2>2
<1>5. ASSUME NEW c \in Collections
      PROVE  InOrder(bag[c], order)
  <2> DEFINE s == bag[c]
  <2>1. /\ s \in [1 .. Cardinality(Members(c)) -> Members(c)] /\ DOMAIN s = 1 .. Cardinality(Members(c))
        /\ \A i, j \in 1 .. Cardinality(Members(c)) : s[i] = s[j] => i = j
        /\ Cardinality(Members(c)) \in Nat
    BY <1>1, ArrangementFacts, MembersFacts
  <2>2. ASSUME NEW i \in 1 .. Cardinality(Members(c))
        PROVE  order[s[i]] = i - 1
    <3>1. s[i] \in Resources /\ Owner[s[i]] = c
      BY <2>1, MembersFacts
    <3>2. order[s[i]] + 1 \in 1 .. Cardinality(Members(c)) /\ s[order[s[i]] + 1] = s[i] /\ order[s[i]] \in Nat
      BY <1>2, <3>1
    <3>3. order[s[i]] + 1 = i
      BY <2>1, <3>2
    <3> QED  BY <2>1, <3>2, <3>3
  <2>3. Counted(s, order)
    BY <2>1, <2>2 DEF Counted
  <2> QED  BY <1>1, <2>3, CountedInOrder
<1> QED
  BY <1>0, <1>1, <1>2, <1>4, <1>5
  DEF Init, IInv, OrderInv, LostInv, BagInv, ItemsInv, SelectedInv, SavingInv, IsOpen

LEMMA Unchanged ==
    ASSUME IInv, UNCHANGED vars
    PROVE  IInv'
<1>1. UNCHANGED <<order, lost, fatal, bag, selected, items, target, picked, saving>>
  BY DEF vars, dialogVars
<1>2. ItemsInv' /\ IsOpen' = IsOpen /\ Seen' = Seen
  BY <1>1, ItemsStay
<1>3. OrderInv' /\ LostInv' /\ BagInv' /\ SelectedInv'
  BY <1>1, <1>2, LeftStays DEF IInv, OrderInv, LostInv, BagInv, SelectedInv
<1>4. SavingInv'
  BY <1>1, <1>2 DEF IInv, SavingInv, Counted
<1> QED  BY <1>2, <1>3, <1>4 DEF IInv

LEMMA NextInv ==
    ASSUME IInv, [Next]_vars
    PROVE  IInv'
<1>1. CASE UNCHANGED vars
  BY <1>1, Unchanged
<1>2. CASE OpenDialog
  BY <1>2, OpenDialogInv
<1>3. CASE Cancel
  BY <1>3, CancelInv
<1>4. CASE Ok
  BY <1>4, OkInv
<1>5. CASE \E c \in Collections : SelectCollection(c)
  BY <1>5, SelectCollectionInv
<1>6. CASE \E i \in 1 .. Cardinality(Resources) : Pick(i)
  BY <1>6, PickInv
<1>7. CASE MoveCurrent
  BY <1>7, MoveCurrentInv
<1>8. CASE RestoreOrder
  BY <1>8, RestoreOrderInv
<1>9. CASE WriteResource
  BY <1>9, WriteResourceInv
<1>10. CASE WriteFails
  BY <1>10, WriteFailsInv
<1>11. CASE Restart
  BY <1>11, RestartInv
<1>12. CASE Panic
  BY <1>12, RestartInv DEF Panic
<1>13. CASE WriteTears
  BY <1>13, WriteTearsInv
<1>14. CASE EndTears
  BY <1>14, EndTearsInv
<1>15. CASE TearsFatally
  BY <1>15, TearsFatallyInv
<1>16. CASE FileRemoved
  BY <1>16, FileRemovedInv
<1> QED
  BY <1>1, <1>2, <1>3, <1>4, <1>5, <1>6, <1>7, <1>8, <1>9, <1>10, <1>11, <1>12,
     <1>13, <1>14, <1>15, <1>16 DEF Next

-----------------------------------------------------------------------------
(* The theorems.                                                           *)

\* What the dialog and the tree have of each collection, the numbers in the
\* files and the progress of a save stay consistent (ResourceItems, MoveControl
\* and doReorder of resourcecollections.go).
THEOREM Invariance == Spec => []IInv
<1>1. Init => IInv
  BY InitInv
<1>2. IInv /\ [Next]_vars => IInv'
  BY NextInv
<1> QED  BY <1>1, <1>2, PTL DEF Spec

\* Numbers are always those of places of their collection, whatever save has
\* stopped half-way and whatever file it has torn, and a selection is a place of
\* the list as long as no resource is lost: RestoreOrder uses one as the other.
THEOREM TypeCorrect == Spec => []TypeOK
<1>1. ASSUME IInv PROVE TypeOK
  <2>1. \A r \in Resources : order[r] \in 0 .. Cardinality(Members(Owner[r])) - 1
    <3> SUFFICES ASSUME NEW r \in Resources
                 PROVE  order[r] \in 0 .. Cardinality(Members(Owner[r])) - 1
      OBVIOUS
    <3>1. Cardinality(Members(Owner[r])) \in Nat
      BY MembersFacts
    <3>2. order[r] \in Nat /\ order[r] < Cardinality(Members(Owner[r]))
      BY <1>1 DEF IInv, OrderInv
    <3> QED  BY <3>1, <3>2
  <2>2. selected \in Collections \union {None}
    BY <1>1 DEF IInv, SelectedInv
  <2>3. target # 0 => /\ picked \in Collections
                      /\ target \in 1 .. Cardinality(Members(picked))
    BY <1>1, MembersFacts DEF IInv, SelectedInv
  <2>4. ASSUME target # 0, picked = selected, lost = {}
        PROVE  target <= Len(Shown)
    <3>1. /\ selected # None /\ IsOpen /\ selected \in Seen /\ selected \in Collections
          /\ target <= Cardinality(Members(selected))
      BY <1>1, <2>4 DEF IInv, SelectedInv
    <3>2. Lists(selected, Shown) /\ Left(selected) = Members(selected)
      BY <1>1, <2>4, <3>1 DEF IInv, ItemsInv, Shown, Left, MembersBut
    <3>3. Shown \in Arrangements(Members(selected))
      BY <3>2 DEF Lists, Arrangements
    <3>4. Len(Shown) = Cardinality(Members(selected))
      BY <3>1, <3>3, ArrangementFacts
    <3> QED  BY <3>1, <3>4
  <2>5. lost \subseteq Resources /\ fatal \in (Resources \ lost) \union {None}
    BY <1>1 DEF IInv, LostInv
  <2> QED  BY <2>1, <2>2, <2>3, <2>4, <2>5 DEF TypeOK
<1> QED  BY <1>1, Invariance, PTL

\* Numbers that are counted and a tree that is sorted by them are what the
\* dialog shows.
LEMMA TreeAsShown ==
    ASSUME IInv, NEW c \in Collections, NEW s \in Arrangements(Left(c)), Counted(s, order),
           fatal = None, saving = None \/ saving.col # c
    PROVE  bag[c] = s
<1>1. Left(c) \in SUBSET Members(c)
  BY MembersFacts
<1>2. bag[c] \in Arrangements(Left(c)) /\ InOrder(bag[c], order) /\ order \in [Resources -> Nat]
  BY DEF IInv, OrderInv, BagInv
<1> QED  BY <1>1, <1>2, OneInOrder

\* After OK without a failed write the tree and the files are as the dialog
\* showed them, also where the dialog wrote nothing (GetReorderMap, doReorder).
THEOREM OkSaves == Spec => OkShowsOrder
<1> DEFINE Saved == \A c \in Seen :
                        /\ bag'[c] = items[c]
                        /\ \A i \in DOMAIN items[c] : order'[items[c][i]] = i - 1
<1>1. ASSUME IInv, IInv', Ok, items' = None
      PROVE  Saved
  <2>1. UNCHANGED <<order, bag>> /\ saving = None /\ IsOpen /\ fatal = None
    BY <1>1, OpenRuns DEF Ok, Ready
  <2>2. {c \in Seen : HasOrderChanged(items[c])} = {}
    BY <1>1, <2>1 DEF Ok, dialogVars, IsOpen
  <2>3. ASSUME NEW c \in Seen
        PROVE  /\ bag'[c] = items[c]
               /\ \A i \in DOMAIN items[c] : order'[items[c][i]] = i - 1
    <3>1. c \in Collections /\ items[c] \in Arrangements(Left(c))
      BY <1>1, <2>1 DEF IInv, ItemsInv, Seen, ToSave
    <3>2. Counted(items[c], order)
      BY <2>2 DEF HasOrderChanged, Counted
    <3>3. bag[c] = items[c]
      BY <1>1, <2>1, <3>1, <3>2, TreeAsShown
    <3> QED  BY <2>1, <3>2, <3>3 DEF Counted
  <2> QED  BY <2>3
<1>2. ASSUME IInv, IInv', WriteResource, items' = None, ~saving.failed
      PROVE  Saved
  <2> DEFINE s == items[saving.col]
             S == Left(saving.col)
  <2>1. /\ saving # None /\ IsOpen /\ order' = WrittenOrder /\ UNCHANGED lost
        /\ saving.col \in Collections /\ S \in SUBSET Members(saving.col) /\ s \in Arrangements(S)
    BY <1>2, SavingFacts DEF WriteResource, IInv, SavingInv
  <2>2. DOMAIN s = 1 .. Cardinality(S) /\ Len(s) = Cardinality(S)
    <3> HIDE DEF s, S
    <3> QED  BY <2>1, ArrangementFacts
  <2>3. items' # items
    BY <1>2, <2>1 DEF IsOpen
  <2>4. /\ saving.next = Len(s) /\ saving.todo = {} /\ saving' = None /\ fatal' = None
    BY <1>2, <2>1, <2>3, SavingFacts DEF WriteResource, Loaded, dialogVars
  <2>5. ASSUME NEW c \in Seen
        PROVE  /\ Counted(items[c], order') /\ c \in Collections
               /\ items[c] \in Arrangements(Left(c)) /\ Left(c) \in SUBSET Members(c)
    <3>1. c \in Collections /\ items[c] \in Arrangements(Left(c)) /\ Left(c) \in SUBSET Members(c)
      BY <1>2, <2>1, MembersFacts DEF IInv, ItemsInv, Seen, ToSave
    <3>2. CASE c = saving.col
      BY <1>2, <2>1, <2>2, <2>4, <3>1, <3>2, WriteFacts DEF Counted
    <3>3. CASE c # saving.col
      <4>1. Counted(items[c], order)
        BY <1>2, <2>1, <2>4, <3>3 DEF IInv, SavingInv
      <4> QED  BY <1>2, <2>1, <3>1, <3>3, <4>1, WriteFacts
    <3> QED  BY <3>1, <3>2, <3>3
  <2>6. ASSUME NEW c \in Seen
        PROVE  bag'[c] = items[c]
    <3>1. Left(c)' = Left(c)
      BY <2>1, LeftStays
    <3>2. bag'[c] \in Arrangements(Left(c)) /\ InOrder(bag'[c], order')
          /\ order' \in [Resources -> Nat]
      BY <1>2, <2>4, <2>5, <3>1 DEF IInv, BagInv, OrderInv
    <3> QED  BY <2>5, <3>2, OneInOrder
  <2> QED  BY <2>5, <2>6 DEF Counted
<1>3. IInv /\ IInv' /\ [Next]_vars =>
          [(Ok \/ WriteResource) /\ items' = None /\ (saving # None => ~saving.failed)
               => Saved]_vars
  BY <1>1, <1>2 DEF WriteResource
<1> QED  BY <1>3, Invariance, PTL DEF Spec, OkShowsOrder

\* A sorted tree that is counted is what a restore gives.
LEMMA RestoredTree ==
    ASSUME IInv, RestoreOrder, Sequential(selected)
    PROVE  /\ Shown' = bag[selected]
           /\ Shown'[target'] = Shown[target]
<1> DEFINE c == selected
           r == Shown[target]
           S == Left(selected)
<1>1. /\ c \in Collections /\ S \in SUBSET Members(c) /\ Shown \in Arrangements(S)
      /\ Shown' \in Sorted(S, order)
      /\ target \in 1 .. Cardinality(S) /\ fatal = None /\ saving = None
  BY RestoreOrderInv
<1>2. Shown' = bag[c]
  <2>1. bag[c] \in Arrangements(S) /\ Counted(bag[c], order) /\ order \in [Resources -> Nat]
    BY <1>1 DEF IInv, BagInv, OrderInv, Sequential, Counted
  <2>2. Shown' \in Arrangements(S) /\ InOrder(Shown', order)
    BY <1>1 DEF Sorted
  <2> QED  BY <1>1, <2>1, <2>2, OneInOrder
<1> DEFINE s == bag[c]
<1>3. s \in Arrangements(S) /\ \A i \in DOMAIN s : order[s[i]] = i - 1
  BY <1>1 DEF IInv, BagInv, Sequential
<1>4. r \in S
  BY <1>1, ArrangementFacts
<1> HIDE DEF s, c, r, S
<1>5. /\ DOMAIN s = 1 .. Cardinality(S) /\ Cardinality(S) \in Nat
      /\ \A q \in S : \E i \in 1 .. Cardinality(S) : s[i] = q
  BY <1>1, <1>3, ArrangementFacts
<1>6. PICK i \in 1 .. Cardinality(S) : s[i] = r
  BY <1>4, <1>5
<1>7. order[r] = i - 1 /\ Cardinality(S) \in Nat
  BY <1>3, <1>6, <1>5
<1>8. target' = i
  BY <1>7 DEF RestoreOrder, RestoredTarget, r
<1>9. Shown'[target'] = s[i]
  BY <1>2, <1>8 DEF s
<1> QED  BY <1>2, <1>6, <1>9 DEF c, r

\* Buttons move the resource that was picked, and Restore keeps it picked
\* (MoveCurrent, RestoreOrder).
THEOREM Follows == Spec => MovesKeepTarget
<1>1. IInv /\ [Next]_vars =>
          [MoveCurrent \/ (RestoreOrder /\ Sequential(selected)) =>
               Shown'[target'] = Shown[target]]_vars
  BY MoveCurrentInv, RestoredTree
<1> QED  BY <1>1, Invariance, PTL DEF Spec, MovesKeepTarget

\* Restore brings back the sequence of the tree (RestoreOrder).
THEOREM Restores == Spec => RestoreUndoes
<1>1. IInv /\ [Next]_vars =>
          [RestoreOrder /\ Sequential(selected) => Shown' = bag[selected]]_vars
  BY RestoredTree
<1> QED  BY <1>1, Invariance, PTL DEF Spec, RestoreUndoes
=============================================================================
