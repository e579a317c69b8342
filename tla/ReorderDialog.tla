---------------------------- MODULE ReorderDialog ---------------------------
(***************************************************************************)
(* The dialog that reorders the resources of collections (ReorderPanel,    *)
(* ResourceItems and MoveControl of pkg/appui/resourcecollections.go).     *)
(* The user selects one collection after the other in the dialog's tree    *)
(* and moves their resources up and down; OK numbers the resources of      *)
(* every collection that looks changed, writes their files one by one and  *)
(* loads the collection again.                                             *)
(*                                                                         *)
(* The dialog is modal and all of it runs on the UI thread, but a write    *)
(* may fail, which ends the writing of that collection and is not          *)
(* reported, and the program may end at any moment.  A file is truncated   *)
(* before it is written: what is left of it may be no resource any more,   *)
(* or something that no load survives.  What else happens to a tree of     *)
(* collections is in module Collections.                                   *)
(***************************************************************************)
EXTENDS Integers, Sequences, FiniteSetsExt, SequencesExt

CONSTANTS
    Resources,
    Collections,
    Owner,          \* Owner[r]: the collection of r
    None

ASSUME OwnerAssumption ==
    /\ Owner \in [Resources -> Collections] /\ None \notin Collections
    /\ IsFiniteSet(Resources)

VARIABLES
    order,      \* Order of the resources, the same in memory and in the files
    lost,       \* resources whose files were torn and say nothing any more
    fatal,      \* a resource whose torn file ends every Load, or None
    bag,        \* ResourceNodes of the collections
    selected,   \* the collection selected in the dialog, None before the first
    items,      \* reorderMap: the sequences of the collections that were
                \* selected; None without a dialog
    target,     \* currentTarget as a position, 0 for -1
    picked,     \* history: where target was picked or moved last
    saving      \* what OK has still to do, None when it does nothing

dialogVars == <<selected, items, target, picked>>
vars == <<order, lost, fatal, bag, dialogVars, saving>>

Members(c) == {r \in Resources : Owner[r] = c}
MembersBut(c, gone) == Members(c) \ gone

\* The lists of resources of one collection, none of them twice; listed, or
\* TLC finds them anew each time.
Rows ==
    {s : s \in UNION {SetToSeqs(S) : S \in UNION {SUBSET Members(c) : c \in Collections}}}
Arrangements(S) == {s \in Rows : ToSet(s) = S}

\* reorderMap, and what OK has to do, take no value that stands for none.
ReorderMaps == [Collections -> Rows \union {None}]
Saves == [col : Collections, next : 1..Cardinality(Resources),
          todo : SUBSET Collections, failed : BOOLEAN]

ASSUME NoneAssumption ==
    /\ None \notin Rows /\ None \notin Resources
    /\ None \notin ReorderMaps /\ None \notin Saves

Unseen == [c \in Collections |-> None]
IsOpen == items # None
Seen == {c \in Collections : items[c] # None}
Shown == items[selected]

\* What Sort makes of the resources of a set.
InOrder(s, ord) == \A i, j \in DOMAIN s : i < j => ord[s[i]] <= ord[s[j]]
Sorted(S, ord) == {s \in Arrangements(S) : InOrder(s, ord)}

\* What Load makes of the files: only lists of all that is left of a collection.
Trees(gone, ord) ==
    LET all == {MembersBut(c, gone) : c \in Collections}
        rows == {s \in Rows : ToSet(s) \in all /\ InOrder(s, ord)}
    IN  {b \in [Collections -> rows] : \A c \in Collections : ToSet(b[c]) = MembersBut(c, gone)}

-----------------------------------------------------------------------------
(* Moves.                                                                   *)

\* The item goes to its place, and those between move by one.
ReorderSlice(s, from, to) ==
    [i \in DOMAIN s |->
        CASE i = to -> s[from]
          [] to < i /\ i <= from -> s[i - 1]
          [] from <= i /\ i < to -> s[i + 1]
          [] OTHER -> s[i]]

\* The frame can draw the list and the selection in it.
Drawn == target <= Len(Shown)

\* The dialog takes events: an empty list has nothing to select in it.
Ready == IsOpen /\ saving = None /\ (selected # None => Drawn \/ Shown = <<>>)

\* Destinations of the buttons that are enabled.
Destinations ==
    IF target = 0 THEN {}
    ELSE (IF target = 1 THEN {} ELSE {1, target - 1})
           \union (IF target = Len(Shown) THEN {} ELSE {target + 1, Len(Shown)})

Move(to) ==
    /\ items' = [items EXCEPT ![selected] = ReorderSlice(Shown, target, to)]
    /\ target' = to
    /\ picked' = selected
    /\ UNCHANGED <<order, lost, fatal, bag, selected, saving>>

MoveCurrent == Ready /\ selected # None /\ Drawn /\ \E to \in Destinations : Move(to)

\* Mutant of RestoredTarget: the place stays selected, not the resource.
RestoredTargetStays(s) == target

\* The place that the number of the selected resource gives.
RestoredTarget(s) == order[s[target]] + 1

\* Mutant of Restored: the sequence the tree shows backwards.
RestoredBackwards(s) == {Reverse(bag[selected])}

Restored(s) == Sorted(ToSet(s), order)

RestoreOrder ==
    /\ Ready /\ selected # None /\ Drawn /\ target # 0
    /\ \E s \in Restored(Shown) : items' = [items EXCEPT ![selected] = s]
    /\ target' = RestoredTarget(Shown)
    /\ picked' = selected
    /\ UNCHANGED <<order, lost, fatal, bag, selected, saving>>

-----------------------------------------------------------------------------
(* Selecting.                                                               *)

OpenDialog ==
    /\ ~IsOpen /\ fatal = None
    /\ items' = Unseen
    /\ selected' = None
    /\ target' = 0
    /\ picked' = None
    /\ UNCHANGED <<order, lost, fatal, bag, saving>>

\* SetCurrentCollection: only a collection that is new to the dialog takes the
\* selection of a resource away.
SelectCollection(c) ==
    /\ Ready
    /\ c # selected
    /\ selected' = c
    /\ IF c \in Seen THEN UNCHANGED <<items, target, picked>>
       ELSE /\ items' = [items EXCEPT ![c] = bag[c]]
            /\ target' = 0
            /\ picked' = None
    /\ UNCHANGED <<order, lost, fatal, bag, saving>>

Pick(i) ==
    /\ Ready
    /\ selected # None
    /\ i \in DOMAIN Shown
    /\ target' = i
    /\ picked' = selected
    /\ UNCHANGED <<order, lost, fatal, bag, selected, items, saving>>

Closed ==
    /\ items' = None
    /\ selected' = None
    /\ target' = 0
    /\ picked' = None

Cancel ==
    /\ Ready
    /\ Closed
    /\ UNCHANGED <<order, lost, fatal, bag, saving>>

-----------------------------------------------------------------------------
(* OK.                                                                      *)

\* Mutant of HasOrderChanged: looks at the first of each collection.
FirstHasChanged(s) == s # <<>> /\ order[s[1]] # 0

HasOrderChanged(s) == \E i \in DOMAIN s : order[s[i]] # i - 1

\* The collections are taken in any sequence, each as [col, next, failed]: the
\* place of the next resource to write, and whether a write has failed so far.
Ok ==
    LET changed == {c \in Seen : HasOrderChanged(items[c])} IN
    /\ Ready
    /\ IF changed = {} THEN Closed /\ UNCHANGED saving
       ELSE /\ \E c \in changed :
                 saving' = [col |-> c, next |-> 1, todo |-> changed \ {c}, failed |-> FALSE]
            /\ UNCHANGED dialogVars
    /\ UNCHANGED <<order, lost, fatal, bag>>

\* The collection is loaded again, and the next one begins.
Loaded(gone, ord, failed) ==
    /\ \E s \in Sorted(MembersBut(saving.col, gone), ord) : bag' = [bag EXCEPT ![saving.col] = s]
    /\ IF saving.todo = {} THEN saving' = None /\ Closed
       ELSE /\ \E c \in saving.todo :
                 saving' = [col |-> c, next |-> 1, todo |-> saving.todo \ {c}, failed |-> failed]
            /\ UNCHANGED dialogVars
    /\ UNCHANGED fatal

\* Mutant of Numbered: counts from one.
NumberedFromOne(r, i) == [order EXCEPT ![r] = i]

\* SetInstanceAt, as it comes to be in the file.
Numbered(r, i) == [order EXCEPT ![r] = i - 1]

\* The resource whose file is written, and what the files say afterwards.
Written == items[saving.col][saving.next]
WrittenOrder == Numbered(Written, saving.next)

WriteResource ==
    /\ saving # None
    /\ order' = WrittenOrder
    /\ IF saving.next = Len(items[saving.col]) THEN Loaded(lost, order', saving.failed)
       ELSE /\ saving' = [saving EXCEPT !.next = @ + 1]
            /\ UNCHANGED <<bag, fatal, dialogVars>>
    /\ UNCHANGED lost

\* The file cannot be opened, or lacks only what comes after the number.
WriteFails ==
    /\ saving # None
    /\ order' \in {order, WrittenOrder}
    /\ Loaded(lost, order', TRUE)
    /\ UNCHANGED lost

\* The write fails when the file has been truncated: InstanceFromYAML returns
\* nil for it, and the tree goes on without the resource.
WriteTears ==
    /\ saving # None
    /\ lost' = lost \union {Written}
    /\ Loaded(lost', order, TRUE)
    /\ UNCHANGED order

\* The program ends and is started again.
Restart ==
    /\ fatal = None
    /\ bag' \in Trees(lost, order)
    /\ Closed
    /\ saving' = None
    /\ UNCHANGED <<order, lost, fatal>>

\* It ends within a write, and starts without the resource.
EndTears ==
    /\ saving # None
    /\ lost' = lost \union {Written}
    /\ bag' \in Trees(lost', order)
    /\ Closed
    /\ saving' = None
    /\ UNCHANGED <<order, fatal>>

\* The write fails or the program ends, and what is left has no spec or no
\* number: the load after it panics, and so does every start.
TearsFatally ==
    /\ saving # None
    /\ fatal' = Written
    /\ Closed
    /\ saving' = None
    /\ UNCHANGED <<order, lost, bag>>

\* The user takes the file away and starts the program.
FileRemoved ==
    /\ fatal # None
    /\ lost' = lost \union {fatal}
    /\ fatal' = None
    /\ bag' \in Trees(lost', order)
    /\ UNCHANGED <<order, dialogVars, saving>>

\* A selection beyond the end of the list: the frame, or for an empty list the
\* first button, indexes the slice out of range.
Panic ==
    /\ IsOpen /\ saving = None /\ selected # None /\ ~Drawn
    /\ Restart

-----------------------------------------------------------------------------
Init ==
    /\ lost = {} /\ fatal = None
    /\ bag \in Trees({}, [r \in Resources |-> 0])
    /\ order = [r \in Resources |->
                  (CHOOSE i \in DOMAIN bag[Owner[r]] : bag[Owner[r]][i] = r) - 1]
    /\ items = None /\ selected = None
    /\ target = 0 /\ picked = None
    /\ saving = None

Next ==
    \/ OpenDialog \/ Cancel \/ Ok
    \/ \E c \in Collections : SelectCollection(c)
    \/ \E i \in 1..Cardinality(Resources) : Pick(i)
    \/ MoveCurrent \/ RestoreOrder
    \/ WriteResource \/ WriteFails \/ WriteTears
    \/ Restart \/ EndTears \/ TearsFatally \/ FileRemoved \/ Panic

Spec == Init /\ [][Next]_vars

-----------------------------------------------------------------------------
(* Properties.                                                              *)

\* Types; and numbers stay those of places, also when a save has stopped in
\* between: RestoreOrder uses one as an index of the list, which is shorter
\* only when a resource was lost.
TypeOK ==
    /\ \A r \in Resources : order[r] \in 0 .. Cardinality(Members(Owner[r])) - 1
    /\ lost \subseteq Resources /\ fatal \in (Resources \ lost) \union {None}
    /\ selected \in Collections \union {None}
    /\ target # 0 => /\ picked \in Collections
                     /\ target \in 1 .. Cardinality(Members(picked))
    /\ (target # 0 /\ picked = selected /\ lost = {}) => target <= Len(Shown)

\* After OK with no failed write every collection of the dialog is as the
\* dialog showed it, and its files are numbered from 0, whatever gaps and
\* repetitions an earlier save had left: one that "has not changed" needs no
\* saving.
OkShowsOrder ==
    [][(Ok \/ WriteResource) /\ items' = None /\ (saving # None => ~saving.failed) =>
         \A c \in Seen :
           /\ bag'[c] = items[c]
           /\ \A i \in DOMAIN items[c] : order'[items[c][i]] = i - 1]_vars

Sequential(c) == \A i \in DOMAIN bag[c] : order[bag[c][i]] = i - 1

\* The selection follows the resource through moves and a restore, in a
\* collection whose numbers are complete: the next click moves the same one.
MovesKeepTarget ==
    [][MoveCurrent \/ (RestoreOrder /\ Sequential(selected)) =>
         Shown'[target'] = Shown[target]]_vars

\* Restore gives what the tree shows, after any moves.
RestoreUndoes ==
    [][RestoreOrder /\ Sequential(selected) => Shown' = bag[selected]]_vars
=============================================================================
