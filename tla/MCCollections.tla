--------------------------- MODULE MCCollections ---------------------------
(***************************************************************************)
(* Instances of Collections.                                               *)
(***************************************************************************)
EXTENDS Collections, TLC

CONSTANT MaxTouched     \* bound on the tabs that are open and on what shows a
                        \* trace of an edit, together; a template is both

\* Resources are alike, and so are the collections below the repository.
Alike == Permutations(Resources) \cup Permutations(Collections \ {root})

New(c) == c.text = sample /\ ~c.dirty

Edited == {x \in DOMAIN node : ~New(node[x])} \cup {x \in DOMAIN own : ~New(own[x])}
              \cup {x \in DOMAIN disk : ~New(disk[x])}

\* Pointers matter only by who has the same one.
Merged ==
    <<disk, node, bag, tabs, own, current, panel, currentNode,
      {p \in Resources \X Resources : SameOrder(p[1], p[2])},
      {r \in Resources : template \in Open /\ cell[r] = templateCell}>>

Bounded == Len(tabs) + Cardinality(Edited \cup (Open \cap {template})) <= MaxTouched

=============================================================================
