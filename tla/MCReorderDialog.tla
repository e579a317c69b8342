-------------------------- MODULE MCReorderDialog ---------------------------
(***************************************************************************)
(* An instance of ReorderDialog: one collection with three resources, one  *)
(* with two, and an empty one.                                             *)
(***************************************************************************)
EXTENDS ReorderDialog, TLC

CONSTANTS c1, c2, c3, r1, r2, r3, r4, r5

OwnerOf == [r \in Resources |-> IF r \in {r4, r5} THEN c2 ELSE c1]

\* The resources of one collection are alike.
Alike == Permutations({r1, r2, r3})
=============================================================================
