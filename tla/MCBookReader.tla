---------------------------- MODULE MCBookReader ----------------------------
(***************************************************************************)
(* An instance of BookReader: two names for books, two files.  It starts   *)
(* with an empty repository, or with a book in which the one file has a    *)
(* link to the other, and that one to itself.                              *)
(***************************************************************************)
EXTENDS BookReader, TLC

CONSTANTS nameA, nameB, fileU, fileV, note

NoBooks == [n \in Names |-> IF n = NoName THEN EmptyDir ELSE None]
LinkedTo(u) == [NoRefs EXCEPT !.links = <<u>>]
WithBook(u, v) ==
    [NoBooks EXCEPT ![nameA] = [idx |-> <<u, v>>, items |-> [w \in Urls |-> LinkedTo(v)]]]
Repositories == {NoBooks, WithBook(fileU, fileV), WithBook(fileV, fileU)}

Alike == Permutations({fileU, fileV})
=============================================================================
