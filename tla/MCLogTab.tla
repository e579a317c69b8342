------------------------------ MODULE MCLogTab ------------------------------
(***************************************************************************)
(* An instance of LogTab: two messages, a word the first has in another    *)
(* case and a word only the second has.                                    *)
(***************************************************************************)
EXTENDS LogTab

CONSTANTS w1, w2, upper, other

LineContains(f, case, t) == (f = upper /\ t = w1 /\ ~case) \/ (f = other /\ t = w2)
=============================================================================
