----------------------------- MODULE MCPodLog ------------------------------
(***************************************************************************)
(* Instances of PodLog.                                                    *)
(***************************************************************************)
EXTENDS PodLog

\* Tasks are alike.
Alike == Permutations(Tasks)

\* What is left of a state when the objects nothing refers to are dropped.
Collected ==
    <<queue, [t \in Tasks |-> IF Unreferenced(t) THEN None ELSE task[t]], run, logVars>>
=============================================================================
