-------------------------- MODULE MCDeployRegistry --------------------------
(***************************************************************************)
(* Instances of DeployRegistry: two nodes and two goroutines.              *)
(***************************************************************************)
EXTENDS DeployRegistry, TLC

\* Nothing chooses among goroutines, nor among ids.
Alike == Permutations(Procs) \cup Permutations(Ids)

\* The status of a detail nobody holds any more does not matter.
Reachable ==
    <<resIds, list, [id \in Ids |-> IF resIds[id] = None THEN None ELSE status[resIds[id]]],
      [i \in DOMAIN cache |-> <<cache[i], status[cache[i]]>>],
      persister, files, procs, frame, up>>
=============================================================================
