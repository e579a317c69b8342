---------------------------- MODULE MCInKubeTab ----------------------------
(***************************************************************************)
(* An instance of InKubeTab: a namespace disappears, and a cluster has     *)
(* pods and, cluster-scoped, nodes.                                        *)
(***************************************************************************)
EXTENDS InKubeTab

CONSTANTS n1, n2, pods, nodes

SomeNsLists == {<<n1, n2>>}
SomeResLists == {<<nodes, pods>>}

\* All pods of up to one initialising and two other containers.
AllPods == [init : BoundedSeq(ContainerStates, 1), app : BoundedSeq(ContainerStates, 2)]
=============================================================================
