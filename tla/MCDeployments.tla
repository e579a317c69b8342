-------------------------- MODULE MCDeployments --------------------------
(***************************************************************************)
(* Instances of Deployments.  Clicked bounds the nodes the user deploys.   *)
(***************************************************************************)
EXTENDS Deployments, TLC

CONSTANTS Clicked, c1, r1, r2, r3, v1, v2, v3, v4, v5, ns1, ns2, t1, t2

\* All resources but the templates are in one collection.
OwnerC1 == [r \in Res \ Templates |-> c1]

\* Every text names an object of its own, and no namespace.
OwnName == [v \in Crs |-> v]
NoOwnNs == [v \in Crs |-> NoNs]

\* r1 and r2 have one text each, of an object of its own.  Tasks are alike, and
\* so are the resources with their texts: nothing chooses among them.
OneTextEach == [r \in Res |-> IF r = r1 THEN {v1} ELSE {v2}]

Swaps == {[x \in {r1, r2, v1, v2} |-> x],
          (r1 :> r2) @@ (r2 :> r1) @@ (v1 :> v2) @@ (v2 :> v1)}
Alike == {p @@ q : p \in Permutations(Tasks), q \in Swaps}

\* r1 has two texts, r2 one of a cluster-scoped kind, and r3 two that name
\* the object of r1, in a namespace they state.
CarefulTexts == (r1 :> {v1, v4}) @@ (r2 :> {v2}) @@ (r3 :> {v3, v5})
CarefulNames == (v1 :> "a") @@ (v4 :> "a") @@ (v2 :> "b") @@ (v3 :> "a") @@ (v5 :> "a")
CarefulNs == (v1 :> NoNs) @@ (v4 :> NoNs) @@ (v2 :> NoNs) @@ (v3 :> ns2) @@ (v5 :> ns2)

-----------------------------------------------------------------------------
\* For tasks that overlap: of the edits those that change which resources a
\* redeploy finds.
OverlapNext ==
    \/ \E r \in Res : RemoveResource(r) \/ AddResource(r)
    \/ ClickStep(Clicked)
    \/ \E t \in Tasks : TaskStep(t) \/ FailStep(t)
    \/ Crash \/ Restart

OverlapSpec == Init /\ [][OverlapNext]_vars
OverlapFairSpec == OverlapSpec /\ Fairness

-----------------------------------------------------------------------------
\* For users who wait for the end of a task.
CarefulClicksSpec == Init /\ [][CarefulNext(Clicked)]_vars
=============================================================================
