-------------------------- MODULE MCRemoteService --------------------------
(***************************************************************************)
(* Instances of RemoteService.  Requests meet in a key of the cache or in  *)
(* the agent's list of api resources, so a behaviour is about the requests *)
(* of one topic.                                                           *)
(***************************************************************************)
EXTENDS RemoteService, TLC

CONSTANTS uri, deployment, service, name, test, stest, job, jobs, cr

\* "job" in "stest" and "jobs" in "test" are the same letters.
Spelled == job :> <<"job">> @@ jobs :> <<"job", "s">>
               @@ test :> <<"test">> @@ stest :> <<"s", "test">>
Spelling == [x \in ApiVers \X Namespaces |-> Spelled[x[1]] \o Spelled[x[2]]]

VARIABLE topic

Alike == Permutations(Callers)

Topics ==
    {{[method |-> "FetchGVRInstances", r |-> job, ns |-> test],
      [method |-> "FetchGVRInstances", r |-> job, ns |-> stest]},
     {[method |-> "FetchGVRInstances", r |-> job, ns |-> stest],
      [method |-> "FetchGVRInstances", r |-> jobs, ns |-> test]},
     {[method |-> "FetchAllApiResources", force |-> TRUE],
      [method |-> "FetchAllApiResources", force |-> FALSE]},
     {[method |-> "GetDescribeFor", kind |-> deployment, name |-> name, ns |-> test],
      [method |-> "GetDescribeFor", kind |-> service, name |-> name, ns |-> test]},
     {[method |-> "GetCRDFor", apiVer |-> jobs], [method |-> "FetchAllNamespaces"]},
     {[method |-> "DoRawRequest", value |-> uri], [method |-> "IsValid"]},
     {[method |-> "DeployResource", cr |-> cr, defaultNs |-> test, targetNs |-> Empty],
      [method |-> "DeployResource", cr |-> cr, defaultNs |-> test, targetNs |-> stest]},
     {[method |-> "GetClusterInfo"], [method |-> "GetClusterName"]}}

AllAsked == UNION Topics

TopicInit == Init /\ topic \in Topics

TopicNext ==
    /\ \/ \E c \in Callers, q \in topic : Begin(c, q)
       \/ \E c \in Callers : Step(c)
       \/ \E c, d \in Callers : MapRace(c, d)
       \/ StartAgain
       \/ AgentRestarts
       \/ Tick
    /\ UNCHANGED topic

TopicSpec == TopicInit /\ [][TopicNext]_<<vars, topic>>
=============================================================================
