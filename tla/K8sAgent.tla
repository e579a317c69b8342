------------------------------ MODULE K8sAgent ------------------------------
(***************************************************************************)
(* The agent's side of every method: K8sClient (pkg/k8sservice/            *)
(* k8sclient.go), which asks the cluster, and the handlers of the gRPC     *)
(* server around it (pkg/k8sservice/serviceimpl.go).  No handler returns a *)
(* gRPC error: "If there is any app error please wrap it in the reply".    *)
(*                                                                         *)
(* A result of K8sClient is [err, data]: what a handler gets from it.      *)
(***************************************************************************)
EXTENDS AgentProtocol

Data(q, now) == [of |-> q, at |-> now]
Succeeds(q, now) == [err |-> Empty, data |-> Data(q, now)]
Fails == [err |-> Failure, data |-> Empty]

\* K8sClient.DoRawRequest: an error also comes as the text of the answer.
RawResults(q, now) == {Succeeds(q, now), Fails}

\* K8sClient.GetDescribeFor: what the describe command writes to its error
\* stream is an answer like any other.
DescribeResults(q, now) == {Succeeds(q, now)}

\* K8sClient.GetCRDFor
CrdResults(q, now) == {Succeeds(q, now), Fails}

\* K8sClient.FetchAllNamespaces, FetchGVRInstances
NamespacesResults(q, now) == {Succeeds(q, now), Fails}
GvrResults(q, now) == {Succeeds(q, now), Fails}

\* The namespace K8sClient.DeployResource settles on for a CR without one.
FinalNs(q) == IF q.targetNs # Empty THEN q.targetNs ELSE q.defaultNs

-----------------------------------------------------------------------------
(* The handlers: what they make of a result.                               *)

DoRawRequestReplyTo(res) == [response |-> res.data, error |-> res.err]
DescribeReplyTo(res) == [describe |-> res.data, error |-> res.err]
CrdReplyTo(res) == [crd |-> res.data, error |-> res.err]
NamespacesReplyTo(res) == [namespaces |-> res.data, error |-> res.err]
GvrReplyTo(res) == [unstructuredListJson |-> res.data, error |-> res.err]
DeployReplyTo(q, res) ==
    IF res.err # Empty
    THEN [replyJson |-> Empty, namespace |-> Empty, err |-> res.err]
    ELSE [replyJson |-> res.data, namespace |-> FinalNs(q), err |-> Empty]
ClusterInfoReplyTo(q, now) == [id |-> Data(q, now)]
WrapperReplyTo(q, now) == [value |-> Data(q, now)]

\* Everything but api resources and deployments.
Replies(q, now) ==
    CASE q.method = "DoRawRequest" -> {DoRawRequestReplyTo(r) : r \in RawResults(q, now)}
      [] q.method = "GetDescribeFor" -> {DescribeReplyTo(r) : r \in DescribeResults(q, now)}
      [] q.method = "GetCRDFor" -> {CrdReplyTo(r) : r \in CrdResults(q, now)}
      [] q.method = "FetchAllNamespaces" -> {NamespacesReplyTo(r) : r \in NamespacesResults(q, now)}
      [] q.method = "FetchGVRInstances" -> {GvrReplyTo(r) : r \in GvrResults(q, now)}
      [] q.method = "GetClusterInfo" -> {ClusterInfoReplyTo(q, now)}
      [] q.method \in {"GetClusterName", "IsValid"} -> {WrapperReplyTo(q, now)}
=============================================================================
