--------------------------- MODULE AgentProtocol ---------------------------
(***************************************************************************)
(* The requests and replies between the application and an agent           *)
(* (pkg/k8sservice/protocol.proto and the code generated from it).         *)
(*                                                                         *)
(* A string that carries data of the cluster is abstracted to the question *)
(* it answers and the time the cluster was asked: [of, at].  Empty is the  *)
(* zero value of a field, which is what a getter of an absent message      *)
(* returns as well; an error field is Empty or the message Failure.        *)
(***************************************************************************)
EXTENDS Naturals

CONSTANTS
    Uris,           \* paths of raw requests
    Kinds,          \* kinds of objects that are described
    Names,          \* names of objects
    Namespaces,
    ApiVers,        \* apiVersion/resource of an entry
    Crs,            \* CR texts to deploy
    MaxTime,        \* bound: the last moment of a behaviour
    Empty, Failure

Time == 0 .. MaxTime

-----------------------------------------------------------------------------
(* Requests: one set of messages for every method of GrpcK8sService.       *)

StringValueRequest == [method : {"DoRawRequest"}, value : Uris]
DescribeRequest == [method : {"GetDescribeFor"}, kind : Kinds, name : Names, ns : Namespaces]
ApiResourceEntry == [method : {"GetCRDFor"}, apiVer : ApiVers]
BoolValueRequest == [method : {"FetchAllApiResources"}, force : BOOLEAN]
FetchGvrRequest == [method : {"FetchGVRInstances"}, r : ApiVers, ns : Namespaces]
EmptyRequest == [method : {"FetchAllNamespaces", "GetClusterInfo", "GetClusterName", "IsValid"}]
DeployResourceRequest == [method : {"DeployResource"}, cr : Crs, defaultNs : Namespaces,
                          targetNs : Namespaces \cup {Empty}]

Request == StringValueRequest \cup DescribeRequest \cup ApiResourceEntry
               \cup BoolValueRequest \cup FetchGvrRequest \cup EmptyRequest
               \cup DeployResourceRequest

-----------------------------------------------------------------------------
(* Replies.                                                                *)

Text == [of : Request, at : Time] \cup {Empty}
Error == {Empty, Failure}

ASSUME MessagesAssumption ==
    /\ MaxTime \in Nat
    /\ Empty # Failure
    /\ \A d \in [of : Request, at : Time] : d # Empty

RawRequestReply == [response : Text, error : Error]
GetDescribeForReply == [describe : Text, error : Error]
CrdReply == [crd : Text, error : Error]
AllNamespacesReply == [namespaces : Text, error : Error]
GvrReply == [unstructuredListJson : Text, error : Error]
DeployResourceReply == [replyJson : Text, namespace : Namespaces \cup {Empty}, err : Error]
ApiResourceInfoReply == [cached : BOOLEAN, resMap : Text]
ClusterInfoReply == [id : Text]
WrapperReply == [value : Text]

Reply == RawRequestReply \cup GetDescribeForReply \cup CrdReply
             \cup AllNamespacesReply \cup GvrReply \cup DeployResourceReply
             \cup ApiResourceInfoReply \cup ClusterInfoReply \cup WrapperReply
=============================================================================
