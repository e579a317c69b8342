--------------------------- MODULE RemoteService ---------------------------
(***************************************************************************)
(* RemoteK8sService (pkg/k8sservice/k8sagent.go) and its cache             *)
(* (k8sclient_cache.go): calls of the panels' goroutines to an agent, with *)
(* answers that are remembered for a while.  Calls overlap, connections    *)
(* break, the agent fails to reach the cluster or starts again; neither    *)
(* the calls have a deadline nor does the cache have a lock.               *)
(***************************************************************************)
EXTENDS K8sAgent, Sequences

CONSTANTS
    Callers,        \* goroutines
    Asked,          \* the requests they make
    Joined,         \* Joined[<<r, ns>>]: group, version, resource and namespace in a row
    Short,          \* DEFAULT_CACHE_TIMEOUT
    Long,           \* 24 hours
    Latency,        \* bound: how long an answer takes when one comes
    MaxFetches,     \* bound: how often the agent fetches the api resources
    None

ASSUME BoundsAssumption ==
    /\ Asked \subseteq Request
    /\ Short \in Nat /\ Long \in Nat /\ Latency \in Nat /\ MaxFetches \in Nat
    /\ Short < Long

VARIABLES
    now,        \* the time
    cache,      \* K8sClientCache: a value, or None for every key
    calls,      \* what every goroutine is doing
    infos,      \* ApiResourceInfo objects the agent has made, the last in use
    alive       \* the application is running

vars == <<now, cache, calls, infos, alive>>

-----------------------------------------------------------------------------
(* The cache.                                                              *)

\* Mutant of CacheKey: the namespace is left out.
CacheKeyNoNs(q) ==
    CASE q.method = "FetchGVRInstances" -> <<"gvr", q.r>>
      [] OTHER -> <<q.method>>

\* The keys the methods use: a description is kept by name and namespace, the
\* instances of a resource by strings that nothing separates, so two questions
\* may have one key.  All keys are in one map, but no two methods share one:
\* names of the API have no space, slash or underscore.  A slash precedes the
\* name in apiVer, so apiVer and name together tell the resource.
CacheKey(q) ==
    CASE q.method = "DoRawRequest" -> <<"raw_request", q.value>>
      [] q.method = "GetDescribeFor" -> <<"describe_for", q.name, q.ns>>
      [] q.method = "GetCRDFor" -> <<"crd", q.apiVer>>
      [] q.method = "FetchAllApiResources" -> <<"api_resources">>
      [] q.method = "FetchGVRInstances" -> <<"gvr", Joined[<<q.r, q.ns>>]>>
      [] OTHER -> <<q.method>>

Keys == {CacheKey(q) : q \in Asked}
CacheValue == [value : Text, timestamp : Time, timeout : {Short, Long}]

NewCacheValue(key, value) ==
    [value |-> value, timestamp |-> now,
     timeout |-> IF key = <<"api_resources">> THEN Long ELSE Short]

\* Mutant of IsTimedOut: compares with the timeout of the api resources.
IsTimedOutLate(v) == now - v.timestamp > Long

IsTimedOut(v) == now - v.timestamp > v.timeout

-----------------------------------------------------------------------------
(* The methods: what they make of a reply without a gRPC error.  ok is     *)
(* FALSE for an error or, of methods that return none, for nil.            *)

Answer(value) == [ok |-> TRUE, value |-> value, keep |-> TRUE]
ErrorAnswer == [ok |-> FALSE, value |-> Empty, keep |-> FALSE]

\* Neither of these looks at the error of the reply.
OnRawRequestReply(reply) == Answer(reply.response)
OnDescribeReply(reply) == Answer(reply.describe)

OnCrdReply(reply) == IF reply.error # Empty THEN ErrorAnswer ELSE Answer(reply.crd)

OnNamespacesReply(reply) ==
    IF reply.error # Empty THEN ErrorAnswer ELSE Answer(reply.namespaces)

\* An error shows as the absence of a list.
OnGvrReply(reply) ==
    IF reply.unstructuredListJson = Empty THEN ErrorAnswer
    ELSE Answer(reply.unstructuredListJson)

OnApiResourceInfoReply(reply) == Answer(reply.resMap)
OnClusterInfoReply(reply) == Answer(reply.id)
OnWrapperReply(reply) == Answer(reply.value)

\* DeployResource ignores reply.err, and remembers nothing.
OnDeployReply(reply) == [Answer(reply.replyJson) EXCEPT !.keep = FALSE]

Outcome(q, reply) ==
    CASE q.method = "DoRawRequest" -> OnRawRequestReply(reply)
      [] q.method = "GetDescribeFor" -> OnDescribeReply(reply)
      [] q.method = "GetCRDFor" -> OnCrdReply(reply)
      [] q.method = "FetchAllNamespaces" -> OnNamespacesReply(reply)
      [] q.method = "FetchGVRInstances" -> OnGvrReply(reply)
      [] q.method = "FetchAllApiResources" -> OnApiResourceInfoReply(reply)
      [] q.method = "GetClusterInfo" -> OnClusterInfoReply(reply)
      [] q.method \in {"GetClusterName", "IsValid"} -> OnWrapperReply(reply)
      [] q.method = "DeployResource" -> OnDeployReply(reply)

-----------------------------------------------------------------------------
(* State.                                                                  *)

ApiResourceInfo == [data : Text, cached : BOOLEAN]
Result == [ok : BOOLEAN, value : Text, keep : BOOLEAN]

\* info: the object FetchAllApiResources of the agent has returned.
\* executed: the cluster has executed the deployment.
Call == [pc : {"idle", "lookup", "sent", "held", "replied", "put", "returned"},
         q : Asked \cup {None}, began : Time, info : 0 .. MaxFetches,
         reply : Reply \cup {None}, result : Result \cup {None}, executed : BOOLEAN]

Idle == [pc |-> "idle", q |-> None, began |-> 0, info |-> 0, reply |-> None,
         result |-> None, executed |-> FALSE]

TypeOK ==
    /\ now \in Time
    /\ cache \in [Keys -> CacheValue \cup {None}]
    /\ calls \in [Callers -> Call]
    /\ infos \in Seq(ApiResourceInfo)
    /\ alive \in BOOLEAN

NoCache == [k \in Keys |-> None]

Init ==
    /\ now = 0
    /\ cache = NoCache
    /\ calls = [c \in Callers |-> Idle]
    /\ infos = <<>>
    /\ alive = TRUE

-----------------------------------------------------------------------------
(* The application's side of a call.                                       *)

Begin(c, q) ==
    /\ alive /\ calls[c].pc \in {"idle", "returned"}
    /\ calls' = [calls EXCEPT ![c] =
           [Idle EXCEPT !.pc = IF q.method = "DeployResource" THEN "sent" ELSE "lookup",
                        !.q = q, !.began = now]]
    /\ UNCHANGED <<now, cache, infos, alive>>

Return(c, result) == [calls EXCEPT ![c].pc = "returned", ![c].result = result]

\* GetObject, GetString and GetBool: a value that is not outdated is the
\* answer, also to a call that asks for a fresh one.
LookUp(c) ==
    LET v == cache[CacheKey(calls[c].q)] IN
    /\ alive /\ calls[c].pc = "lookup"
    /\ calls' = IF v # None /\ ~IsTimedOut(v)
                THEN Return(c, [Answer(v.value) EXCEPT !.keep = FALSE])
                ELSE [calls EXCEPT ![c].pc = "sent"]
    /\ UNCHANGED <<now, cache, infos, alive>>

\* A reply arrives.
Receive(c) ==
    LET result == Outcome(calls[c].q, calls[c].reply) IN
    /\ alive /\ calls[c].pc = "replied"
    /\ calls' = IF result.keep THEN [Return(c, result) EXCEPT ![c].pc = "put"]
                ELSE Return(c, result)
    /\ UNCHANGED <<now, cache, infos, alive>>

Put(c) ==
    LET key == CacheKey(calls[c].q) IN
    /\ alive /\ calls[c].pc = "put"
    /\ cache' = [cache EXCEPT ![key] = NewCacheValue(key, calls[c].result.value)]
    /\ calls' = [calls EXCEPT ![c].pc = "returned"]
    /\ UNCHANGED <<now, infos, alive>>

\* The connection breaks, before or after the agent has done its work.
RpcFails(c) ==
    /\ alive /\ calls[c].pc \in {"sent", "held", "replied"}
    /\ calls' = [Return(c, ErrorAnswer) EXCEPT ![c].reply = None]
    /\ UNCHANGED <<now, cache, infos, alive>>

\* Go ends a program that reads a map while another goroutine writes it.
MapRace(c, d) ==
    /\ alive /\ c # d
    /\ calls[c].pc = "put" /\ calls[d].pc \in {"lookup", "put"}
    /\ alive' = FALSE
    /\ cache' = NoCache
    /\ calls' = [e \in Callers |-> Idle]
    /\ UNCHANGED <<now, infos>>

StartAgain ==
    /\ ~alive /\ alive' = TRUE
    /\ UNCHANGED <<now, cache, calls, infos>>

-----------------------------------------------------------------------------
(* The agent.                                                              *)

Replied(c, reply) == [calls EXCEPT ![c].pc = "replied", ![c].reply = reply]

Serve(c) ==
    LET q == calls[c].q IN
    /\ calls[c].pc = "sent"
    /\ q.method \notin {"FetchAllApiResources", "DeployResource"}
    /\ \E reply \in Replies(q, now) : calls' = Replied(c, reply)
    /\ UNCHANGED <<now, cache, infos, alive>>

\* Mutant of FetchAllApiResources: counts as fetched what only should have been.
FetchAllApiResourcesUnchecked(c) ==
    LET n == Len(infos)
        asks == calls[c].q.force \/ n = 0
    IN  /\ calls[c].pc = "sent" /\ calls[c].q.method = "FetchAllApiResources"
        /\ \/ /\ asks /\ n < MaxFetches
              /\ infos' = Append(infos, [data |-> Data(calls[c].q, now), cached |-> FALSE])
           \/ /\ n > 0
              /\ infos' = [infos EXCEPT ![n].cached = ~asks]
           \/ n = 0 /\ UNCHANGED infos
        /\ calls' = [calls EXCEPT ![c].pc = "held", ![c].info = Len(infos')]
        /\ UNCHANGED <<now, cache, alive>>

\* K8sClient.FetchAllApiResources, under its lock: the list is fetched when
\* there is none or when that is asked for; a fetch that fails leaves the
\* list as it was.  Every list that is not new is marked.
FetchAllApiResources(c) ==
    LET n == Len(infos)
        asks == calls[c].q.force \/ n = 0
    IN  /\ calls[c].pc = "sent" /\ calls[c].q.method = "FetchAllApiResources"
        /\ \/ /\ asks /\ n < MaxFetches
              /\ infos' = Append(infos, [data |-> Data(calls[c].q, now), cached |-> FALSE])
           \/ n > 0 /\ infos' = [infos EXCEPT ![n].cached = TRUE]
           \/ n = 0 /\ UNCHANGED infos
        /\ calls' = [calls EXCEPT ![c].pc = "held", ![c].info = Len(infos')]
        /\ UNCHANGED <<now, cache, alive>>

\* The handler puts the reply together without the lock.
ApiResourcesReply(c) ==
    /\ calls[c].pc = "held"
    /\ calls' = Replied(c, IF calls[c].info = 0 THEN [cached |-> FALSE, resMap |-> Empty]
                          ELSE [cached |-> infos[calls[c].info].cached,
                                resMap |-> infos[calls[c].info].data])
    /\ UNCHANGED <<now, cache, infos, alive>>

\* K8sClient.DeployResource; the cluster may have executed what failed.
DeployResource(c) ==
    LET q == calls[c].q IN
    /\ calls[c].pc = "sent" /\ q.method = "DeployResource"
    /\ \E executed \in BOOLEAN :
           \E res \in {Fails} \cup (IF executed THEN {Succeeds(q, now)} ELSE {}) :
               calls' = [Replied(c, DeployReplyTo(q, res)) EXCEPT ![c].executed = executed]
    /\ UNCHANGED <<now, cache, infos, alive>>

\* The agent starts again: it has lost its list, and its callers their calls.
AgentRestarts ==
    /\ infos # <<>>
    /\ infos' = <<>>
    /\ calls' = [c \in Callers |->
           IF calls[c].pc \in {"sent", "held", "replied"}
           THEN [calls[c] EXCEPT !.pc = "returned", !.result = ErrorAnswer, !.reply = None]
           ELSE calls[c]]
    /\ UNCHANGED <<now, cache, alive>>

\* Answers come in time, or never.
Tick ==
    /\ now < MaxTime
    /\ \A c \in Callers :
           calls[c].pc \in {"sent", "held", "replied"} => now - calls[c].began < Latency
    /\ \A c \in Callers : calls[c].pc \notin {"lookup", "put"}
    /\ now' = now + 1
    /\ UNCHANGED <<cache, calls, infos, alive>>

-----------------------------------------------------------------------------
Step(c) ==
    \/ LookUp(c) \/ Receive(c) \/ Put(c) \/ RpcFails(c)
    \/ Serve(c) \/ FetchAllApiResources(c) \/ ApiResourcesReply(c) \/ DeployResource(c)

Next ==
    \/ \E c \in Callers, q \in Asked : Begin(c, q)
    \/ \E c \in Callers : Step(c)
    \/ \E c, d \in Callers : MapRace(c, d)
    \/ StartAgain
    \/ AgentRestarts
    \/ Tick

Spec == Init /\ [][Next]_vars

-----------------------------------------------------------------------------
(* Properties.                                                             *)

Returned(c) == calls[c].pc = "returned" /\ calls[c].result.ok

\* Methods that look at the error of the reply, or at its data.
Checked == {"GetCRDFor", "FetchAllNamespaces", "FetchGVRInstances"}

\* Different questions for instances that have the same key.
SameLetters(p, q) ==
    /\ p.method = "FetchGVRInstances" /\ q.method = "FetchGVRInstances"
    /\ Joined[<<p.r, p.ns>>] = Joined[<<q.r, q.ns>>]

\* Whatever overlaps, fails or is remembered: a call of these methods that
\* returns without an error returns what the cluster said to that very
\* question (RemoteK8sService with its cache keys) or, of instances, to one
\* whose names make the same string.  And all is well typed.
AnswersAreData ==
    /\ TypeOK
    /\ \A c \in Callers :
          (Returned(c) /\ calls[c].q.method \in Checked)
              => /\ calls[c].result.value # Empty
                 /\ \/ calls[c].result.value.of = calls[c].q
                    \/ SameLetters(calls[c].result.value.of, calls[c].q)

\* An answer is never older than the timeout of its cache value and the time
\* an answer takes, although the value is stamped when the reply has come and
\* not when the cluster was asked.  The api resources are another matter: the
\* agent has a list of its own that nothing outdates.
BoundedStaleness ==
    \A c \in Callers :
        (Returned(c) /\ calls[c].q.method # "FetchAllApiResources" /\ calls[c].result.value # Empty)
            => calls[c].result.value.at + Short + Latency >= calls[c].began

\* A reply that says its api resources do not come from the agent's list has
\* them from the cluster, asked after the request was sent: later calls may
\* mark the list of an earlier one, never the other way round.
FreshWhenSaidSo ==
    \A c \in Callers :
        (/\ calls[c].pc = "replied" /\ calls[c].q.method = "FetchAllApiResources"
         /\ calls[c].reply.resMap # Empty /\ ~calls[c].reply.cached)
            => calls[c].reply.resMap.at >= calls[c].began
=============================================================================
