------------------------- MODULE RemoteServiceProofs -------------------------
(***************************************************************************)
(* For any callers, requests and timeouts: an answer answers the question  *)
(* that was asked, is not older than timeout and latency allow, and is     *)
(* fresh when the agent says so.                                           *)
(*                                                                         *)
(* The argument is local to a call: what is known of its answer at each    *)
(* step, what is known of a value of the cache whoever has put it there,   *)
(* and that the key of a value tells the question, up to its letters.      *)
(***************************************************************************)
EXTENDS RemoteService, SequenceTheorems, TLAPS

-----------------------------------------------------------------------------
(* The inductive invariant.                                                *)

\* value is of the cluster, and asked for after the given moment.
Answers(q, value) ==
    q.method \in Checked => value # Empty /\ (value.of = q \/ SameLetters(value.of, q))
Since(q, value, moment) ==
    q.method # "FetchAllApiResources" /\ value # Empty => value.at >= moment

\* What the method has made of a reply.
AnswerInv(q, began, result) ==
    /\ result \in Result
    /\ result.ok => Answers(q, result.value) /\ Since(q, result.value, began)

\* What is known of a call at each of its steps.
CallInv(t) ==
    /\ t.pc # "idle" => t.q \in Asked /\ t.began <= now
    /\ t.pc = "lookup" => t.began = now
    /\ t.pc \in {"sent", "held", "replied", "put"} => now <= t.began + Latency
    /\ t.pc = "held" =>
           /\ t.q.method = "FetchAllApiResources"
           /\ t.info <= Len(infos)
           /\ t.info > 0 /\ ~infos[t.info].cached => infos[t.info].data.at >= t.began
    /\ t.pc = "replied" =>
           /\ AnswerInv(t.q, t.began, Outcome(t.q, t.reply))
           /\ (t.q.method = "FetchAllApiResources" /\ t.reply.resMap # Empty /\ ~t.reply.cached)
                  => t.reply.resMap.at >= t.began
    /\ t.pc = "put" => t.result.ok /\ AnswerInv(t.q, t.began, t.result)
    /\ t.pc = "returned" =>
           /\ t.result \in Result
           /\ t.result.ok =>
                  /\ Answers(t.q, t.result.value)
                  /\ Since(t.q, t.result.value, t.began - Short - Latency)

\* What is known of a value of the cache, for every question with its key.
ValueInv(q, v) ==
    v # None =>
        /\ v.timestamp <= now
        /\ Answers(q, v.value)
        /\ Since(q, v.value, v.timestamp - Latency)
        /\ q.method # "FetchAllApiResources" => v.timeout = Short

CacheInv == \A q \in Asked : ValueInv(q, cache[CacheKey(q)])
CallsInv == \A c \in Callers : CallInv(calls[c])

\* The agent's lists have data.
InfosInv ==
    /\ Len(infos) <= MaxFetches
    /\ \A i \in DOMAIN infos : infos[i].data # Empty

IInv ==
    /\ TypeOK
    /\ CallsInv
    /\ CacheInv
    /\ InfosInv

-----------------------------------------------------------------------------
(* Requests, replies and keys.                                             *)

LEMMA DataType ==
    ASSUME NEW q \in Request, NEW moment \in Time
    PROVE  /\ Data(q, moment) \in Text /\ Data(q, moment) # Empty
           /\ Data(q, moment).of = q /\ Data(q, moment).at = moment
BY MessagesAssumption DEF Data, Text

LEMMA TimeType == \A moment \in Time : moment \in Nat
BY DEF Time

LEMMA TextType == \A value \in Text : value # Empty => value.of \in Request /\ value.at \in Time
BY DEF Text

Methods == {"DoRawRequest", "GetDescribeFor", "GetCRDFor", "FetchAllApiResources",
            "FetchGVRInstances", "FetchAllNamespaces", "GetClusterInfo", "GetClusterName",
            "IsValid", "DeployResource"}

LEMMA MethodType == \A q \in Request : q.method \in Methods
BY DEF Request, StringValueRequest, DescribeRequest, ApiResourceEntry, BoolValueRequest,
       FetchGvrRequest, EmptyRequest, DeployResourceRequest, Methods

\* The first component of a key tells the method ...
Tag(method) ==
    CASE method = "DoRawRequest" -> "raw_request"
      [] method = "GetDescribeFor" -> "describe_for"
      [] method = "GetCRDFor" -> "crd"
      [] method = "FetchAllApiResources" -> "api_resources"
      [] method = "FetchGVRInstances" -> "gvr"
      [] OTHER -> method

LEMMA KeyTag == \A q \in Request : CacheKey(q)[1] = Tag(q.method)
BY DEF CacheKey, Tag

\* ... and the others tell the question apart, where its answer is checked.
LEMMA SameKey ==
    ASSUME NEW q \in Request, NEW r \in Request, CacheKey(q) = CacheKey(r)
    PROVE  /\ q.method = r.method
           /\ q.method \in Checked => q = r \/ SameLetters(q, r)
<1>1. Tag(q.method) = Tag(r.method)
  BY KeyTag
<1>2. q.method \in Methods /\ r.method \in Methods
  BY MethodType
<1>3. q.method = r.method
  BY <1>1, <1>2 DEF Tag, Methods
<1>4. CASE q.method = "GetCRDFor"
  <2>1. CacheKey(q)[2] = q.apiVer /\ CacheKey(r)[2] = r.apiVer
    BY <1>3, <1>4 DEF CacheKey
  <2>2. q.apiVer = r.apiVer
    BY <2>1
  <2>3. q \in ApiResourceEntry /\ r \in ApiResourceEntry
    BY <1>3, <1>4 DEF Request, StringValueRequest, DescribeRequest, ApiResourceEntry,
       BoolValueRequest, FetchGvrRequest, EmptyRequest, DeployResourceRequest
  <2> QED  BY <2>2, <2>3 DEF ApiResourceEntry, Checked
<1>5. CASE q.method = "FetchGVRInstances"
  <2>1. CacheKey(q)[2] = Joined[<<q.r, q.ns>>] /\ CacheKey(r)[2] = Joined[<<r.r, r.ns>>]
    BY <1>3, <1>5 DEF CacheKey
  <2>2. Joined[<<q.r, q.ns>>] = Joined[<<r.r, r.ns>>]
    BY <2>1
  <2> QED  BY <1>3, <1>5, <2>2 DEF SameLetters
<1>6. CASE q.method = "FetchAllNamespaces"
  <2>1. q \in EmptyRequest /\ r \in EmptyRequest
    BY <1>3, <1>6 DEF Request, StringValueRequest, DescribeRequest, ApiResourceEntry,
       BoolValueRequest, FetchGvrRequest, EmptyRequest, DeployResourceRequest
  <2> QED  BY <2>1, <1>3 DEF EmptyRequest, Checked
<1>7. q.method \in Checked =>
          q.method = "GetCRDFor" \/ q.method = "FetchGVRInstances" \/ q.method = "FetchAllNamespaces"
  BY DEF Checked
<1> QED  BY <1>3, <1>4, <1>5, <1>6, <1>7

LEMMA AskedType == \A q \in Asked : q \in Request /\ CacheKey(q) \in Keys
BY BoundsAssumption DEF Keys

\* What a method makes of any reply of the agent: the data of that question
\* and that moment or, of methods that do not check, nothing.
LEMMA OutcomeOfReply ==
    ASSUME NEW q \in Request, NEW moment \in Time,
           q.method \notin {"FetchAllApiResources", "DeployResource"},
           NEW reply \in Replies(q, moment)
    PROVE  /\ reply \in Reply
           /\ Outcome(q, reply) \in Result
           /\ Outcome(q, reply).ok =>
                 \/ Outcome(q, reply).value = Data(q, moment)
                 \/ Outcome(q, reply).value = Empty /\ q.method \notin Checked
<1> DEFINE data == Data(q, moment)
<1>1. data \in Text /\ data # Empty /\ Empty \in Text /\ Empty # Failure
  BY DataType, MessagesAssumption DEF Text
<1>2. q.method \in Methods
  BY MethodType
<1> HIDE DEF data
<1>3. CASE q.method = "DoRawRequest"
  <2>1. reply \in {[response |-> data, error |-> Empty], [response |-> Empty, error |-> Failure]}
    BY <1>3 DEF Replies, RawResults, DoRawRequestReplyTo, Succeeds, Fails, data
  <2>2. reply \in RawRequestReply /\ reply.response \in {data, Empty}
    BY <2>1, <1>1 DEF RawRequestReply, Error
  <2>3. Outcome(q, reply) = [ok |-> TRUE, value |-> reply.response, keep |-> TRUE]
    BY <1>3 DEF Outcome, OnRawRequestReply, Answer
  <2> QED  BY <1>1, <1>3, <2>2, <2>3 DEF Reply, Result, Checked, data
<1>4. CASE q.method = "GetDescribeFor"
  <2>1. reply = [describe |-> data, error |-> Empty]
    BY <1>4 DEF Replies, DescribeResults, DescribeReplyTo, Succeeds, data
  <2>2. reply \in GetDescribeForReply
    BY <2>1, <1>1 DEF GetDescribeForReply, Error
  <2>3. Outcome(q, reply) = [ok |-> TRUE, value |-> data, keep |-> TRUE]
    BY <1>4, <2>1 DEF Outcome, OnDescribeReply, Answer
  <2> QED  BY <1>1, <2>2, <2>3 DEF Reply, Result, data
<1>5. CASE q.method = "GetCRDFor"
  <2>1. reply \in {[crd |-> data, error |-> Empty], [crd |-> Empty, error |-> Failure]}
    BY <1>5 DEF Replies, CrdResults, CrdReplyTo, Succeeds, Fails, data
  <2>2. reply \in CrdReply /\ (reply.error = Empty => reply.crd = data)
    BY <2>1, <1>1 DEF CrdReply, Error
  <2>3. Outcome(q, reply) = IF reply.error # Empty THEN ErrorAnswer ELSE Answer(reply.crd)
    BY <1>5 DEF Outcome, OnCrdReply
  <2> QED  BY <1>1, <2>2, <2>3 DEF Reply, Result, ErrorAnswer, Answer, data
<1>6. CASE q.method = "FetchAllNamespaces"
  <2>1. reply \in {[namespaces |-> data, error |-> Empty], [namespaces |-> Empty, error |-> Failure]}
    BY <1>6 DEF Replies, NamespacesResults, NamespacesReplyTo, Succeeds, Fails, data
  <2>2. reply \in AllNamespacesReply /\ (reply.error = Empty => reply.namespaces = data)
    BY <2>1, <1>1 DEF AllNamespacesReply, Error
  <2>3. Outcome(q, reply) = IF reply.error # Empty THEN ErrorAnswer ELSE Answer(reply.namespaces)
    BY <1>6 DEF Outcome, OnNamespacesReply
  <2> QED  BY <1>1, <2>2, <2>3 DEF Reply, Result, ErrorAnswer, Answer, data
<1>7. CASE q.method = "FetchGVRInstances"
  <2>1. reply \in {[unstructuredListJson |-> data, error |-> Empty],
                   [unstructuredListJson |-> Empty, error |-> Failure]}
    BY <1>7 DEF Replies, GvrResults, GvrReplyTo, Succeeds, Fails, data
  <2>2. reply \in GvrReply /\ reply.unstructuredListJson \in {data, Empty}
    BY <2>1, <1>1 DEF GvrReply, Error
  <2>3. Outcome(q, reply) = IF reply.unstructuredListJson = Empty THEN ErrorAnswer
                            ELSE Answer(reply.unstructuredListJson)
    BY <1>7 DEF Outcome, OnGvrReply
  <2> QED  BY <1>1, <2>2, <2>3 DEF Reply, Result, ErrorAnswer, Answer, data
<1>8. CASE q.method = "GetClusterInfo"
  <2>1. reply = [id |-> data]
    BY <1>8 DEF Replies, ClusterInfoReplyTo, data
  <2>2. reply \in ClusterInfoReply
    BY <2>1, <1>1 DEF ClusterInfoReply
  <2>3. Outcome(q, reply) = [ok |-> TRUE, value |-> data, keep |-> TRUE]
    BY <1>8, <2>1 DEF Outcome, OnClusterInfoReply, Answer
  <2> QED  BY <1>1, <2>2, <2>3 DEF Reply, Result, data
<1>9. CASE q.method \in {"GetClusterName", "IsValid"}
  <2>1. reply = [value |-> data]
    BY <1>9 DEF Replies, WrapperReplyTo, data
  <2>2. reply \in WrapperReply
    BY <2>1, <1>1 DEF WrapperReply
  <2>3. Outcome(q, reply) = [ok |-> TRUE, value |-> data, keep |-> TRUE]
    BY <1>9, <2>1 DEF Outcome, OnWrapperReply, Answer
  <2> QED  BY <1>1, <2>2, <2>3 DEF Reply, Result, data
<1> QED
  BY <1>2, <1>3, <1>4, <1>5, <1>6, <1>7, <1>8, <1>9 DEF Methods

-----------------------------------------------------------------------------
(* The steps of a call.                                                    *)

\* The agent's lists only grow, and are only marked.
InfosKept ==
    /\ Len(infos) <= Len(infos')
    /\ \A i \in DOMAIN infos : /\ infos'[i].data = infos[i].data
                               /\ infos[i].cached => infos'[i].cached

\* While the clock stands still nobody else is affected by a step of c.
LEMMA StepInv ==
    ASSUME IInv, NEW c \in Callers, UNCHANGED <<now, alive>>, TypeOK',
           \A d \in Callers \ {c} : calls'[d] = calls[d],
           CallInv(calls[c])', CacheInv', InfosInv', InfosKept
    PROVE  IInv'
<1>1. ASSUME NEW d \in Callers \ {c}
      PROVE  CallInv(calls[d])'
  <2> DEFINE t == calls[d]
  <2>1. CallInv(t) /\ t \in Call /\ calls'[d] = t
    BY DEF IInv, CallsInv, TypeOK
  <2>2. infos \in Seq(ApiResourceInfo) /\ infos' \in Seq(ApiResourceInfo)
    BY DEF IInv, TypeOK
  <2>3. DOMAIN infos = 1 .. Len(infos) /\ Len(infos) \in Nat /\ Len(infos') \in Nat
    BY <2>2, LenProperties
  <2>4. t.info \in Nat
    BY <2>1, BoundsAssumption DEF Call
  <2>5. t.pc = "held" /\ t.info > 0 =>
            /\ t.info \in DOMAIN infos
            /\ infos'[t.info].data = infos[t.info].data
            /\ infos[t.info].cached => infos'[t.info].cached
    BY <2>1, <2>3, <2>4 DEF CallInv, InfosKept
  <2> HIDE DEF t
  <2>6. t.pc = "held" =>
            /\ t.q.method = "FetchAllApiResources"
            /\ t.info <= Len(infos')
            /\ t.info > 0 /\ ~infos'[t.info].cached => infos'[t.info].data.at >= t.began
    BY <2>1, <2>3, <2>4, <2>5 DEF CallInv, InfosKept
  <2> QED  BY <2>1, <2>6 DEF CallInv
<1>2. CallsInv'
  BY <1>1 DEF CallsInv
<1> QED  BY <1>2 DEF IInv

\* What holds where a call is.
LEMMA Here ==
    ASSUME IInv, NEW c \in Callers
    PROVE  /\ calls \in [Callers -> Call] /\ calls[c] \in Call /\ CallInv(calls[c])
           /\ now \in Nat /\ now \in Time /\ calls[c].began \in Nat
           /\ calls[c].pc # "idle" => calls[c].q \in Asked /\ calls[c].q \in Request
           /\ infos \in Seq(ApiResourceInfo) /\ Len(infos) \in Nat
           /\ DOMAIN infos = 1 .. Len(infos)
<1>1. /\ calls \in [Callers -> Call] /\ calls[c] \in Call /\ CallInv(calls[c])
      /\ now \in Time /\ infos \in Seq(ApiResourceInfo)
  BY DEF IInv, TypeOK, CallsInv
<1>2. now \in Nat /\ calls[c].began \in Nat
  BY <1>1, TimeType DEF Call
<1>3. calls[c].pc # "idle" => calls[c].q \in Asked /\ calls[c].q \in Request
  BY <1>1, AskedType DEF CallInv
<1> QED  BY <1>1, <1>2, <1>3, LenProperties

\* Steps that leave cache and lists alone and move one call.
LEMMA CallStep ==
    ASSUME IInv, NEW c \in Callers, NEW t \in Call,
           calls' = [calls EXCEPT ![c] = t], UNCHANGED <<now, cache, infos, alive>>,
           CallInv(t)
    PROVE  IInv'
<1>1. calls \in [Callers -> Call] /\ infos \in Seq(ApiResourceInfo) /\ Len(infos) \in Nat
  BY Here
<1>2. /\ calls' \in [Callers -> Call] /\ calls'[c] = t
      /\ \A d \in Callers \ {c} : calls'[d] = calls[d]
  BY <1>1
<1>3. TypeOK'
  BY <1>2 DEF IInv, TypeOK
<1>4. CallInv(calls[c])'
  BY <1>2 DEF CallInv
<1>5. CacheInv' /\ InfosInv'
  BY DEF IInv, CacheInv, ValueInv, InfosInv
<1>6. InfosKept
  BY <1>1 DEF InfosKept
<1> QED  BY <1>2, <1>3, <1>4, <1>5, <1>6, StepInv

LEMMA ResultTypes ==
    /\ ErrorAnswer \in Result /\ ErrorAnswer.ok = FALSE
    /\ \A value \in Text : /\ Answer(value) \in Result
                           /\ Answer(value).ok = TRUE /\ Answer(value).value = value
BY DEF ErrorAnswer, Answer, Result, Text

LEMMA BeginInv ==
    ASSUME IInv, NEW c \in Callers, NEW q \in Asked, Begin(c, q)
    PROVE  IInv'
<1>1. PICK pc \in {"sent", "lookup"} :
          calls' = [calls EXCEPT ![c] = [Idle EXCEPT !.pc = pc, !.q = q, !.began = now]]
  <2> DEFINE pc == IF q.method = "DeployResource" THEN "sent" ELSE "lookup"
  <2>1. calls' = [calls EXCEPT ![c] = [Idle EXCEPT !.pc = pc, !.q = q, !.began = now]]
    BY DEF Begin
  <2>2. pc \in {"sent", "lookup"}
    OBVIOUS
  <2> HIDE DEF pc
  <2> QED  BY <2>1, <2>2
<1> DEFINE t == [Idle EXCEPT !.pc = pc, !.q = q, !.began = now]
<1>2. now \in Nat /\ now \in Time /\ Latency \in Nat /\ 0 \in 0 .. MaxFetches
  BY Here, BoundsAssumption
<1>3. t \in Call /\ t.q = q /\ t.began = now /\ t.pc = pc
  BY <1>2 DEF Idle, Call
<1> HIDE DEF t
<1>4. CallInv(t)
  BY <1>2, <1>3 DEF CallInv
<1> QED  BY <1>1, <1>3, <1>4, CallStep DEF Begin, t

\* A call that has returned without an answer.
LEMMA FailedInv ==
    ASSUME NEW t, t.pc = "returned", t.q \in Asked, t.began <= now,
           t.result \in Result, ~t.result.ok
    PROVE  CallInv(t)
BY DEF CallInv

LEMMA LookUpInv ==
    ASSUME IInv, NEW c \in Callers, LookUp(c)
    PROVE  IInv'
<1> DEFINE q == calls[c].q
           v == cache[CacheKey(q)]
<1>1. /\ calls[c].pc = "lookup" /\ UNCHANGED <<now, cache, infos, alive>>
      /\ q \in Asked /\ q \in Request /\ calls[c].began = now
      /\ calls[c] \in Call /\ calls \in [Callers -> Call] /\ now \in Nat
  BY Here DEF LookUp, CallInv
<1>2. Short \in Nat /\ Latency \in Nat
  BY BoundsAssumption
<1>3. CASE v # None /\ ~IsTimedOut(v)
  <2> DEFINE result == [Answer(v.value) EXCEPT !.keep = FALSE]
             t == [calls[c] EXCEPT !.pc = "returned", !.result = result]
  <2>1. calls' = [calls EXCEPT ![c] = t]
    BY <1>1, <1>3 DEF LookUp, Return, Call
  <2>2. v \in CacheValue /\ ValueInv(q, v)
    BY <1>1, <1>3, AskedType DEF IInv, TypeOK, CacheInv
  <2>3. v.value \in Text /\ v.timestamp \in Nat
    BY <2>2, TimeType DEF CacheValue
  <2>4. result \in Result /\ result.value = v.value
    BY <2>3, ResultTypes DEF Answer, Result
  <2>5. v.value # Empty => v.value.at \in Nat
    BY <2>3, TextType, TimeType
  <2>6. Since(q, v.value, now - Short - Latency)
    BY <1>1, <1>2, <1>3, <2>2, <2>3, <2>5 DEF ValueInv, Since, IsTimedOut
  <2>7. Answers(q, v.value)
    BY <1>3, <2>2 DEF ValueInv
  <2> HIDE DEF result, v
  <2>8. t \in Call /\ t.pc = "returned" /\ t.q = q /\ t.began = now /\ t.result = result
    BY <1>1, <2>4 DEF Call
  <2> HIDE DEF t
  <2>9. CallInv(t)
    BY <1>1, <2>4, <2>6, <2>7, <2>8 DEF CallInv
  <2> QED  BY <1>1, <2>1, <2>8, <2>9, CallStep
<1>4. CASE ~(v # None /\ ~IsTimedOut(v))
  <2> DEFINE t == [calls[c] EXCEPT !.pc = "sent"]
  <2>1. calls' = [calls EXCEPT ![c] = t]
    BY <1>1, <1>4 DEF LookUp, Call
  <2>2. t \in Call /\ t.pc = "sent" /\ t.q = q /\ t.began = now
    BY <1>1 DEF Call
  <2> HIDE DEF t
  <2>3. CallInv(t)
    BY <1>1, <1>2, <2>2 DEF CallInv
  <2> QED  BY <1>1, <2>1, <2>2, <2>3, CallStep
<1> QED  BY <1>3, <1>4

\* Errors are not remembered.
LEMMA KeptIsAnswer ==
    ASSUME NEW q \in Request, NEW reply, Outcome(q, reply).keep
    PROVE  Outcome(q, reply).ok
<1>1. /\ OnRawRequestReply(reply).ok /\ OnDescribeReply(reply).ok
      /\ OnApiResourceInfoReply(reply).ok /\ OnClusterInfoReply(reply).ok
      /\ OnWrapperReply(reply).ok /\ OnDeployReply(reply).ok
  BY DEF OnRawRequestReply, OnDescribeReply, OnApiResourceInfoReply, OnClusterInfoReply,
     OnWrapperReply, OnDeployReply, Answer
<1>2. OnCrdReply(reply).keep => OnCrdReply(reply).ok
  BY DEF OnCrdReply, Answer, ErrorAnswer
<1>3. OnNamespacesReply(reply).keep => OnNamespacesReply(reply).ok
  BY DEF OnNamespacesReply, Answer, ErrorAnswer
<1>4. OnGvrReply(reply).keep => OnGvrReply(reply).ok
  BY DEF OnGvrReply, Answer, ErrorAnswer
<1>5. q.method \in Methods
  BY MethodType
<1> QED  BY <1>1, <1>2, <1>3, <1>4, <1>5 DEF Outcome, Methods

LEMMA ReceiveInv ==
    ASSUME IInv, NEW c \in Callers, Receive(c)
    PROVE  IInv'
<1> DEFINE q == calls[c].q
           result == Outcome(q, calls[c].reply)
           t == [calls[c] EXCEPT !.pc = IF result.keep THEN "put" ELSE "returned",
                                 !.result = result]
<1>1. /\ calls[c].pc = "replied" /\ UNCHANGED <<now, cache, infos, alive>>
      /\ q \in Asked /\ q \in Request /\ calls[c].began \in Nat
      /\ calls[c] \in Call /\ calls \in [Callers -> Call] /\ now \in Nat
      /\ CallInv(calls[c])
  BY Here DEF Receive
<1>2. /\ AnswerInv(q, calls[c].began, result)
      /\ now <= calls[c].began + Latency /\ calls[c].began <= now
  BY <1>1 DEF CallInv
<1>3. Short \in Nat /\ Latency \in Nat
  BY BoundsAssumption
<1>4. calls' = [calls EXCEPT ![c] = t]
  BY <1>1 DEF Receive, Return, Call
<1>5. result \in Result
  BY <1>2 DEF AnswerInv
<1>6. result.value # Empty => result.value.at \in Nat
  BY <1>5, TextType, TimeType DEF Result
<1>7. result.ok => /\ Answers(q, result.value)
                   /\ Since(q, result.value, calls[c].began - Short - Latency)
  BY <1>1, <1>2, <1>3, <1>6 DEF AnswerInv, Since
<1> HIDE DEF result
<1>8. /\ t \in Call /\ t.q = q /\ t.began = calls[c].began /\ t.result = result
      /\ t.pc = IF result.keep THEN "put" ELSE "returned"
  BY <1>1, <1>5 DEF Call
<1>9. result.keep => result.ok
  BY <1>1, KeptIsAnswer DEF result
<1> HIDE DEF t
<1>10. CallInv(t)
  BY <1>1, <1>2, <1>3, <1>5, <1>7, <1>8, <1>9 DEF CallInv
<1> QED  BY <1>1, <1>4, <1>8, <1>10, CallStep

\* A value is stamped after its cluster was asked: by no more than the
\* latency.  Another question with the same key has the same answer.
LEMMA PutInv ==
    ASSUME IInv, NEW c \in Callers, Put(c)
    PROVE  IInv'
<1> DEFINE q == calls[c].q
           result == calls[c].result
           key == CacheKey(q)
           v == NewCacheValue(key, result.value)
           t == [calls[c] EXCEPT !.pc = "returned"]
<1>1. /\ calls[c].pc = "put" /\ UNCHANGED <<now, infos, alive>>
      /\ q \in Asked /\ q \in Request /\ calls[c].began \in Nat
      /\ calls[c] \in Call /\ calls \in [Callers -> Call] /\ now \in Nat /\ now \in Time
      /\ CallInv(calls[c])
      /\ infos \in Seq(ApiResourceInfo) /\ Len(infos) \in Nat
      /\ cache \in [Keys -> CacheValue \cup {None}]
      /\ cache' = [cache EXCEPT ![key] = v]
  BY Here DEF Put, IInv, TypeOK
<1>2. /\ result \in Result /\ result.ok
      /\ Answers(q, result.value) /\ Since(q, result.value, calls[c].began)
      /\ now <= calls[c].began + Latency /\ calls[c].began <= now
  BY <1>1 DEF CallInv, AnswerInv
<1>3. Short \in Nat /\ Latency \in Nat
  BY BoundsAssumption
<1>4. result.value \in Text /\ (result.value # Empty => result.value.at \in Nat)
  BY <1>2, TextType, TimeType DEF Result
<1>5. key \in Keys
  BY <1>1, AskedType
<1>6. /\ v.value = result.value /\ v.timestamp = now
      /\ v.timeout = IF key = <<"api_resources">> THEN Long ELSE Short
      /\ v \in CacheValue
  BY <1>1, <1>4 DEF NewCacheValue, CacheValue
<1>7. q.method # "FetchAllApiResources" => key # <<"api_resources">>
  <2>1. key = <<"api_resources">> => key[1] = "api_resources"
    OBVIOUS
  <2>2. key[1] = Tag(q.method) /\ q.method \in Methods
    BY <1>1, KeyTag, MethodType
  <2> HIDE DEF key
  <2> QED  BY <2>1, <2>2 DEF Tag, Methods
<1>8. ASSUME NEW r \in Asked
      PROVE  ValueInv(r, cache[CacheKey(r)])'
  <2> DEFINE w == cache[CacheKey(r)]
  <2>1. CacheKey(r) \in Keys /\ r \in Request
    BY AskedType
  <2>2. CASE CacheKey(r) = key
    <3>1. cache'[CacheKey(r)] = v
      BY <1>1, <1>5, <2>2
    <3>2. r.method = q.method /\ (r.method \in Checked => r = q \/ SameLetters(q, r))
      BY <1>1, <2>1, <2>2, SameKey
    <3>3. Answers(r, v.value)
      BY <1>2, <1>6, <3>2 DEF Answers, SameLetters
    <3>4. Since(r, v.value, v.timestamp - Latency)
      BY <1>1, <1>2, <1>3, <1>4, <1>6, <3>2 DEF Since
    <3>5. r.method # "FetchAllApiResources" => v.timeout = Short
      BY <1>6, <1>7, <3>2
    <3>6. v.timestamp <= now'
      BY <1>1, <1>6
    <3> HIDE DEF v, key
    <3> QED  BY <3>1, <3>3, <3>4, <3>5, <3>6 DEF ValueInv
  <2>3. CASE CacheKey(r) # key
    <3>1. cache'[CacheKey(r)] = w
      BY <1>1, <1>5, <2>1, <2>3
    <3>2. ValueInv(r, w)
      BY DEF IInv, CacheInv
    <3> HIDE DEF w
    <3> QED  BY <1>1, <3>1, <3>2 DEF ValueInv
  <2> QED  BY <2>2, <2>3
<1>9. CacheInv'
  BY <1>8 DEF CacheInv
<1>10. result.ok => /\ Answers(q, result.value)
                    /\ Since(q, result.value, calls[c].began - Short - Latency)
  BY <1>1, <1>2, <1>3, <1>4 DEF Since
<1>11. /\ t \in Call /\ t.q = q /\ t.began = calls[c].began /\ t.result = result
       /\ t.pc = "returned"
  BY <1>1 DEF Call
<1>12. calls' = [calls EXCEPT ![c] = t]
  BY <1>1 DEF Put, Call
<1>13. cache' \in [Keys -> CacheValue \cup {None}]
  BY <1>1, <1>5, <1>6
<1> HIDE DEF t, v, key
<1>14. /\ calls' \in [Callers -> Call] /\ calls'[c] = t
       /\ \A d \in Callers \ {c} : calls'[d] = calls[d]
  BY <1>1, <1>11, <1>12
<1>15. CallInv(calls[c])'
  BY <1>1, <1>2, <1>10, <1>11, <1>14 DEF CallInv
<1>16. TypeOK'
  BY <1>1, <1>13, <1>14 DEF IInv, TypeOK
<1>17. InfosInv' /\ InfosKept
  BY <1>1 DEF IInv, InfosInv, InfosKept
<1> QED  BY <1>1, <1>9, <1>14, <1>15, <1>16, <1>17, StepInv

LEMMA RpcFailsInv ==
    ASSUME IInv, NEW c \in Callers, RpcFails(c)
    PROVE  IInv'
<1> DEFINE t == [calls[c] EXCEPT !.pc = "returned", !.result = ErrorAnswer, !.reply = None]
<1>1. /\ calls[c].pc # "idle" /\ UNCHANGED <<now, cache, infos, alive>>
      /\ calls[c] \in Call /\ calls \in [Callers -> Call] /\ CallInv(calls[c])
  BY Here DEF RpcFails
<1>2. calls' = [calls EXCEPT ![c] = t]
  BY <1>1 DEF RpcFails, Return, Call
<1>3. /\ t \in Call /\ t.pc = "returned" /\ t.q = calls[c].q /\ t.began = calls[c].began
      /\ t.result = ErrorAnswer
  BY <1>1, ResultTypes DEF Call
<1> HIDE DEF t
<1>4. CallInv(t)
  BY <1>1, <1>3, ResultTypes, FailedInv DEF CallInv
<1> QED  BY <1>1, <1>2, <1>3, <1>4, CallStep

\* A reply that arrives: what its method makes of it is all that matters.
LEMMA RepliedInv ==
    ASSUME IInv, NEW c \in Callers, NEW reply \in Reply, NEW executed \in BOOLEAN,
           calls[c].pc \in {"sent", "held"},
           calls' = [calls EXCEPT ![c] = [calls[c] EXCEPT !.pc = "replied", !.reply = reply,
                                                          !.executed = executed]],
           UNCHANGED <<now, cache, infos, alive>>,
           AnswerInv(calls[c].q, calls[c].began, Outcome(calls[c].q, reply)),
           (calls[c].q.method = "FetchAllApiResources" /\ reply.resMap # Empty /\ ~reply.cached)
               => reply.resMap.at >= calls[c].began
    PROVE  IInv'
<1> DEFINE t == [calls[c] EXCEPT !.pc = "replied", !.reply = reply, !.executed = executed]
<1>1. calls[c] \in Call /\ CallInv(calls[c])
  BY Here
<1>2. /\ t \in Call /\ t.pc = "replied" /\ t.q = calls[c].q /\ t.began = calls[c].began
      /\ t.reply = reply
  BY <1>1 DEF Call
<1> HIDE DEF t
<1>3. CallInv(t)
  BY <1>1, <1>2 DEF CallInv
<1> QED  BY <1>2, <1>3, CallStep DEF t

LEMMA ServeInv ==
    ASSUME IInv, NEW c \in Callers, Serve(c)
    PROVE  IInv'
<1> DEFINE q == calls[c].q
<1>1. /\ calls[c].pc = "sent" /\ UNCHANGED <<now, cache, infos, alive>>
      /\ q \in Request /\ now \in Time /\ now \in Nat /\ calls[c].began \in Nat
      /\ calls[c] \in Call /\ calls \in [Callers -> Call] /\ CallInv(calls[c])
      /\ q.method \notin {"FetchAllApiResources", "DeployResource"}
  BY Here DEF Serve
<1>2. PICK reply \in Replies(q, now) : calls' = Replied(c, reply)
  BY DEF Serve
<1>3. /\ reply \in Reply /\ Outcome(q, reply) \in Result
      /\ Outcome(q, reply).ok =>
             \/ Outcome(q, reply).value = Data(q, now)
             \/ Outcome(q, reply).value = Empty /\ q.method \notin Checked
  BY <1>1, <1>2, OutcomeOfReply
<1>4. Data(q, now) # Empty /\ Data(q, now).of = q /\ Data(q, now).at = now
  BY <1>1, DataType
<1>5. calls[c].began <= now
  BY <1>1 DEF CallInv
<1>6. AnswerInv(q, calls[c].began, Outcome(q, reply))
  BY <1>3, <1>4, <1>5 DEF AnswerInv, Answers, Since
<1>7. calls' = [calls EXCEPT ![c] = [calls[c] EXCEPT !.pc = "replied", !.reply = reply,
                                                     !.executed = calls[c].executed]]
  BY <1>1, <1>2 DEF Replied, Call
<1>8. calls[c].executed \in BOOLEAN
  BY <1>1 DEF Call
<1> QED  BY <1>1, <1>3, <1>6, <1>7, <1>8, RepliedInv

LEMMA DeployResourceInv ==
    ASSUME IInv, NEW c \in Callers, DeployResource(c)
    PROVE  IInv'
<1> DEFINE q == calls[c].q
<1>1. /\ calls[c].pc = "sent" /\ UNCHANGED <<now, cache, infos, alive>>
      /\ q \in Request /\ now \in Time /\ now \in Nat /\ calls[c].began \in Nat
      /\ calls[c] \in Call /\ calls \in [Callers -> Call] /\ CallInv(calls[c])
      /\ q.method = "DeployResource"
  BY Here DEF DeployResource
<1>2. PICK executed \in BOOLEAN, res \in {Fails, Succeeds(q, now)} :
          calls' = [Replied(c, DeployReplyTo(q, res)) EXCEPT ![c].executed = executed]
  BY DEF DeployResource
<1> DEFINE reply == DeployReplyTo(q, res)
<1>3. Data(q, now) \in Text /\ Data(q, now) # Empty /\ Data(q, now).at = now /\ Empty \in Text
  BY <1>1, DataType DEF Text
<1>4. FinalNs(q) \in Namespaces \cup {Empty}
  <2>1. q \in DeployResourceRequest
    BY <1>1 DEF Request, StringValueRequest, DescribeRequest, ApiResourceEntry,
       BoolValueRequest, FetchGvrRequest, EmptyRequest, DeployResourceRequest
  <2> QED  BY <2>1 DEF DeployResourceRequest, FinalNs
<1>5. reply \in DeployResourceReply /\ reply.replyJson \in {Empty, Data(q, now)}
  BY <1>2, <1>3, <1>4, MessagesAssumption
     DEF DeployReplyTo, Fails, Succeeds, DeployResourceReply, Error
<1>6. reply \in Reply
  BY <1>5 DEF Reply
<1> HIDE DEF reply
<1>7. Outcome(q, reply) = [ok |-> TRUE, value |-> reply.replyJson, keep |-> FALSE]
  BY <1>1 DEF Outcome, OnDeployReply, Answer
<1>8. calls[c].began <= now
  BY <1>1 DEF CallInv
<1>9. AnswerInv(q, calls[c].began, Outcome(q, reply))
  BY <1>1, <1>3, <1>5, <1>7, <1>8 DEF AnswerInv, Answers, Since, Result, Checked
<1>10. calls' = [calls EXCEPT ![c] = [calls[c] EXCEPT !.pc = "replied", !.reply = reply,
                                                      !.executed = executed]]
  BY <1>1, <1>2 DEF Replied, Call, reply
<1> QED  BY <1>1, <1>6, <1>9, <1>10, RepliedInv

LEMMA FetchAllApiResourcesInv ==
    ASSUME IInv, NEW c \in Callers, FetchAllApiResources(c)
    PROVE  IInv'
<1> DEFINE q == calls[c].q
           n == Len(infos)
           new == [data |-> Data(q, now), cached |-> FALSE]
           t == [calls[c] EXCEPT !.pc = "held", !.info = Len(infos')]
<1>1. /\ calls[c].pc = "sent" /\ q.method = "FetchAllApiResources"
      /\ UNCHANGED <<now, cache, alive>>
      /\ q \in Request /\ now \in Time /\ now \in Nat /\ calls[c].began \in Nat
      /\ calls[c] \in Call /\ calls \in [Callers -> Call] /\ CallInv(calls[c])
      /\ infos \in Seq(ApiResourceInfo) /\ n \in Nat /\ DOMAIN infos = 1 .. n
      /\ MaxFetches \in Nat
  BY Here, BoundsAssumption DEF FetchAllApiResources
<1>2. InfosInv /\ calls[c].began <= now /\ now <= calls[c].began + Latency
  BY <1>1 DEF IInv, CallInv
<1>3. /\ new \in ApiResourceInfo /\ new.data # Empty /\ new.data.at = now /\ ~new.cached
      /\ \A i \in DOMAIN infos : infos[i] \in ApiResourceInfo
  BY <1>1, DataType, ElementOfSeq DEF ApiResourceInfo
<1>4. /\ infos' \in Seq(ApiResourceInfo) /\ Len(infos') \in 0 .. MaxFetches
      /\ DOMAIN infos' = 1 .. Len(infos')
      /\ InfosInv' /\ InfosKept
      /\ Len(infos') > 0 => \/ infos'[Len(infos')].cached
                            \/ infos'[Len(infos')].data.at >= calls[c].began
  <2>1. CASE n < MaxFetches /\ infos' = Append(infos, new)
    <3> HIDE DEF new
    <3>1. /\ infos' \in Seq(ApiResourceInfo) /\ Len(infos') = n + 1
          /\ \A i \in 1 .. n : infos'[i] = infos[i]
          /\ infos'[n + 1] = new
      BY <1>1, <1>3, <2>1, AppendProperties
    <3>2. DOMAIN infos' = 1 .. n + 1
      BY <3>1, LenProperties
    <3>3. \A i \in DOMAIN infos' : i \in DOMAIN infos \/ i = n + 1
      BY <1>1, <3>2
    <3>4. InfosInv'
      BY <1>1, <1>2, <1>3, <2>1, <3>1, <3>3 DEF InfosInv
    <3>5. InfosKept
      BY <1>1, <3>1 DEF InfosKept
    <3> QED  BY <1>1, <1>2, <1>3, <2>1, <3>1, <3>2, <3>4, <3>5
  <2>2. CASE n > 0 /\ infos' = [infos EXCEPT ![n].cached = TRUE]
    <3>1. n \in DOMAIN infos
      BY <1>1, <2>2
    <3> DEFINE marked == [infos[n] EXCEPT !.cached = TRUE]
    <3>2. infos' = [infos EXCEPT ![n] = marked]
      BY <2>2
    <3>3. /\ marked \in ApiResourceInfo /\ marked.cached = TRUE
          /\ marked.data = infos[n].data
      BY <1>3, <3>1 DEF ApiResourceInfo
    <3> HIDE DEF marked
    <3>4. /\ infos' \in Seq(ApiResourceInfo) /\ Len(infos') = n
          /\ infos'[n] = marked
          /\ \A i \in 1 .. n : infos'[i] = IF i = n THEN marked ELSE infos[i]
      BY <1>1, <3>1, <3>2, <3>3, ExceptSeq
    <3>5. DOMAIN infos' = 1 .. n
      BY <3>4, LenProperties
    <3>6. \A i \in 1 .. n :
            /\ infos'[i].data = infos[i].data
            /\ infos[i].cached => infos'[i].cached
      BY <3>3, <3>4
    <3>7. \A i \in DOMAIN infos' : infos'[i].data # Empty
      BY <1>1, <1>2, <3>5, <3>6 DEF InfosInv
    <3>8. InfosInv'
      BY <1>2, <3>4, <3>7 DEF InfosInv
    <3>9. InfosKept
      <4>1. Len(infos) <= Len(infos')
        <5>1. n \in Nat /\ Len(infos') = n
          BY ONLY <1>1, <3>4, Zenon
        <5> HIDE DEF n
        <5>2. n <= n
          BY ONLY <5>1
        <5> QED  BY ONLY <5>1, <5>2, Zenon DEF n
      <4>2. \A i \in DOMAIN infos :
               /\ infos'[i].data = infos[i].data
               /\ infos[i].cached => infos'[i].cached
        BY ONLY <1>1, <3>6, Zenon
      <4> QED  BY ONLY <4>1, <4>2, Zenon DEF InfosKept
    <3>10. infos'[n].cached /\ n \in 0 .. MaxFetches
      <4>1. n \in Nat /\ n <= MaxFetches /\ MaxFetches \in Nat
        BY ONLY <1>1, <1>2, Zenon DEF InfosInv
      <4>2. n \in 0 .. MaxFetches
        <5> HIDE DEF n
        <5> QED  BY ONLY <4>1
      <4> QED  BY ONLY <3>3, <3>4, <4>2, Zenon
    <3> HIDE DEF n
    <3> QED  BY <3>4, <3>5, <3>8, <3>9, <3>10
  <2>3. CASE n = 0 /\ UNCHANGED infos
    BY <1>1, <1>2, <2>3 DEF InfosInv, InfosKept
  <2> QED  BY <2>1, <2>2, <2>3 DEF FetchAllApiResources
<1>5. calls' = [calls EXCEPT ![c] = t]
  BY <1>1 DEF FetchAllApiResources, Call
<1> HIDE DEF new, n
<1>6. /\ t \in Call /\ t.pc = "held" /\ t.q = q /\ t.began = calls[c].began
      /\ t.info = Len(infos')
  BY <1>1, <1>4 DEF Call
<1> HIDE DEF t
<1>7. /\ calls' \in [Callers -> Call] /\ calls'[c] = t
      /\ \A d \in Callers \ {c} : calls'[d] = calls[d]
  BY <1>1, <1>5, <1>6
<1>8. CallInv(calls[c])'
  BY <1>1, <1>2, <1>4, <1>6, <1>7 DEF CallInv
<1>9. TypeOK' /\ CacheInv'
  BY <1>1, <1>4, <1>7 DEF IInv, TypeOK, CacheInv, ValueInv
<1> QED  BY <1>1, <1>4, <1>7, <1>8, <1>9, StepInv

LEMMA ApiResourcesReplyInv ==
    ASSUME IInv, NEW c \in Callers, ApiResourcesReply(c)
    PROVE  IInv'
<1> DEFINE q == calls[c].q
           i == calls[c].info
           reply == IF i = 0 THEN [cached |-> FALSE, resMap |-> Empty]
                    ELSE [cached |-> infos[i].cached, resMap |-> infos[i].data]
<1>1. /\ calls[c].pc = "held" /\ UNCHANGED <<now, cache, infos, alive>>
      /\ q \in Request /\ calls[c].began \in Nat
      /\ calls[c] \in Call /\ calls \in [Callers -> Call] /\ CallInv(calls[c])
      /\ infos \in Seq(ApiResourceInfo) /\ Len(infos) \in Nat
  BY Here DEF ApiResourcesReply
<1>2. /\ q.method = "FetchAllApiResources" /\ i \in Nat /\ i <= Len(infos)
      /\ i > 0 /\ ~infos[i].cached => infos[i].data.at >= calls[c].began
  BY <1>1, BoundsAssumption DEF CallInv, Call
<1>3. i # 0 => infos[i].data \in Text /\ infos[i].cached \in BOOLEAN
  <2>1. SUFFICES ASSUME i # 0
                 PROVE  infos[i] \in ApiResourceInfo
    BY DEF ApiResourceInfo
  <2> QED  BY <1>1, <1>2, <2>1, ElementOfSeq
<1>4. /\ reply \in ApiResourceInfoReply
      /\ reply.resMap # Empty /\ ~reply.cached => reply.resMap.at >= calls[c].began
  BY <1>2, <1>3 DEF ApiResourceInfoReply, Text
<1>5. calls' = [calls EXCEPT ![c] = [calls[c] EXCEPT !.pc = "replied", !.reply = reply,
                                                     !.executed = calls[c].executed]]
  BY <1>1 DEF ApiResourcesReply, Replied, Call
<1> HIDE DEF reply
<1>6. reply \in Reply /\ reply.resMap \in Text
  BY <1>4 DEF Reply, ApiResourceInfoReply
<1>7. Outcome(q, reply) = [ok |-> TRUE, value |-> reply.resMap, keep |-> TRUE]
  BY <1>2 DEF Outcome, OnApiResourceInfoReply, Answer
<1>8. AnswerInv(q, calls[c].began, Outcome(q, reply))
  BY <1>2, <1>6, <1>7 DEF AnswerInv, Answers, Since, Result, Checked
<1>9. calls[c].executed \in BOOLEAN
  BY <1>1 DEF Call
<1> QED  BY <1>1, <1>4, <1>5, <1>6, <1>8, <1>9, RepliedInv

LEMMA IdleCall ==
    ASSUME TypeOK
    PROVE  Idle \in Call /\ Idle.pc = "idle"
<1>1. 0 \in Time /\ 0 \in 0 .. MaxFetches
  BY BoundsAssumption, MessagesAssumption DEF Time
<1> QED  BY <1>1 DEF Idle, Call

LEMMA MapRaceInv ==
    ASSUME IInv, NEW c \in Callers, NEW d \in Callers, MapRace(c, d)
    PROVE  IInv'
<1>1. /\ calls' = [e \in Callers |-> Idle] /\ cache' = [k \in Keys |-> None] /\ alive' = FALSE
      /\ UNCHANGED <<now, infos>>
  BY DEF MapRace, NoCache
<1>2. Idle \in Call /\ Idle.pc = "idle"
  BY IdleCall DEF IInv
<1>3. TypeOK' /\ InfosInv'
  BY <1>1, <1>2 DEF IInv, TypeOK, InfosInv
<1>4. CallsInv'
  BY <1>1, <1>2 DEF CallsInv, CallInv
<1>5. CacheInv'
  BY <1>1, AskedType DEF CacheInv, ValueInv
<1> QED  BY <1>3, <1>4, <1>5 DEF IInv

LEMMA AgentRestartsInv ==
    ASSUME IInv, AgentRestarts
    PROVE  IInv'
<1>1. infos' = <<>> /\ UNCHANGED <<now, cache, alive>>
  BY DEF AgentRestarts
<1>2. /\ <<>> \in Seq(ApiResourceInfo) /\ Len(<<>>) = 0 /\ DOMAIN <<>> = {}
      /\ MaxFetches \in Nat
  BY EmptySeq, BoundsAssumption
<1>3. ASSUME NEW c \in Callers
      PROVE  calls'[c] \in Call /\ CallInv(calls[c])'
  <2>1. calls[c] \in Call /\ CallInv(calls[c])
    BY Here
  <2>2. CASE calls[c].pc \in {"sent", "held", "replied"}
    <3> DEFINE t == [calls[c] EXCEPT !.pc = "returned", !.result = ErrorAnswer, !.reply = None]
    <3>1. calls'[c] = t
      BY <2>2 DEF AgentRestarts
    <3>2. /\ t \in Call /\ t.pc = "returned" /\ t.q = calls[c].q /\ t.began = calls[c].began
          /\ t.result = ErrorAnswer
      BY <2>1, ResultTypes DEF Call
    <3>3. t.q \in Asked /\ t.began <= now'
      BY <1>1, <2>1, <2>2, <3>2 DEF CallInv
    <3> HIDE DEF t
    <3> QED  BY <3>1, <3>2, <3>3, ResultTypes DEF CallInv
  <2>3. CASE calls[c].pc \notin {"sent", "held", "replied"}
    <3>1. calls'[c] = calls[c]
      BY <2>3 DEF AgentRestarts
    <3> QED  BY <1>1, <2>1, <2>3, <3>1 DEF CallInv
  <2> QED  BY <2>2, <2>3
<1>4. calls' \in [Callers -> Call]
  <2>1. calls' = [c \in Callers |-> calls'[c]]
    BY DEF AgentRestarts
  <2> QED  BY <2>1, <1>3
<1>5. TypeOK'
  BY <1>1, <1>2, <1>4 DEF IInv, TypeOK
<1>6. CallsInv'
  BY <1>3 DEF CallsInv
<1>7. CacheInv' /\ InfosInv'
  BY <1>1, <1>2 DEF IInv, CacheInv, ValueInv, InfosInv
<1> QED  BY <1>5, <1>6, <1>7 DEF IInv

\* Time goes by only while every call can wait.
LEMMA TickInv ==
    ASSUME IInv, Tick
    PROVE  IInv'
<1>1. /\ now < MaxTime /\ now' = now + 1 /\ UNCHANGED <<cache, calls, infos, alive>>
      /\ now \in Nat /\ MaxTime \in Nat /\ now' \in Time
  BY MessagesAssumption DEF Tick, IInv, TypeOK, Time
<1>2. ASSUME NEW c \in Callers
      PROVE  CallInv(calls[c])'
  <2>1. /\ CallInv(calls[c]) /\ calls[c].began \in Nat /\ Latency \in Nat
        /\ calls[c].pc \in {"sent", "held", "replied"} => now - calls[c].began < Latency
        /\ calls[c].pc \notin {"lookup", "put"}
    BY Here, BoundsAssumption DEF Tick
  <2> QED  BY <1>1, <2>1 DEF CallInv
<1>3. CallsInv'
  BY <1>2 DEF CallsInv
<1>4. ASSUME NEW q \in Asked
      PROVE  ValueInv(q, cache[CacheKey(q)])'
  <2> DEFINE v == cache[CacheKey(q)]
  <2>1. ValueInv(q, v) /\ v \in CacheValue \cup {None}
    BY AskedType DEF IInv, TypeOK, CacheInv
  <2>2. v # None => v.timestamp \in Nat
    BY <2>1, TimeType DEF CacheValue
  <2>3. cache'[CacheKey(q)] = v
    BY <1>1
  <2> HIDE DEF v
  <2> QED  BY <1>1, <2>1, <2>2, <2>3 DEF ValueInv
<1>5. CacheInv'
  BY <1>4 DEF CacheInv
<1>6. TypeOK' /\ InfosInv'
  BY <1>1 DEF IInv, TypeOK, InfosInv
<1> QED  BY <1>3, <1>5, <1>6 DEF IInv

\* Steps that change nothing an invariant is about.
LEMMA StutterInv ==
    ASSUME IInv, UNCHANGED <<now, cache, calls, infos>>, alive' \in BOOLEAN
    PROVE  IInv'
BY DEF IInv, TypeOK, CallsInv, CallInv, CacheInv, ValueInv, InfosInv

LEMMA InitInv == Init => IInv
<1> SUFFICES ASSUME Init
             PROVE  IInv
  OBVIOUS
<1>1. /\ <<>> \in Seq(ApiResourceInfo) /\ Len(<<>>) = 0 /\ DOMAIN <<>> = {}
      /\ 0 \in Time /\ 0 \in 0 .. MaxFetches /\ MaxFetches \in Nat
  BY EmptySeq, BoundsAssumption, MessagesAssumption DEF Time
<1>2. Idle \in Call /\ Idle.pc = "idle"
  BY <1>1 DEF Idle, Call
<1>3. TypeOK /\ InfosInv
  BY <1>1, <1>2 DEF Init, NoCache, TypeOK, InfosInv
<1>4. CallsInv
  BY <1>2 DEF Init, CallsInv, CallInv
<1>5. CacheInv
  BY AskedType DEF Init, NoCache, CacheInv, ValueInv
<1> QED  BY <1>3, <1>4, <1>5 DEF IInv

LEMMA NextInv ==
    ASSUME IInv, [Next]_vars
    PROVE  IInv'
<1>1. ASSUME NEW c \in Callers, NEW q \in Asked, Begin(c, q)
      PROVE  IInv'
  BY <1>1, BeginInv
<1>2. ASSUME NEW c \in Callers, Step(c)
      PROVE  IInv'
  BY <1>2, LookUpInv, ReceiveInv, PutInv, RpcFailsInv, ServeInv, FetchAllApiResourcesInv,
     ApiResourcesReplyInv, DeployResourceInv DEF Step
<1>3. ASSUME NEW c \in Callers, NEW d \in Callers, MapRace(c, d)
      PROVE  IInv'
  BY <1>3, MapRaceInv
<1>4. CASE StartAgain
  BY <1>4, StutterInv DEF StartAgain
<1>5. CASE AgentRestarts
  BY <1>5, AgentRestartsInv
<1>6. CASE Tick
  BY <1>6, TickInv
<1>7. CASE UNCHANGED vars
  BY <1>7, StutterInv DEF vars, IInv, TypeOK
<1> QED  BY <1>1, <1>2, <1>3, <1>4, <1>5, <1>6, <1>7 DEF Next

-----------------------------------------------------------------------------
(* What follows.                                                           *)

\* The inductive invariant holds however calls overlap and whatever fails.
THEOREM Invariance == Spec => []IInv
BY InitInv, NextInv, PTL DEF Spec

\* A call of a method that looks at what it gets returns, without an error,
\* nothing but what the cluster said to that very question, whoever put the
\* answer into the cache; for instances of a resource, what it said to a
\* question that makes the same string (for whatever strings there are).
THEOREM Correct == Spec => []AnswersAreData
<1>1. IInv => AnswersAreData
  BY DEF IInv, CallsInv, CallInv, AnswersAreData, Returned, Answers
<1> QED  BY <1>1, Invariance, PTL

\* An answer is at most as old as the timeout and the latency allow together.
THEOREM Bounded == Spec => []BoundedStaleness
<1>1. ASSUME IInv
      PROVE  BoundedStaleness
  <2>1. SUFFICES ASSUME NEW c \in Callers, Returned(c),
                        calls[c].q.method # "FetchAllApiResources", calls[c].result.value # Empty
                 PROVE  calls[c].result.value.at + Short + Latency >= calls[c].began
    BY DEF BoundedStaleness
  <2>2. /\ calls[c].result \in Result /\ calls[c].began \in Nat
        /\ Since(calls[c].q, calls[c].result.value, calls[c].began - Short - Latency)
    BY <1>1, <2>1, Here DEF CallInv, Returned
  <2>3. calls[c].result.value.at \in Nat
    BY <2>1, <2>2, TextType, TimeType DEF Result
  <2> QED  BY <2>1, <2>2, <2>3, BoundsAssumption DEF Since
<1> QED  BY <1>1, Invariance, PTL

\* Api resources that are not said to be of the agent's list are fresh.
THEOREM Fresh == Spec => []FreshWhenSaidSo
<1>1. IInv => FreshWhenSaidSo
  BY DEF IInv, CallsInv, CallInv, FreshWhenSaidSo
<1> QED  BY <1>1, Invariance, PTL

=============================================================================
