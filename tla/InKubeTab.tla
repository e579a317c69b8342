----------------------------- MODULE InKubeTab -----------------------------
(***************************************************************************)
(* The in-kube tab of pkg/panels/in_kube_tab.go: the lists of namespaces   *)
(* and API resources, the criteria made of the lines selected in them, the *)
(* query they start and the refresh that replaces them.                    *)
(*                                                                         *)
(* Three kinds of threads share the tab without a lock: the UI thread,     *)
(* whose frame is split where another thread can see a difference, the     *)
(* goroutine of a query, and one goroutine per click on refresh.           *)
(* The lists are ReadOnlyEditors, of which the tab needs their texts and   *)
(* their selection; their filter may still draw lines of the text before   *)
(* (see ReadOnlyEditor), so that those can be clicked too.                 *)
(***************************************************************************)
EXTENDS Integers, Sequences, FiniteSets, SequencesExt

CONSTANTS
    NsLists,        \* what the cluster answers when asked for its namespaces
    ResLists,       \* ... and for its API resources, as sequences
    ClusterScoped,  \* the resources that are not namespaced
    Pods,           \* the resource whose instances have a status icon
    PodStates,      \* the pods the cluster has, by their containers' states
    NoNs,           \* the namespace "" of all namespaces
    None,
    Refreshes,      \* bound: the clicks on refresh
    MaxClicks,      \* bound: clicks on lines
    MaxQueries      \* bound: clicks on the query button

Namespaces == UNION {ToSet(l) : l \in NsLists}
Resources == UNION {ToSet(l) : l \in ResLists}

\* The states GetStatusIcon tells apart.
ContainerStates == {"failed", "completed", "waiting", "running", "unknown"}

\* An answer has each namespace, or resource, once.
ASSUME ListsAssumption ==
    \A l \in NsLists \union ResLists : l \in Seq(ToSet(l)) /\ IsInjective(l)

ASSUME PodsAssumption ==
    /\ PodStates \subseteq [init : Seq(ContainerStates), app : Seq(ContainerStates)]
    /\ NoNs \notin Namespaces

VARIABLES
    nsTexts, resTexts,  \* the texts the two lists were given, latest last
    nsSel, resSel,      \* selectedLines of the two lists
    resourceItems,      \* a sequence of resources
    resourceItemMap,    \* the resources that can be looked up
    criteria,           \* currentCriteria: [ns, res]
    frame,              \* where the UI thread is in a frame
    adding,             \* selected resources Update has still to look up
    inRefreshing,
    refresh,            \* refresh[r]: the step of a refresh goroutine
    inQuery,
    query,              \* the local variables of Query
    result,             \* the value of CONTEXT_KEY_API_SEARCH_RESULT
    clicks, queries,    \* counts for the bounds
    overlapped          \* history: two refreshes were under way at once

listVars == <<nsTexts, resTexts, nsSel, resSel, resourceItems, resourceItemMap>>
countVars == <<clicks, queries, overlapped>>
vars == <<listVars, criteria, frame, adding, inRefreshing, refresh, inQuery,
          query, result, countVars>>

NoCriteria == [ns |-> <<>>, res |-> <<>>]

NoQuery == [pc |-> "none", nss |-> <<>>, rs |-> <<>>, live |-> FALSE,
            found |-> <<>>, asked |-> {}, quiet |-> TRUE]

Names(sel) == {sel[i].name : i \in DOMAIN sel}

-----------------------------------------------------------------------------
(* NewInKubeTab loads both lists before the tab is shown.                   *)

Init ==
    /\ \E ns \in NsLists \union {<<>>}, rs \in ResLists \union {<<>>} :
         /\ nsTexts = <<ns>> /\ resTexts = <<rs>>
         /\ resourceItems = rs /\ resourceItemMap = ToSet(rs)
    /\ nsSel = <<>> /\ resSel = <<>>
    /\ criteria = NoCriteria /\ adding = <<>>
    /\ frame = "between"
    /\ inRefreshing = FALSE /\ refresh = [r \in Refreshes |-> "idle"]
    /\ inQuery = FALSE /\ query = NoQuery /\ result = None
    /\ clicks = 0 /\ queries = 0 /\ overlapped = FALSE

-----------------------------------------------------------------------------
(* A frame: the search bar brings the criteria up to date, then come the    *)
(* query button and the lists.                                              *)

\* Keys of a list instead of a map.
AllKeys(sel) == [i \in DOMAIN sel |-> sel[i].name]

\* The names a criterion has for a selection: each once.
Keys(sel) ==
    LET keys[i \in 0..Len(sel)] ==
          IF i = 0 THEN <<>>
          ELSE IF sel[i].name \in ToSet(keys[i - 1]) THEN keys[i - 1]
          ELSE Append(keys[i - 1], sel[i].name) IN
    keys[Len(sel)]

DiffersInLength(sel, keys) == Len(sel) # Len(keys)

Differs(sel, keys) == Len(sel) # Len(keys) \/ Names(sel) \ ToSet(keys) # {}

Changed == Differs(nsSel, criteria.ns) \/ Differs(resSel, criteria.res)

\* A query that iterates over the resources keeps the map it has.
KeepMap == query' = [query EXCEPT !.live = FALSE]

NsCriterion == Keys(nsSel)

\* Update, up to the new and empty map of resources.
BeginFrame ==
    /\ ~inRefreshing /\ frame = "between"
    /\ IF Changed
         THEN /\ criteria' = [ns |-> NsCriterion, res |-> <<>>]
              /\ adding' = resSel
              /\ frame' = "adding"
              /\ KeepMap
         ELSE /\ frame' = "button"
              /\ UNCHANGED <<criteria, adding, query>>
    /\ UNCHANGED <<listVars, inRefreshing, refresh, inQuery, result, countVars>>

\* Update, one selected resource; a query sees it when it has the same map.
AddResource ==
    /\ frame = "adding"
    /\ IF adding = <<>>
         THEN frame' = "button" /\ UNCHANGED <<criteria, adding, query>>
         ELSE LET r == Head(adding).name
                  new == r \in resourceItemMap /\ r \notin ToSet(criteria.res) IN
              /\ adding' = Tail(adding)
              /\ criteria' = IF new THEN [criteria EXCEPT !.res = Append(@, r)] ELSE criteria
              /\ query' = IF new /\ query.live THEN [query EXCEPT !.rs = Append(@, r)]
                                               ELSE query
              /\ UNCHANGED frame
    /\ UNCHANGED <<listVars, inRefreshing, refresh, inQuery, result, countVars>>

\* The request for resource r while the loop is at namespace n.
Target(r, n) == [res |-> r, ns |-> IF r \in ClusterScoped THEN NoNs ELSE n]

\* No name is selected twice: of a list and of the one drawn before it.
NamesOnce(sel) == \A i, j \in DOMAIN sel : sel[i].name = sel[j].name => i = j

\* What the user sees selected, as requests.
Requests(nss, rs) ==
    {Target(r, n) : r \in rs, n \in (IF nss = {} THEN {NoNs} ELSE nss)}

ClickQuery ==
    /\ frame = "button" /\ frame' = "lists"
    /\ ~inQuery /\ queries < MaxQueries
    /\ inQuery' = TRUE /\ queries' = queries + 1
    /\ query' = [NoQuery EXCEPT !.pc = "start",
                   !.quiet = ~Changed /\ NamesOnce(nsSel) /\ NamesOnce(resSel),
                   !.asked = Requests(Names(nsSel), Names(resSel) \intersect resourceItemMap)]
    /\ UNCHANGED <<listVars, criteria, adding, inRefreshing, refresh, result,
                   clicks, overlapped>>

\* Lines on the screen: of the text, or of the text before it.
Drawn(texts) == {[name |-> n, of |-> g] :
                   n \in Namespaces \union Resources, g \in {Len(texts), Len(texts) - 1} \ {0}}
Lines(texts) == {l \in Drawn(texts) : l.name \in ToSet(texts[l.of])}

Toggled(sel, l) == IF l \in ToSet(sel) THEN RemoveFirst(sel, l) ELSE Append(sel, l)

SelectLine ==
    /\ frame \in {"button", "lists"} /\ frame' = "lists"
    /\ clicks < MaxClicks
    /\ clicks' = clicks + 1
    /\ \/ \E l \in Lines(nsTexts) : nsSel' = Toggled(nsSel, l) /\ UNCHANGED resSel
       \/ /\ resourceItems # <<>>
          /\ \E l \in Lines(resTexts) : resSel' = Toggled(resSel, l) /\ UNCHANGED nsSel
    /\ query' = [query EXCEPT !.quiet = FALSE]
    /\ UNCHANGED <<nsTexts, resTexts, resourceItems, resourceItemMap, criteria,
                   adding, inRefreshing, refresh, inQuery, result, queries, overlapped>>

EndFrame ==
    /\ frame \in {"button", "lists"} /\ frame' = "between"
    /\ UNCHANGED <<listVars, criteria, adding, inRefreshing, refresh, inQuery,
                   query, result, countVars>>

-----------------------------------------------------------------------------
(* Query.  The namespaces are read once, the resources once per namespace.  *)

QueryUnchanged == UNCHANGED <<listVars, criteria, frame, adding, inRefreshing,
                              refresh, countVars>>

StartQuery ==
    /\ query.pc = "start"
    /\ query' = [query EXCEPT !.pc = "namespace",
                   !.nss = IF criteria.ns = <<>> THEN <<NoNs>> ELSE criteria.ns]
    /\ QueryUnchanged /\ UNCHANGED <<inQuery, result>>

NextNamespace ==
    /\ query.pc = "namespace" /\ query.nss # <<>>
    /\ query' = [query EXCEPT !.pc = "fetch", !.rs = criteria.res, !.live = TRUE]
    /\ QueryUnchanged /\ UNCHANGED <<inQuery, result>>

\* A query that returns the first error.
FetchOrReturn ==
    /\ query.pc = "fetch" /\ query.rs # <<>>
    /\ \/ query' = [query EXCEPT !.rs = Tail(@),
                      !.found = Append(@, Target(Head(query.rs), Head(query.nss)))]
       \/ query' = NoQuery
    /\ QueryUnchanged /\ UNCHANGED <<inQuery, result>>

\* FetchGVRInstances answers, or fails and the loop goes on.
Fetch ==
    /\ query.pc = "fetch" /\ query.rs # <<>>
    /\ \/ query' = [query EXCEPT !.rs = Tail(@),
                      !.found = Append(@, Target(Head(query.rs), Head(query.nss)))]
       \/ query' = [query EXCEPT !.rs = Tail(@), !.quiet = FALSE]
    /\ QueryUnchanged /\ UNCHANGED <<inQuery, result>>

EndNamespace ==
    /\ query.pc = "fetch" /\ query.rs = <<>>
    /\ query' = [query EXCEPT !.pc = "namespace", !.nss = Tail(@), !.live = FALSE]
    /\ QueryUnchanged /\ UNCHANGED <<inQuery, result>>

EndQuery ==
    /\ query.pc = "namespace" /\ query.nss = <<>>
    /\ result' = query
    /\ inQuery' = FALSE /\ query' = NoQuery
    /\ QueryUnchanged

QueryStep == StartQuery \/ NextNamespace \/ Fetch \/ EndNamespace \/ EndQuery

-----------------------------------------------------------------------------
(* Refresh.  The button is on the tab bar and can be clicked while a        *)
(* refresh is under way.                                                    *)

ClickRefresh(r) ==
    /\ frame = "between" /\ refresh[r] = "idle"
    /\ refresh' = [refresh EXCEPT ![r] = "namespaces"]
    /\ inRefreshing' = TRUE
    /\ criteria' = NoCriteria
    /\ query' = [query EXCEPT !.live = FALSE, !.quiet = FALSE]
    /\ overlapped' = (overlapped \/ \E s \in Refreshes : refresh[s] \notin {"idle", "done"})
    /\ UNCHANGED <<listVars, frame, adding, inQuery, result, clicks, queries>>

RefreshAt(r, from, to) == refresh[r] = from /\ refresh' = [refresh EXCEPT ![r] = to]
RefreshUnchanged == UNCHANGED <<criteria, frame, adding, inQuery, query, result, countVars>>

RefreshNamespaces(r) ==
    /\ RefreshAt(r, "namespaces", "clear")
    /\ \/ (\E ns \in NsLists : nsTexts' = Append(nsTexts, ns)) /\ nsSel' = <<>>
       \/ UNCHANGED <<nsTexts, nsSel>>
    /\ UNCHANGED <<resTexts, resSel, resourceItems, resourceItemMap, inRefreshing>>
    /\ RefreshUnchanged

\* A refresh that does not start from empty lists.
ClearNothing(r) ==
    /\ RefreshAt(r, "clear", "fill")
    /\ UNCHANGED <<listVars, inRefreshing>>
    /\ RefreshUnchanged

ClearResources(r) ==
    /\ RefreshAt(r, "clear", "fill")
    /\ resourceItems' = <<>> /\ resourceItemMap' = {}
    /\ UNCHANGED <<nsTexts, resTexts, nsSel, resSel, inRefreshing>>
    /\ RefreshUnchanged

\* No answer is an empty list.
FillResources(r) ==
    /\ RefreshAt(r, "fill", "list")
    /\ \E rs \in ResLists \union {<<>>} :
         /\ resourceItems' = resourceItems \o rs
         /\ resourceItemMap' = resourceItemMap \union ToSet(rs)
    /\ UNCHANGED <<nsTexts, resTexts, nsSel, resSel, inRefreshing>>
    /\ RefreshUnchanged

ListResources(r) ==
    /\ RefreshAt(r, "list", "end")
    /\ resTexts' = Append(resTexts, resourceItems) /\ resSel' = <<>>
    /\ UNCHANGED <<nsTexts, nsSel, resourceItems, resourceItemMap, inRefreshing>>
    /\ RefreshUnchanged

EndRefresh(r) ==
    /\ RefreshAt(r, "end", "done")
    /\ inRefreshing' = FALSE
    /\ UNCHANGED listVars /\ RefreshUnchanged

RefreshStep(r) ==
    \/ RefreshNamespaces(r) \/ ClearResources(r) \/ FillResources(r)
    \/ ListResources(r) \/ EndRefresh(r)

-----------------------------------------------------------------------------
FrameStep == BeginFrame \/ AddResource \/ ClickQuery \/ SelectLine \/ EndFrame

Next ==
    \/ FrameStep
    \/ QueryStep
    \/ \E r \in Refreshes : ClickRefresh(r) \/ RefreshStep(r)

\* The goroutines run, and the cluster answers or fails; the user need not act.
Fairness == WF_vars(QueryStep) /\ \A r \in Refreshes : WF_vars(RefreshStep(r))

Spec == Init /\ [][Next]_vars /\ Fairness

-----------------------------------------------------------------------------
(* GetStatusIcon: the status the last container left, a running container   *)
(* of the pod itself leaving it as it was.                                  *)

ContainerStatus(c) ==
    CASE c = "failed"    -> "PodError"
      [] c = "completed" -> "ContainerTerminated"
      [] c = "waiting"   -> "PodError"
      [] c = "running"   -> "PodRunning"
      [] c = "unknown"   -> "PodUnknown"

LastStatus(cs, before) == IF cs = <<>> THEN before ELSE ContainerStatus(Last(cs))

\* The status of the last container, whatever the others do.
StatusIconOfLast(pod) == LastStatus(pod.app, LastStatus(pod.init, "PodUnknown"))

StatusIcon(pod) ==
    LET stopped == {i \in DOMAIN pod.app : pod.app[i] # "running"} IN
    IF pod.app = <<>> THEN "PodUnknown"
    ELSE IF stopped = {} THEN "PodRunning" ELSE ContainerStatus(pod.app[Max(stopped)])

FoundPods ==
    IF result # None /\ \E i \in DOMAIN result.found : result.found[i].res = Pods
      THEN PodStates ELSE {}

-----------------------------------------------------------------------------
Reqs == [res : Resources \ ClusterScoped, ns : Namespaces \union {NoNs}]
            \union [res : ClusterScoped, ns : {NoNs}]

QueryTypeOK(q) ==
    /\ q.pc \in {"none", "start", "namespace", "fetch"}
    /\ q.nss \in Seq(Namespaces \union {NoNs}) /\ q.rs \in Seq(Resources)
    /\ q.found \in Seq(Reqs) /\ q.asked \subseteq Reqs
    /\ {q.live, q.quiet} \subseteq BOOLEAN

TypeOK ==
    /\ nsTexts \in Seq(Seq(Namespaces)) /\ resTexts \in Seq(Seq(Resources))
    /\ \A l \in ToSet(nsSel) : l \in [name : Namespaces, of : 1..Len(nsTexts)]
    /\ \A l \in ToSet(resSel) : l \in [name : Resources, of : 1..Len(resTexts)]
    /\ resourceItems \in Seq(Resources) /\ resourceItemMap \subseteq Resources
    /\ criteria \in [ns : Seq(Namespaces), res : Seq(Resources)]
    /\ frame \in {"between", "adding", "button", "lists"}
    /\ {inRefreshing, inQuery, overlapped} \subseteq BOOLEAN
    /\ \A r \in Refreshes :
         refresh[r] \in {"idle", "namespaces", "clear", "fill", "list", "end", "done"}
    /\ QueryTypeOK(query) /\ (result # None => QueryTypeOK(result))

\* A query of whose requests none failed, while nobody changed the selection,
\* asked for each selected resource in each selected namespace.  The criteria
\* must agree with the selection when the query starts, as far as Update can
\* tell: a selection with an unknown resource, or with a name twice, differs from
\* its criteria for ever, so that each frame empties and fills them while the
\* query reads them.  One with a name twice may also agree although another
\* name has gone, and after overlapping refreshes the criteria may have a
\* resource that is unknown by now.  And all is well typed.
QuietQueryComplete ==
    /\ TypeOK
    /\ result # None /\ result.quiet /\ ~overlapped => ToSet(result.found) = result.asked

\* Whatever happens meanwhile, a query asks for a namespaced resource once per
\* namespace: its instances are listed once.
NamespacedListedOnce ==
    result # None =>
        \A i, j \in DOMAIN result.found :
            i # j /\ result.found[i] = result.found[j]
                => result.found[i].res \in ClusterScoped

\* As long as a refresh is not started while another one runs, a tab that can
\* be seen has the lists that were loaded together: each resource drawn once,
\* and each of them known to the criteria.
ShownTabIsLoaded ==
    ~inRefreshing /\ ~overlapped =>
        /\ Last(resTexts) = resourceItems
        /\ ToSet(resourceItems) = resourceItemMap
        /\ IsInjective(resourceItems)

\* The icon of a pod that was found is the running one exactly when the pod's
\* containers, not those that initialise it, all run.
IconTellsRunning ==
    \A pod \in FoundPods :
        StatusIcon(pod) = "PodRunning" <=> pod.app # <<>> /\ ToSet(pod.app) = {"running"}

\* A tab that disappears for a refresh comes back, a query ends.
TabComesBack == (inRefreshing ~> ~inRefreshing) /\ (inQuery ~> ~inQuery)
=============================================================================
