CONSTANTS
  n1 = n1
  n2 = n2
  pods = pods
  nodes = nodes
  NsLists <- SomeNsLists
  ResLists <- SomeResLists
  ClusterScoped = {nodes}
  Pods = pods
  PodStates <- AllPods
  NoNs = NoNs
  None = None
  Refreshes = {1}
  MaxClicks = 3
  MaxQueries = 1
SPECIFICATION Spec
INVARIANT QuietQueryComplete
INVARIANT NamespacedListedOnce
INVARIANT ShownTabIsLoaded
INVARIANT IconTellsRunning
PROPERTY TabComesBack
CHECK_DEADLOCK TRUE
