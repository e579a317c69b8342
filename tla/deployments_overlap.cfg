CONSTANTS
  c1 = c1
  r1 = r1
  r2 = r2
  r3 = r3
  v1 = v1
  v2 = v2
  v3 = v3
  v4 = v4
  v5 = v5
  ns1 = ns1
  ns2 = ns2
  t1 = t1
  t2 = t2
  Clicked = {c1}
  Collections = {c1}
  Res = {r1, r2}
  Templates = {}
  ClusterScoped = {}
  Owner <- OwnerC1
  Crs = {v1, v2}
  Texts <- OneTextEach
  ObjectNames = {v1, v2}
  CrName <- OwnName
  Namespaces = {ns1}
  DefaultNs = ns1
  NoNs = NoNs
  CrNs <- NoOwnNs
  Tasks = {t1, t2}
  Tags = {1, 2, 3, 4}
  Live = Live
  Orphan = Orphan
  None = None
SPECIFICATION OverlapSpec
INVARIANT TypeOK
INVARIANT RecordsDurable
INVARIANT FirstDeployRecorded
PROPERTY UndeployStopsRequests
SYMMETRY Alike
CHECK_DEADLOCK TRUE
