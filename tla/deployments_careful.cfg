CONSTANTS
  c1 = c1
  r1 = r1
  r2 = r2
  r3 = r3
  v1 = v1
  v2 = v2
  v3 = v3
  v4 = v4
  v5 = v5
  ns1 = ns1
  ns2 = ns2
  t1 = t1
  t2 = t2
  Clicked = {c1, r3}
  Collections = {c1}
  Res = {r1, r2, r3}
  Templates = {r3}
  ClusterScoped = {"b"}
  Owner <- OwnerC1
  Crs = {v1, v2, v3, v4, v5}
  Texts <- CarefulTexts
  ObjectNames = {"a", "b"}
  CrName <- CarefulNames
  Namespaces = {ns1, ns2}
  DefaultNs = ns1
  NoNs = NoNs
  CrNs <- CarefulNs
  Tasks = {t1}
  Tags = {1, 2, 3, 4}
  Live = Live
  Orphan = Orphan
  None = None
SPECIFICATION CarefulClicksSpec
INVARIANT Tracked
CHECK_DEADLOCK TRUE
