CONSTANTS
  c1 = c1
  c2 = c2
  c3 = c3
  r1 = r1
  r2 = r2
  r3 = r3
  r4 = r4
  r5 = r5
  Resources = {r1, r2, r3, r4, r5}
  Collections = {c1, c2, c3}
  Owner <- OwnerOf
  None = None
SPECIFICATION Spec
INVARIANT TypeOK
PROPERTY OkShowsOrder
PROPERTY RestoreUndoes
PROPERTY MovesKeepTarget
SYMMETRY Alike
CHECK_DEADLOCK TRUE
