CONSTANTS
  Ids = {i1, i2}
  Procs = {p1, p2}
  Places = {Cluster}
  Nowhere = Nowhere
  None = None
SPECIFICATION SerialSpec
INVARIANT TypeOK
INVARIANT QuietFramesComplete
PROPERTY KeepsPromise
SYMMETRY Alike
VIEW Reachable
CHECK_DEADLOCK TRUE
