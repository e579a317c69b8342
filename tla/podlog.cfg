CONSTANTS
  Tasks = {t1, t2}
  Logs = {l1}
  MaxCalls = 1
  LogUpdates = 2
  NearlyFull = 1
  SlowUpdates = 2
  BufferLimit = 2
  MaxChunks = 1
  MaxReloads = 2
  readingMsg = readingMsg
  None = None
SPECIFICATION PodLogSpec
INVARIANT ReloadPossible
INVARIANT NoStaleEntries
SYMMETRY Alike
VIEW Collected
CHECK_DEADLOCK TRUE
