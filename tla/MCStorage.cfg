SPECIFICATION Spec
CONSTANTS
  Uploads = {u1}
  Jobs = {j1, j2}
  Parts = {1}
  Workers = {w1, w2}
  None = None
  Size <- OneByte
  Quota = 2
  MaxActive = 1
  MaxRunning = 1
  MaxAttempts = 2
SYMMETRY Symmetry
CONSTRAINTS Simple Quiet Aging
INVARIANTS Conserved ServedIsStored ReferencesResolve
PROPERTIES LateWorkersChangeNothing PurgeStands
CHECK_DEADLOCK FALSE
