SPECIFICATION SyncSpec
CONSTANTS
  SyncThreads = {a, b}
  SyncKeys = {k, l}
  MaxElems = 2
INVARIANTS StillAbsent
CHECK_DEADLOCK FALSE
