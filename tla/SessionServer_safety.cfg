SPECIFICATION Spec
CONSTANTS
  Sockets = {a, b, c}
  NumSessions = 2
  MaxPending = 1
  MaxAccept = 2
  Threads = {t, u}
SYMMETRY ServerSymmetry
INVARIANTS OneOwner PopStable ReuseReady
CHECK_DEADLOCK FALSE
