SPECIFICATION Spec
CONSTANTS
  MaxTotal = 5
  MaxPiece = 2
INVARIANTS FailureReported
CHECK_DEADLOCK FALSE
