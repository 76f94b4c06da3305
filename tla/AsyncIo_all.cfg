SPECIFICATION MCSpec
CONSTANTS
  MaxTotal = 5
  MaxPiece = 2
  Callers = {c, d}
  MaxAt = 1
  MaxBuffer = 2
  MaxChanges = 4
  MaxRequests = 4
  BufferLen = 2
  Workers = {y, z}
  App = x
  ClientOps = {g, h}
  MaxOpens = 2
  MaxIssues = 3
  MaxStarts = 2
  MaxPosts = 1
INVARIANTS
  InPlace Outcome
  InItsPart
  Watches KeptOrClosed ToldOrOpen
  NoOrphan
PROPERTIES Ends TransfersEnd StopReturns
CHECK_DEADLOCK FALSE
