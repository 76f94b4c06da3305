SPECIFICATION MCSpec
CONSTANTS
  Align = 2
  MaxBytes = 6
  NumNode = 2
  Requests = {1, 3, 4, 6}
  MaxLive = 3
  MaxMem = 56
  LenSize = 2
  SizeT = 2
  Lengths = {6, 13, 40}
  Word = 64
  Garbage = {1, 63}
  Types <- MCTypes
  Values <- MCValues
  Items <- MCItems
  TextItems <- MCTextItems
  MaxItems = 3
  a = a
  b = b
  u = u
  d = d
  Objects = {a, b}
  Keys = {1, 2, 3}
  Vals = {u, d}
  Default = d
  Ranges <- MCRanges
  Orders <- MCOrders
  MaxPairs = 3
  SyncThreads = {g, h}
  SyncKeys = {k, l}
  MaxElems = 3
  QueueThreads = {q, r, s, t}
  Limits = {1, 2, 99}
  Unbounded = 99
  MaxPuts = 4
INVARIANTS
  MemoryDivided
  RoundTrip StaysInside
  ElementStays NoIdleWaiter
PROPERTIES ImplementsMap
CHECK_DEADLOCK FALSE
