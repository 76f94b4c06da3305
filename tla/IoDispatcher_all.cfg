SPECIFICATION FairSpec
CONSTANTS
  Callbacks = {a, b, x}
  Throwing = {x}
  NumThreads = 2
  Batch = 2
INVARIANTS Ownership
PROPERTIES ImplementsDelivery Delivered StopReturns
CHECK_DEADLOCK FALSE
