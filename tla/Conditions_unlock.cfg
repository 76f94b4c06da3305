SPECIFICATION Spec
CONSTANTS
  Threads = {a, b}
  Classes = {"semaphore"}
  Locks = {"exclusive"}
  NumEvents = 1
  MaxCalls = 2
INVARIANTS Released
CHECK_DEADLOCK FALSE
