SPECIFICATION MCSpec
CONSTANTS
  Threads = {a, b, c}
  Classes = {"semaphore", "event", "ms"}
  Locks = {"null", "cs", "mutex", "shared", "exclusive"}
  NumEvents = 2
  MaxCalls = 3
  MaxRegs = 2
  MaxFires = 2
  Sockets = {s, t}
  Files = {f}
  Values = {v, w}
  Ops = {p}
  MaxKernel = 2
  MaxCloses = 2
SYMMETRY HandlesSymmetry
INVARIANTS
  NoDeafWaiter LateNeedsHandleLost
  NoUseAfterDelete LostNeedsAtOnce HandlesSound
CHECK_DEADLOCK FALSE
