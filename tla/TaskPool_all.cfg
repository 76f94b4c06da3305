SPECIFICATION FairSpec
CONSTANTS
  Tasks = {a}
  Stopper = stopper
  NumWorkers = 3
  Word = 8
INVARIANTS NoStrandedTask ShutdownDrains
PROPERTIES TaskExecuted ShutdownReturns
CHECK_DEADLOCK FALSE
