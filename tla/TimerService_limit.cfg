SPECIFICATION FairSpec
CONSTANTS
  Timers = {a, b, c}
  Periodic = {}
  Handles = {1, 2}
  MaxWait = 1
  MaxTicks = 1
  Nothing = Nothing
PROPERTIES WaitsWhenFits DestructorReturns
CHECK_DEADLOCK FALSE
