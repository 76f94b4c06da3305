SPECIFICATION FairSpec
CONSTANTS
  Timers = {a, b}
  Periodic = {a}
  Handles = {1, 2}
  MaxWait = 3
  MaxTicks = 2
  Nothing = Nothing
INVARIANTS NoTimerForgotten PostsJustified
PROPERTIES TickPosted DestructorReturns
CHECK_DEADLOCK FALSE
