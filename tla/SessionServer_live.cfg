SPECIFICATION FairSpec
CONSTANTS
  Sockets = {a}
  NumSessions = 2
  MaxPending = 1
  MaxAccept = 1
  Threads = {t, u}
PROPERTIES SocketReturned StopReturns
CHECK_DEADLOCK FALSE
