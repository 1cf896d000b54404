SPECIFICATION FairSpec
CONSTANTS
  c1 = c1
  c2 = c2
  c3 = c3
  c4 = c4
  Conn <- TwoConns
  NoConn = NoConn
  Silent = {}
  WorkersN = 2
  Backlog = 2
  StderrBytes = 0
  MaxCrashes = 0
  FdTruncation = FALSE
  AcceptFails = FALSE
  ForkFails = FALSE
  SignalPoints <- Loop
  SignalScopes <- ParentOnly
  MaxSignals = 1
  SockFd = 3
  FdWord = 2
CHECK_DEADLOCK FALSE
PROPERTIES
  StopsOnSigint
