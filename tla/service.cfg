SPECIFICATION FairSpec
CONSTANTS
  c1 = c1
  c2 = c2
  c3 = c3
  c4 = c4
  Conn <- FourConns
  NoConn = NoConn
  Silent <- LastSilent
  WorkersN = 3
  Backlog = 2
  StderrBytes = 0
  MaxCrashes = 0
  FdTruncation = FALSE
  AcceptFails = FALSE
  ForkFails = FALSE
  SignalPoints <- BeforeTest
  SignalScopes <- ParentOnly
  MaxSignals = 1
  SockFd = 3
  FdWord = 2
CHECK_DEADLOCK FALSE
INVARIANTS
  DrainedShutdown
  BusyHasJob
PROPERTIES
  GracefulStop
  EveryClientServed
