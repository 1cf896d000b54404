SPECIFICATION FairSpec
CONSTANTS
  c1 = c1
  c2 = c2
  c3 = c3
  c4 = c4
  Conn <- TwoConns
  NoConn = NoConn
  Silent <- SecondSilent
  WorkersN = 3
  Backlog = 2
  StderrBytes = 0
  MaxCrashes = 1
  FdTruncation = FALSE
  AcceptFails = FALSE
  ForkFails = TRUE
  SignalPoints <- Anywhere
  SignalScopes <- BothScopes
  MaxSignals = 1
  SockFd = 3
  FdWord = 2
CHECK_DEADLOCK FALSE
INVARIANTS
  LossBounded
PROPERTIES
  OrphansExit
  HandedOverServed
  ReportsCollected
  StopHonoured
