SPECIFICATION Spec
CONSTANTS
  c1 = c1
  c2 = c2
  c3 = c3
  c4 = c4
  Conn <- ThreeConns
  NoConn = NoConn
  Silent = {}
  WorkersN = 3
  Backlog = 2
  StderrBytes = 2
  MaxCrashes = 1
  FdTruncation = FALSE
  AcceptFails = TRUE
  ForkFails = FALSE
  SignalPoints <- Nowhere
  SignalScopes <- NoScope
  MaxSignals = 0
  SockFd = 3
  FdWord = 2
CHECK_DEADLOCK FALSE
SYMMETRY Symmetry
INVARIANTS
  AvailNeverLow
  NoBlockingCall
  NoLostConnection
  ReportsWatched
