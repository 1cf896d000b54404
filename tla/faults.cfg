SPECIFICATION Spec
CONSTANTS
  c1 = c1
  c2 = c2
  c3 = c3
  c4 = c4
  Conn <- ThreeConns
  NoConn = NoConn
  Silent = {}
  WorkersN = 3
  Backlog = 2
  StderrBytes = 0
  MaxCrashes = 1
  FdTruncation = TRUE
  AcceptFails = TRUE
  ForkFails = TRUE
  SignalPoints <- Anywhere
  SignalScopes <- BothScopes
  MaxSignals = 1
  SockFd = 3
  FdWord = 2
CHECK_DEADLOCK FALSE
SYMMETRY Symmetry
INVARIANTS
  TypeOK
  AvailExact
  OneJob
  WorkerForConnection
  OneHolder
  StaleOnlyOrphaned
  StopDelivered
  DeadForReason
PROPERTIES
  ImplementsService
