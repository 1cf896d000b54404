SPECIFICATION EchoSpec

CONSTANTS
  s1 = s1
  w1 = w1
  w2 = w2
  Blank = Blank
  Dot = Dot
  Garbage = Garbage
  Conn <- AllConns
  Worker <- TwoWorkers
  Watched <- FirstOnly
  Strangers <- Stranger
  Splittable <- FirstThread
  Backlog = 2
  Lossy = FALSE
  ThreadsN = 2
  MsgLen = 2
  StrangeLen = 4
  RxSize = 3
  RecvSize = 3
  Cols = 2
  UintBits = 3
  Printable <- FirstBytes
  PortOptions <- Options
  PortMin = 1024
  PortMax = 49151
  DfltPort = 9080
  ClientPort = 9080

CHECK_DEADLOCK FALSE

INVARIANTS
  EchoTypeOK
  DumpShowsRead
  EchoIsOwn
  WholeEcho

PROPERTIES
  ClientEnds
