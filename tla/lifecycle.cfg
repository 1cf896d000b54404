SPECIFICATION Spec
CONSTANTS
  WorkersN = 4
  MaxFds = 13
  FdSetSize = 11
  StartSets <- WithStderr
  Programs = {"main", "test"}
CHECK_DEADLOCK FALSE
INVARIANTS
  TypeOK
  WorkerPlumbing
  OnlyZeroHarmed
  FdSetFits
  InheritedEnds
  ParentEnds
  OnlyLastUnwatched
  ConsecutivePipes
  MainListens
  ListeningClosed
PROPERTIES
  FailedInitClean
