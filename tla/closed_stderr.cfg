SPECIFICATION Spec
CONSTANTS
  WorkersN = 3
  MaxFds = 12
  FdSetSize = 12
  StartSets <- NoStderr
  Programs = {"main"}
CHECK_DEADLOCK FALSE
INVARIANTS
  StreamPipeToParent
