SPECIFICATION Spec
CONSTANTS
  NumTasks = 2
  MaxThreads = 2
  MaxParts = 1
  MaxEvents = 2
  SocketFd = SocketFd
CHECK_DEADLOCK FALSE
INVARIANTS
  EndsAreHandled
