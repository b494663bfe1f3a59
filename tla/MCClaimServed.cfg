SPECIFICATION FairSpec
CONSTANTS
  NumTasks = 2
  MaxClients = 2
  MaxTasksPerClient = 1
  Worker = {w1, w2}
  Threads = 1
  MaxEvents = 3
  AcceptFd = AcceptFd
  NoFd = NoFd
CHECK_DEADLOCK FALSE
PROPERTIES
  WaitingWorkersAreServed
