SPECIFICATION Spec
CONSTANTS
  NumTasks = 2
  MaxClients = 2
  MaxTasksPerClient = 1
  Worker = {w1, w2}
  Threads = 1
  MaxEvents = 2
  AcceptFd = AcceptFd
  NoFd = NoFd
CHECK_DEADLOCK FALSE
INVARIANTS
  SendErrorDropsConnection
