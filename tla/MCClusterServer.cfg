SPECIFICATION Spec
CONSTANTS
  NumTasks = 3
  MaxClients = 2
  MaxTasksPerClient = 2
  Worker = {w1, w2}
  Threads = 3
  MaxEvents = 2
  AcceptFd = AcceptFd
  NoFd = NoFd
CHECK_DEADLOCK FALSE
SYMMETRY WorkerSymmetry
INVARIANTS
  TypeOK
  CreditsConserved
  AssignmentsAgree
  ReturnedIsComplete
  QuitsOnlyUnfinished
PROPERTIES
  PoolSpec
