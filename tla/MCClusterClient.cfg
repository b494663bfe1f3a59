SPECIFICATION FairSpec
CONSTANTS
  NumTasks = 3
  MaxThreads = 2
  MaxParts = 2
  MaxEvents = 3
  SocketFd = SocketFd
CHECK_DEADLOCK FALSE
INVARIANTS
  TypeOK
  ThreadsAccounted
  EndsAreExplained
  OneStage
  OwnResultOnce
  SleepsOnlyWhenSent
PROPERTIES
  KeepsPromise
  TasksAreAnswered
  LossIsNoticed
