SPECIFICATION FairSpec
CONSTANTS
  Worker = {w1, w2}
  Cell = {0}
  Task = {1, 2, 3}
  Threads = 2
  ServerSize = 3
  WorkerSize = 2
  ServerRoom = 4
  WorkerRoom = 4
  NoFd = NoFd
CHECK_DEADLOCK FALSE
INVARIANTS
  TypeOK
  FramesAligned
  NoTornFrame
  RoomForTasks
PROPERTIES
  CarriesMessages
  StreamsDrain
