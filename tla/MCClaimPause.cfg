SPECIFICATION Spec
CONSTANTS
  Server = {s1}
  Worker = {w1}
  Stable = {s1}
  ServerQueue = 1
  WorkerQueue = 1
  NoServer = NoServer
  Question = Question
  Junk = Junk
CHECK_DEADLOCK FALSE
INVARIANTS
  PauseEndsDiscovery
