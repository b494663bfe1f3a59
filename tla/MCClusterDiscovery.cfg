SPECIFICATION FairSpec
CONSTANTS
  Server = {s1, s2}
  Worker = {w1}
  Stable = {s1}
  ServerQueue = 1
  WorkerQueue = 2
  NoServer = NoServer
  Question = Question
  Junk = Junk
CHECK_DEADLOCK FALSE
INVARIANTS
  TypeOK
  PausedForGood
  SearchGoesOn
  PostMortem
PROPERTIES
  MeetsServers
  WorkersConnect
