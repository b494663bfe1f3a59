SPECIFICATION PoolSpec
CONSTANTS
  NumTasks = 4
  MaxClients = 2
  MaxTasksPerClient = 2
INVARIANTS
  PoolTypeOK
  ResolvingIsListed
  ListedOnce
  CountersAgree
  ScanMissesNothing
PROPERTIES
  CompletedIsFinal
  ImplementsWorkPool
