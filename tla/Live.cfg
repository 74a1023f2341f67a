CONSTANTS
  Workers = {1}
  Segments = {1}
  HitCounts = {2}
  Garbage = {0}
  Duplicating = FALSE
  Losing = TRUE
  MaxRepeats = 2
  WorkerRepeats = 2
  PoolSize = 1
  MaxConnections = 1
  Steady = {}
  Once = {}
  MaxSignals = 2
SPECIFICATION FairSpec
INVARIANT WorkerNotices
PROPERTIES
  AbandonedWorkersExit
  DeadWorkerReleased
CHECK_DEADLOCK FALSE
