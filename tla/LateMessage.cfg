CONSTANTS
  Workers = {1, 2}
  Segments = {1}
  HitCounts = {2}
  Garbage = {0}
  Duplicating = FALSE
  Losing = FALSE
  MaxRepeats = 2
  WorkerRepeats = 5
  PoolSize = 10
  MaxConnections = 2
  Steady = {2}
  Once = {2}
  MaxSignals = 1
SPECIFICATION Spec
CONSTRAINT Bounded
PROPERTY RetryIsHandled
CHECK_DEADLOCK FALSE
