CONSTANTS
  Workers = {1, 2}
  Segments = {1}
  HitCounts = {2}
  Garbage = {0, 3, 99}
  Duplicating = TRUE
  Losing = TRUE
  MaxRepeats = 2
  WorkerRepeats = 2
  PoolSize = 2
  MaxConnections = 1
  Steady = {1}
  Once = {}
  MaxSignals = 1
SPECIFICATION Spec
CONSTRAINT Bounded
INVARIANTS
  TypeOK
  LedgerMatchesPool
  WorkConserving
CHECK_DEADLOCK FALSE
