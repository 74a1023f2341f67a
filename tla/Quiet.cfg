CONSTANTS
  Workers = {1, 2, 3}
  Segments = {1, 2}
  HitCounts = {2}
  Garbage = {0}
  Duplicating = FALSE
  Losing = FALSE
  MaxRepeats = 2
  WorkerRepeats = 2
  PoolSize = 2
  MaxConnections = 1
  Steady = {}
  Once = {}
  MaxSignals = 2
SPECIFICATION QuietSpec
PROPERTY JobFinishes
CHECK_DEADLOCK FALSE
