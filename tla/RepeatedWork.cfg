CONSTANTS
  Workers = {1}
  Segments = {1}
  HitCounts = {2}
  Garbage = {0}
  Duplicating = FALSE
  Losing = FALSE
  MaxRepeats = 5
  WorkerRepeats = 5
  PoolSize = 10
  MaxConnections = 1
  Steady = {}
  Once = {}
  MaxSignals = 2
SPECIFICATION Spec
PROPERTY RepeatIsAnswered
CHECK_DEADLOCK FALSE
