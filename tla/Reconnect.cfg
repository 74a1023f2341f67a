CONSTANTS
  Workers = {1, 2}
  Segments = {1, 2}
  HitCounts = {2}
  Garbage = {0, 3, 99}
  Duplicating = TRUE
  Losing = TRUE
  MaxRepeats = 1
  WorkerRepeats = 2
  PoolSize = 2
  MaxConnections = 2
  Steady = {1, 2}
  Once = {2}
  MaxSignals = 1
SPECIFICATION Spec
CONSTRAINT Bounded
INVARIANTS
  CreditedAsComputed
  SegmentAgreement
PROPERTIES
  SilenceIsNoticed
  JobSpec
  ComputationIsReported
CHECK_DEADLOCK FALSE
