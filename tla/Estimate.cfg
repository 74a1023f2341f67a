SPECIFICATION EstimateSpec
CONSTANTS
  K = 3
  MaxSide = 10
  MaxPoints = 256
  UInt32Size = 1024
  UInt64Size = 256
  MaxDigits = 3
  Fineness = 4
CONSTRAINT MCBounded
INVARIANTS
  EstimateTypeOK
  SettledAsDrawnOnGrid
  SegmentsTile
  NothingIsNoJob
  ResultIsComplete
  AnswerIsTruncated
  EstimateIsBracketed
PROPERTY JobIsReported
CHECK_DEADLOCK FALSE
