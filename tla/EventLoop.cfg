SPECIFICATION Spec
CONSTANTS
  Datagrams = {m1, m2, m3}
  BufferSize = 2
INVARIANTS TypeOK NoLostWakeup NoSignalKills
PROPERTIES SolvedIsNoticed ImplementsMailbox
CHECK_DEADLOCK FALSE
