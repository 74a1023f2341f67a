SPECIFICATION Spec
CONSTANTS
  TimeStep = 500
  MaxDelay = 500
  Lossy = {"ack", "heartbeat", "heartbeatACK", "result", "answer", "interrupt"}
  MaxLost = 1
INVARIANTS TypeOK NoFalseAlarm CrashIsNoticed
PROPERTIES WaitEnds
CHECK_DEADLOCK FALSE
