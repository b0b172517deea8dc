SPECIFICATION Spec
CONSTANTS
  MaxConn = 2
  Heartbeat = 2
  ReadWait = 3
INVARIANTS SendNeverPanics
CHECK_DEADLOCK FALSE
