SPECIFICATION Spec
CONSTANTS
  MaxConn = 2
  Heartbeat = 2
  ReadWait = 3
INVARIANTS ReaderReachable
CHECK_DEADLOCK FALSE
