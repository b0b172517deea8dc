SPECIFICATION Spec
CONSTANTS
  MaxConn = 2
  Heartbeat = 2
  ReadWait = 3
PROPERTIES ClientAlwaysNotices
CHECK_DEADLOCK FALSE
