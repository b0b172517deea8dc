SPECIFICATION Spec
CONSTANTS
  MaxConn = 2
  Heartbeat = 2
  ReadWait = 3
INVARIANTS OneConnection PanicsOnlyBeforeConnected
PROPERTIES KeepAlive DeadPeerNoticed HeartbeatStops
CHECK_DEADLOCK FALSE
