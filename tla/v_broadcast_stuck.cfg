SPECIFICATION ClientsLeaveSpec
CONSTANTS
  Msg = {m1, m2, m3}
  Pusher = {loop, p1}
  Loop = loop
  MayShutdown = FALSE
  Cap = 1
  WriteErrors = TRUE
  MaxEmpty = 1
PROPERTY BroadcastCompletes
CHECK_DEADLOCK FALSE
