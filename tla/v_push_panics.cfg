SPECIFICATION Spec
CONSTANTS
  Msg = {m1, m2}
  Pusher = {p1}
  Cap = 5
  WriteErrors = FALSE
  MaxEmpty = 1
INVARIANT PushNeverPanics
CHECK_DEADLOCK FALSE
