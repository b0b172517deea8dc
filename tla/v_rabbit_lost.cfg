SPECIFICATION Spec
CONSTANTS
  Evt = {e1, e2, e3}
  Junk = {j1}
  Size = 1
  MaxRestart = 1
INVARIANT NothingLost

CHECK_DEADLOCK FALSE
