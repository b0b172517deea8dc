SPECIFICATION Spec
CONSTANTS
  Evt = {e1, e2, e3}
  Junk = {j1}
  Size = 1
  MaxRestart = 1
INVARIANTS TypeOK DuplicatesBounded LossBounded ClosePanicsOnlyUnlinked
PROPERTY EventuallyCounted
CHECK_DEADLOCK FALSE
