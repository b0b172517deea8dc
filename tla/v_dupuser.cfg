SPECIFICATION Spec
CONSTANTS
  User = {u1}
  Chan = {c1,c2}
  Handler = {h1}
  ClientNonce = {n1}
  Second = 1
  ExpireAfter = 0
  HistoryWindow = 0
  Faults = {}
  Serial = TRUE
  MaxDraw = 1
  MaxTime = 2
  MaxCrash = 0
INVARIANT NoDuplicatePerUser
CHECK_DEADLOCK FALSE
