SPECIFICATION Spec
CONSTANTS
  User = {u1}
  Chan = {c1}
  Handler = {h1,h2}
  ClientNonce = {n1}
  Second = 1
  ExpireAfter = 0
  HistoryWindow = 0
  Faults = {}
  Serial = FALSE
  MaxDraw = 1
  MaxTime = 2
  MaxCrash = 0
INVARIANT NoDuplicatePerSession
CHECK_DEADLOCK FALSE
