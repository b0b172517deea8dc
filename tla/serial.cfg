SPECIFICATION Spec
CONSTANTS
  User = {u1}
  Chan = {c1,c2}
  Handler = {h1}
  ClientNonce = {n1}
  Second = 1
  ExpireAfter = 1
  HistoryWindow = 0
  Faults = {"LoadJobHistory", "SaveUsedNonce"}
  Serial = TRUE
  MaxDraw = 1
  MaxTime = 2
  MaxCrash = 1
INVARIANTS TypeOK RateLimitPerUser SessionsNotAhead
PROPERTY ImplementsLedger
CHECK_DEADLOCK FALSE
SYMMETRY Symmetry
