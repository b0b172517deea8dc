SPECIFICATION PoolSpec
CONSTANTS
  User = {u1}
  Chan = {c1}
  Handler = {h1,h2}
  ClientNonce = {n1,n2,n3}
  Second = 1
  ExpireAfter = 0
  HistoryWindow = 0
  Faults = {}
  Serial = FALSE
  MaxDraw = 2
  MaxTime = 2
  MaxCrash = 0
  Minute = 2
INVARIANTS AcceptedPersisted AcceptedJobIssued ClientUpToDate
PROPERTIES NeverUnknownTask InvalidOnlyIfCrossed
CHECK_DEADLOCK FALSE
SYMMETRY Symmetry
