SPECIFICATION Spec
CONSTANTS
  User = {u1,u2}
  Chan = {c1,c2}
  Handler = {h1}
  ClientNonce = {}
  Second = 1
  ExpireAfter = 0
  HistoryWindow = 1
  Faults = {"LoadUserState", "SaveUsedNonce", "SaveUserState"}
  Serial = FALSE
  MaxDraw = 3
  MaxTime = 3
  MaxCrash = 3
INVARIANTS Agreement KnownJobsServable
PROPERTY ImplementsLedger
CHECK_DEADLOCK FALSE
SYMMETRY Symmetry
