SPECIFICATION Spec
CONSTANTS
  User = {u1}
  Chan = {c1}
  Handler = {h1}
  ClientNonce = {}
  Second = 1
  ExpireAfter = 0
  HistoryWindow = 0
  Faults = {}
  Serial = TRUE
  MaxDraw = 2
  MaxTime = 1
  MaxCrash = 1
PROPERTY ZeroWindowRestoresLatestOnly
CHECK_DEADLOCK FALSE
