SPECIFICATION Spec
CONSTANTS
  User = {u1}
  Chan = {c1}
  Handler = {h1}
  ClientNonce = {n1}
  Second = 1
  ExpireAfter = 0
  HistoryWindow = 0
  Faults = {}
  Serial = TRUE
  MaxDraw = 2
  MaxTime = 2
  MaxCrash = 0
PROPERTY HonestNeverInvalid
CHECK_DEADLOCK FALSE
