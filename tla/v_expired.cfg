SPECIFICATION Spec
CONSTANTS
  User = {u1}
  Chan = {c1,c2}
  Handler = {h1}
  ClientNonce = {n1}
  Second = 1
  ExpireAfter = 1
  HistoryWindow = 0
  Faults = {}
  Serial = TRUE
  MaxDraw = 2
  MaxTime = 3
  MaxCrash = 0
PROPERTY ExpiredRefused
CHECK_DEADLOCK FALSE
SYMMETRY Symmetry
