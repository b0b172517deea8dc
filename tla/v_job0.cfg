SPECIFICATION Spec
CONSTANTS
  User = {u1}
  Chan = {c1}
  Handler = {h1}
  ClientNonce = {n1}
  Second = 1
  ExpireAfter = 0
  HistoryWindow = 0
  Faults = {}
  Serial = TRUE
  MaxDraw = 1
  MaxTime = 1
  MaxCrash = 0
INVARIANT AcceptedJobIssued
CHECK_DEADLOCK FALSE
