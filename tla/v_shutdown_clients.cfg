SPECIFICATION Spec
CONSTANTS
  Evt = {e1}
  Late = {}
  Stores = {"pg"}
  Publisher = {p1}
  Size = 2
  Client = {c1,c2}
  StoreErrors = FALSE
  SlowStore = FALSE
INVARIANT ShutdownClosesAll
CHECK_DEADLOCK FALSE
