SPECIFICATION Spec
CONSTANTS
  Evt = {e1,e2}
  Late = {}
  Stores = {"pg"}
  Publisher = {p1}
  Size = 2
  Client = {c1}
  StoreErrors = FALSE
  SlowStore = FALSE
INVARIANT IncrementsBeforeClose
CHECK_DEADLOCK FALSE
