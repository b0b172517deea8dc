SPECIFICATION Spec
CONSTANTS
  Evt = {e1, e2, e3}
  Late = {}
  Stores = {"pg"}
  Publisher = {p1}
  Size = 3
  Client = {c1}
  StoreErrors = FALSE
  SlowStore = FALSE
INVARIANT CountsExact
CHECK_DEADLOCK FALSE
