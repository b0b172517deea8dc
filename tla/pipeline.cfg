SPECIFICATION Spec
CONSTANTS
  Evt = {e1,e2,e3}
  Late = {e3}
  Stores = {"memory", "pg"}
  Publisher = {p1,p2}
  Size = 1
  Client = {c1,c2}
  StoreErrors = TRUE
  SlowStore = TRUE
INVARIANTS TypeOK EachEventOnce MemoryCountsExact
PROPERTIES EventuallyCounted ShutdownEnds
CHECK_DEADLOCK FALSE
