SPECIFICATION Spec
CONSTANTS
  Second = 2
  Minute = 4
  MaxJobs = 2
  MaxInbox = 2
INVARIANT OpCloseSent
CHECK_DEADLOCK FALSE
