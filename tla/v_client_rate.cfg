SPECIFICATION Spec
CONSTANTS
  Second = 2
  Minute = 4
  MaxJobs = 2
  MaxInbox = 2
PROPERTY AtMostOncePerSecond
CHECK_DEADLOCK FALSE
