SPECIFICATION Spec
CONSTANTS
  Second = 2
  Minute = 4
  MaxJobs = 2
  MaxInbox = 1
PROPERTIES TimerSpacing KeepsSubmitting RunEnds
CHECK_DEADLOCK FALSE
