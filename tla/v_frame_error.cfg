SPECIFICATION Spec
CONSTANTS
  Frame <- MCFrame
  Sends <- MCSends
  Writer = {s1}
  Locked = {s1}
  Quits = {}
  Base = 4
  WriteErrors = TRUE
  MaxFrames = 3
INVARIANT FramesIntact
CHECK_DEADLOCK FALSE
