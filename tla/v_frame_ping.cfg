SPECIFICATION Spec
CONSTANTS
  Frame <- MCFrame
  Sends <- MCSends
  Writer = {s1, ping}
  Locked = {s1}
  Quits = {ping}
  Base = 4
  WriteErrors = FALSE
  MaxFrames = 3
INVARIANT FramesIntact
CHECK_DEADLOCK FALSE
