SPECIFICATION Spec
CONSTANTS
  Frame <- MCFrame
  Sends <- MCSends
  Writer = {s1, s2, ping}
  Locked = {s1, s2}
  Quits = {ping}
  Base = 4
  WriteErrors = TRUE
  MaxFrames = 2
INVARIANT IntactUntilTorn
PROPERTY EventuallyRead
CHECK_DEADLOCK FALSE
