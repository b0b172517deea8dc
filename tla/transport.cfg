SPECIFICATION ServerSpec
CONSTANTS
  Msg = {m1, m2, m3}
  Pusher = {loop, p1}
  Loop = loop
  MayShutdown = TRUE
  Cap = 2
  WriteErrors = TRUE
  MaxEmpty = 1
INVARIANTS TypeOK InOrder DrainNeverBlocks PanicsOnlyInShutdown
PROPERTIES EventuallyWritten BlocksOnlyOnFailedWriter ConnectionCloses
CHECK_DEADLOCK FALSE
