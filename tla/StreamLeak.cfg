CONSTANTS
  MaxChunks = 14
  ChCap = 10
  OutCap = 1
SPECIFICATION FairSpec
PROPERTY ReleasedWhenClosed
CHECK_DEADLOCK FALSE
