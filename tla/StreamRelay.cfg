CONSTANTS
  MaxChunks = 14
  ChCap = 10
  OutCap = 1
SPECIFICATION FairSpec
PROPERTIES ImplementsDelivery StreamEnds
CHECK_DEADLOCK FALSE
