SPECIFICATION Spec
CONSTANTS
  Stores = {"large", "other", "small", "huge"}
  Loads = {"load", "loadSmall"}
  Frees = {"free"}
  Size <- MCSize
  Target <- MCTarget
  Threshold = 1
  MaxBlockSize = 2
  MaxInbound = 1
  MaxConns = 2
  Scenarios <- MCTwoConns
CHECK_DEADLOCK FALSE
INVARIANT TransfersIntact
