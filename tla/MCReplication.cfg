SPECIFICATION FairSpec
CONSTANTS
  Stores = {"large", "other", "small", "huge"}
  Loads = {"load", "loadSmall"}
  Frees = {"free"}
  Size <- MCSize
  Target <- MCTarget
  Threshold = 1
  MaxBlockSize = 2
  MaxInbound = 1
  MaxConns = 2
  Scenarios <- MCScenarios
CHECK_DEADLOCK FALSE
INVARIANTS TypeOK IntactOnOneConnection StoreReportsTruth NothingLeftBehind FreedIsGone
PROPERTY RequestsEnd
