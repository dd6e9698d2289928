SPECIFICATION FairSpec
CONSTANTS
  Calls = {"a1", "a2", "b1", "b2"}
  Caller <- MCCaller
  Kind <- MCKind
  Chunks = 2
  MaxQueued = 4
  SocketRoom = 1
  Control = "control"
CHECK_DEADLOCK FALSE
PROPERTY NothingStarves
