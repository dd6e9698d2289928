SPECIFICATION Spec
CONSTANTS
  Calls = {"c1", "c2", "c3", "big", "d1", "d2", "d3", "d4", "d5"}
  Peers = {"p", "q"}
  Self = "self"
  None = None
  Size <- MCSize
  Threshold = 1
  Advertised <- MCAdvertised
  MaxMessage = 3
  Scenarios <- MCStale
  DemoCalls <- MCDemoCalls
  Chunks = 2
CHECK_DEADLOCK FALSE
INVARIANT LocationTransparent
