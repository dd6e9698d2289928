SPECIFICATION ListenerSpec
CONSTANTS
  Peers = {"p", "q"}
  Conns = {"dial", "redial", "accept", "other"}
  Outgoing = {"dial", "redial"}
  PeerOf <- MCPeerOf
  Known = {"q"}
  IPs = {1, 2, 3, 4}
  Inbound = {"accept", "other", "stranger"}
  MaxPerWindow = 2
  Window = 1
  MaxInflightIp = 2
  MaxInflight = 2
  MaxTracked = 3
  MaxTime = 2
  AddressOf <- MCAddressOf
  Scenarios <- MCScenarios
INVARIANTS TypeOK TrustEarned RegistryAttended VerifiedMarkRight GuardTypeOK AdmissionExact TableBounded
PROPERTIES OnlyApprovedRegister WindowLimit
