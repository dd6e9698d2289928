SPECIFICATION Spec
CONSTANTS
  Peers = {"p", "q"}
  Conns = {"dial", "accept"}
  Outgoing = {"dial"}
  PeerOf <- MCPeerOf
  Known = {"q"}
INVARIANT ConnectedIsRegistered
