---------------------------- MODULE MCPeerManager ----------------------------
(* Instances of PeerManager for TLC: two connections that this node dials, *)
(* one that it accepts, and a fourth of another peer.                      *)
EXTENDS PeerManager

MCPeerOf == [c \in Conns |-> IF c = "other" THEN "q" ELSE "p"]

=============================================================================
