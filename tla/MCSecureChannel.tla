--------------------------- MODULE MCSecureChannel ---------------------------
(* Instances of Handshake and SecureChannel for TLC. *)
EXTENDS SecureChannel, TLC

Both(a, b) == [e \in Ends |-> IF e = "initiator" THEN a ELSE b]
Line(nodes, versions, formed, echo) ==
  [node |-> nodes, claim |-> nodes, version |-> versions, formed |-> formed, echo |-> echo]
Nodes == Line(Both("A", "B"), Both(1, 1), Both(TRUE, TRUE), FALSE)

(* Two nodes; a peer that presents an identity key that is not its own; a  *)
(* node that dials itself; another version; a peer that sends something    *)
(* else; and an echo service.                                              *)
MCLines == {
  Nodes,
  [Nodes EXCEPT !.claim = Both("A", "C")],
  Line(Both("A", "A"), Both(1, 1), Both(TRUE, TRUE), FALSE),
  Line(Both("A", "B"), Both(1, 2), Both(TRUE, TRUE), FALSE),
  Line(Both("A", "B"), Both(1, 1), Both(TRUE, FALSE), FALSE),
  Line(Both("A", "A"), Both(1, 1), Both(TRUE, TRUE), TRUE)}

=============================================================================
