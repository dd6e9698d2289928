------------------------------ MODULE MCListener -----------------------------
(* Instances of Listener for TLC.  Two connections are dialled and one     *)
(* accepted of one peer, and a fourth accepted of another.                 *)
EXTENDS Listener

MCPeerOf == [c \in Conns |-> IF c = "other" THEN "q" ELSE "p"]
MCAddressOf == [c \in Accepted |-> IF c = "other" THEN 2 ELSE 1]

Scene(made, crowd, since, files) ==
  [made |-> made, crowd |-> crowd, since |-> since, files |-> files]
MCScenarios == {
  Scene(Conns, {}, MaxTime, {"v1", "v2", "unreadable"}),  \* connections to one peer replace each other
  Scene(Accepted, {2}, 1, {"v2"}),        \* a stranger from a peer's address
  Scene({}, IPs, 0, {"v2"})}      \* more addresses than the table holds

=============================================================================
