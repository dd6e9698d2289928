---------------------------- MODULE MCReplication ----------------------------
(* Instances of Replication for TLC. *)
EXTENDS Replication, TLC

(* Stores are named for their size: a block that fits one message, two     *)
(* that are sent in chunks, and one over the per-block cap.                *)
MCSize == [r \in Stores |->
  CASE r = "small" -> 1 [] r = "large" -> 2 [] r = "other" -> 2 [] r = "huge" -> 3]
MCTarget == [r \in Loads \cup Frees |-> IF r = "loadSmall" THEN "small" ELSE "large"]

Scenario(R, n, F) == [reqs |-> R, conns |-> n, frail |-> F]
MCScenarios == {
  Scenario({"large", "other"}, 1, {}),           \* two transfers for one buffer
  Scenario({"large", "load"}, 2, {}),            \* the connection is replaced
  Scenario({"large", "load"}, 1, Nodes),         \* writers fail
  Scenario({"large"}, 2, {"client"}),            \* and connections are replaced
  Scenario({"small", "loadSmall"}, 1, {"client"}),
  Scenario({"other", "huge"}, 1, {}),            \* one is over the cap
  Scenario({"large", "load", "free"}, 1, {})}    \* freed while it is streamed
MCTwoConns == {Scenario({"large"}, 2, {})}

=============================================================================
