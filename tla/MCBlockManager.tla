--------------------------- MODULE MCBlockManager ---------------------------
(* Instances of BlockManager for TLC. *)
EXTENDS BlockManager, TLC

(* A payload is named by its length: the empty block, blocks that share    *)
(* the quota of four bytes in different ways, one that fills it, and one   *)
(* over the per-block cap.                                                 *)
MCLenOf == [d \in Data |->
  CASE d = "empty" -> 0 [] d = "one" -> 1 [] d = "two" -> 2
    [] d = "quota" -> 4 [] d = "huge" -> 5]

Symmetry == Permutations(Keys)

=============================================================================
