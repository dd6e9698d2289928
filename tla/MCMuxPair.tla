------------------------------ MODULE MCMuxPair ------------------------------
(* Instances of MuxPair for TLC: two blocks each way.  A block fits the    *)
(* queue, two do not, even with what the socket holds.                     *)
EXTENDS MuxPair

MCCaller == [c \in Calls |-> IF c \in {"a1", "a2"} THEN "a" ELSE "b"]
MCKind == [c \in Calls |-> "load"]

=============================================================================
