----------------------------- MODULE BlockStore -----------------------------
(***************************************************************************)
(* What a node's block store promises its callers, without stripes, byte   *)
(* counters or a key index: a set of live blocks within a quota, at most   *)
(* one of them under each key, whose cached blocks may be given up to make *)
(* room and whose pinned blocks may not.  BlockManager implements this.    *)
(***************************************************************************)
EXTENDS Integers, FiniteSets

CONSTANTS Data, LenOf, Keys, None, MaxMemory, MaxBlockSize, MaxId

VARIABLES
  live,    \* id -> [data, durability, key]
  issued,  \* the number of ids handed out, plus one
  call     \* the last call and its outcome

vars == <<live, issued, call>>

Blocks == DOMAIN live
Size(B) == Cardinality(UNION {{b} \X (1 .. LenOf[live[b].data]) : b \in B})
Named(k) == {b \in Blocks : live[b].key = k /\ k # None}
Cache == {b \in Blocks : live[b].durability = "cache"}
Only(B) == [b \in B |-> live[b]]
Returns(op, out, d, k, b) == [op |-> op, out |-> out, data |-> d, key |-> k, id |-> b]

(* Some cached blocks are given up, and then the new one fits; it replaces *)
(* the block of its name.                                                  *)
Put(d, dur, k) ==
  /\ LenOf[d] <= MaxBlockSize /\ issued <= MaxId
  /\ \E V \in SUBSET Cache :
       /\ Size(Blocks \ V) + LenOf[d] <= MaxMemory
       /\ live' = [b \in (Blocks \ (V \cup Named(k))) \cup {issued} |->
                     IF b = issued THEN [data |-> d, durability |-> dur, key |-> k]
                     ELSE live[b]]
  /\ issued' = issued + 1
  /\ call' = Returns("store", "ok", d, k, issued)

(* A refused store keeps every pinned block.  It is refused for its size,  *)
(* or because it does not fit beside the blocks that are left.             *)
Refuse(d, k) ==
  /\ \/ LenOf[d] > MaxBlockSize /\ live' = live
        /\ call' = Returns("store", "too_large", d, k, 0)
     \/ /\ LenOf[d] <= MaxBlockSize
        /\ \E V \in SUBSET Cache :
             Size(Blocks \ V) + LenOf[d] > MaxMemory /\ live' = Only(Blocks \ V)
        /\ call' = Returns("store", "oom", d, k, 0)
  /\ UNCHANGED issued

(* Freeing, by id or by name, removes exactly the block meant. *)
Free(b, k, B) ==
  /\ \/ B # {} /\ call' = Returns("free", "ok", None, k, CHOOSE x \in B : TRUE)
     \/ B = {} /\ call' = Returns("free", "none", None, k, b)
  /\ live' = Only(Blocks \ B)
  /\ UNCHANGED issued

(* A load by id or by name returns the block's payload, or nothing. *)
Get(b, k, B) ==
  /\ \/ \E x \in B : call' = Returns("load", "ok", live[x].data, k, b)
     \/ B = {} /\ call' = Returns("load", "none", None, k, b)
  /\ UNCHANGED <<live, issued>>

Init ==
  /\ live = [b \in {} |-> None]
  /\ issued = 1
  /\ call = Returns("init", "ok", None, None, 0)

Next ==
  \/ \E d \in Data, k \in Keys \cup {None} :
       Refuse(d, k) \/ \E dur \in {"pinned", "cache"} : Put(d, dur, k)
  \/ \E b \in 1 .. MaxId :
       Free(b, None, {b} \cap Blocks) \/ Get(b, None, {b} \cap Blocks)
  \/ \E k \in Keys : Free(0, k, Named(k)) \/ Get(0, k, Named(k))

Spec == Init /\ [][Next]_vars

=============================================================================
