---------------------------- MODULE BlockManager ----------------------------
(***************************************************************************)
(* The in-memory block store of a node, class BlockManager of              *)
(* memnode/blocks.py.                                                      *)
(*                                                                         *)
(* Every method is a coroutine, but none suspends: its asyncio locks are   *)
(* taken only around code without an await, so a lock is never found held, *)
(* and acquiring a free asyncio.Lock does not yield to the event loop.  A  *)
(* call therefore runs to its end before any other call starts, and each   *)
(* operation is one action here, eviction included.                        *)
(*                                                                         *)
(* Abstracted: a payload is an element of Data with a length; last_access  *)
(* is written and never read, so it is left out; the striped key index is  *)
(* one function, because a key always hashes to the same key stripe.       *)
(***************************************************************************)
EXTENDS Integers, FiniteSets, Functions

CONSTANTS
  Data,          \* payloads a caller may store
  LenOf,         \* LenOf[d] is len(d)
  Keys,          \* block names
  None,          \* Python's None: no key, no data
  MaxMemory,     \* max_memory_bytes
  MaxBlockSize,  \* config.MAX_BLOCK_SIZE
  StripeCount,   \* stripe_count
  MaxId          \* bound on the ids drawn from _id_counter

ASSUME DataAssumption == LenOf \in [Data -> Nat]
ASSUME NoneAssumption == None \notin Keys /\ None \notin Data
ASSUME MemoryAssumption == MaxMemory \in Nat /\ MaxBlockSize \in Nat
ASSUME StripeAssumption == StripeCount \in Nat \ {0}
ASSUME IdAssumption == MaxId \in Nat

VARIABLES
  blocks,    \* the stripes' dicts together: id -> entry
  used,      \* used_bytes of each stripe
  index,     \* the key index: key -> id
  reserved,  \* _reserved_bytes
  nextId,    \* the next value of _id_counter
  call       \* the last call and its outcome, for the properties

vars == <<blocks, used, index, reserved, nextId, call>>

Durability == {"pinned", "cache"}
Entry == [data : Data, durability : Durability, key : Keys \cup {None}]
Stripes == 0 .. StripeCount - 1
Stripe(b) == b % StripeCount
Ids == 1 .. MaxId

-----------------------------------------------------------------------------
(* Sums of sizes.  The bytes held by a set of blocks are counted as the    *)
(* cardinality of a disjoint union, one cell per byte.                     *)

Cells(bs, B) == UNION {{b} \X (1 .. LenOf[bs[b].data]) : b \in B}
Bytes(bs, B) == Cardinality(Cells(bs, B))

InStripe(B, s) == {b \in B : Stripe(b) = s}
Without(f, S) == [x \in DOMAIN f \ S |-> f[x]]

Live == DOMAIN blocks
Holds(k) == k \in DOMAIN index /\ index[k] \in Live
MutantCacheBlocks == Live
CacheBlocks == {b \in Live : blocks[b].durability = "cache"}
PinnedBlocks == {b \in Live : blocks[b].durability = "pinned"}

(* _release: the running total never goes below zero. *)
Release(total, n) == IF total - n < 0 THEN 0 ELSE total - n

(* _reserve's test. *)
MutantFits(total, n) == total + n <= MaxMemory + 1
Fits(total, n) == total + n <= MaxMemory

-----------------------------------------------------------------------------
(* Eviction.                                                               *)

(***************************************************************************)
(* The loop over the shuffled candidates of one stripe: it pops until      *)
(* `enough' holds of what it has popped, tested after each pop.  V is a    *)
(* possible result: some v is popped last, and the test failed before it.  *)
(***************************************************************************)
PopsFrom(C, V, enough(_)) ==
  \/ C = {} /\ V = {}
  \/ /\ V \subseteq C
     /\ V = C \/ enough(V)
     /\ \E v \in V : V = {v} \/ ~ enough(V \ {v})

(***************************************************************************)
(* _evict_to_free(n) may drop exactly the blocks V when it visits the      *)
(* stripes in the given order.  `earlier' is what the stripes before the   *)
(* i-th gave up.  Those bytes are out of _reserved_bytes already, and are  *)
(* in `freed' too, so the test of the inner loop subtracts them twice.     *)
(***************************************************************************)
Evicts(V, order, n) ==
  \A i \in 1 .. StripeCount :
    LET earlier == Bytes(blocks, {b \in V : \E j \in 1 .. i - 1 : Stripe(b) = order[j]})
        total == Release(reserved, earlier)
        enough(W) == Fits(total - (earlier + Bytes(blocks, W)), n)
        mine == InStripe(V, order[i])
    IN  IF i > 1 /\ Fits(total, n)
        THEN mine = {}
        ELSE PopsFrom(InStripe(CacheBlocks, order[i]), mine, enough)

(* What a store of n bytes evicts: nothing if the reservation succeeds. *)
MutantVictims(n) ==
  {V \in SUBSET CacheBlocks :
     \E order \in Bijection(1 .. StripeCount, Stripes) : Evicts(V, order, n)}
Victims(n) ==
  IF Fits(reserved, n)
  THEN {{}}
  ELSE {V \in SUBSET CacheBlocks :
          \E order \in Bijection(1 .. StripeCount, Stripes) : Evicts(V, order, n)}

(* The index entries that eviction deletes, those that point at a victim. *)
MutantKeysOf(V) == {}
KeysOf(V) == {k \in DOMAIN index : \E v \in V : blocks[v].key = k /\ index[k] = v}

-----------------------------------------------------------------------------
Called(op, out, d, k, b) == [op |-> op, out |-> out, data |-> d, key |-> k, id |-> b]

(* store() of a payload over the per-block cap: BlockTooLarge. *)
StoreTooLarge(d, k) ==
  /\ LenOf[d] > MaxBlockSize
  /\ call' = Called("store", "too_large", d, k, 0)
  /\ UNCHANGED <<blocks, used, index, reserved, nextId>>

(* store() that finds no room even after eviction: OutOfMemory.  What was  *)
(* evicted on the way stays evicted.                                       *)
GiveUp(V, n) ==
  /\ ~ Fits(Release(reserved, Bytes(blocks, V)), n)
  /\ blocks' = Without(blocks, V)
  /\ used' = [s \in Stripes |-> used[s] - Bytes(blocks, InStripe(V, s))]
  /\ index' = Without(index, KeysOf(V))
  /\ reserved' = Release(reserved, Bytes(blocks, V))
  /\ UNCHANGED nextId

StoreOutOfMemory(d, k) ==
  /\ LenOf[d] <= MaxBlockSize
  /\ \E V \in Victims(LenOf[d]) : GiveUp(V, LenOf[d])
  /\ call' = Called("store", "oom", d, k, 0)

(* The live block that key k is bound to once the blocks V are evicted. *)
MutantPrevious(V, k) == {}
Previous(V, k) == {b \in Live \ V : k \in DOMAIN index \ KeysOf(V) /\ index[k] = b}

(* The index entries a store under k writes: none without a key. *)
MutantBound(k) == {k}
Bound(k) == {k} \ {None}

(* The rest of a store() that has evicted V: reserve, insert, bind the key *)
(* and free the block the key was bound to.                                *)
Insert(V, d, dur, k) ==
  LET gone(s) == Bytes(blocks, InStripe(V, s)) + Bytes(blocks, InStripe(Previous(V, k), s))
      added(s) == IF s = Stripe(nextId) THEN LenOf[d] ELSE 0
      entry == [data |-> d, durability |-> dur, key |-> k]
      kept == DOMAIN index \ KeysOf(V)
  IN  /\ Fits(Release(reserved, Bytes(blocks, V)), LenOf[d])
      /\ blocks' = [b \in (Live \ (V \cup Previous(V, k))) \cup {nextId} |->
                      IF b = nextId THEN entry ELSE blocks[b]]
      /\ used' = [s \in Stripes |-> used[s] - gone(s) + added(s)]
      /\ index' = [x \in kept \cup Bound(k) |->
                     IF x = k THEN nextId ELSE index[x]]
      /\ reserved' = Release(Release(reserved, Bytes(blocks, V)) + LenOf[d],
                             Bytes(blocks, Previous(V, k)))
      /\ nextId' = nextId + 1

StoreOk(d, dur, k) ==
  /\ LenOf[d] <= MaxBlockSize
  /\ nextId <= MaxId
  /\ \E V \in Victims(LenOf[d]) : Insert(V, d, dur, k)
  /\ call' = Called("store", "ok", d, k, nextId)

(* free(): forget the block and, if its key still points at it, the key. *)
Remove(b) ==
  /\ blocks' = Without(blocks, {b})
  /\ used' = [used EXCEPT ![Stripe(b)] = @ - LenOf[blocks[b].data]]
  /\ reserved' = Release(reserved, LenOf[blocks[b].data])
  /\ index' = Without(index, {k \in DOMAIN index : blocks[b].key = k /\ index[k] = b})
  /\ UNCHANGED nextId

Free(b) ==
  \/ /\ b \in Live
     /\ Remove(b)
     /\ call' = Called("free", "ok", None, None, b)
  \/ /\ b \notin Live
     /\ call' = Called("free", "none", None, None, b)
     /\ UNCHANGED <<blocks, used, index, reserved, nextId>>

FreeByKey(k) ==
  \/ /\ Holds(k)
     /\ Remove(index[k])
     /\ call' = Called("free", "ok", None, k, index[k])
  \/ /\ ~ Holds(k)
     /\ call' = Called("free", "none", None, k, 0)
     /\ UNCHANGED <<blocks, used, index, reserved, nextId>>

(* load() and load_by_key() only read. *)
Load(b) ==
  /\ call' = IF b \in Live THEN Called("load", "ok", blocks[b].data, None, b)
             ELSE Called("load", "none", None, None, b)
  /\ UNCHANGED <<blocks, used, index, reserved, nextId>>

LoadByKey(k) ==
  /\ call' = IF Holds(k)
             THEN Called("load", "ok", blocks[index[k]].data, k, 0)
             ELSE Called("load", "none", None, k, 0)
  /\ UNCHANGED <<blocks, used, index, reserved, nextId>>

-----------------------------------------------------------------------------
Init ==
  /\ blocks = [b \in {} |-> None]
  /\ used = [s \in Stripes |-> 0]
  /\ index = [k \in {} |-> None]
  /\ reserved = 0
  /\ nextId = 1
  /\ call = Called("init", "ok", None, None, 0)

Next ==
  \/ \E d \in Data, k \in Keys \cup {None} :
       \/ StoreTooLarge(d, k)
       \/ StoreOutOfMemory(d, k)
       \/ \E dur \in Durability : StoreOk(d, dur, k)
  \/ \E b \in Ids : Free(b) \/ Load(b)
  \/ \E k \in Keys : FreeByKey(k) \/ LoadByKey(k)

Spec == Init /\ [][Next]_vars

-----------------------------------------------------------------------------
(* Properties.                                                             *)

(* The shape of the state: every variable has its type, and ids come from  *)
(* the part of the counter that has been drawn.                            *)
TypeOK ==
  /\ Live \subseteq 1 .. nextId - 1
  /\ blocks \in [Live -> Entry]
  /\ used \in [Stripes -> Int]
  /\ DOMAIN index \subseteq Keys
  /\ index \in [DOMAIN index -> Ids]
  /\ reserved \in Nat
  /\ nextId \in 1 .. MaxId + 1

(* _reserved_bytes, "authoritative total usage" (blocks.py:121), is the    *)
(* sum of the stored payloads after any sequence of stores, overwrites,    *)
(* evictions, failed stores and frees; the per-stripe counters agree with  *)
(* the stripes; and the quota is never exceeded.                           *)
QuotaExact ==
  /\ reserved = Bytes(blocks, Live)
  /\ \A s \in Stripes : used[s] = Bytes(blocks, InStripe(Live, s))
  /\ reserved <= MaxMemory

(* The key index and the keys recorded in the entries determine each       *)
(* other: no key points at a freed or evicted block or at a block of       *)
(* another key, and no keyed block is unreachable through its key (an      *)
(* overwrite "orphans the old block; release it", blocks.py:167).          *)
KeyIndexExact ==
  /\ \A k \in DOMAIN index : index[k] \in Live /\ blocks[index[k]].key = k
  /\ \A b \in Live : blocks[b].key # None =>
       blocks[b].key \in DOMAIN index /\ index[blocks[b].key] = b

(* "PINNED (never auto-evicted...)" (blocks.py:11): a pinned block goes    *)
(* away only because a caller freed it or stored again under its key.      *)
PinnedStays ==
  [][\A b \in PinnedBlocks : b \notin DOMAIN blocks' =>
       /\ call'.out = "ok"
       /\ \/ call'.op = "free" /\ (call'.id = b \/ call'.key = blocks[b].key)
          \/ call'.op = "store" /\ call'.key # None /\ call'.key = blocks[b].key]_vars

(* The cached blocks a step removed other than by freeing or rebinding. *)
Evicted ==
  IF call'.op # "store" THEN {}
  ELSE {b \in Live \ DOMAIN blocks' :
          ~ (call'.out = "ok" /\ call'.key # None /\ blocks[b].key = call'.key)}

(* Eviction stops as soon as the new block fits (blocks.py:274 and 286):   *)
(* among the blocks a store evicted there is one without which the store   *)
(* would still not have fitted.                                            *)
EvictsNoMoreThanNeeded ==
  [][Evicted = {} \/
       \E v \in Evicted :
         ~ Fits(reserved - Bytes(blocks, Evicted \ {v}), LenOf[call'.data])]_vars

(* "if a PINNED store cannot fit even after evicting every evictable CACHE *)
(* block, it fails loudly with OutOfMemory" (blocks.py:248): the store     *)
(* fails only when the pinned blocks alone leave no room.                  *)
OutOfMemoryOnlyIfPinned ==
  [][call'.out = "oom" =>
       ~ Fits(Bytes(blocks, PinnedBlocks), LenOf[call'.data])]_vars

(* The block store as its callers see it: ids, names and payloads.  The    *)
(* stripes, the byte counters and the key index are not visible, so a load *)
(* by key must find the one live block that was stored under the key.      *)
Abstract == INSTANCE BlockStore WITH live <- blocks, issued <- nextId
ImplementsBlockStore == Abstract!Spec

=============================================================================
