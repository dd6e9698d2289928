------------------------- MODULE BlockManagerProofs -------------------------
(***************************************************************************)
(* Theorems about BlockManager for every set of payloads and keys, every   *)
(* quota and every number of stripes.                                      *)
(***************************************************************************)
EXTENDS BlockManager, FiniteSetTheorems, WellFoundedInduction, TLAPS

-----------------------------------------------------------------------------
(* Facts about the bytes held by a set of blocks.  `Sized' says that the   *)
(* payload of every block of a finite set B has a length.                  *)

Sized(bs, B) == IsFiniteSet(B) /\ \A b \in B : LenOf[bs[b].data] \in Nat

(* A finite set of blocks holds finitely many bytes. *)
LEMMA BytesType ==
  ASSUME NEW bs, NEW B, Sized(bs, B)
  PROVE  IsFiniteSet(Cells(bs, B)) /\ Bytes(bs, B) \in Nat
<1> DEFINE C(b) == {b} \X (1 .. LenOf[bs[b].data])
           T == {C(b) : b \in B}
           f == [b \in B |-> C(b)]
<1>1. f \in Surjection(B, T)
  BY Zenon DEF Surjection
<1>2. IsFiniteSet(T)
  BY <1>1, FS_Surjection DEF Sized
<1>3. \A t \in T : IsFiniteSet(t)
  <2> TAKE t \in T
  <2>1. PICK b \in B : t = {b} \X (1 .. LenOf[bs[b].data])
    OBVIOUS
  <2> DEFINE n == LenOf[bs[b].data]
  <2>2. n \in Int
    BY DEF Sized
  <2> HIDE DEF n
  <2>3. IsFiniteSet({b})
    BY FS_Singleton, Zenon
  <2>4. IsFiniteSet(1 .. n)
    BY <2>2, FS_Interval
  <2>5. IsFiniteSet({b} \X (1 .. n))
    BY <2>3, <2>4, FS_Product, Zenon
  <2> QED
    BY <2>1, <2>5 DEF n
<1>4. IsFiniteSet(UNION T)
  BY <1>2, <1>3, FS_UNION, Zenon
<1> QED
  BY <1>4, FS_CardinalityType DEF Cells, Bytes

(* The bytes of a subset of the blocks and of the rest add up. *)
LEMMA BytesSplit ==
  ASSUME NEW bs, NEW B, Sized(bs, B), NEW G \in SUBSET B
  PROVE  /\ Sized(bs, G) /\ Sized(bs, B \ G)
         /\ Bytes(bs, B) = Bytes(bs, G) + Bytes(bs, B \ G)
         /\ Bytes(bs, G) \in Nat /\ Bytes(bs, B \ G) \in Nat
<1>1. Sized(bs, G) /\ Sized(bs, B \ G)
  BY FS_Subset DEF Sized
<1>2. Cells(bs, B) = Cells(bs, G) \cup Cells(bs, B \ G)
  BY DEF Cells
<1>3. Cells(bs, G) \cap Cells(bs, B \ G) = {}
  BY DEF Cells
<1>4. /\ IsFiniteSet(Cells(bs, G)) /\ Bytes(bs, G) \in Nat
      /\ IsFiniteSet(Cells(bs, B \ G)) /\ Bytes(bs, B \ G) \in Nat
  BY <1>1, BytesType
<1>5. Cardinality(Cells(bs, G) \cup Cells(bs, B \ G))
        = Cardinality(Cells(bs, G)) + Cardinality(Cells(bs, B \ G)) - Cardinality({})
  BY <1>3, <1>4, FS_Union, Zenon
<1>6. Cardinality({}) = 0
  BY FS_EmptySet
<1> QED
  BY <1>1, <1>2, <1>4, <1>5, <1>6 DEF Bytes

(* One block holds as many bytes as its payload is long. *)
LEMMA BytesOne ==
  ASSUME NEW bs, NEW b, LenOf[bs[b].data] \in Nat
  PROVE  Sized(bs, {b}) /\ Bytes(bs, {b}) = LenOf[bs[b].data]
<1> DEFINE n == LenOf[bs[b].data]
<1>1. Cells(bs, {b}) = {b} \X (1 .. n)
  <2>1. {{x} \X (1 .. LenOf[bs[x].data]) : x \in {b}} = {{b} \X (1 .. n)}
    OBVIOUS
  <2> HIDE DEF n
  <2> QED
    BY <2>1, Zenon DEF Cells
<1> HIDE DEF n
<1>n. n \in Nat
  BY DEF n
<1>2. IsFiniteSet(1 .. n) /\ Cardinality(1 .. n) = n
  BY <1>n, FS_Interval, SMTT(60)
<1>3. IsFiniteSet({b}) /\ Cardinality({b}) = 1
  BY FS_Singleton, Zenon
<1>4. Cardinality({b} \X (1 .. n)) = 1 * n
  <2>1. Cardinality({b} \X (1 .. n)) = Cardinality({b}) * Cardinality(1 .. n)
    BY <1>2, <1>3, FS_Product, ZenonT(30)
  <2> QED
    BY <2>1, <1>2, <1>3, Zenon
<1>5. Bytes(bs, {b}) = n
  <2>1. Bytes(bs, {b}) = Cardinality({b} \X (1 .. n))
    BY <1>1, Zenon DEF Bytes
  <2>2. 1 * n = n
    BY <1>n
  <2> QED
    BY <2>1, <2>2, <1>4, Zenon
<1> QED
  BY <1>3, <1>5 DEF Sized, n

(* No blocks hold no bytes. *)
LEMMA BytesNone ==
  ASSUME NEW bs
  PROVE  Sized(bs, {}) /\ Bytes(bs, {}) = 0
<1>1. Cells(bs, {}) = {}
  BY DEF Cells
<1> QED
  BY <1>1, FS_EmptySet DEF Bytes, Sized

(* The count depends only on the payloads. *)
LEMMA BytesSame ==
  ASSUME NEW bs, NEW cs, NEW B, \A b \in B : cs[b] = bs[b]
  PROVE  Bytes(cs, B) = Bytes(bs, B) /\ (Sized(bs, B) => Sized(cs, B))
BY DEF Bytes, Cells, Sized

(* Taking the blocks G out of B and adding a new block n. *)
LEMMA BytesReplace ==
  ASSUME NEW bs, NEW cs, NEW B, Sized(bs, B), NEW G \in SUBSET B, NEW n, n \notin B,
         \A b \in B \ G : cs[b] = bs[b], LenOf[cs[n].data] \in Nat
  PROVE  Bytes(cs, (B \ G) \cup {n}) = Bytes(bs, B) - Bytes(bs, G) + LenOf[cs[n].data]
<1> DEFINE R == B \ G
           S == R \cup {n}
<1>1. /\ Sized(bs, R) /\ Bytes(bs, R) \in Nat /\ Bytes(bs, G) \in Nat
      /\ Bytes(bs, B) = Bytes(bs, G) + Bytes(bs, R)
  BY BytesSplit
<1>2. Bytes(cs, R) = Bytes(bs, R) /\ Sized(cs, R)
  BY <1>1, BytesSame, Zenon
<1>3. Sized(cs, {n}) /\ Bytes(cs, {n}) = LenOf[cs[n].data]
  BY BytesOne
<1>4. Sized(cs, S)
  <2>1. IsFiniteSet(R \cup {n})
    BY <1>2, FS_AddElement, Zenon DEF Sized
  <2> QED
    BY <2>1, <1>2 DEF Sized
<1>5. R \in SUBSET S
  OBVIOUS
<1>6. S \ R = {n}
  OBVIOUS
<1> HIDE DEF R, S
<1>7. Bytes(cs, S) = Bytes(cs, R) + Bytes(cs, S \ R)
  BY ONLY <1>4, <1>5, BytesSplit
<1>8. Bytes(cs, S) = Bytes(cs, R) + Bytes(cs, {n})
  BY <1>6, <1>7, Zenon
<1> QED
  BY <1>1, <1>2, <1>3, <1>8 DEF R, S

(* Part of the blocks hold no more bytes than all of them. *)
LEMMA BytesSubset ==
  ASSUME NEW bs, NEW B, Sized(bs, B), NEW G \in SUBSET B
  PROVE  Bytes(bs, G) <= Bytes(bs, B)
<1>1. /\ Bytes(bs, B \ G) \in Nat /\ Bytes(bs, G) \in Nat
      /\ Bytes(bs, B) = Bytes(bs, G) + Bytes(bs, B \ G)
  BY BytesSplit
<1> QED
  BY <1>1

(* Taking the blocks G out of B. *)
LEMMA BytesRemove ==
  ASSUME NEW bs, NEW cs, NEW B, Sized(bs, B), NEW G \in SUBSET B,
         \A b \in B \ G : cs[b] = bs[b]
  PROVE  Bytes(cs, B \ G) = Bytes(bs, B) - Bytes(bs, G)
<1>1. /\ Bytes(bs, B \ G) \in Nat /\ Bytes(bs, G) \in Nat
      /\ Bytes(bs, B) = Bytes(bs, G) + Bytes(bs, B \ G)
  BY BytesSplit
<1>2. Bytes(cs, B \ G) = Bytes(bs, B \ G)
  BY BytesSame
<1> QED
  BY <1>1, <1>2

(* Two disjoint sets of blocks. *)
LEMMA BytesDisjoint ==
  ASSUME NEW bs, NEW B, Sized(bs, B), NEW G \in SUBSET B, NEW H \in SUBSET B,
         G \cap H = {}
  PROVE  Bytes(bs, G \cup H) = Bytes(bs, G) + Bytes(bs, H)
<1>1. Sized(bs, G \cup H)
  BY BytesSplit, Zenon
<1>2. G \in SUBSET (G \cup H) /\ (G \cup H) \ G = H
  OBVIOUS
<1>3. Bytes(bs, G \cup H) = Bytes(bs, G) + Bytes(bs, (G \cup H) \ G)
  BY ONLY <1>1, <1>2, BytesSplit
<1> QED
  BY <1>2, <1>3, Zenon

-----------------------------------------------------------------------------
(* Eviction takes cached blocks only, whatever order the stripes and the   *)
(* candidates are visited in.                                              *)
LEMMA VictimsAreCached ==
  ASSUME NEW n, NEW V \in Victims(n)
  PROVE  V \subseteq CacheBlocks /\ V \subseteq Live
BY DEF Victims, CacheBlocks, Live

(* In a well-typed state the live blocks are finitely many and have a      *)
(* length, and the next id is new.                                         *)
LEMMA LiveSized ==
  ASSUME TypeOK
  PROVE  /\ Sized(blocks, Live)
         /\ nextId \notin Live
         /\ \A B \in SUBSET Live : Sized(blocks, B) /\ Bytes(blocks, B) \in Nat
<1>1. nextId - 1 \in Int
  BY IdAssumption DEF TypeOK
<1>2. IsFiniteSet(1 .. nextId - 1)
  BY <1>1, FS_Interval
<1>3. IsFiniteSet(Live)
  BY <1>2, FS_Subset DEF TypeOK
<1>4. \A b \in Live : LenOf[blocks[b].data] \in Nat
  BY DataAssumption DEF TypeOK, Entry
<1>5. nextId \notin Live
  BY IdAssumption DEF TypeOK
<1>6. Sized(blocks, Live)
  BY <1>3, <1>4 DEF Sized
<1>7. ASSUME NEW B \in SUBSET Live
      PROVE  Sized(blocks, B) /\ Bytes(blocks, B) \in Nat
  BY <1>6, BytesSplit, Zenon
<1> QED
  BY <1>5, <1>6, <1>7

(* A block id has a stripe. *)
LEMMA StripeType ==
  ASSUME NEW b \in Nat
  PROVE  Stripe(b) \in Stripes
BY StripeAssumption DEF Stripe, Stripes

(* Releasing bytes leaves a natural number, and all of it once there is   *)
(* that much to release.                                                   *)
LEMMA ReleaseType ==
  ASSUME NEW t \in Nat, NEW n \in Nat
  PROVE  Release(t, n) \in Nat /\ (n <= t => Release(t, n) = t - n)
BY DEF Release

-----------------------------------------------------------------------------
(* The variables keep their types under every call. *)
LEMMA TypeStep == TypeOK /\ [Next]_vars => TypeOK'
<1> SUFFICES ASSUME TypeOK, [Next]_vars PROVE TypeOK'
  OBVIOUS
<1> USE IdAssumption, MemoryAssumption DEF Live, Ids
<1>1. ASSUME NEW d \in Data, NEW k \in Keys \cup {None}, StoreTooLarge(d, k)
      PROVE  TypeOK'
  BY <1>1 DEF StoreTooLarge, TypeOK
<1>2. ASSUME NEW n, NEW V \in Victims(n), GiveUp(V, n)
      PROVE  TypeOK'
  <2>1. V \in SUBSET Live /\ \A s \in Stripes : InStripe(V, s) \in SUBSET Live
    BY VictimsAreCached DEF InStripe
  <2>2. Bytes(blocks, V) \in Nat /\ \A s \in Stripes : Bytes(blocks, InStripe(V, s)) \in Nat
    BY <2>1, LiveSized
  <2>3. reserved' \in Nat
    BY <1>2, <2>2, ReleaseType DEF GiveUp, TypeOK
  <2>4. used' \in [Stripes -> Int]
    BY <1>2, <2>2 DEF GiveUp, TypeOK
  <2> QED
    BY <1>2, <2>3, <2>4 DEF GiveUp, TypeOK, Without
<1>3. ASSUME NEW d \in Data, NEW k \in Keys \cup {None}, NEW dur \in Durability,
             nextId <= MaxId, NEW V \in Victims(LenOf[d]), Insert(V, d, dur, k)
      PROVE  TypeOK'
  <2>1. /\ V \in SUBSET Live /\ Previous(V, k) \in SUBSET Live
        /\ \A s \in Stripes : InStripe(V, s) \in SUBSET Live
                              /\ InStripe(Previous(V, k), s) \in SUBSET Live
    BY VictimsAreCached DEF InStripe, Previous
  <2>2. /\ Bytes(blocks, V) \in Nat /\ Bytes(blocks, Previous(V, k)) \in Nat
        /\ \A s \in Stripes : Bytes(blocks, InStripe(V, s)) \in Nat
                              /\ Bytes(blocks, InStripe(Previous(V, k), s)) \in Nat
    BY <2>1, LiveSized
  <2>3. LenOf[d] \in Nat
    BY DataAssumption
  <2>4. reserved' \in Nat
    <3>1. Release(reserved, Bytes(blocks, V)) + LenOf[d] \in Nat
      BY <2>2, <2>3, ReleaseType DEF TypeOK
    <3> QED
      BY <1>3, <3>1, <2>2, ReleaseType, Zenon DEF Insert
  <2>5. used' \in [Stripes -> Int]
    BY <1>3, <2>2, <2>3 DEF Insert, Bound, TypeOK
  <2>6. DOMAIN blocks' \subseteq 1 .. nextId' - 1 /\ blocks' \in [DOMAIN blocks' -> Entry]
    BY <1>3 DEF Insert, TypeOK, Entry
  <2>7. DOMAIN index' \subseteq Keys /\ index' \in [DOMAIN index' -> 1 .. MaxId]
    BY <1>3 DEF Insert, Bound, TypeOK
  <2> QED
    BY <1>3, <2>4, <2>5, <2>6, <2>7 DEF Insert, Bound, TypeOK
<1>4. ASSUME NEW b \in Live, Remove(b)
      PROVE  TypeOK'
  <2>1. LenOf[blocks[b].data] \in Nat
    BY DataAssumption DEF TypeOK, Entry
  <2>2. Stripe(b) \in Stripes
    BY StripeType DEF TypeOK
  <2>3. reserved' \in Nat
    BY <1>4, <2>1, ReleaseType DEF Remove, TypeOK
  <2>4. used' \in [Stripes -> Int]
    BY <1>4, <2>1, <2>2 DEF Remove, TypeOK
  <2> QED
    BY <1>4, <2>3, <2>4 DEF Remove, TypeOK, Without
<1>5. ASSUME NEW b \in Ids, Free(b) PROVE TypeOK'
  BY <1>4, <1>5 DEF Free, TypeOK
<1>6. ASSUME NEW b \in Ids, Load(b) PROVE TypeOK'
  BY <1>6 DEF Load, TypeOK
<1>7. ASSUME NEW k \in Keys, FreeByKey(k) PROVE TypeOK'
  BY <1>4, <1>7 DEF FreeByKey, Holds, TypeOK
<1>8. ASSUME NEW k \in Keys, LoadByKey(k) PROVE TypeOK'
  BY <1>8 DEF LoadByKey, TypeOK
<1>9. CASE UNCHANGED vars
  BY <1>9 DEF vars, TypeOK
<1> QED
  BY <1>1, <1>2, <1>3, <1>5, <1>6, <1>7, <1>8, <1>9 DEF Next, StoreOutOfMemory, StoreOk

(* Every variable has its type in every reachable state of the store. *)
THEOREM TypeCorrect == Spec => []TypeOK
<1>1. Init => TypeOK
  BY IdAssumption DEF Init, TypeOK, Live, Ids
<1> QED
  BY <1>1, TypeStep, PTL DEF Spec

-----------------------------------------------------------------------------
(* The byte counters stay exact when the blocks V are evicted in vain. *)
LEMMA QuotaGiveUp ==
  ASSUME TypeOK, QuotaExact, NEW n, NEW V \in Victims(n), GiveUp(V, n)
  PROVE  QuotaExact'
<1> USE DEF Live
<1>1. V \in SUBSET Live /\ Sized(blocks, Live) /\ Bytes(blocks, V) \in Nat
  BY VictimsAreCached, LiveSized
<1>2. DOMAIN blocks' = Live \ V /\ \A b \in Live \ V : blocks'[b] = blocks[b]
  BY DEF GiveUp, Without
<1>3. Bytes(blocks', Live \ V) = Bytes(blocks, Live) - Bytes(blocks, V)
  BY <1>1, <1>2, BytesRemove
<1>4. Bytes(blocks, V) <= Bytes(blocks, Live)
  BY <1>1, BytesSubset
<1>5. reserved' = reserved - Bytes(blocks, V)
  BY <1>1, <1>4, ReleaseType DEF GiveUp, QuotaExact, TypeOK
<1>6. ASSUME NEW s \in Stripes
      PROVE  used'[s] = Bytes(blocks', InStripe(DOMAIN blocks', s))
  <2>1. InStripe(V, s) \in SUBSET InStripe(Live, s) /\ InStripe(Live, s) \in SUBSET Live
    BY <1>1 DEF InStripe
  <2>2. InStripe(DOMAIN blocks', s) = InStripe(Live, s) \ InStripe(V, s)
    BY <1>2 DEF InStripe
  <2>3. Sized(blocks, InStripe(Live, s))
    BY <2>1, LiveSized
  <2>4. \A b \in InStripe(Live, s) \ InStripe(V, s) : blocks'[b] = blocks[b]
    BY <1>2, <2>1 DEF InStripe
  <2>5. Bytes(blocks', InStripe(Live, s) \ InStripe(V, s))
          = Bytes(blocks, InStripe(Live, s)) - Bytes(blocks, InStripe(V, s))
    BY <2>1, <2>3, <2>4, BytesRemove
  <2>6. used'[s] = used[s] - Bytes(blocks, InStripe(V, s))
    BY DEF GiveUp
  <2> QED
    BY <2>2, <2>5, <2>6 DEF QuotaExact
<1>7. reserved' = Bytes(blocks', DOMAIN blocks')
  BY <1>2, <1>3, <1>5 DEF QuotaExact
<1>8. reserved' <= MaxMemory
  BY <1>1, <1>5, MemoryAssumption DEF QuotaExact, TypeOK
<1> QED
  BY <1>6, <1>7, <1>8 DEF QuotaExact

(* ... when a block is inserted after evicting V and replaces another ... *)
LEMMA QuotaInsert ==
  ASSUME TypeOK, QuotaExact, NEW d \in Data, NEW dur \in Durability,
         NEW k \in Keys \cup {None}, NEW V \in Victims(LenOf[d]), Insert(V, d, dur, k)
  PROVE  QuotaExact'
<1> DEFINE P == Previous(V, k)
           G == V \cup P
<1>1. /\ V \in SUBSET Live /\ P \in SUBSET Live /\ G \in SUBSET Live
      /\ V \cap P = {}
  BY VictimsAreCached DEF Previous
<1>2. /\ Sized(blocks, Live) /\ nextId \notin Live
      /\ Bytes(blocks, V) \in Nat /\ Bytes(blocks, P) \in Nat
      /\ LenOf[d] \in Nat
  BY <1>1, LiveSized, DataAssumption
<1>3. /\ DOMAIN blocks' = (Live \ G) \cup {nextId}
      /\ \A b \in Live \ G : blocks'[b] = blocks[b]
      /\ blocks'[nextId].data = d
  BY <1>2 DEF Insert
<1> HIDE DEF P
<1>4. Bytes(blocks, G) = Bytes(blocks, V) + Bytes(blocks, P)
  BY <1>1, <1>2, BytesDisjoint
<1>5. Bytes(blocks, G) <= Bytes(blocks, Live)
  BY <1>1, <1>2, BytesSubset
<1> HIDE DEF G
<1>6. LenOf[blocks'[nextId].data] \in Nat
  BY <1>2, <1>3
<1>7. Bytes(blocks', (Live \ G) \cup {nextId})
        = Bytes(blocks, Live) - Bytes(blocks, G) + LenOf[blocks'[nextId].data]
  BY <1>1, <1>2, <1>3, <1>6, BytesReplace
<1>8. /\ reserved' = reserved - Bytes(blocks, G) + LenOf[d]
      /\ reserved' <= MaxMemory
  <2>1. Release(reserved, Bytes(blocks, V)) = reserved - Bytes(blocks, V)
    BY <1>2, <1>4, <1>5, ReleaseType DEF QuotaExact, TypeOK
  <2>2. reserved - Bytes(blocks, V) + LenOf[d] <= MaxMemory
    BY <2>1 DEF Insert, Fits
  <2>3. reserved' = Release(reserved - Bytes(blocks, V) + LenOf[d], Bytes(blocks, P))
    BY <2>1 DEF Insert, P
  <2>4. reserved - Bytes(blocks, V) + LenOf[d] \in Nat
    BY <1>2, <1>4, <1>5 DEF QuotaExact, TypeOK
  <2>5. Bytes(blocks, P) <= reserved - Bytes(blocks, V) + LenOf[d]
    BY <1>2, <1>4, <1>5 DEF QuotaExact, TypeOK
  <2>6. reserved' = (reserved - Bytes(blocks, V) + LenOf[d]) - Bytes(blocks, P)
    <3> DEFINE t == reserved - Bytes(blocks, V) + LenOf[d]
    <3> HIDE DEF t
    <3>1. reserved' = Release(t, Bytes(blocks, P)) /\ t \in Nat /\ Bytes(blocks, P) <= t
      BY <2>3, <2>4, <2>5 DEF t
    <3>2. reserved' = t - Bytes(blocks, P)
      BY <1>2, <3>1, ReleaseType
    <3> QED
      BY <3>2, Zenon DEF t
  <2> QED
    BY <1>2, <1>4, <2>2, <2>6, MemoryAssumption DEF TypeOK
<1>9. ASSUME NEW s \in Stripes
      PROVE  used'[s] = Bytes(blocks', InStripe(DOMAIN blocks', s))
  <2> DEFINE B == InStripe(Live, s)
             H == InStripe(G, s)
  <2>1. /\ H \in SUBSET B /\ B \in SUBSET Live /\ nextId \notin B
        /\ InStripe(V, s) \in SUBSET B /\ InStripe(P, s) \in SUBSET B
        /\ InStripe(V, s) \cap InStripe(P, s) = {}
        /\ H = InStripe(V, s) \cup InStripe(P, s)
    BY <1>1, <1>2 DEF InStripe, G
  <2>2. \A b \in B \ H : blocks'[b] = blocks[b]
    BY <1>3, <2>1 DEF InStripe
  <2>3. Sized(blocks, B) /\ Bytes(blocks, B) \in Nat
    BY <2>1, LiveSized
  <2>4. used'[s] = used[s] - (Bytes(blocks, InStripe(V, s)) + Bytes(blocks, InStripe(P, s)))
                     + (IF s = Stripe(nextId) THEN LenOf[d] ELSE 0)
    BY DEF Insert, P
  <2>5. InStripe(DOMAIN blocks', s) = IF s = Stripe(nextId) THEN (B \ H) \cup {nextId} ELSE B \ H
    BY <1>3 DEF InStripe
  <2> HIDE DEF B, H
  <2>6. Bytes(blocks, H) = Bytes(blocks, InStripe(V, s)) + Bytes(blocks, InStripe(P, s))
    BY <2>1, <2>3, BytesDisjoint
  <2>7. used[s] = Bytes(blocks, B)
    BY DEF QuotaExact, B
  <2>8. Bytes(blocks, H) \in Nat
    BY <2>1, <2>3, BytesSplit, Zenon
  <2>9. CASE s = Stripe(nextId)
    <3>1. Bytes(blocks', (B \ H) \cup {nextId})
            = Bytes(blocks, B) - Bytes(blocks, H) + LenOf[blocks'[nextId].data]
      BY <1>6, <2>1, <2>2, <2>3, BytesReplace
    <3> QED
      BY <1>3, <2>4, <2>5, <2>6, <2>7, <2>9, <3>1, ZenonT(60)
  <2>10. CASE s # Stripe(nextId)
    <3>1. Bytes(blocks', B \ H) = Bytes(blocks, B) - Bytes(blocks, H)
      BY <2>1, <2>2, <2>3, BytesRemove
    <3>2. used'[s] = used[s] - Bytes(blocks, H) + 0
      BY <2>4, <2>6, <2>10
    <3>3. used'[s] = Bytes(blocks, B) - Bytes(blocks, H)
      BY <2>3, <2>7, <2>8, <3>2
    <3>4. InStripe(DOMAIN blocks', s) = B \ H
      BY <2>5, <2>10
    <3> QED
      BY <3>1, <3>3, <3>4, Zenon
  <2> QED
    BY <2>9, <2>10
<1>10. reserved' = Bytes(blocks', DOMAIN blocks')
  BY <1>3, <1>7, <1>8 DEF QuotaExact
<1> QED
  BY <1>8, <1>9, <1>10 DEF QuotaExact, Live

(* ... and when a block is freed. *)
LEMMA QuotaRemove ==
  ASSUME TypeOK, QuotaExact, NEW b \in Live, Remove(b)
  PROVE  QuotaExact'
<1> DEFINE n == LenOf[blocks[b].data]
<1>1. {b} \in SUBSET Live /\ Sized(blocks, Live) /\ n \in Nat
  BY LiveSized, DataAssumption DEF TypeOK, Entry
<1>2. DOMAIN blocks' = Live \ {b} /\ \A x \in Live \ {b} : blocks'[x] = blocks[x]
  BY DEF Remove, Without, Live
<1>3. Bytes(blocks, {b}) = n
  BY <1>1, BytesOne, Zenon
<1>4. Bytes(blocks', Live \ {b}) = Bytes(blocks, Live) - n
  BY <1>1, <1>2, <1>3, BytesRemove
<1>5. n <= Bytes(blocks, Live)
  BY <1>1, <1>3, BytesSubset
<1> HIDE DEF n
<1>6. reserved' = reserved - n
  BY <1>1, <1>5, ReleaseType DEF Remove, QuotaExact, TypeOK, n
<1>7. ASSUME NEW s \in Stripes
      PROVE  used'[s] = Bytes(blocks', InStripe(DOMAIN blocks', s))
  <2> DEFINE B == InStripe(Live, s)
  <2>1. B \in SUBSET Live
    BY DEF InStripe
  <2>2. Sized(blocks, B)
    BY <2>1, LiveSized
  <2>3. used[s] = Bytes(blocks, B)
    BY DEF QuotaExact
  <2>4. CASE s = Stripe(b)
    <3>1. {b} \in SUBSET B /\ InStripe(DOMAIN blocks', s) = B \ {b}
      BY <1>2, <2>4 DEF InStripe
    <3>2. \A x \in B \ {b} : blocks'[x] = blocks[x]
      BY <1>2, <2>1
    <3> HIDE DEF B
    <3>3. Bytes(blocks', B \ {b}) = Bytes(blocks, B) - n
      BY <1>3, <2>2, <3>1, <3>2, BytesRemove
    <3>4. used'[s] = used[s] - n
      BY <2>4 DEF Remove, TypeOK, n
    <3> QED
      BY <2>3, <3>1, <3>3, <3>4
  <2>5. CASE s # Stripe(b)
    <3>1. InStripe(DOMAIN blocks', s) = B /\ \A x \in B : blocks'[x] = blocks[x]
      BY <1>2, <2>5 DEF InStripe
    <3> HIDE DEF B
    <3>2. Bytes(blocks', B) = Bytes(blocks, B)
      BY <3>1, BytesSame
    <3>3. used'[s] = used[s]
      BY <2>5 DEF Remove, TypeOK
    <3> QED
      BY <2>3, <3>1, <3>2, <3>3
  <2> QED
    BY <2>4, <2>5
<1>8. reserved' = Bytes(blocks', DOMAIN blocks')
  BY <1>2, <1>4, <1>6 DEF QuotaExact
<1>9. reserved' <= MaxMemory
  BY <1>1, <1>6, MemoryAssumption DEF QuotaExact, TypeOK
<1> QED
  BY <1>7, <1>8, <1>9 DEF QuotaExact, Live

(* The byte counters stay exact under every call. *)
LEMMA QuotaStep == TypeOK /\ QuotaExact /\ [Next]_vars => QuotaExact'
<1> SUFFICES ASSUME TypeOK, QuotaExact, [Next]_vars PROVE QuotaExact'
  OBVIOUS
<1>1. ASSUME UNCHANGED <<blocks, used, index, reserved, nextId>>
      PROVE  QuotaExact'
  BY <1>1 DEF QuotaExact, Live
<1>2. ASSUME NEW d \in Data, NEW k \in Keys \cup {None}, StoreTooLarge(d, k)
      PROVE  QuotaExact'
  BY <1>1, <1>2 DEF StoreTooLarge
<1>3. ASSUME NEW d \in Data, NEW k \in Keys \cup {None}, StoreOutOfMemory(d, k)
      PROVE  QuotaExact'
  BY <1>3, QuotaGiveUp DEF StoreOutOfMemory
<1>4. ASSUME NEW d \in Data, NEW k \in Keys \cup {None}, NEW dur \in Durability,
             StoreOk(d, dur, k)
      PROVE  QuotaExact'
  BY <1>4, QuotaInsert DEF StoreOk
<1>5. ASSUME NEW b \in Ids, Free(b) PROVE QuotaExact'
  BY <1>1, <1>5, QuotaRemove DEF Free
<1>6. ASSUME NEW b \in Ids, Load(b) PROVE QuotaExact'
  BY <1>1, <1>6 DEF Load
<1>7. ASSUME NEW k \in Keys, FreeByKey(k) PROVE QuotaExact'
  BY <1>1, <1>7, QuotaRemove DEF FreeByKey, Holds
<1>8. ASSUME NEW k \in Keys, LoadByKey(k) PROVE QuotaExact'
  BY <1>1, <1>8 DEF LoadByKey
<1>9. CASE UNCHANGED vars
  BY <1>1, <1>9 DEF vars
<1> QED
  BY <1>2, <1>3, <1>4, <1>5, <1>6, <1>7, <1>8, <1>9 DEF Next

(* The byte counters are the sums of what is stored, and the quota holds,  *)
(* after any sequence of calls: neither a failed store, an overwrite nor   *)
(* an eviction leaks or double-counts a byte, and the clamp of _release    *)
(* never hides one.                                                        *)
THEOREM QuotaIsExact == Spec => []QuotaExact
<1>1. Init => QuotaExact
  <2> SUFFICES ASSUME Init PROVE QuotaExact
    OBVIOUS
  <2>1. Live = {} /\ \A s \in Stripes : InStripe(Live, s) = {}
    BY DEF Init, Live, InStripe
  <2>2. Bytes(blocks, {}) = 0
    BY BytesNone
  <2> QED
    BY <2>1, <2>2, MemoryAssumption DEF Init, QuotaExact
<1> QED
  BY <1>1, QuotaStep, TypeCorrect, PTL DEF Spec

-----------------------------------------------------------------------------
(* The key index stays exact under every call. *)
LEMMA KeyIndexStep == TypeOK /\ KeyIndexExact /\ [Next]_vars => KeyIndexExact'
<1> SUFFICES ASSUME TypeOK, KeyIndexExact, [Next]_vars PROVE KeyIndexExact'
  OBVIOUS
<1> USE DEF Live
<1>1. ASSUME UNCHANGED <<blocks, used, index, reserved, nextId>>
      PROVE  KeyIndexExact'
  BY <1>1 DEF KeyIndexExact
<1>2. ASSUME NEW n, NEW V \in Victims(n), GiveUp(V, n)
      PROVE  KeyIndexExact'
  <2>1. V \subseteq Live
    BY VictimsAreCached
  <2>2. /\ DOMAIN blocks' = Live \ V /\ \A b \in Live \ V : blocks'[b] = blocks[b]
        /\ DOMAIN index' = DOMAIN index \ KeysOf(V)
        /\ \A k \in DOMAIN index' : index'[k] = index[k]
    BY <1>2 DEF GiveUp, Without
  <2> QED
    BY <2>1, <2>2 DEF KeyIndexExact, KeysOf
<1>3. ASSUME NEW d \in Data, NEW k \in Keys \cup {None}, NEW dur \in Durability,
             NEW V \in Victims(LenOf[d]), Insert(V, d, dur, k)
      PROVE  KeyIndexExact'
  <2>1. V \subseteq Live /\ nextId \notin Live
    BY VictimsAreCached, LiveSized, Zenon
  <2>2. /\ DOMAIN blocks' = (Live \ (V \cup Previous(V, k))) \cup {nextId}
        /\ \A b \in DOMAIN blocks' \ {nextId} : blocks'[b] = blocks[b]
        /\ blocks'[nextId].key = k
        /\ DOMAIN index' = (DOMAIN index \ KeysOf(V)) \cup ({k} \ {None})
        /\ \A x \in DOMAIN index' : index'[x] = IF x = k THEN nextId ELSE index[x]
    BY <1>3 DEF Insert, Bound
  <2>3. None \notin DOMAIN index
    BY NoneAssumption DEF TypeOK
  <2>4. ASSUME NEW x \in DOMAIN index'
        PROVE  index'[x] \in DOMAIN blocks' /\ blocks'[index'[x]].key = x
    <3>1. CASE x = k
      BY <2>2, <3>1
    <3>2. CASE x # k
      <4>1. x \in DOMAIN index /\ x \notin KeysOf(V) /\ index'[x] = index[x]
        BY <2>2, <2>4, <3>2
      <4>2. index[x] \in Live /\ blocks[index[x]].key = x
        BY <4>1 DEF KeyIndexExact
      <4>3. index[x] \notin V
        BY <4>1, <4>2 DEF KeysOf
      <4>4. index[x] \notin Previous(V, k)
        BY <3>2, <4>2 DEF Previous, KeyIndexExact
      <4> QED
        BY <2>1, <2>2, <4>1, <4>2, <4>3, <4>4, Zenon
    <3> QED
      BY <3>1, <3>2
  <2>5. ASSUME NEW b \in DOMAIN blocks', blocks'[b].key # None
        PROVE  blocks'[b].key \in DOMAIN index' /\ index'[blocks'[b].key] = b
    <3>1. CASE b = nextId
      BY <2>2, <2>5, <3>1
    <3>2. CASE b # nextId
      <4>1. b \in Live \ V /\ b \notin Previous(V, k) /\ blocks'[b] = blocks[b]
        BY <2>2, <2>5, <3>2
      <4>2. blocks[b].key \in DOMAIN index /\ index[blocks[b].key] = b
        BY <2>5, <4>1 DEF KeyIndexExact
      <4>3. blocks[b].key \notin KeysOf(V)
        BY <4>1, <4>2 DEF KeysOf
      <4>4. blocks[b].key # k
        BY <4>1, <4>2, <4>3, Zenon DEF Previous
      <4> QED
        BY <2>2, <4>1, <4>2, <4>3, <4>4
    <3> QED
      BY <3>1, <3>2
  <2> QED
    BY <2>4, <2>5 DEF KeyIndexExact
<1>4. ASSUME NEW b \in Live, Remove(b)
      PROVE  KeyIndexExact'
  BY <1>4 DEF Remove, Without, KeyIndexExact
<1>5. ASSUME NEW b \in Ids, Free(b) PROVE KeyIndexExact'
  BY <1>1, <1>4, <1>5 DEF Free
<1>6. ASSUME NEW k \in Keys, FreeByKey(k) PROVE KeyIndexExact'
  BY <1>1, <1>4, <1>6 DEF FreeByKey, Holds
<1>7. ASSUME NEW d \in Data, NEW k \in Keys \cup {None}, StoreTooLarge(d, k)
      PROVE  KeyIndexExact'
  BY <1>1, <1>7 DEF StoreTooLarge
<1>8. ASSUME NEW b \in Ids, Load(b) PROVE KeyIndexExact'
  BY <1>1, <1>8, Zenon DEF Load
<1>9. ASSUME NEW k \in Keys, LoadByKey(k) PROVE KeyIndexExact'
  BY <1>1, <1>9 DEF LoadByKey
<1>10. CASE UNCHANGED vars
  BY <1>1, <1>10 DEF vars
<1> QED
  BY <1>2, <1>3, <1>5, <1>6, <1>7, <1>8, <1>9, <1>10, ZenonT(60)
     DEF Next, StoreOutOfMemory, StoreOk

(* After any sequence of calls a key leads to the one live block stored    *)
(* under it, and every block stored under a key is reachable by the key.   *)
THEOREM KeyIndexIsExact == Spec => []KeyIndexExact
<1>1. Init => KeyIndexExact
  BY DEF Init, KeyIndexExact, Live
<1> QED
  BY <1>1, KeyIndexStep, TypeCorrect, PTL DEF Spec

(* No step removes a pinned block behind its owner's back. *)
THEOREM PinnedBlocksStay == Spec => PinnedStays
<1> DEFINE Asked(b) ==
      /\ call'.out = "ok"
      /\ \/ call'.op = "free" /\ (call'.id = b \/ call'.key = blocks[b].key)
         \/ call'.op = "store" /\ call'.key # None /\ call'.key = blocks[b].key
<1>1. ASSUME TypeOK, KeyIndexExact, [Next]_vars, NEW b \in PinnedBlocks,
             b \notin DOMAIN blocks'
      PROVE  Asked(b)
  <2>1. b \in Live /\ b \notin CacheBlocks
    BY DEF PinnedBlocks, CacheBlocks
  <2>2. ASSUME UNCHANGED blocks PROVE FALSE
    BY <1>1, <2>1, <2>2 DEF Live
  <2>3. ASSUME NEW n, NEW V \in Victims(n), GiveUp(V, n) PROVE FALSE
    BY <1>1, <2>1, <2>3, VictimsAreCached, ZenonT(60) DEF GiveUp, Without, Live
  <2>4. ASSUME NEW d \in Data, NEW k \in Keys \cup {None}, NEW dur \in Durability,
               StoreOk(d, dur, k)
        PROVE  Asked(b)
    <3>1. PICK V \in Victims(LenOf[d]) : Insert(V, d, dur, k)
      BY <2>4, ZenonT(60) DEF StoreOk
    <3>2. b \in Previous(V, k)
      BY <1>1, <2>1, <3>1, VictimsAreCached, Zenon DEF Insert, Live
    <3>3. k \in Keys /\ blocks[b].key = k
      BY <1>1, <3>2 DEF Previous, KeyIndexExact, TypeOK
    <3> QED
      BY <2>4, <3>3, NoneAssumption DEF StoreOk, Called
  <2>5. ASSUME NEW x \in Ids, Free(x) PROVE Asked(b)
    BY <1>1, <2>1, <2>2, <2>5 DEF Free, Remove, Without, Live, Called
  <2>6. ASSUME NEW k \in Keys, FreeByKey(k) PROVE Asked(b)
    BY <1>1, <2>1, <2>2, <2>6 DEF FreeByKey, Remove, Without, Live, Called
  <2> QED
    BY <1>1, <2>2, <2>3, <2>4, <2>5, <2>6
       DEF Next, StoreTooLarge, StoreOutOfMemory, Load, LoadByKey, vars
<1> DEFINE Kept == \A b \in PinnedBlocks : b \notin DOMAIN blocks' => Asked(b)
<1>2. TypeOK /\ KeyIndexExact /\ [Next]_vars => Kept
  BY <1>1
<1> HIDE DEF Kept, Asked
<1>3. Spec => [][Kept]_vars
  BY <1>2, TypeCorrect, KeyIndexIsExact, PTL DEF Spec
<1> QED
  BY <1>3, ZenonT(60) DEF PinnedStays, Kept, Asked

-----------------------------------------------------------------------------
(* A set of numbers up to a bound has a greatest one. *)
LEMMA Greatest ==
  ASSUME NEW m \in Nat, NEW K \in SUBSET (1 .. m), K # {}
  PROVE  \E i \in K : \A j \in K : j <= i
<1> DEFINE D == {n \in Nat : m - n \in K}
<1>1. D # {}
  <2>1. PICK k \in K : TRUE
    BY Zenon
  <2>2. m - k \in D
    BY <2>1
  <2> QED
    BY <2>2, Zenon
<1>2. PICK n \in D : \A x \in D : n <= x
  <2> HIDE DEF D
  <2>1. D \in SUBSET Nat
    BY DEF D
  <2>2. PICK n \in D : \A x \in D : ~ (<<x, n>> \in OpToRel(<, Nat))
    BY <1>1, <2>1, WFMin, NatLessThanWellFounded
  <2>3. \A x \in D : ~ (x < n)
    BY <2>1, <2>2, Zenon DEF OpToRel
  <2> QED
    BY <2>1, <2>3
<1>4. m - n \in K
  OBVIOUS
<1>5. ASSUME NEW j \in K PROVE j <= m - n
  <2>1. m - j \in D
    OBVIOUS
  <2> QED
    BY <1>2, <2>1
<1> QED
  BY <1>4, <1>5

(* Taking fewer bytes away leaves no more room. *)
LEMMA FitsLess ==
  ASSUME NEW t \in Int, NEW x \in Nat, NEW y \in Nat, x <= y, NEW n \in Nat,
         ~ Fits(t - y, n)
  PROVE  ~ Fits(t - x, n)
BY MemoryAssumption DEF Fits

(* Nor does not taking the same bytes away twice. *)
LEMMA FitsTwice ==
  ASSUME NEW t \in Nat, NEW x \in Nat, NEW y \in Nat, NEW n \in Nat,
         ~ Fits(t - x - (x + y), n)
  PROVE  ~ Fits(t - (x + y), n)
BY MemoryAssumption DEF Fits

(* The block that _evict_to_free pops last, in the last stripe it takes    *)
(* something from: without it the new block would not have fitted.         *)
LEMMA LastVictim ==
  ASSUME TypeOK, QuotaExact, NEW n \in Nat, NEW V \in Victims(n), V # {}
  PROVE  \E v \in V : ~ Fits(reserved - Bytes(blocks, V \ {v}), n)
<1>1. /\ ~ Fits(reserved, n)
      /\ V \in SUBSET CacheBlocks
      /\ \E order \in Bijection(1 .. StripeCount, Stripes) : Evicts(V, order, n)
  BY DEF Victims
<1>2. PICK order \in Bijection(1 .. StripeCount, Stripes) : Evicts(V, order, n)
  BY <1>1
<1>3. /\ V \in SUBSET Live /\ V \in SUBSET Nat
      /\ \A B \in SUBSET Live : Sized(blocks, B) /\ Bytes(blocks, B) \in Nat
  BY <1>1, LiveSized DEF CacheBlocks, TypeOK
<1>4. /\ \A i, j \in 1 .. StripeCount : order[i] = order[j] => i = j
      /\ \A s \in Stripes : \E i \in 1 .. StripeCount : order[i] = s
  BY DEF Bijection, Injection, IsInjective, Surjection
<1> DEFINE K == {i \in 1 .. StripeCount : InStripe(V, order[i]) # {}}
<1>5. \A b \in V : \E i \in K : Stripe(b) = order[i]
  <2> TAKE b \in V
  <2>1. PICK i \in 1 .. StripeCount : order[i] = Stripe(b)
    BY <1>3, <1>4, StripeType
  <2> QED
    BY <2>1 DEF InStripe
<1>6. PICK i \in K : \A j \in K : j <= i
  <2>1. K # {} /\ K \in SUBSET (1 .. StripeCount) /\ StripeCount \in Nat
    BY <1>5, StripeAssumption, Zenon
  <2> QED
    BY <2>1, Greatest, ZenonT(60)
<1> PICK E : E = {b \in V : \E j \in 1 .. i - 1 : Stripe(b) = order[j]}
  BY Zenon
<1> PICK M : M = InStripe(V, order[i])
  OBVIOUS
<1>7. V = E \cup M /\ M # {} /\ E \cap M = {}
  <2>1. i \in 1 .. StripeCount /\ i \in Nat /\ M # {} /\ \A j \in 1 .. i - 1 : j \in 1 .. StripeCount /\ j < i
    BY <1>6, StripeAssumption
  <2>2. \A b \in V : b \in E \cup M
    <3> TAKE b \in V
    <3>1. PICK j \in K : Stripe(b) = order[j]
      BY <1>5
    <3>2. j \in 1 .. i - 1 \/ j = i
      BY <1>6, <3>1, StripeAssumption
    <3> QED
      BY <3>1, <3>2 DEF InStripe
  <2>3. \A b \in E : b \notin M
    BY <1>4, <2>1 DEF InStripe
  <2> QED
    BY <2>1, <2>2, <2>3 DEF InStripe
<1> PICK e : e = Bytes(blocks, E)
  BY Zenon
<1>8. e \in Nat /\ reserved \in Nat /\ Release(reserved, e) = reserved - e
  <2>1. E \in SUBSET Live
    BY <1>3, <1>7
  <2>2. e \in Nat /\ reserved \in Nat /\ e <= reserved
    BY <1>3, <2>1, BytesSubset, LiveSized DEF QuotaExact, TypeOK
  <2> QED
    BY <2>2, ReleaseType
<1>9. /\ ~ (i > 1 /\ Fits(reserved - e, n))
      /\ \E v \in M : M = {v} \/ ~ Fits(reserved - e - (e + Bytes(blocks, M \ {v})), n)
  <2>1. i \in 1 .. StripeCount
    BY <1>6
  <2> DEFINE F(x, t) ==
        IF i > 1 /\ Fits(t, n) THEN M = {}
        ELSE \/ M = {}
             \/ \E v \in M : M = {v} \/ ~ Fits(t - (x + Bytes(blocks, M \ {v})), n)
  <2>2. F(Bytes(blocks, {b \in V : \E j \in 1 .. i - 1 : Stripe(b) = order[j]}),
          Release(reserved, Bytes(blocks, {b \in V : \E j \in 1 .. i - 1 : Stripe(b) = order[j]})))
    BY <1>2, <2>1, Zenon DEF Evicts, PopsFrom
  <2> HIDE DEF F
  <2>3. F(e, reserved - e)
    BY <1>8, <2>2
  <2> QED
    BY <1>7, <2>3, Zenon DEF F
<1>10. PICK v \in M : M = {v} \/ ~ Fits(reserved - e - (e + Bytes(blocks, M \ {v})), n)
  BY <1>9, Zenon
<1> PICK m : m = Bytes(blocks, M \ {v})
  OBVIOUS
<1>11. Bytes(blocks, V \ {v}) = e + m /\ m \in Nat
  <2>1. /\ V \ {v} = E \cup (M \ {v}) /\ E \cap (M \ {v}) = {}
        /\ E \in SUBSET Live /\ M \ {v} \in SUBSET Live
    BY <1>3, <1>7, ZenonT(60)
  <2>2. m \in Nat
    BY <1>3, <2>1
  <2>3. Bytes(blocks, E \cup (M \ {v})) = Bytes(blocks, E) + Bytes(blocks, M \ {v})
    BY <2>1, BytesDisjoint, LiveSized
  <2> QED
    BY <2>1, <2>2, <2>3, Zenon
<1>12. ~ Fits(reserved - (e + m), n)
  <2>1. CASE M = {v}
    <3>1. m = 0
      BY <2>1, BytesNone, Zenon
    <3>2. CASE i > 1
      BY <1>8, <1>9, <3>1, <3>2
    <3>3. CASE ~ (i > 1)
      <4>1. E = {}
        BY <1>6, <3>3, StripeAssumption
      <4>2. e = 0
        BY <4>1, BytesNone, Zenon
      <4> QED
        BY <1>1, <1>8, <3>1, <4>2
    <3> QED
      BY <3>2, <3>3
  <2>2. CASE ~ Fits(reserved - e - (e + m), n)
    BY <1>8, <1>11, <2>2, FitsTwice, Zenon
  <2> QED
    BY <1>10, <2>1, <2>2
<1> QED
  BY <1>7, <1>11, <1>12, Zenon

(* A store takes no more cached blocks than it has to; a victim that held  *)
(* the stored key counts as rebound, not as evicted.                       *)
THEOREM EvictionStopsInTime == Spec => EvictsNoMoreThanNeeded
<1> DEFINE Needed(E, n) == E = {} \/ \E v \in E : ~ Fits(reserved - Bytes(blocks, E \ {v}), n)
<1>1. ASSUME TypeOK, QuotaExact, NEW n \in Nat, NEW V \in Victims(n), NEW E \in SUBSET V
      PROVE  Needed(E, n)
  <2> SUFFICES ASSUME E # {} PROVE \E v \in E : ~ Fits(reserved - Bytes(blocks, E \ {v}), n)
    OBVIOUS
  <2>1. PICK u \in V : ~ Fits(reserved - Bytes(blocks, V \ {u}), n)
    BY <1>1, LastVictim
  <2>2. PICK v \in E : u \in E => v = u
    OBVIOUS
  <2>3. /\ E \ {v} \in SUBSET (V \ {u}) /\ V \ {u} \in SUBSET Live
        /\ E \ {v} \in SUBSET Live
    BY <1>1, <2>2, VictimsAreCached
  <2>4. PICK x, y : x = Bytes(blocks, E \ {v}) /\ y = Bytes(blocks, V \ {u})
    OBVIOUS
  <2>5. x \in Nat /\ y \in Nat /\ x <= y /\ reserved \in Int
    BY <1>1, <2>3, <2>4, LiveSized, BytesSubset DEF TypeOK
  <2>6. ~ Fits(reserved - x, n)
    BY <2>1, <2>4, <2>5, FitsLess, Zenon
  <2> QED
    BY <2>4, <2>6
<1>2. ASSUME TypeOK, QuotaExact, KeyIndexExact, [Next]_vars
      PROVE  Needed(Evicted, LenOf[call'.data])
  <2>1. ASSUME UNCHANGED blocks PROVE Evicted = {}
    BY <2>1 DEF Evicted, Live
  <2>2. ASSUME NEW d \in Data, NEW k \in Keys \cup {None}, StoreOutOfMemory(d, k)
        PROVE  Needed(Evicted, LenOf[call'.data])
    <3>1. PICK V \in Victims(LenOf[d]) : GiveUp(V, LenOf[d])
      BY <2>2 DEF StoreOutOfMemory
    <3>2. call'.data = d /\ LenOf[d] \in Nat
      BY <2>2, DataAssumption, Zenon DEF StoreOutOfMemory, Called
    <3>3. Evicted \in SUBSET V
      BY <3>1 DEF Evicted, GiveUp, Without, Live
    <3> QED
      BY <1>1, <1>2, <3>2, <3>3, Zenon
  <2>3. ASSUME NEW d \in Data, NEW k \in Keys \cup {None}, NEW dur \in Durability,
               StoreOk(d, dur, k)
        PROVE  Needed(Evicted, LenOf[call'.data])
    <3>1. PICK V \in Victims(LenOf[d]) : Insert(V, d, dur, k)
      BY <2>3 DEF StoreOk
    <3>2. /\ call'.data = d /\ call'.key = k /\ call'.out = "ok" /\ call'.op = "store"
          /\ LenOf[d] \in Nat
      BY <2>3, DataAssumption DEF StoreOk, Called
    <3>3. \A b \in Previous(V, k) : k # None /\ blocks[b].key = k
      BY <2>3, <1>2, NoneAssumption, ZenonT(60) DEF Previous, KeyIndexExact, TypeOK
    <3>4. Evicted \in SUBSET V
      BY <3>1, <3>2, <3>3 DEF Evicted, Insert
    <3> QED
      BY <1>1, <1>2, <3>2, <3>4, Zenon
  <2>4. ASSUME call'.op # "store" PROVE Evicted = {}
    BY <2>4 DEF Evicted
  <2>5. ASSUME NEW b \in Ids, Free(b) PROVE call'.op # "store"
    BY <2>5 DEF Free, Called
  <2>6. ASSUME NEW k \in Keys, FreeByKey(k) PROVE call'.op # "store"
    BY <2>6 DEF FreeByKey, Called
  <2> QED
    BY <1>2, <2>1, <2>2, <2>3, <2>4, <2>5, <2>6, Zenon
       DEF Next, StoreTooLarge, Load, LoadByKey, vars
<1> DEFINE Kept == Needed(Evicted, LenOf[call'.data])
<1>3. TypeOK /\ QuotaExact /\ KeyIndexExact /\ [Next]_vars => Kept
  BY <1>2
<1> HIDE DEF Kept, Needed
<1>4. Spec => [][Kept]_vars
  BY <1>3, TypeCorrect, QuotaIsExact, KeyIndexIsExact, PTL DEF Spec
<1> QED
  BY <1>4 DEF EvictsNoMoreThanNeeded, Kept, Needed

-----------------------------------------------------------------------------
(* The index and the byte counters compute what the abstract store reads   *)
(* off its live blocks.                                                    *)
LEMMA NamedIsIndexed ==
  ASSUME TypeOK, KeyIndexExact, NEW k \in Keys
  PROVE  Abstract!Named(k) = IF Holds(k) THEN {index[k]} ELSE {}
<1>1. k # None
  BY NoneAssumption
<1>2. ASSUME NEW b \in Live, blocks[b].key = k
      PROVE  Holds(k) /\ index[k] = b
  BY <1>1, <1>2, Zenon DEF KeyIndexExact, Holds
<1>3. ASSUME Holds(k) PROVE blocks[index[k]].key = k
  BY <1>3, Zenon DEF KeyIndexExact, Holds
<1> QED
  BY <1>1, <1>2, <1>3 DEF Abstract!Named, Abstract!Blocks, Live, Holds

(* What is left after evicting V is what the running total says. *)
LEMMA SizeIsReserved ==
  ASSUME TypeOK, QuotaExact, NEW V \in SUBSET Live
  PROVE  Abstract!Size(Live \ V) = Release(reserved, Bytes(blocks, V))
<1>1. Abstract!Size(Live \ V) = Bytes(blocks, Live \ V)
  BY Zenon DEF Abstract!Size, Bytes, Cells, Cardinality, Abstract!Cardinality
<1>2. Sized(blocks, Live)
  BY LiveSized
<1>3. /\ Bytes(blocks, Live \ V) \in Nat /\ Bytes(blocks, V) \in Nat
      /\ Bytes(blocks, Live) = Bytes(blocks, V) + Bytes(blocks, Live \ V)
  BY <1>2, BytesSplit
<1>4. Bytes(blocks, V) <= reserved /\ reserved - Bytes(blocks, V) = Bytes(blocks, Live \ V)
  BY <1>3 DEF QuotaExact
<1> QED
  BY <1>1, <1>3, <1>4, ReleaseType DEF TypeOK

(* Each call is a step of the abstract store. *)
LEMMA RefinementStep ==
  TypeOK /\ QuotaExact /\ KeyIndexExact /\ [Next]_vars => [Abstract!Next]_(Abstract!vars)
<1> SUFFICES ASSUME TypeOK, QuotaExact, KeyIndexExact, [Next]_vars
             PROVE  [Abstract!Next]_(Abstract!vars)
  BY Zenon
<1> USE DEF Called, Abstract!Returns
<1>1. ASSUME NEW d \in Data, NEW k \in Keys \cup {None}, StoreTooLarge(d, k)
      PROVE  Abstract!Next
  BY <1>1 DEF StoreTooLarge, Abstract!Refuse, Abstract!Next
<1>2. ASSUME NEW d \in Data, NEW k \in Keys \cup {None}, StoreOutOfMemory(d, k)
      PROVE  Abstract!Next
  <2>1. PICK V \in Victims(LenOf[d]) : GiveUp(V, LenOf[d])
    BY <1>2 DEF StoreOutOfMemory
  <2>2. V \in SUBSET Abstract!Cache /\ V \in SUBSET Live
    BY VictimsAreCached DEF Abstract!Cache, Abstract!Blocks, CacheBlocks, Live
  <2>3. ~ (Abstract!Size(Live \ V) + LenOf[d] <= MaxMemory)
    BY <2>1, <2>2, SizeIsReserved DEF GiveUp, Fits
  <2>4. Abstract!Size(Live \ V) \in Nat /\ LenOf[d] \in Nat
    BY <2>2, SizeIsReserved, ReleaseType, LiveSized, DataAssumption, ZenonT(60) DEF TypeOK
  <2>5. Abstract!Size(Live \ V) + LenOf[d] > MaxMemory
    BY <2>3, <2>4, MemoryAssumption
  <2>6. blocks' = Abstract!Only(Live \ V) /\ nextId' = nextId
    BY <2>1 DEF GiveUp, Without, Abstract!Only, Live
  <2>7. Abstract!Refuse(d, k)
    BY <1>2, <2>2, <2>5, <2>6, Zenon DEF StoreOutOfMemory, Abstract!Refuse, Abstract!Blocks, Live
  <2> QED
    BY <2>7 DEF Abstract!Next
<1>3. ASSUME NEW d \in Data, NEW k \in Keys \cup {None}, NEW dur \in Durability,
             StoreOk(d, dur, k)
      PROVE  Abstract!Next
  <2>1. PICK V \in Victims(LenOf[d]) : Insert(V, d, dur, k)
    BY <1>3 DEF StoreOk
  <2>2. V \in SUBSET Abstract!Cache /\ V \in SUBSET Live
    BY VictimsAreCached, Zenon DEF Abstract!Cache, Abstract!Blocks, CacheBlocks, Live
  <2>3. Abstract!Size(Live \ V) + LenOf[d] <= MaxMemory
    BY <2>1, <2>2, SizeIsReserved, Zenon DEF Insert, Fits
  <2>4. V \cup Previous(V, k) = V \cup Abstract!Named(k)
    <3>1. CASE k = None
      BY <3>1, NoneAssumption DEF Previous, Abstract!Named, TypeOK
    <3>2. CASE k \in Keys
      <4>1. Abstract!Named(k) = IF Holds(k) THEN {index[k]} ELSE {}
        BY <3>2, NamedIsIndexed, Zenon
      <4>2. k \in KeysOf(V) => Holds(k) /\ index[k] \in V
        BY <2>2 DEF KeysOf, Holds
      <4>3. k \in DOMAIN index /\ k \notin KeysOf(V) => index[k] \in Live \ V
        BY Zenon DEF KeysOf, KeyIndexExact
      <4> QED
        BY <4>1, <4>2, <4>3 DEF Previous, Holds
    <3> QED
      BY <3>1, <3>2
  <2>5. blocks' = [b \in (Live \ (V \cup Abstract!Named(k))) \cup {nextId} |->
                     IF b = nextId THEN [data |-> d, durability |-> dur, key |-> k]
                     ELSE blocks[b]]
    BY <2>1, <2>4, Zenon DEF Insert
  <2>6. Abstract!Put(d, dur, k)
    BY <1>3, <2>1, <2>2, <2>3, <2>5, ZenonT(60) DEF StoreOk, Insert, Abstract!Put, Abstract!Blocks, Live
  <2> QED
    BY <2>6, Zenon DEF Abstract!Next, Durability
<1>4. ASSUME NEW b \in Ids, Free(b) PROVE Abstract!Next
  <2>1. CASE b \in Live
    <3>1. {b} \cap Live = {b} /\ (CHOOSE x \in {b} : TRUE) = b
      BY <2>1
    <3> QED
      BY <1>4, <2>1, <3>1, Zenon DEF Free, Remove, Without, Abstract!Free, Abstract!Only,
         Abstract!Blocks, Abstract!Next, Ids, Live
  <2>2. CASE b \notin Live
    <3>1. {b} \cap Live = {} /\ blocks = Abstract!Only(Live \ {})
      BY <2>2 DEF Abstract!Only, Live, TypeOK
    <3> QED
      BY <1>4, <2>2, <3>1, Zenon DEF Free, Abstract!Free, Abstract!Blocks, Abstract!Next, Ids, Live
  <2> QED
    BY <2>1, <2>2, Zenon
<1>5. ASSUME NEW k \in Keys, FreeByKey(k) PROVE Abstract!Next
  <2>1. CASE Holds(k)
    <3>1. Abstract!Named(k) = {index[k]} /\ (CHOOSE x \in {index[k]} : TRUE) = index[k]
      BY <2>1, NamedIsIndexed, Zenon
    <3>2. Abstract!Free(0, k, {index[k]})
      BY <1>5, <2>1, <3>1, Zenon DEF FreeByKey, Remove, Without, Abstract!Free, Abstract!Only,
         Abstract!Blocks, Live
    <3> QED
      BY <3>1, <3>2 DEF Abstract!Next
  <2>2. CASE ~ Holds(k)
    <3>1. Abstract!Named(k) = {} /\ blocks = Abstract!Only(Live \ {})
      BY <2>2, NamedIsIndexed DEF Abstract!Only, Live, TypeOK
    <3> QED
      BY <1>5, <2>2, <3>1, Zenon DEF FreeByKey, Abstract!Free, Abstract!Blocks, Abstract!Next, Live
  <2> QED
    BY <2>1, <2>2, Zenon
<1>6. ASSUME NEW b \in Ids, Load(b) PROVE Abstract!Next
  <2>1. Abstract!Get(b, None, {b} \cap Abstract!Blocks)
    BY <1>6 DEF Load, Abstract!Get, Abstract!Blocks, Live
  <2> QED
    BY <2>1, ZenonT(60) DEF Abstract!Next, Ids
<1>7. ASSUME NEW k \in Keys, LoadByKey(k) PROVE Abstract!Next
  <2>1. Abstract!Get(0, k, Abstract!Named(k))
    BY <1>7, NamedIsIndexed, Zenon DEF LoadByKey, Abstract!Get
  <2> QED
    BY <2>1, Zenon DEF Abstract!Next
<1>8. CASE UNCHANGED vars
  BY <1>8 DEF vars, Abstract!vars
<1> QED
  BY <1>1, <1>2, <1>3, <1>4, <1>5, <1>6, <1>7, <1>8, Zenon DEF Next

(* BlockManager implements BlockStore: its callers cannot tell the striped *)
(* store with its counters and its index from a set of live blocks.        *)
THEOREM BlockManagerImplements == Spec => ImplementsBlockStore
<1>1. Init => Abstract!Init
  BY DEF Init, Abstract!Init, Called, Abstract!Returns
<1> QED
  BY <1>1, RefinementStep, TypeCorrect, QuotaIsExact, KeyIndexIsExact, PTL
     DEF Spec, Abstract!Spec, ImplementsBlockStore

=============================================================================
