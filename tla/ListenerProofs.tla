---------------------------- MODULE ListenerProofs ---------------------------
(***************************************************************************)
(* Theorems about HandshakeGuard as the listener uses it, for every number *)
(* of addresses and connections, every limit and every window; and that    *)
(* the listener's steps are PeerManager's, so that what is proved there    *)
(* holds of it.                                                            *)
(***************************************************************************)
EXTENDS Listener, PeerManagerProofs, FiniteSetTheorems, WellFoundedInduction

Entry == [attempts : Seq(0 .. now), inflight : 0 .. MaxInflightIp, seen : 0 .. now]

(* The table, with what makes its bound inductive: it is finite. *)
TableInv ==
  /\ now \in 0 .. MaxTime
  /\ DOMAIN ips \subseteq IPs /\ IsFiniteSet(DOMAIN ips)
  /\ ips = [ip \in DOMAIN ips |-> ips[ip]]
  /\ \A ip \in DOMAIN ips : ips[ip] \in Entry
  /\ total \in 0 .. MaxInflight
  /\ holder \in [Inbound -> IPs \cup {NoIp}]
  /\ TableBounded

(* The attempts an entry remembers are the last of those admitted, and the *)
(* ones it has dropped are out of the window; an address that has no entry *)
(* remembers none.                                                         *)
Past(t, ip) == IF ip \in DOMAIN t THEN t[ip].attempts ELSE <<>>
Suffix(a, q) ==
  /\ Len(a) <= Len(q)
  /\ \A i \in 1 .. Len(a) : a[i] = q[Len(q) - Len(a) + i]
  /\ \A i \in 1 .. Len(q) - Len(a) : q[i] < now - Window
WindowInv ==
  /\ DOMAIN admitted = IPs
  /\ \A ip \in IPs :
       /\ admitted[ip] \in Seq(0 .. now) /\ Len(admitted[ip]) <= MaxPerWindow
       /\ Suffix(Past(ips, ip), admitted[ip])

HoldsInHandshake ==
  DOMAIN pc = Conns /\ \A c \in Accepted : holder[c] # NoIp <=> pc[c] = "handshake"

GuardInv == TableInv /\ InflightExact /\ WindowInv
ListenerInv == GuardInv /\ HoldsInHandshake /\ scene \in Scenarios

-----------------------------------------------------------------------------
(* Operators of the model. *)

(* Every nonempty set of naturals has a least element. *)
LEMMA Least ==
  ASSUME NEW T \in SUBSET Nat, T # {}
  PROVE  \E x \in T : \A y \in T : x <= y
<1>1. PICK x \in T : \A y \in T : ~ (<<y, x>> \in OpToRel(<, Nat))
  BY NatLessThanWellFounded, WFMin
<1>2. \A y \in T : ~ (y < x)
  BY <1>1, Zenon DEF OpToRel
<1> QED
  BY <1>2

(* Counts of handshakes, and times before the window. *)
LEMMA Counts ==
  /\ \A n \in 0 .. MaxInflightIp, more \in {0, 1} : n < MaxInflightIp => n + more \in 0 .. MaxInflightIp
  /\ \A x \in Int, n \in Nat : x < n - Window => x < (n + 1) - Window
  /\ \A n \in Nat : \A x \in 0 .. n : x < n - Window => n - x > Window
BY GuardAssumption

(* The loop over popleft() ends, and has dropped nothing but expired       *)
(* attempts.                                                               *)
LEMMA ExpiredCount ==
  ASSUME NEW a \in Seq(Nat), now \in Nat, Window \in Nat
  PROVE  /\ Expired(a) \in 0 .. Len(a)
         /\ \A i \in 1 .. Expired(a) : a[i] < now - Window
<1> DEFINE P(n) == /\ \A i \in 1 .. n : a[i] < now - Window
                   /\ n < Len(a) => a[n + 1] >= now - Window
           K == {i \in 1 .. Len(a) : a[i] >= now - Window}
<1>1. Len(a) \in Nat /\ \A i \in 1 .. Len(a) : a[i] \in Nat
  OBVIOUS
<1>2. \E n \in 0 .. Len(a) : P(n)
  <2>1. CASE K = {}
    <3>1. Len(a) \in 0 .. Len(a) /\ P(Len(a))
      BY <1>1, <2>1
    <3> QED
      BY <3>1
  <2>2. CASE K # {}
    <3>1. PICK m \in K : \A y \in K : m <= y
      <4>1. K \in SUBSET Nat
        OBVIOUS
      <4> HIDE DEF K
      <4> QED
        BY <2>2, <4>1, Least, Zenon
    <3>2. m - 1 \in 0 .. Len(a) /\ (m - 1) + 1 = m /\ a[m] >= now - Window
      BY <1>1, <3>1
    <3>3. \A i \in 1 .. m - 1 : a[i] < now - Window
      BY <1>1, <3>1
    <3>4. P(m - 1)
      BY <3>2, <3>3
    <3> QED
      BY <3>2, <3>4, Zenon
  <2> QED
    BY <2>1, <2>2
<1>3. Expired(a) = CHOOSE n \in 0 .. Len(a) : P(n)
  BY DEF Expired
<1> HIDE DEF P
<1>4. Expired(a) \in 0 .. Len(a) /\ P(Expired(a))
  BY <1>2, <1>3
<1> QED
  BY <1>4 DEF P

(* Dropping expired attempts keeps the last ones admitted. *)
LEMMA RecentIsSuffix ==
  ASSUME NEW S \in SUBSET Nat, NEW a \in Seq(S), NEW q \in Seq(S), Suffix(a, q),
         now \in Nat, Window \in Nat
  PROVE  Recent(a) \in Seq(S) /\ Suffix(Recent(a), q)
<1> DEFINE n == Expired(a)
           r == Recent(a)
<1>1. n \in 0 .. Len(a) /\ \A i \in 1 .. n : a[i] < now - Window
  <2>1. a \in Seq(Nat)
    <3>1. Len(a) \in Nat /\ a = [i \in 1 .. Len(a) |-> a[i]] /\ \A i \in 1 .. Len(a) : a[i] \in Nat
      OBVIOUS
    <3> QED
      BY <3>1
  <2> QED
    BY <2>1, ExpiredCount
<1>2. Len(a) \in Nat /\ Len(q) \in Nat /\ Len(a) <= Len(q)
  BY DEF Suffix
<1>3. r = SubSeq(a, n + 1, Len(a))
  BY DEF Recent
<1> HIDE DEF n, r
<1>4. /\ r \in Seq(S) /\ Len(r) = Len(a) - n
      /\ \A i \in 1 .. Len(a) - n : r[i] = a[n + i]
  <2>1. \A i \in n + 1 .. Len(a) : a[i] \in S
    BY <1>1, <1>2
  <2>2. n + 1 \in 1 .. Len(a) + 1 /\ Len(a) \in n .. Len(a)
    BY <1>1, <1>2
  <2>3. r \in Seq(S)
    BY <1>1, <1>2, <1>3
  <2>4. Len(r) = Len(a) - n
    BY <1>1, <1>2, <1>3
  <2>5. ASSUME NEW i \in 1 .. Len(a) - n PROVE r[i] = a[n + i]
    BY <1>1, <1>2, <1>3
  <2> QED
    BY <2>3, <2>4, <2>5
<1>5. \A i \in 1 .. Len(r) : r[i] = q[Len(q) - Len(r) + i]
  <2> SUFFICES ASSUME NEW i \in 1 .. Len(r) PROVE r[i] = q[Len(q) - Len(r) + i]
    OBVIOUS
  <2>1. n + i \in 1 .. Len(a) /\ Len(q) - Len(a) + (n + i) = Len(q) - Len(r) + i
    BY <1>1, <1>2, <1>4
  <2> QED
    BY <1>4, <2>1, Zenon DEF Suffix
<1>6. \A i \in 1 .. Len(q) - Len(r) : q[i] < now - Window
  <2> SUFFICES ASSUME NEW i \in 1 .. Len(q) - Len(r) PROVE q[i] < now - Window
    OBVIOUS
  <2>1. CASE i <= Len(q) - Len(a)
    BY <1>2, <2>1 DEF Suffix
  <2>2. CASE ~ (i <= Len(q) - Len(a))
    <3> DEFINE j == i - (Len(q) - Len(a))
    <3>1. j \in 1 .. n /\ j \in 1 .. Len(a) /\ Len(q) - Len(a) + j = i
      BY <1>1, <1>2, <1>4, <2>2
    <3> QED
      BY <1>1, <3>1, Zenon DEF Suffix
  <2> QED
    BY <2>1, <2>2
<1> QED
  BY <1>1, <1>2, <1>4, <1>5, <1>6 DEF Suffix, r

(* Some entry is the oldest, so that a full table with an idle entry makes *)
(* room.                                                                   *)
LEMMA OldestExists ==
  ASSUME NEW t, Idle(t) # {}, IsFiniteSet(Idle(t)), Idle(t) \subseteq Nat,
         \A x \in Idle(t) : t[x].seen \in Nat
  PROVE  Oldest(t) # {}
<1> DEFINE I == Idle(t)
           n == Cardinality(I) \div 10
<1>1. PICK s \in {t[x].seen : x \in I} : \A u \in {t[x].seen : x \in I} : s <= u
  <2>1. {t[x].seen : x \in I} \in SUBSET Nat /\ {t[x].seen : x \in I} # {}
    OBVIOUS
  <2> QED
    BY <2>1, Least, Zenon
<1>2. PICK x \in {y \in I : t[y].seen = s} : \A y \in {z \in I : t[z].seen = s} : x <= y
  <2>1. {y \in I : t[y].seen = s} \in SUBSET Nat /\ {y \in I : t[y].seen = s} # {}
    OBVIOUS
  <2> QED
    BY <2>1, Least, Zenon
<1>3. {y \in I : Before(t, y, x)} = {}
  <2> SUFFICES ASSUME NEW y \in I, Before(t, y, x) PROVE FALSE
    OBVIOUS
  <2>1. x \in Nat /\ y \in Nat /\ t[x].seen = s /\ t[y].seen \in Nat /\ s \in Nat /\ s <= t[y].seen
    BY <1>1, <1>2
  <2>2. t[y].seen = s /\ y < x
    BY <2>1 DEF Before
  <2> QED
    BY <1>2, <2>1, <2>2
<1>4. Cardinality({y \in I : Before(t, y, x)}) = 0
  BY <1>3, FS_EmptySet, Zenon
<1>5. n \in Nat
  BY FS_CardinalityType
<1>6. 0 < (IF n > 1 THEN n ELSE 1)
  BY <1>5
<1> HIDE DEF n
<1>7. x \in Oldest(t)
  BY <1>2, <1>4, <1>6 DEF Oldest, n
<1> QED
  BY <1>7

-----------------------------------------------------------------------------
(* The table. *)

(* Each address with a handshake in flight has a slot of the total.        *)
LEMMA BusyBounded ==
  ASSUME TableInv, InflightExact
  PROVE  LET busy == DOMAIN ips \ Idle(ips)
         IN  IsFiniteSet(busy) /\ Cardinality(busy) \in Nat /\ Cardinality(busy) <= MaxInflight
<1> DEFINE busy == DOMAIN ips \ Idle(ips)
           H == {c \in Inbound : holder[c] # NoIp}
           T == {holder[c] : c \in H}
           f == [c \in H |-> holder[c]]
<1>1. IsFiniteSet(H)
  BY GuardAssumption, FS_Subset
<1>2. f \in Surjection(H, T)
  BY DEF Surjection
<1>3. IsFiniteSet(T) /\ Cardinality(T) <= Cardinality(H)
  BY <1>1, <1>2, FS_Surjection
<1>4. busy \subseteq T
  <2> SUFFICES ASSUME NEW ip \in busy PROVE ip \in T
    OBVIOUS
  <2>1. ip \in IPs /\ ip # NoIp /\ Cardinality(Running(ip)) = ips[ip].inflight /\ ips[ip].inflight # 0
    BY GuardAssumption DEF TableInv, InflightExact, Idle
  <2>2. Running(ip) # {}
    BY <2>1, FS_EmptySet
  <2> QED
    BY <2>1, <2>2 DEF Running
<1>5. Cardinality(H) = total /\ total \in Nat /\ total <= MaxInflight /\ MaxInflight \in Nat
  BY GuardAssumption DEF InflightExact, TableInv
<1>6. IsFiniteSet(busy) /\ Cardinality(busy) <= Cardinality(T)
  BY <1>3, <1>4, FS_Subset
<1>7. Cardinality(busy) \in Nat /\ Cardinality(T) \in Nat
  BY <1>3, <1>6, FS_CardinalityType
<1> HIDE DEF busy, H, T
<1> QED
  BY <1>3, <1>5, <1>6, <1>7 DEF busy

(* _evict_if_needed makes room in a full table, and evicts no entry with a *)
(* handshake in flight.                                                    *)
LEMMA EvictedMakesRoom ==
  ASSUME TableInv, InflightExact, NEW t, t = Evicted(ips)
  PROVE  /\ DOMAIN t \subseteq DOMAIN ips /\ \A x \in DOMAIN t : t[x] = ips[x]
         /\ \A x \in DOMAIN ips \ DOMAIN t : ips[x].inflight = 0
         /\ IsFiniteSet(DOMAIN t) /\ Cardinality(DOMAIN t) \in Nat /\ Cardinality(DOMAIN t) < MaxTracked
<1> DEFINE D == DOMAIN ips
           fresh == Restrict(ips, D \ Stale(ips))
           F == D \ Stale(ips)
<1>1. /\ IsFiniteSet(D) /\ Cardinality(D) \in Nat /\ Cardinality(D) <= MaxTracked
      /\ MaxTracked \in Nat /\ MaxInflight \in Nat /\ MaxInflight < MaxTracked
  BY GuardAssumption, TableAssumption, FS_CardinalityType DEF TableInv, TableBounded
<1>2. DOMAIN fresh = F /\ \A x \in F : fresh[x] = ips[x]
  BY DEF Restrict
<1>3. IsFiniteSet(F) /\ Cardinality(F) <= Cardinality(D) /\ Cardinality(F) \in Nat
  BY <1>1, FS_Subset, FS_CardinalityType
<1>4. \A x \in D \ F : ips[x].inflight = 0
  BY DEF Stale, Idle
<1>5. t = IF Cardinality(D) < MaxTracked THEN ips
          ELSE IF Cardinality(F) < MaxTracked THEN fresh
          ELSE Restrict(fresh, F \ Oldest(fresh))
  BY <1>2 DEF Evicted
<1> HIDE DEF fresh
<1>6. CASE Cardinality(D) < MaxTracked
  BY <1>1, <1>5, <1>6
<1>7. CASE ~ (Cardinality(D) < MaxTracked) /\ Cardinality(F) < MaxTracked
  BY <1>2, <1>3, <1>4, <1>5, <1>7
<1>8. CASE ~ (Cardinality(D) < MaxTracked) /\ ~ (Cardinality(F) < MaxTracked)
  <2> DEFINE G == F \ Oldest(fresh)
  <2>1. t = Restrict(fresh, G)
    BY <1>5, <1>8
  <2>2. DOMAIN t = G /\ \A x \in G : t[x] = ips[x]
    BY <1>2, <2>1 DEF Restrict
  <2>3. Oldest(fresh) \subseteq Idle(fresh)
    BY DEF Oldest
  <2>4. Idle(fresh) = F \cap Idle(ips)
    BY <1>2 DEF Idle
  <2>5. Idle(fresh) # {}
    <3> SUFFICES ASSUME Idle(fresh) = {} PROVE FALSE
      OBVIOUS
    <3>1. F \subseteq D \ Idle(ips)
      BY <2>4
    <3>2. Cardinality(F) <= Cardinality(D \ Idle(ips)) /\ Cardinality(D \ Idle(ips)) <= MaxInflight
          /\ Cardinality(D \ Idle(ips)) \in Nat
      BY <3>1, BusyBounded, FS_Subset
    <3> QED
      BY <1>1, <1>3, <1>8, <3>2
  <2>6. Oldest(fresh) # {}
    <3>1. Idle(fresh) \subseteq Nat /\ \A x \in Idle(fresh) : fresh[x].seen \in Nat
      BY <1>2, <2>4, GuardAssumption DEF TableInv, Entry
    <3>2. IsFiniteSet(Idle(fresh))
      BY <1>3, <2>4, FS_Subset
    <3> QED
      BY <2>5, <3>1, <3>2, OldestExists, Zenon
  <2>7. G \subseteq F /\ G # F
    BY <2>3, <2>4, <2>6
  <2>8. IsFiniteSet(G) /\ Cardinality(G) \in Nat /\ Cardinality(G) < Cardinality(F)
    <3>1. IsFiniteSet(G) /\ Cardinality(G) <= Cardinality(F) /\ Cardinality(G) # Cardinality(F)
      BY <1>3, <2>7, FS_Subset
    <3>2. Cardinality(G) \in Nat
      BY <3>1, FS_CardinalityType
    <3> HIDE DEF G
    <3> QED
      BY <1>3, <3>1, <3>2
  <2>9. \A x \in D \ G : ips[x].inflight = 0
    BY <1>4, <2>3, <2>4 DEF Idle
  <2>10. Cardinality(G) < MaxTracked
    BY <1>1, <1>3, <2>8
  <2> QED
    BY <2>2, <2>8, <2>9, <2>10
<1> QED
  BY <1>6, <1>7, <1>8

Inflight(t, ip) == IF ip \in DOMAIN t THEN t[ip].inflight ELSE 0

(* A table and the history that goes with it. *)
Fits(t, q) ==
  /\ DOMAIN t \subseteq IPs /\ IsFiniteSet(DOMAIN t) /\ Cardinality(DOMAIN t) <= MaxTracked
  /\ t = [x \in DOMAIN t |-> t[x]] /\ \A x \in DOMAIN t : t[x] \in Entry
  /\ DOMAIN q = IPs
  /\ \A x \in IPs : /\ q[x] \in Seq(0 .. now) /\ Len(q[x]) <= MaxPerWindow
                    /\ Suffix(Past(t, x), q[x])

(* The first half of acquire(): the entry of the address is there, and     *)
(* nothing is forgotten that still counts.                                 *)
LEMMA TrackedFits ==
  ASSUME GuardInv, NEW ip \in IPs, NEW t, t = Tracked(ip), NEW q, q = Remembered(t)
  PROVE  /\ Fits(t, q) /\ ip \in DOMAIN t
         /\ \A x \in IPs : Inflight(t, x) = Inflight(ips, x)
         /\ q[ip] = admitted[ip]
<1> DEFINE D == DOMAIN ips
<1>1. TableInv /\ InflightExact /\ WindowInv /\ now \in Nat /\ Window \in Nat /\ MaxTracked \in Nat
      /\ MaxInflightIp \in Nat
  BY GuardAssumption DEF GuardInv, TableInv
<1>2. \A x \in IPs : q[x] = IF x \in D \ DOMAIN t THEN <<>> ELSE admitted[x]
  BY DEF Remembered
<1>3. \A x \in IPs : /\ admitted[x] \in Seq(0 .. now) /\ Len(admitted[x]) <= MaxPerWindow
                     /\ Suffix(Past(ips, x), admitted[x])
  BY <1>1 DEF WindowInv
<1>4. DOMAIN q = IPs
  BY DEF Remembered
<1>5. Len(<<>>) = 0 /\ <<>> \in Seq(0 .. now) /\ 0 <= MaxPerWindow /\ Suffix(<<>>, <<>>)
  BY GuardAssumption DEF Suffix
<1>6. CASE ip \in D
  <2> DEFINE e == [attempts |-> Recent(ips[ip].attempts), inflight |-> ips[ip].inflight, seen |-> now]
  <2>1. t = [x \in D |-> IF x = ip THEN e ELSE ips[x]]
    <3>1. D \cup {ip} = D
      BY <1>6
    <3> QED
      BY <1>6, <3>1 DEF Tracked
  <2>2. ips[ip] \in Entry /\ ips[ip].attempts \in Seq(0 .. now) /\ ips[ip].inflight \in 0 .. MaxInflightIp
    BY <1>1, <1>6 DEF TableInv, Entry
  <2>3. Recent(ips[ip].attempts) \in Seq(0 .. now) /\ Suffix(Recent(ips[ip].attempts), admitted[ip])
    <3>1. 0 .. now \in SUBSET Nat /\ Suffix(ips[ip].attempts, admitted[ip])
      BY <1>1, <1>3, <1>6 DEF Past
    <3> QED
      BY <1>1, <1>3, <2>2, <3>1, RecentIsSuffix, Zenon
  <2> HIDE DEF e
  <2>4. e \in Entry /\ e.attempts = Recent(ips[ip].attempts) /\ e.inflight = ips[ip].inflight
    BY <1>1, <2>2, <2>3 DEF e, Entry
  <2>5. DOMAIN t = D /\ t[ip] = e /\ \A x \in D \ {ip} : t[x] = ips[x]
    BY <1>6, <2>1, Zenon
  <2>6. \A x \in IPs : q[x] = admitted[x]
    BY <1>2, <2>5
  <2>7. \A x \in IPs : Suffix(Past(t, x), q[x])
    BY <1>3, <1>6, <2>3, <2>4, <2>5, <2>6, ZenonT(60) DEF Past
  <2>8. t = [x \in DOMAIN t |-> t[x]]
    BY <2>1
  <2>9. DOMAIN t \subseteq IPs /\ IsFiniteSet(DOMAIN t) /\ Cardinality(DOMAIN t) <= MaxTracked
        /\ \A x \in DOMAIN t : t[x] \in Entry
    BY <1>1, <2>4, <2>5 DEF TableInv, TableBounded
  <2>10. Fits(t, q)
    BY <1>3, <1>4, <2>6, <2>7, <2>8, <2>9, ZenonT(60) DEF Fits
  <2> QED
    BY <1>6, <2>4, <2>5, <2>6, <2>10, Zenon DEF Inflight
<1>7. CASE ip \notin D
  <2> DEFINE e == [attempts |-> <<>>, inflight |-> 0, seen |-> now]
  <2> PICK v : v = Evicted(ips)
    OBVIOUS
  <2>1. t = [x \in DOMAIN v \cup {ip} |-> IF x = ip THEN e ELSE v[x]]
    BY <1>7 DEF Tracked
  <2>2. /\ DOMAIN v \subseteq D /\ \A x \in DOMAIN v : v[x] = ips[x]
        /\ \A x \in D \ DOMAIN v : ips[x].inflight = 0
        /\ IsFiniteSet(DOMAIN v) /\ Cardinality(DOMAIN v) \in Nat /\ Cardinality(DOMAIN v) < MaxTracked
    BY <1>1, EvictedMakesRoom
  <2>3. e \in Entry
    BY <1>1, <1>5 DEF Entry
  <2>4. e.attempts = <<>> /\ e.inflight = 0
    OBVIOUS
  <2> HIDE DEF e
  <2>5. DOMAIN t = DOMAIN v \cup {ip} /\ t[ip] = e /\ \A x \in DOMAIN v : t[x] = ips[x]
    BY <1>7, <2>1, <2>2
  <2>6. IsFiniteSet(DOMAIN t) /\ Cardinality(DOMAIN t) <= MaxTracked
    <3>1. ip \notin DOMAIN v
      BY <1>7, <2>2
    <3>2. IsFiniteSet(DOMAIN t) /\ Cardinality(DOMAIN t) = Cardinality(DOMAIN v) + 1
      BY <2>2, <2>5, <3>1, FS_AddElement
    <3> QED
      BY <1>1, <2>2, <3>2
  <2>7. DOMAIN t \subseteq IPs /\ \A x \in DOMAIN t : t[x] \in Entry
    BY <1>1, <2>2, <2>3, <2>5 DEF TableInv
  <2>8. t = [x \in DOMAIN t |-> t[x]]
    BY <2>1
  <2>9. ASSUME NEW x \in IPs
        PROVE  /\ q[x] \in Seq(0 .. now) /\ Len(q[x]) <= MaxPerWindow /\ Suffix(Past(t, x), q[x])
               /\ Inflight(t, x) = Inflight(ips, x)
    <3>1. CASE x = ip
      BY <1>2, <1>3, <1>7, <2>4, <2>5, <3>1, ZenonT(60) DEF Past, Inflight
    <3>2. CASE x # ip /\ x \in DOMAIN v
      BY <1>2, <1>3, <2>2, <2>5, <3>2, ZenonT(60) DEF Past, Inflight
    <3>3. CASE x # ip /\ x \in D \ DOMAIN v
      <4>1. q[x] = <<>> /\ Past(t, x) = <<>> /\ Inflight(t, x) = 0 /\ Inflight(ips, x) = 0
        BY <1>2, <2>2, <2>5, <3>3, ZenonT(60) DEF Past, Inflight
      <4> QED
        BY <1>5, <4>1
    <3>4. CASE x # ip /\ x \notin D
      BY <1>2, <1>3, <2>2, <2>5, <3>4 DEF Past, Inflight
    <3> QED
      BY <3>1, <3>2, <3>3, <3>4, Zenon
  <2>10. Fits(t, q)
    BY <1>4, <2>6, <2>7, <2>8, <2>9 DEF Fits
  <2> QED
    BY <1>2, <1>7, <2>5, <2>9, <2>10
<1> QED
  BY <1>6, <1>7

(* The second half of acquire(): the attempt is appended to both, and the  *)
(* history forgets its oldest only when that has left the window.          *)
LEMMA AppendFits ==
  ASSUME now \in Nat, NEW a \in Seq(0 .. now), NEW q \in Seq(0 .. now), Suffix(a, q),
         MaxPerWindow \in Nat, Len(a) < MaxPerWindow, Len(q) <= MaxPerWindow
  PROVE  /\ Append(a, now) \in Seq(0 .. now)
         /\ LastOf(Append(q, now)) \in Seq(0 .. now)
         /\ Len(LastOf(Append(q, now))) <= MaxPerWindow
         /\ Suffix(Append(a, now), LastOf(Append(q, now)))
         /\ Len(q) = MaxPerWindow => q[1] < now - Window
<1> DEFINE b == Append(a, now)
           u == Append(q, now)
           w == LastOf(u)
<1>1. Len(a) \in Nat /\ Len(q) \in Nat /\ Len(a) <= Len(q) /\ now \in 0 .. now
  BY DEF Suffix
<1>2. /\ b \in Seq(0 .. now) /\ Len(b) = Len(a) + 1 /\ b[Len(a) + 1] = now
      /\ \A i \in 1 .. Len(a) : b[i] = a[i]
  BY <1>1
<1>3. /\ u \in Seq(0 .. now) /\ Len(u) = Len(q) + 1 /\ u[Len(q) + 1] = now
      /\ \A i \in 1 .. Len(q) : u[i] = q[i]
  BY <1>1
<1> HIDE DEF b, u, w
<1> PICK m \in Nat, n \in Nat : m = Len(a) /\ n = Len(q)
  BY <1>1
<1>4. Len(b) = m + 1 /\ Len(u) = n + 1 /\ m <= n /\ m < MaxPerWindow /\ n <= MaxPerWindow
  BY <1>1, <1>2, <1>3
<1>5. Suffix(b, u)
  <2>1. ASSUME NEW i \in 1 .. Len(b) PROVE b[i] = u[Len(u) - Len(b) + i]
    <3>1. CASE i = Len(a) + 1
      <4>1. Len(u) - Len(b) + i = Len(q) + 1
        BY <1>1, <1>2, <1>3, <3>1
      <4> QED
        BY <1>2, <1>3, <3>1, <4>1, Zenon
    <3>2. CASE i \in 1 .. Len(a)
      <4>1. Len(u) - Len(b) + i = Len(q) - Len(a) + i /\ Len(q) - Len(a) + i \in 1 .. Len(q)
        BY <1>1, <1>2, <1>3, <3>2
      <4> QED
        BY <1>2, <1>3, <3>2, <4>1, Zenon DEF Suffix
    <3> QED
      BY <1>1, <1>2, <3>1, <3>2
  <2>2. ASSUME NEW i \in 1 .. Len(u) - Len(b) PROVE u[i] < now - Window
    <3>1. i \in 1 .. n - m /\ i \in 1 .. n
      BY <1>4
    <3> QED
      BY <1>3, <3>1 DEF Suffix
  <2>3. Len(b) <= Len(u)
    BY <1>1, <1>2, <1>3
  <2> QED
    BY <2>1, <2>2, <2>3 DEF Suffix
<1>6. CASE Len(u) > MaxPerWindow
  <2>1. w = Tail(u) /\ n = MaxPerWindow /\ m < n /\ u # <<>>
    BY <1>4, <1>6 DEF LastOf, w
  <2>2. w \in Seq(0 .. now) /\ Len(w) = n /\ \A i \in 1 .. n : w[i] = u[i + 1]
    BY <1>3, <1>4, <2>1
  <2>3. ASSUME NEW i \in 1 .. Len(b) PROVE b[i] = w[Len(w) - Len(b) + i]
    <3>1. Len(w) - Len(b) + i \in 1 .. n /\ (Len(w) - Len(b) + i) + 1 = Len(u) - Len(b) + i
      <4>1. i \in 1 .. m + 1 /\ Len(w) - Len(b) + i = n - (m + 1) + i /\ Len(u) - Len(b) + i = (n + 1) - (m + 1) + i
        BY <1>4, <2>2
      <4>2. n - (m + 1) + i \in 1 .. n /\ (n - (m + 1) + i) + 1 = (n + 1) - (m + 1) + i
        BY <2>1, <4>1
      <4> QED
        BY <4>1, <4>2, Zenon
    <3> QED
      BY <1>5, <2>2, <3>1, ZenonT(60) DEF Suffix
  <2>4. ASSUME NEW i \in 1 .. Len(w) - Len(b) PROVE w[i] < now - Window
    <3>1. i \in 1 .. n /\ i + 1 \in 1 .. Len(u) - Len(b)
      BY <1>4, <2>1, <2>2
    <3> QED
      BY <1>5, <2>2, <3>1 DEF Suffix
  <2>5. Suffix(b, w)
    <3>1. Len(b) <= Len(w)
      BY <1>4, <2>1, <2>2
    <3> QED
      BY <2>3, <2>4, <3>1 DEF Suffix
  <2>6. q[1] < now - Window
    <3>1. 1 \in 1 .. Len(q) - Len(a)
      BY <2>1
    <3> QED
      BY <3>1 DEF Suffix
  <2> QED
    BY <1>2, <2>1, <2>2, <2>5, <2>6, Zenon DEF b, u, w
<1>7. CASE ~ (Len(u) > MaxPerWindow)
  <2>1. w = u /\ Len(u) <= MaxPerWindow /\ Len(q) # MaxPerWindow
    BY <1>1, <1>3, <1>7 DEF LastOf, w
  <2> QED
    BY <1>2, <1>3, <1>5, <2>1 DEF b, u, w
<1> QED
  BY <1>6, <1>7

-----------------------------------------------------------------------------
(* acquire() and release(). *)

(* The table after an admitted attempt, of which more handshakes are in    *)
(* flight.                                                                 *)
LEMMA GrownFits ==
  ASSUME GuardInv, NEW ip \in IPs, NEW t, t = Tracked(ip), Admissible(t, ip),
         NEW more \in {0, 1}, NEW u, u = Attempted(t, ip, more), NEW q, q = Recorded(t, ip)
  PROVE  /\ Fits(u, q)
         /\ \A x \in IPs \ {ip} : Inflight(u, x) = Inflight(ips, x)
         /\ Inflight(u, ip) = Inflight(ips, ip) + more
         /\ Len(admitted[ip]) = MaxPerWindow => now - admitted[ip][1] > Window
<1> PICK r : r = Remembered(t)
  OBVIOUS
<1>1. /\ Fits(t, r) /\ ip \in DOMAIN t /\ r[ip] = admitted[ip]
      /\ \A x \in IPs : Inflight(t, x) = Inflight(ips, x)
  BY TrackedFits
<1>2. /\ now \in Nat /\ MaxPerWindow \in Nat /\ Window \in Nat /\ t[ip] \in Entry
      /\ t[ip].attempts \in Seq(0 .. now) /\ Len(t[ip].attempts) < MaxPerWindow
      /\ r[ip] \in Seq(0 .. now) /\ Len(r[ip]) <= MaxPerWindow /\ Suffix(t[ip].attempts, r[ip])
  <2>1. now \in Nat /\ MaxPerWindow \in Nat /\ Window \in Nat
    BY GuardAssumption DEF GuardInv, TableInv
  <2>2. t[ip] \in Entry /\ t[ip].attempts \in Seq(0 .. now) /\ Past(t, ip) = t[ip].attempts
    BY <1>1 DEF Fits, Entry, Past
  <2>3. r[ip] \in Seq(0 .. now) /\ Len(r[ip]) <= MaxPerWindow /\ Suffix(Past(t, ip), r[ip])
    BY <1>1 DEF Fits
  <2> QED
    BY <2>1, <2>2, <2>3 DEF Admissible
<1> PICK e : e = [attempts |-> Append(t[ip].attempts, now), inflight |-> t[ip].inflight + more, seen |-> now]
  BY ZenonT(60)
<1>3. e \in Entry /\ e.attempts = Append(t[ip].attempts, now) /\ e.inflight = t[ip].inflight + more
  <2>1. Append(t[ip].attempts, now) \in Seq(0 .. now)
    BY <1>2
  <2>2. t[ip].inflight + more \in 0 .. MaxInflightIp
    <3>1. t[ip].inflight \in 0 .. MaxInflightIp /\ t[ip].inflight < MaxInflightIp
      BY <1>2 DEF Entry, Admissible
    <3> QED
      BY <3>1, Counts, Zenon
  <2> QED
    BY <1>2, <2>1, <2>2, SMTT(60) DEF Entry
<1>4. /\ LastOf(Append(r[ip], now)) \in Seq(0 .. now) /\ Len(LastOf(Append(r[ip], now))) <= MaxPerWindow
      /\ Suffix(e.attempts, LastOf(Append(r[ip], now)))
      /\ Len(r[ip]) = MaxPerWindow => r[ip][1] < now - Window
  BY <1>2, <1>3, AppendFits, Zenon
<1>5. DOMAIN u = DOMAIN t /\ u[ip] = e /\ \A x \in DOMAIN t \ {ip} : u[x] = t[x]
  BY <1>1 DEF Attempted
<1>6. /\ DOMAIN q = IPs /\ q[ip] = LastOf(Append(r[ip], now)) /\ \A x \in IPs \ {ip} : q[x] = r[x]
  BY <1>1, Zenon DEF Fits, Recorded
<1>7. \A x \in IPs : /\ q[x] \in Seq(0 .. now) /\ Len(q[x]) <= MaxPerWindow
                     /\ Suffix(Past(u, x), q[x])
  <2> SUFFICES ASSUME NEW x \in IPs
               PROVE  q[x] \in Seq(0 .. now) /\ Len(q[x]) <= MaxPerWindow /\ Suffix(Past(u, x), q[x])
    BY Zenon
  <2>1. CASE x = ip
    BY <1>1, <1>3, <1>4, <1>5, <1>6, <2>1, Zenon DEF Past
  <2>2. CASE x # ip
    <3>1. q[x] = r[x] /\ Past(u, x) = Past(t, x)
      BY <1>5, <1>6, <2>2, Zenon DEF Past
    <3> QED
      BY <1>1, <3>1 DEF Fits
  <2> QED
    BY <2>1, <2>2, Zenon
<1>8. u = [x \in DOMAIN u |-> u[x]] /\ \A x \in DOMAIN u : u[x] \in Entry
  BY <1>1, <1>5, <1>3, ZenonT(60) DEF Fits, Attempted
<1>9. Fits(u, q)
  BY <1>1, <1>5, <1>6, <1>7, <1>8, ZenonT(60) DEF Fits
<1>10. Len(admitted[ip]) = MaxPerWindow => now - admitted[ip][1] > Window
  <2> SUFFICES ASSUME Len(r[ip]) = MaxPerWindow PROVE now - r[ip][1] > Window
    BY <1>1, Zenon
  <2>1. Len(t[ip].attempts) \in Nat /\ 1 \in 1 .. Len(r[ip])
    BY <1>2
  <2>2. r[ip][1] < now - Window /\ r[ip][1] \in 0 .. now
    BY <1>2, <1>4, <2>1, SMTT(60)
  <2> QED
    BY <1>2, <2>2, Counts, Zenon
<1> QED
  BY <1>1, <1>2, <1>5, <1>3, <1>9, <1>10, ZenonT(60) DEF Inflight

(* GuardInv in terms of a table that fits its history. *)
LEMMA GuardInvFrom ==
  ASSUME now \in 0 .. MaxTime, total \in 0 .. MaxInflight, holder \in [Inbound -> IPs \cup {NoIp}],
         Fits(ips, admitted),
         total = Cardinality({c \in Inbound : holder[c] # NoIp}),
         \A ip \in IPs : Cardinality(Running(ip)) = Inflight(ips, ip)
  PROVE  GuardInv
BY DEF GuardInv, TableInv, TableBounded, InflightExact, WindowInv, Fits, Inflight

(* A table that fits is what GuardInv says of the new state. *)
LEMMA FitsNext ==
  ASSUME NEW u, NEW q, Fits(u, q), ips' = u, admitted' = q, now' = now
  PROVE  Fits(ips, admitted)'
<1>1. Entry' = Entry
  BY DEF Entry
<1>2. ASSUME NEW x \in IPs PROVE Suffix(Past(ips, x), admitted[x])' <=> Suffix(Past(u, x), q[x])
  <2>1. Past(ips, x)' = Past(u, x) /\ admitted'[x] = q[x]
    BY DEF Past
  <2> QED
    BY <2>1 DEF Suffix
<1> QED
  BY <1>1, <1>2 DEF Fits

(* A slot more: the counters grow with what is held. *)
LEMMA AcquireKeeps ==
  ASSUME GuardInv, NEW c \in Inbound, NEW ip \in IPs, Acquire(c, ip)
  PROVE  /\ GuardInv' /\ holder' = [holder EXCEPT ![c] = ip]
         /\ Len(admitted[ip]) = MaxPerWindow => now - admitted[ip][1] > Window
<1> PICK t : t = Tracked(ip)
  OBVIOUS
<1>1. /\ holder[c] = NoIp /\ Admissible(t, ip) /\ total' = total + 1 /\ now' = now
      /\ ips' = Attempted(t, ip, 1)
      /\ holder' = [holder EXCEPT ![c] = ip]
      /\ admitted' = Recorded(t, ip)
  BY DEF Acquire
<1>2. /\ now \in 0 .. MaxTime /\ total \in 0 .. MaxInflight /\ holder \in [Inbound -> IPs \cup {NoIp}]
      /\ MaxInflight \in Nat /\ NoIp \notin IPs
  BY GuardAssumption, ZenonT(60) DEF GuardInv, TableInv
<1>3. /\ Fits(ips, admitted)'
      /\ \A x \in IPs \ {ip} : Inflight(ips', x) = Inflight(ips, x)
      /\ Inflight(ips', ip) = Inflight(ips, ip) + 1
      /\ Len(admitted[ip]) = MaxPerWindow => now - admitted[ip][1] > Window
  <2> PICK u : u = ips'
    OBVIOUS
  <2> PICK q : q = admitted'
    BY ZenonT(60)
  <2>1. /\ Fits(u, q)
        /\ \A x \in IPs \ {ip} : Inflight(u, x) = Inflight(ips, x)
        /\ Inflight(u, ip) = Inflight(ips, ip) + 1
        /\ Len(admitted[ip]) = MaxPerWindow => now - admitted[ip][1] > Window
    BY <1>1, GrownFits, SMTT(60)
  <2>2. Fits(ips, admitted)'
    BY <1>1, <2>1, FitsNext, Zenon
  <2> QED
    BY <2>1, <2>2
<1> DEFINE H == {d \in Inbound : holder[d] # NoIp}
<1>4. {d \in Inbound : holder'[d] # NoIp} = H \cup {c} /\ c \notin H
  BY <1>1, <1>2, ZenonT(60)
<1>5. IsFiniteSet(H) /\ Cardinality(H) = total
  BY GuardAssumption, FS_Subset, Zenon DEF GuardInv, InflightExact
<1>6. total' = Cardinality({d \in Inbound : holder'[d] # NoIp})
  BY <1>1, <1>4, <1>5, FS_AddElement, ZenonT(60)
<1>7. ASSUME NEW x \in IPs PROVE Cardinality(Running(x)') = Inflight(ips', x)
  <2>1. IsFiniteSet(Running(x)) /\ Cardinality(Running(x)) = Inflight(ips, x)
    BY GuardAssumption, FS_Subset DEF GuardInv, InflightExact, Running, Inflight
  <2>2. CASE x = ip
    <3>1. Running(x)' = Running(x) \cup {c} /\ c \notin Running(x)
      BY <1>1, <1>2, <2>2 DEF Running
    <3> QED
      BY <1>3, <2>1, <2>2, <3>1, FS_AddElement, ZenonT(60)
  <2>3. CASE x # ip
    <3>1. Running(x)' = Running(x)
      BY <1>1, <1>2, <2>3, ZenonT(60) DEF Running
    <3> QED
      BY <1>3, <2>1, <2>3, <3>1
  <2> QED
    BY <2>2, <2>3
<1>8. now' \in 0 .. MaxTime /\ total' \in 0 .. MaxInflight /\ holder' \in [Inbound -> IPs \cup {NoIp}]
  BY <1>1, <1>2 DEF Admissible
<1>9. GuardInv'
  <2>1. \A x \in IPs : Cardinality(Running(x)') = Inflight(ips, x)'
    BY <1>7 DEF Inflight
  <2> QED
    BY <1>3, <1>6, <1>8, <2>1, Zenon DEF GuardInv, TableInv, TableBounded, InflightExact, WindowInv, Fits, Inflight
<1> QED
  BY <1>1, <1>3, <1>9, Zenon

(* Nothing that is held changes: a refused or rejected attempt. *)
LEMMA TurnedAwayKeeps ==
  ASSUME GuardInv, NEW ip \in IPs, PinRefused(ip) \/ Rejected(ip)
  PROVE  GuardInv' /\ holder' = holder
<1> PICK t : t = Tracked(ip)
  OBVIOUS
<1> PICK u : u = ips'
  OBVIOUS
<1> PICK q : q = admitted'
  OBVIOUS
<1>1. UNCHANGED <<now, total, holder>>
  BY DEF PinRefused, Rejected
<1>2. Fits(u, q) /\ \A x \in IPs : Inflight(u, x) = Inflight(ips, x)
  <2>1. CASE PinRefused(ip)
    <3>1. Admissible(t, ip) /\ u = Attempted(t, ip, 0) /\ q = Recorded(t, ip)
      BY <2>1, ZenonT(60) DEF PinRefused
    <3>2. /\ Fits(u, q)
          /\ \A x \in IPs \ {ip} : Inflight(u, x) = Inflight(ips, x)
          /\ Inflight(u, ip) = Inflight(ips, ip) + 0
      BY <3>1, GrownFits, SMTT(60)
    <3>3. Inflight(ips, ip) \in Nat
      BY GuardAssumption DEF GuardInv, TableInv, Entry, Inflight
    <3> QED
      BY <3>2, <3>3
  <2>2. CASE Rejected(ip)
    BY <2>2, TrackedFits DEF Rejected
  <2> QED
    BY <2>1, <2>2
<1>3. Fits(ips, admitted)'
  BY <1>1, <1>2, FitsNext, Zenon
<1>4. \A x \in IPs : Cardinality(Running(x)') = Inflight(ips, x)'
  <2>1. \A x \in IPs : Cardinality(Running(x)) = Inflight(ips, x) /\ Running(x)' = Running(x)
    BY <1>1, ZenonT(60) DEF GuardInv, InflightExact, Inflight, Running
  <2> QED
    BY <1>2, <2>1, ZenonT(60) DEF Inflight
<1>5. total' = Cardinality({d \in Inbound : holder'[d] # NoIp})
  BY <1>1 DEF GuardInv, InflightExact
<1>6. now' \in 0 .. MaxTime /\ total' \in 0 .. MaxInflight /\ holder' \in [Inbound -> IPs \cup {NoIp}]
  BY <1>1, ZenonT(60) DEF GuardInv, TableInv
<1>7. GuardInv'
  BY <1>3, <1>4, <1>5, <1>6, ZenonT(60) DEF GuardInv, TableInv, TableBounded, InflightExact, WindowInv, Fits, Inflight
<1> QED
  BY <1>1, <1>7

(* A slot less: its entry is there, and the counters follow. *)
LEMMA ReleaseKeeps ==
  ASSUME GuardInv, NEW c \in Inbound, Release(c)
  PROVE  GuardInv' /\ holder' = [holder EXCEPT ![c] = NoIp] /\ holder[c] # NoIp
<1> PICK ip : ip = holder[c]
  OBVIOUS
<1>1. /\ now \in 0 .. MaxTime /\ total \in 0 .. MaxInflight /\ holder \in [Inbound -> IPs \cup {NoIp}]
      /\ MaxInflight \in Nat /\ MaxInflightIp \in Nat /\ NoIp \notin IPs
      /\ IsFiniteSet(DOMAIN ips) /\ Cardinality(DOMAIN ips) <= MaxTracked /\ DOMAIN ips \subseteq IPs
      /\ MaxTracked \in Nat
  BY GuardAssumption DEF GuardInv, TableInv, TableBounded
<1>2. ip # NoIp /\ ip \in IPs /\ holder' = [holder EXCEPT ![c] = NoIp] /\ UNCHANGED <<now, admitted>>
  BY <1>1, Zenon DEF Release
<1> DEFINE H == {d \in Inbound : holder[d] # NoIp}
<1>3. /\ IsFiniteSet(H) /\ Cardinality(H) = total /\ c \in H
      /\ {d \in Inbound : holder'[d] # NoIp} = H \ {c}
  BY <1>1, <1>2, GuardAssumption, FS_Subset, Zenon DEF GuardInv, InflightExact
<1>4. \A x \in IPs : IsFiniteSet(Running(x)) /\ Cardinality(Running(x)) = Inflight(ips, x)
  BY GuardAssumption, FS_Subset, ZenonT(60) DEF GuardInv, InflightExact, Running, Inflight
<1>5. c \in Running(ip) /\ Cardinality(Running(ip)) \in Nat /\ Cardinality(Running(ip)) # 0
  <2>1. c \in Running(ip)
    BY DEF Running
  <2> QED
    BY <1>2, <1>4, <2>1, FS_EmptySet, FS_CardinalityType, Zenon
<1>6. ip \in DOMAIN ips /\ ips[ip].inflight > 0 /\ ips[ip].inflight \in Nat /\ ips[ip] \in Entry
  BY <1>2, <1>4, <1>5 DEF Inflight, GuardInv, TableInv
<1>7. total > 0
  BY <1>1, <1>3, FS_EmptySet
<1> PICK less : less = [ips EXCEPT ![ip].inflight = @ - 1]
  BY ZenonT(60)
<1>8. total' = total - 1
  BY <1>2, <1>6, <1>7, Zenon DEF Release
<1>9. ips' = IF less[ip].inflight = 0 /\ less[ip].attempts = <<>>
             THEN Restrict(ips, DOMAIN ips \ {ip}) ELSE less
  BY <1>2, <1>6, ZenonT(60) DEF Release
<1>10. /\ DOMAIN less = DOMAIN ips /\ \A x \in DOMAIN ips \ {ip} : less[x] = ips[x]
       /\ less[ip] \in Entry /\ less[ip].attempts = ips[ip].attempts /\ less[ip].inflight = ips[ip].inflight - 1
       /\ less = [x \in DOMAIN ips |-> less[x]]
  <2> PICK e : e = [ips[ip] EXCEPT !.inflight = @ - 1]
    OBVIOUS
  <2>1. e \in Entry /\ e.attempts = ips[ip].attempts /\ e.inflight = ips[ip].inflight - 1
    BY <1>1, <1>6 DEF Entry
  <2>2. less = [ips EXCEPT ![ip] = e]
    OBVIOUS
  <2>3. DOMAIN less = DOMAIN ips /\ less[ip] = e /\ \A x \in DOMAIN ips \ {ip} : less[x] = ips[x]
    BY <1>6, <2>2
  <2>4. less = [x \in DOMAIN ips |-> less[x]]
    BY <2>2, Zenon
  <2> QED
    BY <2>1, <2>3, <2>4, ZenonT(60)
<1> PICK u : u = ips'
  OBVIOUS
<1>11. /\ DOMAIN u \subseteq DOMAIN ips /\ u = [x \in DOMAIN u |-> u[x]] /\ \A x \in DOMAIN u : u[x] \in Entry
       /\ \A x \in IPs : Past(u, x) = Past(ips, x)
       /\ \A x \in IPs \ {ip} : Inflight(u, x) = Inflight(ips, x)
       /\ Inflight(u, ip) = Inflight(ips, ip) - 1
  <2>1. CASE u = Restrict(ips, DOMAIN ips \ {ip}) /\ less[ip].inflight = 0 /\ less[ip].attempts = <<>>
    <3>1. DOMAIN u = DOMAIN ips \ {ip} /\ \A x \in DOMAIN u : u[x] = ips[x]
      BY <2>1 DEF Restrict
    <3>2. u = [x \in DOMAIN u |-> u[x]]
      BY <2>1 DEF Restrict
    <3>3. \A x \in DOMAIN u : u[x] \in Entry
      BY <3>1 DEF GuardInv, TableInv
    <3> QED
      BY <1>6, <1>10, <2>1, <3>1, <3>2, <3>3, ZenonT(60) DEF Past, Inflight
  <2>2. CASE u = less
    <3>1. \A x \in DOMAIN u : u[x] \in Entry
      BY <1>10, <2>2 DEF GuardInv, TableInv
    <3> QED
      BY <1>6, <1>10, <2>2, <3>1, ZenonT(60) DEF Past, Inflight
  <2> QED
    BY <1>9, <2>1, <2>2, Zenon
<1>12. IsFiniteSet(DOMAIN u) /\ Cardinality(DOMAIN u) <= MaxTracked
  <2>1. IsFiniteSet(DOMAIN u) /\ Cardinality(DOMAIN u) <= Cardinality(DOMAIN ips)
    BY <1>1, <1>11, FS_Subset
  <2>2. Cardinality(DOMAIN u) \in Nat /\ Cardinality(DOMAIN ips) \in Nat
    BY <1>1, <2>1, FS_CardinalityType
  <2> QED
    BY <1>1, <2>1, <2>2
<1>13. Fits(u, admitted)
  <2>1. DOMAIN u \subseteq IPs
    BY <1>1, <1>11
  <2> QED
    BY <1>11, <1>12, <2>1 DEF Fits, GuardInv, WindowInv
<1>14. Fits(ips, admitted)'
  BY <1>2, <1>13, FitsNext
<1>15. total' = Cardinality({d \in Inbound : holder'[d] # NoIp})
  BY <1>3, <1>8, FS_RemoveElement, Zenon
<1>16. ASSUME NEW x \in IPs PROVE Cardinality(Running(x)') = Inflight(ips, x)'
  <2>1. Inflight(ips, x)' = Inflight(u, x)
    BY DEF Inflight
  <2>2. CASE x = ip
    <3>1. Running(x)' = Running(x) \ {c}
      BY <1>1, <1>2, <2>2, Zenon DEF Running
    <3> QED
      BY <1>4, <1>5, <1>11, <2>1, <2>2, <3>1, FS_RemoveElement, ZenonT(60)
  <2>3. CASE x # ip
    <3>1. Running(x)' = Running(x)
      BY <1>1, <1>2, <2>3 DEF Running
    <3> QED
      BY <1>4, <1>11, <2>1, <2>3, <3>1, ZenonT(60)
  <2> QED
    BY <2>2, <2>3
<1>17. now' \in 0 .. MaxTime /\ total' \in 0 .. MaxInflight /\ holder' \in [Inbound -> IPs \cup {NoIp}]
  BY <1>1, <1>2, <1>7, <1>8
<1>18. GuardInv'
  BY <1>14, <1>15, <1>16, <1>17, ZenonT(60) DEF GuardInv, TableInv, TableBounded, InflightExact, WindowInv, Fits, Inflight
<1> QED
  BY <1>2, <1>18, ZenonT(60)

(* Times of attempts stay in range as the clock advances. *)
LEMMA SeqGrows ==
  ASSUME NEW m \in Nat, NEW n \in Nat, m <= n, NEW q \in Seq(0 .. m)
  PROVE  q \in Seq(0 .. n) /\ Len(q) \in Nat /\ \A i \in 1 .. Len(q) : q[i] \in Int
<1>1. Len(q) \in Nat /\ q = [i \in 1 .. Len(q) |-> q[i]] /\ \A i \in 1 .. Len(q) : q[i] \in 0 .. m
  OBVIOUS
<1>2. \A i \in 1 .. Len(q) : q[i] \in 0 .. n /\ q[i] \in Int
  BY <1>1
<1> QED
  BY <1>1, <1>2

(* The clock: what is out of the window stays out of it. *)
LEMMA TickKeeps ==
  ASSUME GuardInv, Tick
  PROVE  GuardInv' /\ holder' = holder
<1>1. now' = now + 1 /\ now' \in 0 .. MaxTime /\ now \in Nat /\ UNCHANGED <<ips, total, holder, admitted>>
  BY GuardAssumption DEF Tick, GuardInv, TableInv
<1>2. 0 .. now \subseteq 0 .. now'
  BY <1>1
<1>3. Entry \subseteq Entry'
  <2>1. Seq(0 .. now) \subseteq Seq(0 .. now')
    BY <1>1, SeqGrows
  <2> QED
    BY <1>2, <2>1, Zenon DEF Entry
<1>4. TableInv'
  BY <1>1, <1>3, Zenon DEF GuardInv, TableInv, TableBounded
<1>5. InflightExact'
  BY <1>1, Zenon DEF GuardInv, InflightExact, Running
<1>6. ASSUME NEW x \in IPs
      PROVE  admitted'[x] \in Seq(0 .. now') /\ Len(admitted'[x]) <= MaxPerWindow
             /\ Suffix(Past(ips, x), admitted[x])'
  <2> PICK a : a = Past(ips, x)
    OBVIOUS
  <2> PICK q : q = admitted[x]
    OBVIOUS
  <2>1. q \in Seq(0 .. now) /\ Len(q) <= MaxPerWindow /\ Suffix(a, q)
    BY Zenon DEF GuardInv, WindowInv
  <2>2. Past(ips, x)' = a /\ admitted'[x] = q
    BY <1>1 DEF Past
  <2>3. q \in Seq(0 .. now')
    BY <1>1, <2>1, SeqGrows
  <2>4. Len(q) \in Nat /\ \A i \in 1 .. Len(q) : q[i] \in Int
    BY <1>1, <2>1, SeqGrows
  <2>5. Len(a) \in Nat
    <3>1. a \in Seq(0 .. now)
      <4>1. CASE x \in DOMAIN ips
        BY <4>1 DEF Past, GuardInv, TableInv, Entry
      <4>2. CASE x \notin DOMAIN ips
        BY <4>2 DEF Past
      <4> QED
        BY <4>1, <4>2, Zenon
    <3> QED
      BY <3>1
  <2>6. ASSUME NEW i \in 1 .. Len(q) - Len(a) PROVE q[i] < now' - Window
    <3>1. i \in 1 .. Len(q) /\ q[i] < now - Window
      BY <2>1, <2>4, <2>5 DEF Suffix
    <3> QED
      BY <1>1, <2>4, <3>1, Counts, Zenon
  <2> QED
    BY <2>1, <2>2, <2>3, <2>6 DEF Suffix
<1>7. WindowInv'
  BY <1>1, <1>6 DEF GuardInv, WindowInv
<1> QED
  BY <1>1, <1>4, <1>5, <1>7, Zenon DEF GuardInv

(* Nobody is in at first and after a restart. *)
LEMMA EmptyFits ==
  ASSUME now \in Nat
  PROVE  /\ Fits(<<>>, [ip \in IPs |-> <<>>]) /\ \A ip \in IPs : Inflight(<<>>, ip) = 0
         /\ Cardinality({}) = 0
<1>1. DOMAIN <<>> = {} /\ <<>> \in Seq(0 .. now) /\ Len(<<>>) = 0
  OBVIOUS
<1>2. <<>> = [x \in DOMAIN <<>> |-> <<>>[x]]
  OBVIOUS
<1>3. IsFiniteSet({}) /\ Cardinality({}) = 0 /\ 0 <= MaxTracked /\ 0 <= MaxPerWindow
  BY FS_EmptySet, GuardAssumption
<1>4. Suffix(<<>>, <<>>)
  BY <1>1 DEF Suffix
<1> QED
  BY <1>1, <1>2, <1>3, <1>4 DEF Fits, Past, Inflight

-----------------------------------------------------------------------------
(* The listener. *)

(* The invariant holds at first. *)
LEMMA ListenerStarts == ListenerInit => ListenerInv
<1> SUFFICES ASSUME ListenerInit PROVE ListenerInv
  OBVIOUS
<1>1. now \in 0 .. MaxTime /\ now \in Nat /\ scene \in Scenarios
  BY ListenerAssumption DEF ListenerInit
<1>2. /\ ips = <<>> /\ total = 0 /\ holder = [c \in Inbound |-> NoIp] /\ admitted = [ip \in IPs |-> <<>>]
      /\ pc = [c \in Conns |-> "new"]
  BY DEF ListenerInit, NobodyIn, Init
<1>3. Fits(ips, admitted) /\ (\A ip \in IPs : Inflight(ips, ip) = 0) /\ Cardinality({}) = 0
  BY <1>1, <1>2, EmptyFits
<1>4. {c \in Inbound : holder[c] # NoIp} = {} /\ \A ip \in IPs : Running(ip) = {}
  BY <1>2, GuardAssumption, Zenon DEF Running
<1>5. total \in 0 .. MaxInflight /\ holder \in [Inbound -> IPs \cup {NoIp}]
  BY <1>2, GuardAssumption
<1>6. GuardInv
  BY <1>1, <1>2, <1>3, <1>4, <1>5, GuardInvFrom, ZenonT(60)
<1>7. HoldsInHandshake
  BY <1>2, ListenerAssumption, Zenon DEF HoldsInHandshake, Accepted
<1> QED
  BY <1>1, <1>6, <1>7, Zenon DEF ListenerInv

(* Where a step of a connection leaves the coroutines. *)
LEMMA PlacesMove ==
  ASSUME DOMAIN pc = Conns, NEW c \in Conns
  PROVE  /\ Begin(c) => pc' \in {[pc EXCEPT ![c] = "handshake"], [pc EXCEPT ![c] = "over"]}
         /\ HandshakeFails(c) \/ KnownPeer(c) \/ AskConsent(c) =>
              pc[c] = "handshake" /\ \E p \in {"over", "registered", "reading", "consent"} : pc' = [pc EXCEPT ![c] = p]
         /\ Approved(c) \/ Denied(c) \/ ReadLoopStarts(c) \/ ReadLoopEnds(c) =>
              pc[c] # "handshake" /\ \E p \in {"over", "registered", "reading"} : pc' = [pc EXCEPT ![c] = p]
         /\ WriterFails(c) => pc' = pc
<1>1. Begin(c) => pc' \in {[pc EXCEPT ![c] = "handshake"], [pc EXCEPT ![c] = "over"]}
  BY DEF Begin, At
<1>2. HandshakeFails(c) \/ KnownPeer(c) \/ AskConsent(c) =>
        pc[c] = "handshake" /\ \E p \in {"over", "registered", "reading", "consent"} : pc' = [pc EXCEPT ![c] = p]
  BY ZenonT(60) DEF HandshakeFails, KnownPeer, AskConsent, Admit, At
<1>3. Approved(c) \/ Denied(c) \/ ReadLoopStarts(c) \/ ReadLoopEnds(c) =>
        pc[c] # "handshake" /\ \E p \in {"over", "registered", "reading"} : pc' = [pc EXCEPT ![c] = p]
  BY Zenon DEF Approved, Denied, ReadLoopStarts, ReadLoopEnds, Admit, At
<1>4. WriterFails(c) => pc' = pc
  BY Zenon DEF WriterFails
<1> QED
  BY <1>1, <1>2, <1>3, <1>4

(* The sliding window at one step: who gets a slot had room in it. *)
WindowStep ==
  \A ip \in IPs :
    (\E c \in Inbound : holder[c] # ip /\ holder'[c] = ip) /\ Len(admitted[ip]) = MaxPerWindow
      => now - admitted[ip][1] > Window

(* A step that does not touch the guard. *)
LEMMA GuardStutters ==
  ASSUME GuardInv, UNCHANGED guard
  PROVE  GuardInv' /\ holder' = holder
BY DEF guard, GuardInv, TableInv, TableBounded, Entry, InflightExact, Running, WindowInv, Suffix, Past

(* A restart begins with an empty table. *)
LEMMA StartAgainKeeps ==
  ASSUME GuardInv, StartAgain
  PROVE  GuardInv' /\ holder' = [c \in Inbound |-> NoIp]
<1>1. /\ ips' = <<>> /\ total' = 0 /\ holder' = [c \in Inbound |-> NoIp]
      /\ admitted' = [ip \in IPs |-> <<>>] /\ now' = now
  BY DEF StartAgain
<1>2. now \in 0 .. MaxTime /\ now \in Nat
  BY DEF GuardInv, TableInv
<1>3. /\ Fits(<<>>, [ip \in IPs |-> <<>>]) /\ (\A ip \in IPs : Inflight(<<>>, ip) = 0)
      /\ Cardinality({}) = 0
  BY <1>2, EmptyFits
<1>4. Fits(ips, admitted)'
  BY <1>1, <1>3, FitsNext
<1>5. {c \in Inbound : holder'[c] # NoIp} = {} /\ \A ip \in IPs : Running(ip)' = {}
  BY <1>1, GuardAssumption, Zenon DEF Running
<1>6. \A ip \in IPs : Inflight(ips, ip)' = 0
  BY <1>1, <1>3, Zenon DEF Inflight
<1>7. now' \in 0 .. MaxTime /\ total' \in 0 .. MaxInflight /\ holder' \in [Inbound -> IPs \cup {NoIp}]
  BY <1>1, <1>2, GuardAssumption
<1>8. TableInv'
  BY <1>4, <1>7 DEF TableInv, TableBounded, Fits
<1>9. InflightExact'
  BY <1>1, <1>3, <1>5, <1>6, ZenonT(60) DEF InflightExact, Inflight
<1>10. WindowInv'
  BY <1>4, Zenon DEF WindowInv, Fits
<1> QED
  BY <1>1, <1>8, <1>9, <1>10 DEF GuardInv

(* One case per step of the listener. *)
LEMMA ListenerKeeps == ListenerInv /\ [ListenerNext]_listener => ListenerInv' /\ WindowStep
<1> SUFFICES ASSUME ListenerInv, [ListenerNext]_listener PROVE ListenerInv' /\ WindowStep
  BY Zenon
<1>1. /\ GuardInv /\ DOMAIN pc = Conns /\ (\A c \in Accepted : holder[c] # NoIp <=> pc[c] = "handshake")
      /\ scene \in Scenarios /\ scene' = scene
  BY DEF ListenerInv, HoldsInHandshake, ListenerNext, listener
<1>2. /\ Accepted \subseteq Inbound /\ Accepted \subseteq Conns /\ NoIp \notin IPs
      /\ Accepted \cap Outgoing = {} /\ Outgoing \subseteq Conns
      /\ \A c \in Accepted : AddressOf[c] \in IPs
      /\ holder \in [Inbound -> IPs \cup {NoIp}]
      /\ scene.made \subseteq Conns /\ scene.crowd \subseteq IPs
      /\ Strangers \subseteq Inbound /\ Strangers \cap Accepted = {}
  BY <1>1, ListenerAssumption, GuardAssumption, PeersAssumption, ZenonT(60) DEF Accepted, Strangers, GuardInv, TableInv
<1>3. ASSUME GuardInv', holder' = holder \/ (\A c \in Inbound : holder'[c] = NoIp)
                        \/ \E c \in Inbound : holder' = [holder EXCEPT ![c] = NoIp],
             HoldsInHandshake'
      PROVE  ListenerInv' /\ WindowStep
  <2>1. WindowStep
    BY <1>2, <1>3 DEF WindowStep
  <2> QED
    BY <1>1, <1>3, <2>1, ZenonT(60) DEF ListenerInv
<1>4. ASSUME NEW c \in Inbound, NEW ip \in IPs, Acquire(c, ip), HoldsInHandshake'
      PROVE  ListenerInv' /\ WindowStep
  <2>1. /\ GuardInv' /\ holder' = [holder EXCEPT ![c] = ip]
        /\ Len(admitted[ip]) = MaxPerWindow => now - admitted[ip][1] > Window
    BY <1>1, <1>4, AcquireKeeps, ZenonT(60)
  <2>2. \A x \in IPs, d \in Inbound : holder[d] # x /\ holder'[d] = x => x = ip
    BY <1>2, <2>1
  <2>3. WindowStep
    BY <2>1, <2>2, Zenon DEF WindowStep
  <2> QED
    BY <1>1, <1>4, <2>1, <2>3, ZenonT(60) DEF ListenerInv
<1>5. ASSUME NEW c \in scene.made, Arrive(c) PROVE ListenerInv' /\ WindowStep
  <2>1. c \in Accepted /\ c \in Conns /\ c \in Inbound /\ AddressOf[c] \in IPs /\ Begin(c) /\ pc[c] = "new"
    BY <1>2, <1>5, ZenonT(60) DEF Arrive, Begin
  <2>2. pc' = [pc EXCEPT ![c] = "handshake"] \/ pc' = [pc EXCEPT ![c] = "over"]
    BY <1>1, <2>1, PlacesMove, ZenonT(60)
  <2>3. CASE pc'[c] = "handshake"
    <3>1. Acquire(c, AddressOf[c]) /\ holder' = [holder EXCEPT ![c] = AddressOf[c]]
      BY <1>1, <1>5, <2>1, <2>3, AcquireKeeps, ZenonT(60) DEF Arrive
    <3>2. HoldsInHandshake'
      BY <1>1, <1>2, <2>1, <2>2, <2>3, <3>1, Zenon DEF HoldsInHandshake
    <3> QED
      BY <1>4, <2>1, <3>1, <3>2, ZenonT(60)
  <2>4. CASE pc'[c] # "handshake"
    <3>1. GuardInv' /\ holder' = holder
      BY <1>1, <1>5, <2>1, <2>4, TurnedAwayKeeps, ZenonT(60) DEF Arrive
    <3>2. HoldsInHandshake'
      BY <1>1, <1>2, <2>1, <2>2, <2>4, <3>1, ZenonT(60) DEF HoldsInHandshake
    <3> QED
      BY <1>3, <3>1, <3>2, ZenonT(60)
  <2> QED
    BY <2>3, <2>4, ZenonT(60)
<1>6. ASSUME NEW c \in scene.made, HandshakeEnds(c) PROVE ListenerInv' /\ WindowStep
  <2>1. c \in Accepted /\ c \in Conns /\ c \in Inbound
    BY <1>2, <1>6 DEF HandshakeEnds
  <2>2. PICK p \in {"over", "registered", "reading", "consent"} : pc' = [pc EXCEPT ![c] = p]
    BY <1>1, <1>6, <2>1, PlacesMove, ZenonT(60) DEF HandshakeEnds
  <2>3. GuardInv' /\ holder' = [holder EXCEPT ![c] = NoIp]
    BY <1>1, <1>6, <2>1, ReleaseKeeps, ZenonT(60) DEF HandshakeEnds
  <2>4. HoldsInHandshake'
    BY <1>1, <1>2, <2>1, <2>2, <2>3, ZenonT(60) DEF HoldsInHandshake
  <2> QED
    BY <1>3, <2>1, <2>3, <2>4, ZenonT(60)
<1>7. ASSUME NEW c \in scene.made, Dial(c) \/ Later(c) PROVE ListenerInv' /\ WindowStep
  <2>1. GuardInv' /\ holder' = holder
    BY <1>1, <1>7, GuardStutters, Zenon DEF Dial, Later
  <2>2. c \in Conns
    BY <1>2
  <2>3. CASE pc' = pc
    <3>1. HoldsInHandshake'
      BY <1>1, <2>1, <2>3, Zenon DEF HoldsInHandshake
    <3> QED
      BY <1>3, <2>1, <3>1
  <2>4. ASSUME NEW p, pc' = [pc EXCEPT ![c] = p],
               c \in Accepted => pc[c] # "handshake" /\ p # "handshake"
        PROVE  ListenerInv' /\ WindowStep
    <3>1. HoldsInHandshake'
      BY <1>1, <1>2, <2>1, <2>2, <2>4, ZenonT(60) DEF HoldsInHandshake
    <3> QED
      BY <1>3, <2>1, <3>1
  <2>5. CASE Dial(c)
    BY <1>1, <1>2, <2>2, <2>4, <2>5, PlacesMove, ZenonT(60) DEF Dial
  <2>6. CASE Later(c)
    BY <1>1, <2>2, <2>3, <2>4, <2>6, PlacesMove, ZenonT(60) DEF Later
  <2> QED
    BY <1>7, <2>5, <2>6
<1>8. ASSUME Stranger PROVE ListenerInv' /\ WindowStep
  <2>1. pc' = pc
    BY <1>8 DEF Stranger, vars, connections
  <2>2. ASSUME NEW ip \in IPs, Rejected(ip) \/ PinRefused(ip) PROVE ListenerInv' /\ WindowStep
    <3>1. GuardInv' /\ holder' = holder
      BY <1>1, <2>2, TurnedAwayKeeps, Zenon
    <3> QED
      BY <1>1, <1>3, <2>1, <3>1, Zenon DEF HoldsInHandshake
  <2>3. ASSUME NEW ip \in IPs, NEW c \in Strangers, Acquire(c, ip) PROVE ListenerInv' /\ WindowStep
    <3>1. c \in Inbound /\ c \notin Accepted /\ holder' = [holder EXCEPT ![c] = ip]
      BY <1>2, <2>3, Zenon DEF Acquire
    <3>2. HoldsInHandshake'
      BY <1>1, <1>2, <2>1, <3>1, ZenonT(60) DEF HoldsInHandshake
    <3> QED
      BY <1>4, <2>3, <3>1, <3>2, Zenon
  <2> QED
    BY <1>2, <1>8, <2>2, <2>3, ZenonT(60) DEF Stranger
<1>9. ASSUME StrangerLeaves PROVE ListenerInv' /\ WindowStep
  <2>1. pc' = pc
    BY <1>9 DEF StrangerLeaves, vars, connections
  <2>2. PICK c \in Strangers : Release(c)
    BY <1>9, Zenon DEF StrangerLeaves
  <2>3. c \in Inbound /\ c \notin Accepted /\ GuardInv' /\ holder' = [holder EXCEPT ![c] = NoIp]
    BY <1>1, <1>2, <2>2, ReleaseKeeps
  <2>4. HoldsInHandshake'
    BY <1>1, <1>2, <2>1, <2>3, ZenonT(60) DEF HoldsInHandshake
  <2> QED
    BY <1>3, <2>3, <2>4, Zenon
<1>10. ASSUME Operator \/ (Tick /\ UNCHANGED vars) \/ UNCHANGED listener PROVE ListenerInv' /\ WindowStep
  <2>1. pc' = pc
    BY <1>10, Zenon DEF Operator, Revoke, Verify, listener, vars, connections
  <2>2. GuardInv' /\ holder' = holder
    BY <1>1, <1>10, GuardStutters, TickKeeps, Zenon DEF Operator, listener
  <2> QED
    BY <1>1, <1>3, <2>1, <2>2 DEF HoldsInHandshake
<1>11. ASSUME StartAgain PROVE ListenerInv' /\ WindowStep
  <2>1. GuardInv' /\ holder' = [c \in Inbound |-> NoIp]
    BY <1>1, <1>11, StartAgainKeeps, Zenon
  <2>2. pc' = [c \in Conns |-> IF pc[c] = "new" THEN "new" ELSE "over"]
    BY <1>11 DEF StartAgain, Restart
  <2>3. HoldsInHandshake'
    BY <1>2, <2>1, <2>2 DEF HoldsInHandshake
  <2> QED
    BY <1>3, <2>1, <2>3
<1> QED
  BY <1>5, <1>6, <1>7, <1>8, <1>9, <1>10, <1>11, ZenonT(60) DEF ListenerNext

(* The invariant holds in every behaviour of the listener. *)
LEMMA ListenerAlways == ListenerSpec => [](ListenerInv)
<1>1. ListenerInv /\ [ListenerNext]_listener => ListenerInv'
  BY ListenerKeeps
<1> QED
  BY <1>1, ListenerStarts, PTL DEF ListenerSpec

(* The shape of the guard's state in every behaviour of the listener. *)
THEOREM GuardTypes == ListenerSpec => []GuardTypeOK
<1>1. ListenerInv => GuardTypeOK
  BY DEF ListenerInv, GuardInv, TableInv, Entry, GuardTypeOK
<1> QED
  BY <1>1, ListenerAlways, PTL

(* acquire() and release() are paired on every path of handle_incoming:    *)
(* the counters are the handshakes that run, through evictions, restarts   *)
(* and strangers.                                                          *)
THEOREM AdmissionSound == ListenerSpec => []AdmissionExact
<1>1. ListenerInv => AdmissionExact
  BY DEF ListenerInv, GuardInv, HoldsInHandshake, AdmissionExact
<1> QED
  BY <1>1, ListenerAlways, PTL

(* _evict_if_needed keeps the table within max_tracked_ips, as long as     *)
(* fewer handshakes may run than addresses are tracked.                    *)
THEOREM TableSound == ListenerSpec => []TableBounded
<1>1. ListenerInv => TableBounded
  BY DEF ListenerInv, GuardInv, TableInv
<1> QED
  BY <1>1, ListenerAlways, PTL

(* acquire() lets no address in more than max_per_ip_per_window times      *)
(* within the window.                                                      *)
THEOREM RateSound == ListenerSpec => WindowLimit
<1>1. ListenerInv /\ [ListenerNext]_listener => [WindowStep]_guard
  BY ListenerKeeps
<1>2. [WindowStep]_guard <=>
      [\A ip \in IPs :
         (\E c \in Inbound : holder[c] # ip /\ holder'[c] = ip)
           /\ Len(admitted[ip]) = MaxPerWindow => now - admitted[ip][1] > Window]_guard
  BY DEF WindowStep
<1> QED
  BY <1>1, <1>2, ListenerAlways, PTL DEF ListenerSpec, WindowLimit

(* The listener's steps are PeerManager's, so its theorems hold of it. *)
THEOREM ListenerImplements == ListenerSpec => Spec
<1>1. ListenerInit => Init
  BY ZenonT(60) DEF ListenerInit
<1>2. ListenerInv /\ [ListenerNext]_listener => [Next]_vars
  <2> SUFFICES ASSUME ListenerInv, [ListenerNext]_listener PROVE [Next]_vars
    OBVIOUS
  <2>1. scene.made \subseteq Conns
    BY ListenerAssumption, Zenon DEF ListenerInv
  <2>2. ASSUME NEW c \in scene.made, Arrive(c) \/ HandshakeEnds(c) \/ Dial(c) \/ Later(c) PROVE Next
    BY <2>1, <2>2, Zenon DEF Arrive, HandshakeEnds, Dial, Later, Next, Connection
  <2> QED
    BY <2>2 DEF ListenerNext, Stranger, StrangerLeaves, Operator, StartAgain, Next, listener
<1> QED
  BY <1>1, <1>2, ListenerAlways, PTL DEF ListenerSpec, Spec

=============================================================================
