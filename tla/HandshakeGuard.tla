--------------------------- MODULE HandshakeGuard ---------------------------
(***************************************************************************)
(* Admission of inbound handshakes: HandshakeGuard of memnode/ratelimit.py *)
(* as PeerManager.handle_incoming uses it.  A connection acquires a slot   *)
(* before its handshake and releases it when that has ended, failed or     *)
(* timed out.  Both calls run without suspension.  Time advances in whole  *)
(* ticks; the counters of rejections are statistics and are left out.  The *)
(* actions are put together with the connections' in Listener.             *)
(***************************************************************************)
EXTENDS Integers, Sequences, FiniteSets, Functions

CONSTANTS
  IPs,             \* source addresses, as numbers so that sorting them is defined
  Inbound,         \* inbound connections
  MaxPerWindow,    \* HANDSHAKE_MAX_PER_IP_PER_WINDOW
  Window,          \* HANDSHAKE_RATE_WINDOW_SECONDS, in ticks
  MaxInflightIp,   \* HANDSHAKE_MAX_INFLIGHT_PER_IP
  MaxInflight,     \* HANDSHAKE_MAX_INFLIGHT_TOTAL
  MaxTracked,      \* HANDSHAKE_GUARD_MAX_TRACKED_IPS
  MaxTime          \* bound on the clock

NoIp == 0
ASSUME GuardAssumption ==
  /\ IPs \subseteq Nat \ {NoIp} /\ IsFiniteSet(Inbound)
  /\ MaxPerWindow \in Nat /\ Window \in Nat /\ MaxTime \in Nat
  /\ MaxInflightIp \in Nat /\ MaxInflight \in Nat /\ MaxTracked \in Nat
(* config.py lets 128 handshakes run at once and keeps 8192 addresses.     *)
ASSUME TableAssumption == MaxInflight < MaxTracked

VARIABLES
  now,      \* time.monotonic()
  ips,      \* _ips: address -> _IpState
  total,    \* _inflight_total
  holder,   \* holder[c]: the address whose slot connection c holds, or NoIp
  admitted  \* history: when ip was let in, the last MaxPerWindow times since
            \* its entry was last evicted

guard == <<now, ips, total, holder, admitted>>

Idle(t) == {ip \in DOMAIN t : t[ip].inflight = 0}

-----------------------------------------------------------------------------
(* _evict_if_needed.                                                       *)

Stale(t) == {ip \in Idle(t) : t[ip].seen < now - Window}

(* Sorted by (last_seen, ip). *)
Before(t, x, y) == t[x].seen < t[y].seen \/ (t[x].seen = t[y].seen /\ x < y)
Oldest(t) ==
  LET n == Cardinality(Idle(t)) \div 10
  IN  {ip \in Idle(t) :
         Cardinality({x \in Idle(t) : Before(t, x, ip)}) < (IF n > 1 THEN n ELSE 1)}

MutantEvicted(t) == IF Cardinality(DOMAIN t) < MaxTracked THEN t ELSE Restrict(t, DOMAIN t \ Stale(t))
Evicted(t) ==
  LET fresh == Restrict(t, DOMAIN t \ Stale(t))
  IN  IF Cardinality(DOMAIN t) < MaxTracked THEN t
      ELSE IF Cardinality(DOMAIN fresh) < MaxTracked THEN fresh
      ELSE Restrict(fresh, DOMAIN fresh \ Oldest(fresh))

(* How many attempts have left the window: popleft() stops at the first    *)
(* that has not.                                                           *)
Expired(attempts) ==
  CHOOSE n \in 0 .. Len(attempts) :
    /\ \A i \in 1 .. n : attempts[i] < now - Window
    /\ n < Len(attempts) => attempts[n + 1] >= now - Window
Recent(attempts) == SubSeq(attempts, Expired(attempts) + 1, Len(attempts))

(* The table after acquire() has found or made the entry of ip, and        *)
(* dropped its expired attempts.                                           *)
Tracked(ip) ==
  LET t == IF ip \in DOMAIN ips THEN ips ELSE Evicted(ips)
      past == IF ip \in DOMAIN ips THEN Recent(ips[ip].attempts) ELSE <<>>
      running == IF ip \in DOMAIN ips THEN ips[ip].inflight ELSE 0
  IN  [x \in DOMAIN t \cup {ip} |->
         IF x = ip THEN [attempts |-> past, inflight |-> running, seen |-> now] ELSE t[x]]

MutantAdmissible(t, ip) ==
  total < MaxInflight /\ t[ip].inflight < MaxInflightIp /\ Len(t[ip].attempts) <= MaxPerWindow
MutantAdmissibleTotal(t, ip) ==
  total <= MaxInflight /\ t[ip].inflight < MaxInflightIp /\ Len(t[ip].attempts) < MaxPerWindow
Admissible(t, ip) ==
  /\ total < MaxInflight
  /\ t[ip].inflight < MaxInflightIp
  /\ Len(t[ip].attempts) < MaxPerWindow

-----------------------------------------------------------------------------
(* The attempt is recorded, and more handshakes are in flight.             *)
Attempted(t, ip, more) ==
  [t EXCEPT ![ip] = [attempts |-> Append(@.attempts, now), inflight |-> @.inflight + more, seen |-> now]]

LastOf(q) == IF Len(q) > MaxPerWindow THEN Tail(q) ELSE q
Remembered(t) == [ip \in IPs |-> IF ip \in DOMAIN ips \ DOMAIN t THEN <<>> ELSE admitted[ip]]
Recorded(t, ip) == [Remembered(t) EXCEPT ![ip] = LastOf(Append(@, now))]

Acquire(c, ip) ==
  LET t == Tracked(ip)
  IN  /\ holder[c] = NoIp
      /\ Admissible(t, ip)
      /\ ips' = Attempted(t, ip, 1)
      /\ total' = total + 1
      /\ holder' = [holder EXCEPT ![c] = ip]
      /\ admitted' = Recorded(t, ip)
      /\ UNCHANGED now

(* The pinned certificate does not match: acquire() and release() in one   *)
(* step.  The attempt stays.                                               *)
PinRefused(ip) ==
  LET t == Tracked(ip)
  IN  /\ Admissible(t, ip)
      /\ ips' = Attempted(t, ip, 0)
      /\ admitted' = Recorded(t, ip)
      /\ UNCHANGED <<now, total, holder>>

(* HandshakeRejected: the entry stays. *)
Rejected(ip) ==
  LET t == Tracked(ip)
  IN  /\ ~ Admissible(t, ip)
      /\ ips' = t
      /\ admitted' = Remembered(t)
      /\ UNCHANGED <<now, total, holder>>

(* release() in handle_incoming's finally clause.                          *)
Release(c) ==
  LET ip == holder[c]
      held == ips[ip].inflight > 0
      less == [ips EXCEPT ![ip].inflight = IF held THEN @ - 1 ELSE @]
  IN  /\ ip # NoIp
      /\ holder' = [holder EXCEPT ![c] = NoIp]
      /\ IF ip \in DOMAIN ips
         THEN /\ total' = IF held /\ total > 0 THEN total - 1 ELSE total
              /\ ips' = IF less[ip].inflight = 0 /\ less[ip].attempts = <<>>
                        THEN Restrict(ips, DOMAIN ips \ {ip}) ELSE less
         ELSE UNCHANGED <<total, ips>>
      /\ UNCHANGED <<now, admitted>>

Tick ==
  /\ now < MaxTime
  /\ now' = now + 1
  /\ UNCHANGED <<ips, total, holder, admitted>>

NobodyIn ==
  /\ ips = <<>>
  /\ total = 0
  /\ holder = [c \in Inbound |-> NoIp]
  /\ admitted = [ip \in IPs |-> <<>>]

-----------------------------------------------------------------------------
(* Properties.                                                             *)

(* The shape of the state. *)
GuardTypeOK ==
  /\ now \in 0 .. MaxTime
  /\ DOMAIN ips \subseteq IPs
  /\ \A ip \in DOMAIN ips :
       /\ ips[ip].attempts \in Seq(0 .. now)
       /\ ips[ip].inflight \in 0 .. MaxInflightIp
       /\ ips[ip].seen \in 0 .. now
  /\ total \in 0 .. MaxInflight
  /\ holder \in [Inbound -> IPs \cup {NoIp}]

(* The guard's counters are the handshakes that are really running, per    *)
(* address and in total, so its two caps bound those: "eviction can never  *)
(* lose track of a handshake that is still running" (ratelimit.py:154), no *)
(* release finds its entry gone, and no slot leaks.                        *)
Running(ip) == {c \in Inbound : holder[c] = ip}
InflightExact ==
  /\ total = Cardinality({c \in Inbound : holder[c] # NoIp})
  /\ \A ip \in IPs :
       Cardinality(Running(ip)) = IF ip \in DOMAIN ips THEN ips[ip].inflight ELSE 0

(* "The limiter's own bookkeeping is bounded too" (ratelimit.py:23): the   *)
(* table never outgrows MaxTracked, although a rejected attempt leaves an  *)
(* entry and an entry with a running handshake cannot be evicted.          *)
TableBounded == Cardinality(DOMAIN ips) <= MaxTracked

(* The sliding window: in no span of Window ticks are more than            *)
(* MaxPerWindow handshakes of one address admitted, whatever is rejected,  *)
(* released and dropped in between, unless its entry was evicted from a    *)
(* full table, which forgets its attempts.                                 *)
WindowLimit ==
  [][\A ip \in IPs :
       (\E c \in Inbound : holder[c] # ip /\ holder'[c] = ip)
         /\ Len(admitted[ip]) = MaxPerWindow => now - admitted[ip][1] > Window]_guard

=============================================================================
