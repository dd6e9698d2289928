-------------------------- MODULE ReplicationLemmas -------------------------
(***************************************************************************)
(* The inductive invariant behind the theorems about Replication, and what *)
(* its steps do to the channels, for every set of requests, every payload  *)
(* size, chunk threshold and limit, and any number of connections.         *)
(***************************************************************************)
EXTENDS Replication, TLAPS

-----------------------------------------------------------------------------
(* The inductive invariant.                                                *)

Types == {"store", "store_chunked", "chunk", "load", "free", "stored", "nack", "not_found", "data",
          "data_chunked", "freed", "not_freed", "open", "cancelled"}
Message == [type : Types, req : Reqs, data : Seq(Nat), total : Nat, final : BOOLEAN]
Channels == [Conns -> [Nodes -> [Streams -> Seq(Message)]]]
BufferType == [got : Seq(Nat), total : Nat, old : BOOLEAN]
Outcome == [out : Types \cup {"none", "failed"}, data : Seq(Nat)]
Stream == [conn : Conns, data : Seq(Nat), pos : Nat]
Phases == {"idle", "sending", "awaiting", "collecting", "expired", "done"}

(* The messages that n sent and that are still under way. *)
Elements(q) == {q[i] : i \in 1 .. Len(q)}
InFlight(ch, n) == UNION {UNION {Elements(ch[c][n][s]) : s \in Streams} : c \in Conns}

(* What each variable holds.  A streamed reply has a chunk left to send.   *)
LinksOK ==
  /\ opened \in Nat /\ spare \in Nat /\ opened + spare \in 1 .. MaxConns
  /\ alive \subseteq 1 .. opened
  /\ route \in [Nodes -> 0 .. opened] /\ ended \subseteq Nodes \X Conns
  /\ frail \subseteq Nodes /\ broken \subseteq Nodes \X Conns
  /\ chan \in Channels
  /\ \A c \in Conns, n \in Nodes, s \in Streams : c \notin alive => chan[c][n][s] = <<>>
ClientOK ==
  /\ phase \in [Reqs -> Phases] /\ pos \in [Stores -> Nat]
  /\ pending \subseteq Reqs
  /\ reply \in [Reqs -> Message]
  /\ pulls \in [DOMAIN pulls -> BufferType] /\ pulled \in [DOMAIN pulled -> Outcome]
  /\ DOMAIN pulls \subseteq DOMAIN pulled /\ DOMAIN pulled \subseteq Loads
  /\ result \in [Reqs -> Outcome]
ServerOK ==
  /\ held \in [DOMAIN held -> Seq(Nat)] /\ DOMAIN held \subseteq committed
  /\ committed \subseteq Stores
  /\ pushes \in [DOMAIN pushes -> BufferType] /\ DOMAIN pushes \subseteq Stores
  /\ serving \in [DOMAIN serving -> Stream] /\ DOMAIN serving \subseteq Loads
  /\ \A r \in DOMAIN serving : serving[r].pos < Len(serving[r].data)
ShapeInv == LinksOK /\ ClientOK /\ ServerOK

(* Who sends what: each message belongs to a request of its kind, and a    *)
(* future holds an answer to its own request.                              *)
Asks(m) ==
  \/ m.type \in {"store", "store_chunked", "chunk"} /\ m.req \in Stores
  \/ m.type = "load" /\ m.req \in Loads
  \/ m.type = "free" /\ m.req \in Frees
Answers(m) ==
  \/ m.type \in {"stored", "nack"} /\ m.req \in Stores
  \/ m.type \in {"not_found", "data", "data_chunked"} /\ m.req \in Loads
  \/ m.type \in {"freed", "not_freed"} /\ m.req \in Frees
KindInv ==
  /\ \A m \in InFlight(chan, "client") : Asks(m)
  /\ \A m \in InFlight(chan, "server") : Answers(m) \/ (m.type = "chunk" /\ m.req \in Loads)
  /\ \A r \in Reqs :
       \/ reply[r].type \in {"open", "cancelled"}
       \/ Answers(reply[r]) /\ reply[r].req = r

(* What the client keeps belongs to a request that is in progress, and a   *)
(* coroutine that was told of a streamed reply has a collector.            *)
WaitInv ==
  /\ \A r \in Reqs : phase[r] \in {"idle", "done"} => r \notin pending /\ r \notin DOMAIN pulled
  /\ \A r \in Reqs : phase[r] = "collecting" => r \in DOMAIN pulled
  /\ \A r \in Reqs : reply[r].type = "data_chunked" /\ phase[r] # "done" => r \in DOMAIN pulled

(* A request is made once: its first message exists in one place, and not  *)
(* before the client begins.                                               *)
Opens(m, r) == m.req = r /\ m.type \in {"store", "store_chunked", "load", "free"}
Asked(ch, r) == \E m \in InFlight(ch, "client") : Opens(m, r)
AskedOnce(ch, r) ==
  \A c, d \in Conns, s, t \in Streams :
    \A i \in 1 .. Len(ch[c]["client"][s]), j \in 1 .. Len(ch[d]["client"][t]) :
      Opens(ch[c]["client"][s][i], r) /\ Opens(ch[d]["client"][t][j], r)
        => c = d /\ s = t /\ i = j

(* An answer `out' to r is under way or has arrived. *)
Told(r, out) ==
  \/ \E m \in InFlight(chan, "server") : m.req = r /\ m.type = out
  \/ reply[r].type = out
  \/ result[r].out = out

(* A store is asked for, then received in chunks, then decided: committed  *)
(* or refused, never both, and an answer says which.  A block that was     *)
(* freed stays created and is not held.                                    *)
Undecided(r) == r \notin committed /\ ~ Told(r, "nack")
Token(r) ==
  /\ AskedOnce(chan, r)
  /\ phase[r] = "idle" => ~ Asked(chan, r)
  /\ r \in Stores =>
       /\ phase[r] = "idle" \/ Asked(chan, r) => r \notin DOMAIN pushes
       /\ phase[r] = "idle" \/ Asked(chan, r) \/ r \in DOMAIN pushes => Undecided(r)
       /\ Told(r, "nack") => r \notin committed
       /\ Told(r, "stored") => r \in committed
  /\ r \in Frees /\ Told(r, "freed") => Target[r] \in committed \ DOMAIN held
TokenInv == \A r \in Reqs : Token(r)

-----------------------------------------------------------------------------
(* The channels.                                                           *)

(* Replacing one queue. *)
Replace(ch, c, n, s, q) == [ch EXCEPT ![c][n][s] = q]

(* What the channels are when one queue is replaced. *)
LEMMA ReplaceAt ==
  ASSUME NEW ch \in Channels, NEW c \in Conns, NEW n \in Nodes, NEW s \in Streams,
         NEW q \in Seq(Message)
  PROVE  /\ Replace(ch, c, n, s, q) \in Channels
         /\ \A b \in Conns, k \in Nodes, t \in Streams :
              Replace(ch, c, n, s, q)[b][k][t] = IF b = c /\ k = n /\ t = s THEN q ELSE ch[b][k][t]
<1> PICK d : d = Replace(ch, c, n, s, q)
  OBVIOUS
<1>1. /\ ch[c] \in [Nodes -> [Streams -> Seq(Message)]]
      /\ ch[c][n] \in [Streams -> Seq(Message)]
  BY DEF Channels
<1>2. PICK e : e = [ch[c][n] EXCEPT ![s] = q]
  BY Zenon
<1>3. e \in [Streams -> Seq(Message)] /\ \A t \in Streams : e[t] = IF t = s THEN q ELSE ch[c][n][t]
  BY <1>1, <1>2
<1>4. PICK f : f = [ch[c] EXCEPT ![n] = e]
  BY Zenon
<1>5. f \in [Nodes -> [Streams -> Seq(Message)]] /\ \A k \in Nodes : f[k] = IF k = n THEN e ELSE ch[c][k]
  BY <1>1, <1>3, <1>4
<1>6. d = [ch EXCEPT ![c] = f]
  BY <1>2, <1>4 DEF Replace
<1>7. d \in Channels /\ \A b \in Conns : d[b] = IF b = c THEN f ELSE ch[b]
  BY <1>5, <1>6 DEF Channels
<1> QED
  BY <1>3, <1>5, <1>7

(* What is under way. *)
LEMMA InFlightAt ==
  ASSUME NEW ch, NEW n, NEW m
  PROVE  m \in InFlight(ch, n) <=>
           \E c \in Conns, s \in Streams : \E i \in 1 .. Len(ch[c][n][s]) : ch[c][n][s][i] = m
<1>1. m \in InFlight(ch, n) <=> \E c \in Conns : m \in UNION {Elements(ch[c][n][s]) : s \in Streams}
  BY DEF InFlight
<1>2. \A c \in Conns : m \in UNION {Elements(ch[c][n][s]) : s \in Streams}
                       <=> \E s \in Streams : m \in Elements(ch[c][n][s])
  OBVIOUS
<1>3. \A q : m \in Elements(q) <=> \E i \in 1 .. Len(q) : q[i] = m
  BY DEF Elements
<1> QED
  BY <1>1, <1>2, <1>3

(* The connections that are alive have been made. *)
LEMMA AliveConns ==
  ASSUME LinksOK
  PROVE  alive \subseteq Conns /\ opened \in Nat /\ spare \in Nat /\ MaxConns \in Nat /\ 1 \in Conns
         /\ 1 .. opened \subseteq Conns
BY ReplicationAssumption DEF LinksOK, Conns

(* Whether what n sends is put on a connection. *)
Carries(n) == Sendable(n) /\ route[n] \in alive

(* Sending appends to one queue, if the connection is alive and open. *)
LEMMA PutAt ==
  ASSUME LinksOK, NEW ch \in Channels, NEW n \in Nodes, NEW s \in Streams, NEW m \in Message,
         NEW d, d = Put(ch, n, s, m)
  PROVE  /\ d \in Channels
         /\ \A b \in Conns, k \in Nodes, t \in Streams :
              d[b][k][t] = IF Carries(n) /\ b = route[n] /\ k = n /\ t = s
                           THEN Append(ch[b][k][t], m) ELSE ch[b][k][t]
<1>1. CASE Carries(n)
  <2>1. route[n] \in Conns
    BY <1>1, AliveConns DEF Carries
  <2>2. PICK c \in Conns : c = route[n]
    BY <2>1
  <2>3. PICK q : q = Append(ch[c][n][s], m)
    BY Zenon
  <2>4. ch[c][n][s] \in Seq(Message)
    BY DEF Channels
  <2>5. q \in Seq(Message)
    BY <2>3, <2>4
  <2>6. d = Replace(ch, c, n, s, q)
    BY <1>1, <2>2, <2>3 DEF Put, Replace, Carries
  <2>7. /\ d \in Channels
        /\ \A b \in Conns, k \in Nodes, t \in Streams :
              d[b][k][t] = IF b = c /\ k = n /\ t = s THEN q ELSE ch[b][k][t]
    BY <2>5, <2>6, ReplaceAt
  <2> QED
    BY <1>1, <2>2, <2>3, <2>7
<1>2. CASE ~ Carries(n)
  BY <1>2 DEF Put, Carries
<1> QED
  BY <1>1, <1>2, Zenon

(* The channels without the first message of a queue. *)
Take(c, n, s) == [chan EXCEPT ![c][n][s] = Tail(@)]

(* Reading removes the first message of one queue. *)
LEMMA TakeAt ==
  ASSUME LinksOK, NEW c \in Conns, NEW n \in Nodes, NEW s \in Streams, chan[c][n][s] # <<>>,
         NEW d, d = Take(c, n, s)
  PROVE  /\ d \in Channels
         /\ \A b \in Conns, k \in Nodes, t \in Streams :
              d[b][k][t] = IF b = c /\ k = n /\ t = s THEN Tail(chan[b][k][t]) ELSE chan[b][k][t]
<1>1. chan \in Channels /\ chan[c][n][s] \in Seq(Message)
  BY DEF LinksOK, Channels
<1>2. PICK q \in Seq(Message) : q = Tail(chan[c][n][s])
  <2>1. PICK p \in Seq(Message) : p = chan[c][n][s] /\ p # <<>>
    BY <1>1
  <2>2. Tail(p) \in Seq(Message)
    BY <2>1
  <2> QED
    BY <2>1, <2>2, Zenon
<1>3. d = Replace(chan, c, n, s, q)
  BY <1>2 DEF Take, Replace
<1>4. /\ d \in Channels
      /\ \A b \in Conns, k \in Nodes, t \in Streams :
              d[b][k][t] = IF b = c /\ k = n /\ t = s THEN q ELSE chan[b][k][t]
  BY <1>1, <1>3, ReplaceAt
<1> QED
  BY <1>2, <1>4

(* Sending adds nothing but the message. *)
LEMMA PutInFlight ==
  ASSUME LinksOK, NEW ch \in Channels, NEW n \in Nodes, NEW s \in Streams, NEW m \in Message,
         NEW d, d = Put(ch, n, s, m), NEW k \in Nodes
  PROVE  /\ InFlight(d, k) \subseteq InFlight(ch, k) \cup {m}
         /\ k # n => InFlight(d, k) \subseteq InFlight(ch, k)
<1>1. \A b \in Conns, t \in Streams :
        d[b][k][t] = IF Carries(n) /\ b = route[n] /\ k = n /\ t = s
                     THEN Append(ch[b][k][t], m) ELSE ch[b][k][t]
  BY PutAt
<1>2. ASSUME NEW x \in InFlight(d, k), x \notin InFlight(ch, k) PROVE k = n /\ x = m
  <2>1. PICK b \in Conns, t \in Streams : \E i \in 1 .. Len(d[b][k][t]) : d[b][k][t][i] = x
    BY <1>2, InFlightAt
  <2>2. PICK q : q = ch[b][k][t]
    OBVIOUS
  <2>3. q \in Seq(Message) /\ \A i \in 1 .. Len(q) : q[i] # x
    BY <1>2, <2>2, InFlightAt, SMTT(30) DEF Channels
  <2>4. d[b][k][t] # q
    BY <2>1, <2>3
  <2>5. k = n /\ d[b][k][t] = Append(q, m)
    BY <1>1, <2>2, <2>4, Zenon
  <2>6. \E i \in 1 .. Len(q) + 1 : Append(q, m)[i] = x
    BY <2>1, <2>3, <2>5
  <2> QED
    BY <2>3, <2>5, <2>6
<1> QED
  BY <1>2

(* Receiving takes the first message, which was under way, and no other.   *)
LEMMA TakeInFlight ==
  ASSUME LinksOK, NEW c \in Conns, NEW n \in Nodes, NEW s \in Streams, chan[c][n][s] # <<>>,
         NEW d, d = Take(c, n, s), NEW k \in Nodes
  PROVE  /\ Head(chan[c][n][s]) \in InFlight(chan, n)
         /\ Head(chan[c][n][s]) \in Message
         /\ InFlight(d, k) \subseteq InFlight(chan, k)
<1>1. \A b \in Conns, t \in Streams :
        d[b][k][t] = IF b = c /\ k = n /\ t = s THEN Tail(chan[b][k][t]) ELSE chan[b][k][t]
  BY TakeAt
<1>2. chan \in Channels
  BY DEF LinksOK
<1>3. ASSUME NEW x \in InFlight(d, k) PROVE x \in InFlight(chan, k)
  <2>1. PICK b \in Conns, t \in Streams : \E i \in 1 .. Len(d[b][k][t]) : d[b][k][t][i] = x
    BY <1>3, InFlightAt
  <2>2. PICK q : q = chan[b][k][t]
    OBVIOUS
  <2>3. q \in Seq(Message)
    BY <1>2, <2>2 DEF Channels
  <2>4. d[b][k][t] = q \/ (q # <<>> /\ d[b][k][t] = Tail(q))
    BY <1>1, <2>2
  <2>5. \E i \in 1 .. Len(q) : q[i] = x
    BY <2>1, <2>3, <2>4
  <2> QED
    BY <2>2, <2>5, InFlightAt
<1>4. PICK q : q = chan[c][n][s]
  OBVIOUS
<1>5. q \in Seq(Message) /\ q # <<>>
  BY <1>2, <1>4 DEF Channels
<1>6. 1 \in 1 .. Len(q) /\ q[1] = Head(q) /\ Head(q) \in Message
  BY <1>5
<1>7. Head(q) \in InFlight(chan, n)
  BY <1>4, <1>6, InFlightAt
<1> QED
  BY <1>3, <1>4, <1>6, <1>7

(* Nor is anything, after a read, on a connection that is not alive. *)
LEMMA TakeIsEmpty ==
  ASSUME LinksOK, NEW c \in Conns, NEW n \in Nodes, NEW s \in Streams, chan[c][n][s] # <<>>,
         NEW d, d = Take(c, n, s)
  PROVE  \A b \in Conns, k \in Nodes, t \in Streams : b \notin alive => d[b][k][t] = <<>>
<1>1. \A b \in Conns, k \in Nodes, t \in Streams : b \notin alive => chan[b][k][t] = <<>>
  BY DEF LinksOK
<1>2. c \in alive
  BY <1>1, Zenon
<1> QED
  BY <1>1, <1>2, TakeAt

(* Sending keeps a request's first message in one place. *)
LEMMA PutAskedOnce ==
  ASSUME LinksOK, NEW ch \in Channels, NEW n \in Nodes, NEW s \in Streams, NEW m \in Message,
         NEW d, d = Put(ch, n, s, m), NEW r \in Reqs, AskedOnce(ch, r),
         n = "client" /\ Opens(m, r) => ~ Asked(ch, r)
  PROVE  AskedOnce(d, r)
<1> DEFINE Old(b, t, i) == /\ i \in 1 .. Len(ch[b]["client"][t])
                           /\ d[b]["client"][t][i] = ch[b]["client"][t][i]
           New(b, t, i) == /\ n = "client" /\ b = route[n] /\ t = s
                           /\ i = Len(ch[b]["client"][t]) + 1 /\ d[b]["client"][t][i] = m
<1>1. ASSUME NEW b \in Conns, NEW t \in Streams, NEW i \in 1 .. Len(d[b]["client"][t])
      PROVE  Old(b, t, i) \/ New(b, t, i)
  <2>1. d[b]["client"][t] = IF Carries(n) /\ b = route[n] /\ "client" = n /\ t = s
                            THEN Append(ch[b]["client"][t], m) ELSE ch[b]["client"][t]
    BY PutAt DEF Nodes
  <2>2. PICK q \in Seq(Message) : q = ch[b]["client"][t]
    BY DEF Channels, Nodes
  <2>3. CASE d[b]["client"][t] = q
    BY <2>2, <2>3
  <2>4. CASE d[b]["client"][t] # q
    <3>1. n = "client" /\ b = route[n] /\ t = s /\ d[b]["client"][t] = Append(q, m)
      BY <2>1, <2>2, <2>4, Zenon
    <3>2. \/ i \in 1 .. Len(q) /\ Append(q, m)[i] = q[i]
          \/ i = Len(q) + 1 /\ Append(q, m)[i] = m
      <4>1. i \in 1 .. Len(Append(q, m))
        BY <3>1
      <4> QED
        BY <4>1
    <3> QED
      BY <2>2, <3>1, <3>2, Zenon
  <2> QED
    BY <2>3, <2>4
<1> HIDE DEF Old, New
<1>2. ASSUME NEW b \in Conns, NEW t \in Streams, NEW i, Old(b, t, i), Opens(d[b]["client"][t][i], r)
      PROVE  Asked(ch, r)
  BY <1>2, InFlightAt DEF Old, Asked
<1> SUFFICES ASSUME NEW b \in Conns, NEW e \in Conns, NEW t \in Streams, NEW u \in Streams,
                    NEW i \in 1 .. Len(d[b]["client"][t]), NEW j \in 1 .. Len(d[e]["client"][u]),
                    Opens(d[b]["client"][t][i], r), Opens(d[e]["client"][u][j], r)
             PROVE  b = e /\ t = u /\ i = j
  BY SMTT(30) DEF AskedOnce
<1>3. CASE Old(b, t, i) /\ Old(e, u, j)
  BY <1>3 DEF Old, AskedOnce
<1>4. CASE New(b, t, i) /\ New(e, u, j)
  BY <1>4, Zenon DEF New
<1>5. CASE Old(b, t, i) /\ New(e, u, j)
  BY <1>2, <1>5, Zenon DEF New
<1>6. CASE New(b, t, i) /\ Old(e, u, j)
  BY <1>2, <1>6, Zenon DEF New
<1> QED
  BY <1>1, <1>3, <1>4, <1>5, <1>6, Zenon

(* Receiving keeps it, and once it is received it is nowhere. *)
LEMMA TakeAskedOnce ==
  ASSUME LinksOK, NEW c \in Conns, NEW n \in Nodes, NEW s \in Streams, chan[c][n][s] # <<>>,
         NEW d, d = Take(c, n, s), NEW r \in Reqs, AskedOnce(chan, r)
  PROVE  /\ AskedOnce(d, r)
         /\ n = "client" /\ Opens(Head(chan[c][n][s]), r) => ~ Asked(d, r)
<1> DEFINE Was(b, t, i) == IF n = "client" /\ b = c /\ t = s THEN i + 1 ELSE i
<1>1. ASSUME NEW b \in Conns, NEW t \in Streams, NEW i \in 1 .. Len(d[b]["client"][t])
      PROVE  /\ Was(b, t, i) \in 1 .. Len(chan[b]["client"][t])
             /\ d[b]["client"][t][i] = chan[b]["client"][t][Was(b, t, i)]
  <2>1. d[b]["client"][t] = IF b = c /\ "client" = n /\ t = s
                            THEN Tail(chan[b]["client"][t]) ELSE chan[b]["client"][t]
    BY TakeAt DEF Nodes
  <2>2. PICK q \in Seq(Message) : q = chan[b]["client"][t]
    BY SMTT(30) DEF LinksOK, Channels, Nodes
  <2>3. CASE n = "client" /\ b = c /\ t = s
    <3>1. q # <<>> /\ d[b]["client"][t] = Tail(q) /\ Was(b, t, i) = i + 1
      BY <2>1, <2>2, <2>3
    <3>2. i + 1 \in 1 .. Len(q) /\ Tail(q)[i] = q[i + 1]
      BY <2>2, <3>1
    <3> QED
      BY <2>2, <3>1, <3>2
  <2>4. CASE ~ (n = "client" /\ b = c /\ t = s)
    BY <2>1, <2>4
  <2> QED
    BY <2>3, <2>4
<1>2. AskedOnce(d, r)
  <2> SUFFICES ASSUME NEW b \in Conns, NEW e \in Conns, NEW t \in Streams, NEW u \in Streams,
                      NEW i \in 1 .. Len(d[b]["client"][t]), NEW j \in 1 .. Len(d[e]["client"][u]),
                      Opens(d[b]["client"][t][i], r), Opens(d[e]["client"][u][j], r)
               PROVE  b = e /\ t = u /\ i = j
    BY DEF AskedOnce
  <2>1. b = e /\ t = u /\ Was(b, t, i) = Was(e, u, j)
    <3>1. PICK x, y : x = Was(b, t, i) /\ y = Was(e, u, j)
      BY Zenon
    <3>2. /\ x \in 1 .. Len(chan[b]["client"][t]) /\ Opens(chan[b]["client"][t][x], r)
          /\ y \in 1 .. Len(chan[e]["client"][u]) /\ Opens(chan[e]["client"][u][y], r)
      BY <1>1, <3>1, Zenon
    <3>3. b = e /\ t = u /\ x = y
      BY <3>2 DEF AskedOnce
    <3> QED
      BY <3>1, <3>3
  <2>2. i \in Int /\ j \in Int
    OBVIOUS
  <2> QED
    BY <2>1, <2>2
<1>3. ASSUME n = "client", Opens(Head(chan[c][n][s]), r), Asked(d, r) PROVE FALSE
  <2>1. PICK b \in Conns, t \in Streams : \E i \in 1 .. Len(d[b]["client"][t]) : Opens(d[b]["client"][t][i], r)
    BY <1>3, InFlightAt DEF Asked
  <2>2. PICK i \in 1 .. Len(d[b]["client"][t]) : Opens(d[b]["client"][t][i], r)
    BY <2>1
  <2>3. PICK q \in Seq(Message) : q = chan[c]["client"][s]
    BY SMTT(30) DEF LinksOK, Channels, Nodes
  <2>4. 1 \in 1 .. Len(q) /\ Opens(q[1], r)
    BY <1>3, <2>3
  <2>5. b = c /\ t = s /\ Was(b, t, i) = 1
    <3>1. PICK x : x = Was(b, t, i)
      OBVIOUS
    <3>2. x \in 1 .. Len(chan[b]["client"][t]) /\ Opens(chan[b]["client"][t][x], r)
      BY <1>1, <2>2, <3>1
    <3>3. 1 \in 1 .. Len(chan[c]["client"][s]) /\ Opens(chan[c]["client"][s][1], r)
      BY <2>3, <2>4
    <3>4. b = c /\ t = s /\ x = 1
      BY <3>2, <3>3 DEF AskedOnce
    <3> QED
      BY <3>1, <3>4
  <2> QED
    BY <1>3, <2>5
<1> QED
  BY <1>2, <1>3, Zenon

(* Losing what is in some queues adds nothing to any. *)
LEMMA LossAt ==
  ASSUME NEW d, \A b \in Conns, k \in Nodes, t \in Streams : d[b][k][t] \in {<<>>, chan[b][k][t]}
  PROVE  /\ \A k \in Nodes : InFlight(d, k) \subseteq InFlight(chan, k)
         /\ \A r \in Reqs : AskedOnce(chan, r) => AskedOnce(d, r)
<1>1. \A b \in Conns, k \in Nodes, t \in Streams : \A i \in 1 .. Len(d[b][k][t]) :
         /\ d[b][k][t] = chan[b][k][t]
         /\ i \in 1 .. Len(chan[b][k][t])
  OBVIOUS
<1>2. \A k \in Nodes : InFlight(d, k) \subseteq InFlight(chan, k)
  <2> SUFFICES ASSUME NEW k \in Nodes, NEW x \in InFlight(d, k) PROVE x \in InFlight(chan, k)
    OBVIOUS
  <2>1. PICK b \in Conns, t \in Streams : \E i \in 1 .. Len(d[b][k][t]) : d[b][k][t][i] = x
    BY InFlightAt
  <2> QED
    BY <1>1, <2>1, InFlightAt, SMTT(30)
<1>3. \A r \in Reqs : AskedOnce(chan, r) => AskedOnce(d, r)
  <2> SUFFICES ASSUME NEW r \in Reqs, AskedOnce(chan, r) PROVE AskedOnce(d, r)
    OBVIOUS
  <2> SUFFICES ASSUME NEW b \in Conns, NEW e \in Conns, NEW t \in Streams, NEW u \in Streams,
                      NEW i \in 1 .. Len(d[b]["client"][t]), NEW j \in 1 .. Len(d[e]["client"][u]),
                      Opens(d[b]["client"][t][i], r), Opens(d[e]["client"][u][j], r)
               PROVE  b = e /\ t = u /\ i = j
    BY SMTT(30) DEF AskedOnce
  <2>1. "client" \in Nodes
    BY DEF Nodes
  <2>2. PICK x, y : x = i /\ y = j
    OBVIOUS
  <2>3. /\ x \in 1 .. Len(chan[b]["client"][t]) /\ Opens(chan[b]["client"][t][x], r)
        /\ y \in 1 .. Len(chan[e]["client"][u]) /\ Opens(chan[e]["client"][u][y], r)
    BY <1>1, <2>1, <2>2, Zenon
  <2>4. b = e /\ t = u /\ x = y
    BY <2>3 DEF AskedOnce
  <2> QED
    BY <2>2, <2>4
<1> QED
  BY <1>2, <1>3

(* A lost connection loses messages and adds none. *)
LEMMA DropAt ==
  ASSUME LinksOK, NEW c \in Conns, Drop(c)
  PROVE  /\ chan' \in Channels
         /\ \A b \in Conns, k \in Nodes, t \in Streams :
              chan'[b][k][t] = IF b = c THEN <<>> ELSE chan[b][k][t]
         /\ \A k \in Nodes : InFlight(chan', k) \subseteq InFlight(chan, k)
         /\ \A r \in Reqs : AskedOnce(chan, r) => AskedOnce(chan', r)
<1>1. PICK none : none = [n \in Nodes |-> [s \in Streams |-> <<>>]]
  BY Zenon
<1>2. none \in [Nodes -> [Streams -> Seq(Message)]] /\ \A k \in Nodes, t \in Streams : none[k][t] = <<>>
  BY <1>1
<1>3. chan' = [chan EXCEPT ![c] = none] /\ chan \in Channels
  BY <1>1 DEF Drop, LinksOK
<1>4. chan' \in Channels /\ \A b \in Conns : chan'[b] = IF b = c THEN none ELSE chan[b]
  BY <1>2, <1>3 DEF Channels
<1>5. \A b \in Conns, k \in Nodes, t \in Streams : chan'[b][k][t] = IF b = c THEN <<>> ELSE chan[b][k][t]
  BY <1>2, <1>4
<1>6. PICK d : d = chan'
  OBVIOUS
<1>7. \A b \in Conns, k \in Nodes, t \in Streams : d[b][k][t] \in {<<>>, chan[b][k][t]}
  BY <1>5, <1>6
<1>8. /\ \A k \in Nodes : InFlight(d, k) \subseteq InFlight(chan, k)
      /\ \A r \in Reqs : AskedOnce(chan, r) => AskedOnce(d, r)
  BY <1>7, LossAt, Zenon
<1> QED
  BY <1>4, <1>5, <1>6, <1>8, Zenon

(* So does a failed writer, of its own node's messages. *)
LEMMA UnwrittenAt ==
  ASSUME LinksOK, NEW n \in Nodes, NEW c \in Conns, Unwritten(n, c)
  PROVE  /\ chan' \in Channels
         /\ \A b \in Conns, k \in Nodes, t \in Streams :
              chan'[b][k][t] = IF b = c /\ k = n THEN <<>> ELSE chan[b][k][t]
         /\ \A k \in Nodes : InFlight(chan', k) \subseteq InFlight(chan, k)
         /\ \A r \in Reqs : AskedOnce(chan, r) => AskedOnce(chan', r)
<1>1. PICK none : none = [s \in Streams |-> <<>>]
  BY Zenon
<1>2. none \in [Streams -> Seq(Message)] /\ \A t \in Streams : none[t] = <<>>
  BY <1>1
<1>3. PICK f : f = [chan[c] EXCEPT ![n] = none]
  BY Zenon
<1>4. chan' = [chan EXCEPT ![c] = f] /\ chan \in Channels
  BY <1>1, <1>3 DEF Unwritten, LinksOK
<1>5. f \in [Nodes -> [Streams -> Seq(Message)]] /\ \A k \in Nodes : f[k] = IF k = n THEN none ELSE chan[c][k]
  BY <1>2, <1>3, <1>4 DEF Channels
<1>6. chan' \in Channels /\ \A b \in Conns : chan'[b] = IF b = c THEN f ELSE chan[b]
  BY <1>4, <1>5 DEF Channels
<1>7. \A b \in Conns, k \in Nodes, t \in Streams : chan'[b][k][t] = IF b = c /\ k = n THEN <<>> ELSE chan[b][k][t]
  BY <1>2, <1>5, <1>6
<1>8. PICK d : d = chan'
  OBVIOUS
<1>9. \A b \in Conns, k \in Nodes, t \in Streams : d[b][k][t] \in {<<>>, chan[b][k][t]}
  BY <1>7, <1>8
<1>10. /\ \A k \in Nodes : InFlight(d, k) \subseteq InFlight(chan, k)
       /\ \A r \in Reqs : AskedOnce(chan, r) => AskedOnce(d, r)
  BY <1>9, LossAt, Zenon
<1> QED
  BY <1>6, <1>7, <1>8, <1>10, Zenon

-----------------------------------------------------------------------------
(* Messages and tables.                                                    *)

(* Everything that is sent is a message. *)
LEMMA MessageTypes ==
  /\ \A type \in Types, r \in Reqs : Plain(type, r) \in Message
  /\ \A type \in Types, r \in Reqs, d \in Seq(Nat) : Header(type, r, d) \in Message
  /\ \A type \in Types, r \in Reqs, d \in Seq(Nat) : Msg(type, r, d, 0, FALSE) \in Message
  /\ \A r \in Reqs, d \in Seq(Nat) : \A i \in 1 .. Len(d) : Chunk(r, d, i) \in Message
<1>1. <<>> \in Seq(Nat) /\ \A d \in Seq(Nat) : Len(d) \in Nat
  OBVIOUS
<1>2. \A type \in Types, r \in Reqs, d \in Seq(Nat), n \in Nat, f \in BOOLEAN : Msg(type, r, d, n, f) \in Message
  BY DEF Msg, Message
<1>3. ASSUME NEW r \in Reqs, NEW d \in Seq(Nat), NEW i \in 1 .. Len(d) PROVE Chunk(r, d, i) \in Message
  <2>1. <<d[i]>> \in Seq(Nat) /\ "chunk" \in Types
    BY DEF Types
  <2>2. i \in Nat /\ Len(d) \in Nat
    OBVIOUS
  <2>3. PICK n \in Nat, u \in Seq(Nat) : n = Len(d) /\ u = <<d[i]>>
    BY <2>1, <2>2, Zenon
  <2>4. [type |-> "chunk", req |-> r, data |-> u, total |-> 0, final |-> i >= n] \in Message
    BY <2>1, <2>2 DEF Message
  <2> QED
    BY <2>3, <2>4 DEF Chunk, Msg
<1> QED
  BY <1>1, <1>2, <1>3, Zenon DEF Plain, Header

(* The units of a payload. *)
LEMMA PayloadType ==
  ASSUME NEW r \in Stores
  PROVE  Payload(r) \in Seq(Nat) /\ Len(Payload(r)) = Size[r] /\ Size[r] \in Nat
<1>1. Size[r] \in Nat
  BY ReplicationAssumption
<1>2. PICK n \in Nat : n = Size[r]
  BY <1>1
<1>3. [i \in 1 .. n |-> i] \in Seq(Nat) /\ Len([i \in 1 .. n |-> i]) = n
  OBVIOUS
<1> QED
  BY <1>2, <1>3 DEF Payload

(* Counting transfers against the limit. *)
LEMMA WithinLimit ==
  /\ 0 <= MaxInbound /\ MaxInbound \in Nat
  /\ \A k, n \in Nat : k <= n /\ n <= MaxInbound => k <= MaxInbound
  /\ \A k, n \in Nat : ~ (n >= MaxInbound) /\ (k = n \/ k = n + 1) => k <= MaxInbound
BY ReplicationAssumption

(* What goes in chunks is not empty. *)
LEMMA ChunkedLen ==
  ASSUME NEW d \in Seq(Nat), Chunked(d)
  PROVE  Len(d) > 0 /\ 0 \in Nat
BY ReplicationAssumption DEF Chunked

(* What a request's first message is. *)
LEMMA RequestIs ==
  ASSUME NEW r \in Reqs
  PROVE  /\ Request(r) \in Message /\ Request(r).req = r
         /\ Asks(Request(r)) /\ Opens(Request(r), r)
         /\ Request(r).type = "store" => Request(r).data = Payload(r)
         /\ InChunks(r) => r \in Stores /\ Request(r) = Header("store_chunked", r, Payload(r)) /\ Size[r] > 0
         /\ ~ InChunks(r) => Request(r).type \notin {"store_chunked", "chunk"}
<1>1. CASE r \in Stores
  <2>1. Payload(r) \in Seq(Nat) /\ Len(Payload(r)) = Size[r] /\ Size[r] \in Nat
    BY <1>1, PayloadType
  <2>2. CASE Chunked(Payload(r))
    <3>1. Request(r) = Header("store_chunked", r, Payload(r)) /\ InChunks(r)
      BY <1>1, <2>2, ReplicationAssumption DEF Request, InChunks
    <3>2. Size[r] > 0
      BY <2>1, <2>2, ReplicationAssumption DEF Chunked
    <3>3. Request(r) \in Message
      BY <2>1, <3>1, MessageTypes DEF Types
    <3>4. Request(r).req = r /\ Request(r).type = "store_chunked"
      BY <3>1 DEF Header, Msg
    <3> QED
      BY <1>1, <3>1, <3>2, <3>3, <3>4 DEF Asks, Opens
  <2>3. CASE ~ Chunked(Payload(r))
    <3>1. Request(r) = Msg("store", r, Payload(r), 0, FALSE) /\ ~ InChunks(r)
      BY <1>1, <2>3, ReplicationAssumption, Zenon DEF Request, InChunks
    <3>2. Request(r) \in Message
      BY <2>1, <3>1, MessageTypes, Zenon DEF Types
    <3>3. Request(r).req = r /\ Request(r).type = "store" /\ Request(r).data = Payload(r)
      BY <3>1 DEF Msg
    <3> QED
      BY <1>1, <3>1, <3>2, <3>3, Zenon DEF Asks, Opens
  <2> QED
    BY <2>2, <2>3
<1>2. CASE r \in Loads
  <2>1. Request(r) = Plain("load", r) /\ ~ InChunks(r)
    BY <1>2, ReplicationAssumption DEF Request, InChunks
  <2>2. Request(r) \in Message /\ Request(r).req = r /\ Request(r).type = "load"
    BY <2>1, MessageTypes DEF Plain, Msg, Types
  <2> QED
    BY <1>2, <2>1, <2>2 DEF Asks, Opens
<1>3. CASE r \in Frees
  <2>1. Request(r) = Plain("free", r) /\ ~ InChunks(r)
    BY <1>3, ReplicationAssumption, Zenon DEF Request, InChunks
  <2>2. Request(r) \in Message /\ Request(r).req = r /\ Request(r).type = "free"
    BY <2>1, MessageTypes DEF Plain, Msg, Types
  <2> QED
    BY <1>3, <2>1, <2>2 DEF Asks, Opens
<1> QED
  BY <1>1, <1>2, <1>3, Zenon DEF Reqs

-----------------------------------------------------------------------------
(* The steps, as far as the channels are concerned.                        *)

(* A message is handled by the node it was sent to. *)
LEMMA DeliverCases ==
  ASSUME NEW c \in Conns, NEW s \in Streams, Deliver(c, s)
  PROVE  \/ /\ chan[c]["server"][s] # <<>>
            /\ \/ PullChunk(Head(chan[c]["server"][s]), Take(c, "server", s))
               \/ TakeReply(Head(chan[c]["server"][s]), Take(c, "server", s))
         \/ /\ chan[c]["client"][s] # <<>>
            /\ \/ ServeStore(Head(chan[c]["client"][s]), Take(c, "client", s))
               \/ OpenPush(Head(chan[c]["client"][s]), Take(c, "client", s))
               \/ PushChunk(Head(chan[c]["client"][s]), Take(c, "client", s))
               \/ ServeLoad(Head(chan[c]["client"][s]), Take(c, "client", s), c)
               \/ ServeFree(Head(chan[c]["client"][s]), Take(c, "client", s))
BY Zenon DEF Deliver, Take

(* A message that is read is of the right kind. *)
LEMMA HeadKinds ==
  ASSUME LinksOK, KindInv, NEW c \in Conns, NEW s \in Streams
  PROVE  /\ chan[c]["client"][s] # <<>> =>
              /\ Head(chan[c]["client"][s]) \in Message
              /\ Head(chan[c]["client"][s]) \in InFlight(chan, "client")
              /\ Asks(Head(chan[c]["client"][s]))
         /\ chan[c]["server"][s] # <<>> =>
              /\ Head(chan[c]["server"][s]) \in Message
              /\ Head(chan[c]["server"][s]) \in InFlight(chan, "server")
              /\ \/ Answers(Head(chan[c]["server"][s]))
                 \/ Head(chan[c]["server"][s]).type = "chunk" /\ Head(chan[c]["server"][s]).req \in Loads
<1>1. "client" \in Nodes /\ "server" \in Nodes
  BY Zenon DEF Nodes
<1> QED
  BY <1>1, TakeInFlight DEF KindInv

(* A message that the server handles is answered once, or not yet.         *)
Serves(m, ch, c) ==
  \/ ServeStore(m, ch) \/ OpenPush(m, ch) \/ PushChunk(m, ch)
  \/ ServeLoad(m, ch, c) \/ ServeFree(m, ch)
(* Whatever the server handles, it sends one answer to that request, or none. *)
LEMMA ServesAnswers ==
  ASSUME ServerOK, NEW m \in Message, Asks(m), NEW ch, NEW c, Serves(m, ch, c)
  PROVE  /\ UNCHANGED <<links, client>>
         /\ \/ chan' = ch
            \/ \E t \in Streams, x \in Message :
                 Answers(x) /\ x.req = m.req /\ chan' = Put(ch, "server", t, x)
<1> DEFINE r == m.req
<1>1. r \in Reqs /\ r \in Streams /\ "control" \in Streams
  BY DEF Message, Streams
<1>2. UNCHANGED <<links, client>>
  BY Zenon DEF Serves, ServeStore, OpenPush, PushChunk, ServeLoad, ServeFree
<1>3. ASSUME NEW type \in Types, chan' = Put(ch, "server", "control", Plain(type, r)),
             Answers(Plain(type, r))
      PROVE  \E t \in Streams, x \in Message :
                 Answers(x) /\ x.req = m.req /\ chan' = Put(ch, "server", t, x)
  <2>1. Plain(type, r) \in Message /\ Plain(type, r).req = r
    BY <1>1, MessageTypes DEF Plain, Msg
  <2> QED
    BY <1>1, <1>3, <2>1
<1>4. ASSUME NEW b \in Stores PROVE Answers(Plain("stored", b)) /\ Answers(Plain("nack", b))
  BY <1>4 DEF Answers, Plain, Msg
<1>5. "stored" \in Types /\ "nack" \in Types /\ "not_found" \in Types /\ "freed" \in Types /\ "not_freed" \in Types
  BY DEF Types
<1>6. CASE ServeStore(m, ch)
  <2>1. r \in Stores
    BY <1>6 DEF ServeStore, Asks
  <2> QED
    BY <1>2, <1>3, <1>4, <1>5, <1>6, <2>1 DEF ServeStore, Commit, Reject, Answer
<1>7. CASE OpenPush(m, ch)
  <2>1. r \in Stores
    BY <1>7, Zenon DEF OpenPush, Asks
  <2> QED
    BY <1>2, <1>3, <1>4, <1>5, <1>7, <2>1, Zenon DEF OpenPush, Refuse, Reject, Answer
<1>8. CASE PushChunk(m, ch)
  <2>1. r \in Stores
    BY <1>8, Zenon DEF PushChunk, Asks
  <2> QED
    BY <1>2, <1>3, <1>4, <1>5, <1>8, <2>1, Zenon DEF PushChunk, Commit, Reject, Answer
<1>9. CASE ServeLoad(m, ch, c)
  <2>1. r \in Loads
    BY <1>9 DEF ServeLoad, Asks
  <2>2. Answers(Plain("not_found", r))
    BY <2>1, Zenon DEF Answers, Plain, Msg
  <2>3. CASE Target[r] \notin DOMAIN held
    BY <1>2, <1>3, <1>5, <1>9, <2>2, <2>3, Zenon DEF ServeLoad, Answer
  <2>4. CASE Target[r] \in DOMAIN held
    <3>1. PICK d \in Seq(Nat) : d = held[Target[r]]
      BY <2>4 DEF ServerOK
    <3>2. PICK x : x = Msg("data", r, d, 0, FALSE)
      BY Zenon
    <3>3. x \in Message /\ x.req = r /\ Answers(x)
      BY <1>1, <2>1, <3>2, MessageTypes DEF Msg, Answers, Types
    <3>4. PICK y : y = Header("data_chunked", r, d)
      OBVIOUS
    <3>5. y \in Message /\ y.req = r /\ Answers(y)
      BY <1>1, <2>1, <3>4, MessageTypes DEF Header, Msg, Answers, Types
    <3>6. chan' = Put(ch, "server", "control", x) \/ chan' = Put(ch, "server", r, y)
      BY <1>9, <2>4, <3>1, <3>2, <3>4, Zenon DEF ServeLoad, Answer
    <3> QED
      BY <1>1, <1>2, <3>3, <3>5, <3>6
  <2> QED
    BY <2>3, <2>4, Zenon
<1>10. CASE ServeFree(m, ch)
  <2>1. r \in Frees
    BY <1>10 DEF ServeFree, Asks
  <2>2. Answers(Plain("freed", r)) /\ Answers(Plain("not_freed", r))
    BY <2>1 DEF Answers, Plain, Msg
  <2> QED
    BY <1>2, <1>3, <1>5, <1>10, <2>2, Zenon DEF ServeFree, Answer
<1> QED
  BY <1>6, <1>7, <1>8, <1>9, <1>10 DEF Serves

(* The ways in which a step changes the channels. *)
Served(c, s) ==
  /\ chan[c]["client"][s] # <<>>
  /\ Serves(Head(chan[c]["client"][s]), Take(c, "client", s), c)
Sends(n, s, m) ==
  /\ UNCHANGED links /\ m \in Message /\ chan' = Put(chan, n, s, m)
  /\ IF n = "client" THEN Asks(m) /\ (m.type = "chunk" \/ (m.req \in Reqs /\ Begin(m.req) /\ m = Request(m.req)))
     ELSE m.type = "chunk" /\ m.req \in Loads
Reads(c, n, s) ==
  /\ UNCHANGED links /\ chan[c][n][s] # <<>> /\ chan' = Take(c, n, s)
  /\ n = "client" => Served(c, s)
ReadsAndAnswers(c, s, t, x) ==
  /\ UNCHANGED links /\ Served(c, s)
  /\ x \in Message /\ Answers(x) /\ x.req = Head(chan[c]["client"][s]).req
  /\ chan' = Put(Take(c, "client", s), "server", t, x)
Moves ==
  \/ UNCHANGED chan /\ (Connect \/ UNCHANGED links \/ \E n \in Nodes, c \in Conns : ReadLoopEnds(n, c) \/ WriterFails(n, c))
  \/ \E n \in Nodes, s \in Streams : \E m : Sends(n, s, m)
  \/ \E c \in Conns, n \in Nodes, s \in Streams : Reads(c, n, s)
  \/ \E c \in Conns, s \in Streams, t \in Streams : \E x : ReadsAndAnswers(c, s, t, x)
  \/ \E c \in Conns : Drop(c)
  \/ \E n \in Nodes, c \in Conns : Unwritten(n, c)

(* A request begins with its first message. *)
LEMMA BeginMoves ==
  ASSUME NEW r \in Reqs, Begin(r)
  PROVE  /\ UNCHANGED links
         /\ \/ UNCHANGED chan
            \/ \E s \in Streams : s = (IF InChunks(r) THEN r ELSE "control") /\ Sends("client", s, Request(r))
<1>1. UNCHANGED links
  BY DEF Begin
<1>2. CASE chan' = Put(chan, "client", IF InChunks(r) THEN r ELSE "control", Request(r))
  <2>1. Request(r) \in Message /\ Asks(Request(r)) /\ Request(r).req = r
    BY RequestIs
  <2>2. PICK s \in Streams : s = IF InChunks(r) THEN r ELSE "control"
    BY DEF Streams
  <2>3. Sends("client", s, Request(r))
    BY <1>1, <1>2, <2>1, <2>2 DEF Sends
  <2> QED
    BY <1>1, <2>2, <2>3, Zenon
<1> QED
  BY <1>1, <1>2 DEF Begin

(* It goes on with the chunks of its payload. *)
LEMMA SendChunkMoves ==
  ASSUME ClientOK, NEW r \in Reqs, SendChunk(r)
  PROVE  /\ UNCHANGED links /\ r \in Stores
         /\ \/ UNCHANGED chan
            \/ Sends("client", r, Chunk(r, Payload(r), pos[r] + 1))
<1>1. UNCHANGED links /\ r \in Stores /\ pos[r] < Size[r] /\ pos[r] \in Nat
  BY Zenon DEF SendChunk, InChunks, ClientOK
<1>2. CASE chan' = Put(chan, "client", r, Chunk(r, Payload(r), pos[r] + 1))
  <2>1. Payload(r) \in Seq(Nat) /\ Len(Payload(r)) = Size[r] /\ Size[r] \in Nat
    BY <1>1, PayloadType
  <2>2. pos[r] + 1 \in 1 .. Len(Payload(r))
    BY <1>1, <2>1
  <2>3. Chunk(r, Payload(r), pos[r] + 1) \in Message
    BY <2>1, <2>2, MessageTypes, Zenon
  <2>4. Asks(Chunk(r, Payload(r), pos[r] + 1)) /\ Chunk(r, Payload(r), pos[r] + 1).type = "chunk"
    BY <1>1 DEF Asks, Chunk, Msg
  <2> QED
    BY <1>1, <1>2, <2>3, <2>4, Zenon DEF Sends
<1> QED
  BY <1>1, <1>2 DEF SendChunk

(* So does a streamed reply. *)
LEMMA StreamChunkMoves ==
  ASSUME ServerOK, NEW r \in Reqs, StreamChunk(r)
  PROVE  /\ r \in Loads /\ r \in DOMAIN serving
         /\ Sends("server", r, Chunk(r, serving[r].data, serving[r].pos + 1))
<1>1. UNCHANGED links /\ r \in DOMAIN serving /\ r \in Loads
  BY DEF StreamChunk, ServerOK
<1>2. PICK d \in Seq(Nat), p \in Nat : d = serving[r].data /\ p = serving[r].pos /\ p < Len(d)
  BY <1>1 DEF ServerOK, Stream
<1>3. p + 1 \in 1 .. Len(d)
  BY <1>2, SMTT(30)
<1>4. PICK x : x = Chunk(r, d, p + 1)
  OBVIOUS
<1>5. x \in Message /\ x.type = "chunk" /\ x.req \in Loads
  BY <1>1, <1>3, <1>4, MessageTypes, Zenon DEF Chunk, Msg
<1>6. chan' = Put(chan, "server", r, x)
  BY <1>2, <1>4 DEF StreamChunk
<1>7. Sends("server", r, x)
  BY <1>1, <1>5, <1>6 DEF Sends
<1> QED
  BY <1>1, <1>2, <1>4, <1>7

(* Every step is one of these. *)
LEMMA StepMoves ==
  ASSUME ShapeInv, KindInv, [Next]_vars
  PROVE  Moves
<1> USE DEF ShapeInv
<1>1. "client" \in Nodes /\ "server" \in Nodes /\ "control" \in Streams /\ Reqs \subseteq Streams
      /\ Stores \subseteq Reqs /\ Loads \subseteq Reqs
  BY DEF Nodes, Streams, Reqs
<1>2. ASSUME NEW r \in Reqs, Begin(r) PROVE Moves
  BY <1>1, <1>2, BeginMoves, Zenon DEF Moves
<1>3. ASSUME NEW r \in Reqs, SendChunk(r) PROVE Moves
  BY <1>1, <1>3, SendChunkMoves, Zenon DEF Moves
<1>4. ASSUME NEW r \in Reqs, StreamChunk(r) PROVE Moves
  BY <1>1, <1>4, StreamChunkMoves DEF Moves
<1>5. ASSUME NEW r \in Reqs, Sent(r) \/ Resumes(r) \/ Ages(r) \/ Evict(r)
      PROVE  Moves
  BY <1>5, Zenon DEF Sent, Resumes, Replied, Collected, TimesOut, ClearsUp, Ages, Evict, Moves
<1>6. ASSUME NEW c \in Conns, NEW s \in Streams, Deliver(c, s) PROVE Moves
  <2>1. CASE chan[c]["server"][s] # <<>> /\
              \/ PullChunk(Head(chan[c]["server"][s]), Take(c, "server", s))
              \/ TakeReply(Head(chan[c]["server"][s]), Take(c, "server", s))
    <3>1. Reads(c, "server", s)
      BY <2>1, Zenon DEF PullChunk, TakeReply, Reads
    <3> QED
      BY <1>1, <3>1 DEF Moves
  <2>2. CASE chan[c]["client"][s] # <<>> /\ Serves(Head(chan[c]["client"][s]), Take(c, "client", s), c)
    <3>1. PICK m : m = Head(chan[c]["client"][s])
      BY Zenon
    <3>2. m \in Message /\ Asks(m)
      BY <2>2, <3>1, HeadKinds
    <3>3. PICK ch : ch = Take(c, "client", s)
      BY Zenon
    <3>4. /\ UNCHANGED links
          /\ \/ chan' = ch
             \/ \E t \in Streams, x \in Message : Answers(x) /\ x.req = m.req /\ chan' = Put(ch, "server", t, x)
      BY <2>2, <3>1, <3>2, <3>3, ServesAnswers, ZenonT(60)
    <3>5. Reads(c, "client", s) \/ \E t \in Streams : \E x : ReadsAndAnswers(c, s, t, x)
      BY <2>2, <3>1, <3>3, <3>4 DEF Reads, ReadsAndAnswers, Served
    <3> QED
      BY <1>1, <3>5 DEF Moves
  <2> QED
    BY <1>6, <2>1, <2>2, DeliverCases, Zenon DEF Serves
<1>7. ASSUME NEW n \in Nodes, NEW c \in Conns, EndFails(n, c) PROVE Moves
  BY <1>7, Zenon DEF EndFails, ReadLoopEnds, WriterFails, Moves
<1>8. ASSUME NEW c \in Conns, Drop(c) PROVE Moves
  BY <1>8 DEF Moves
<1>9. CASE Connect
  BY <1>9 DEF Connect, Moves
<1>10. CASE UNCHANGED vars
  BY <1>10 DEF vars, Moves
<1> QED
  BY <1>2, <1>3, <1>4, <1>5, <1>6, <1>7, <1>8, <1>9, <1>10, Zenon DEF Next, Coroutine

(* The channels keep their shape. *)
LEMMA LinksStep ==
  ASSUME LinksOK, Moves
  PROVE  LinksOK'
<1> DEFINE Dead(ch) == \A c \in Conns, k \in Nodes, t \in Streams : c \notin alive => ch[c][k][t] = <<>>
<1>1. chan \in Channels /\ Dead(chan) /\ "client" \in Nodes /\ "server" \in Nodes
  BY Zenon DEF LinksOK, Nodes
<1>2. ASSUME UNCHANGED links, chan' \in Channels, Dead(chan') PROVE LinksOK'
  BY <1>2 DEF LinksOK, links
<1>3. ASSUME UNCHANGED chan, Connect PROVE LinksOK'
  <2>1. /\ opened' = opened + 1 /\ spare' = spare - 1 /\ alive' = alive \cup {opened'} /\ spare > 0
        /\ route' = [n \in Nodes |-> opened'] /\ UNCHANGED <<frail, ended, broken>>
    BY <1>3 DEF Connect
  <2>2. opened \in Nat /\ spare \in Nat /\ opened + spare \in 1 .. MaxConns /\ alive \subseteq 1 .. opened
        /\ ended \subseteq Nodes \X Conns /\ frail \subseteq Nodes /\ broken \subseteq Nodes \X Conns
    BY DEF LinksOK
  <2>3. opened' \in Nat /\ spare' \in Nat /\ opened' + spare' = opened + spare /\ 1 .. opened' = 1 .. opened \cup {opened'}
    BY <2>1, <2>2
  <2>4. route' \in [Nodes -> 0 .. opened']
    BY <2>1, <2>3
  <2> QED
    BY <1>1, <1>3, <2>1, <2>2, <2>3, <2>4 DEF LinksOK
<1>4. ASSUME UNCHANGED chan, NEW n \in Nodes, NEW c \in Conns, ReadLoopEnds(n, c) PROVE LinksOK'
  <2>1. /\ UNCHANGED <<opened, spare, frail, alive, broken>> /\ route' = [route EXCEPT ![n] = 0] /\ ended' = ended \cup {<<n, c>>}
    BY <1>4 DEF ReadLoopEnds
  <2>2. route' \in [Nodes -> 0 .. opened] /\ ended' \subseteq Nodes \X Conns
    BY <2>1 DEF LinksOK
  <2> QED
    BY <1>4, <2>1, <2>2 DEF LinksOK
<1>5. ASSUME NEW n \in Nodes, NEW s \in Streams, NEW m, Sends(n, s, m) PROVE LinksOK'
  <2>1. PICK d : d = chan'
    OBVIOUS
  <2>2. m \in Message /\ d = Put(chan, n, s, m) /\ UNCHANGED links
    BY <1>5, <2>1, Zenon DEF Sends
  <2>3. /\ d \in Channels
        /\ \A b \in Conns, k \in Nodes, t \in Streams :
             d[b][k][t] = IF Carries(n) /\ b = route[n] /\ k = n /\ t = s
                          THEN Append(chan[b][k][t], m) ELSE chan[b][k][t]
    BY <1>1, <2>2, PutAt
  <2>4. Dead(d)
    BY <1>1, <2>3 DEF Carries
  <2> QED
    BY <1>2, <2>1, <2>2, <2>3, <2>4
<1>6. ASSUME NEW c \in Conns, NEW n \in Nodes, NEW s \in Streams, Reads(c, n, s) PROVE LinksOK'
  <2>1. PICK d : d = chan'
    OBVIOUS
  <2>2. chan[c][n][s] # <<>> /\ d = Take(c, n, s) /\ UNCHANGED links
    BY <1>6, <2>1, Zenon DEF Reads
  <2>3. d \in Channels
    BY <2>2, TakeAt
  <2>4. Dead(d)
    BY <2>2, TakeIsEmpty
  <2> QED
    BY <1>2, <2>1, <2>2, <2>3, <2>4
<1>7. ASSUME NEW c \in Conns, NEW s \in Streams, NEW t \in Streams, NEW x, ReadsAndAnswers(c, s, t, x) PROVE LinksOK'
  <2>1. PICK d, ch : d = chan' /\ ch = Take(c, "client", s)
    BY Zenon
  <2>2. chan[c]["client"][s] # <<>> /\ x \in Message /\ d = Put(ch, "server", t, x) /\ UNCHANGED links
    BY <1>7, <2>1, Zenon DEF ReadsAndAnswers, Served
  <2>3. ch \in Channels
    BY <1>1, <2>1, <2>2, TakeAt, ZenonT(60)
  <2>4. Dead(ch)
    BY <1>1, <2>1, <2>2, TakeIsEmpty
  <2>5. /\ d \in Channels
        /\ \A b \in Conns, k \in Nodes, u \in Streams :
             d[b][k][u] = IF Carries("server") /\ b = route["server"] /\ k = "server" /\ u = t
                          THEN Append(ch[b][k][u], x) ELSE ch[b][k][u]
    BY <1>1, <2>2, <2>3, PutAt, SMTT(30)
  <2>6. Dead(d)
    BY <2>4, <2>5 DEF Carries
  <2> QED
    BY <1>2, <2>1, <2>2, <2>5, <2>6
<1>8. ASSUME NEW c \in Conns, Drop(c) PROVE LinksOK'
  <2>1. chan' \in Channels /\ \A b \in Conns, k \in Nodes, t \in Streams : chan'[b][k][t] = IF b = c THEN <<>> ELSE chan[b][k][t]
    BY <1>8, DropAt
  <2>2. alive' = alive \ {c} /\ UNCHANGED <<opened, spare, frail, route, ended, broken>>
    BY <1>8 DEF Drop
  <2>3. \A b \in Conns, k \in Nodes, t \in Streams : b \notin alive' => chan'[b][k][t] = <<>>
    BY <1>1, <2>1, <2>2
  <2>4. alive' \subseteq 1 .. opened
    BY <2>2, Zenon DEF LinksOK
  <2> QED
    BY <2>1, <2>2, <2>3, <2>4, Zenon DEF LinksOK
<1>9. ASSUME UNCHANGED chan, UNCHANGED links PROVE LinksOK'
  BY <1>1, <1>2, <1>9
<1>10. ASSUME UNCHANGED chan, NEW n \in Nodes, NEW c \in Conns, WriterFails(n, c) PROVE LinksOK'
  <2>1. UNCHANGED <<opened, spare, alive, route, ended>> /\ frail' = frail \ {n} /\ broken' = broken \cup {<<n, c>>}
    BY <1>10, Zenon DEF WriterFails
  <2>2. frail' \subseteq Nodes /\ broken' \subseteq Nodes \X Conns
    BY <2>1 DEF LinksOK
  <2> QED
    BY <1>10, <2>1, <2>2, Zenon DEF LinksOK
<1>11. ASSUME NEW n \in Nodes, NEW c \in Conns, Unwritten(n, c) PROVE LinksOK'
  <2>1. chan' \in Channels /\ \A b \in Conns, k \in Nodes, t \in Streams :
                                chan'[b][k][t] = IF b = c /\ k = n THEN <<>> ELSE chan[b][k][t]
    BY <1>11, UnwrittenAt
  <2>2. UNCHANGED links
    BY <1>11 DEF Unwritten
  <2>3. PICK d : d = chan'
    OBVIOUS
  <2>4. Dead(d)
    BY <1>1, <2>1, <2>3
  <2> QED
    BY <1>2, <2>1, <2>2, <2>3, <2>4
<1> QED
  BY <1>3, <1>4, <1>5, <1>6, <1>7, <1>8, <1>9, <1>10, <1>11, Zenon DEF Moves
=============================================================================
