-------------------------- MODULE ReplicationProofs -------------------------
(***************************************************************************)
(* Theorems about Replication: what a store reports is what became of it,  *)
(* a block that was freed does not come back, nothing is left behind by a  *)
(* request that is over, and the limit on open transfers is kept.          *)
(***************************************************************************)
EXTENDS ReplicationSteps

-----------------------------------------------------------------------------
(* A request is made once and decided once.                                *)

(* What becomes of a request's first message. *)
LEMMA SendsAsked ==
  ASSUME LinksOK, NEW n \in Nodes, NEW s \in Streams, NEW m, Sends(n, s, m), NEW q \in Reqs, AskedOnce(chan, q),
         n = "client" /\ Opens(m, q) => ~ Asked(chan, q)
  PROVE  /\ AskedOnce(chan', q)
         /\ Asked(chan', q) => Asked(chan, q) \/ (n = "client" /\ Opens(m, q))
<1>1. PICK d : d = chan'
  OBVIOUS
<1>2. m \in Message /\ d = Put(chan, n, s, m) /\ chan \in Channels /\ "client" \in Nodes
  BY <1>1 DEF Sends, LinksOK, Nodes
<1>3. AskedOnce(d, q)
  BY <1>2, PutAskedOnce
<1>4. /\ InFlight(d, "client") \subseteq InFlight(chan, "client") \cup {m}
      /\ "client" # n => InFlight(d, "client") \subseteq InFlight(chan, "client")
  BY <1>2, PutInFlight
<1>5. Asked(d, q) => Asked(chan, q) \/ (n = "client" /\ Opens(m, q))
  BY <1>4 DEF Asked
<1> QED
  BY <1>1, <1>3, <1>5

(* A message that is read is asked no more, and no other is asked anew. *)
LEMMA ReadsAsked ==
  ASSUME LinksOK, NEW c \in Conns, NEW n \in Nodes, NEW s \in Streams, Reads(c, n, s), NEW q \in Reqs, AskedOnce(chan, q)
  PROVE  /\ AskedOnce(chan', q)
         /\ Asked(chan', q) => Asked(chan, q)
         /\ n = "client" /\ Opens(Head(chan[c][n][s]), q) => ~ Asked(chan', q)
<1>1. PICK d : d = chan'
  OBVIOUS
<1>2. chan[c][n][s] # <<>> /\ d = Take(c, n, s) /\ "client" \in Nodes
  BY <1>1 DEF Reads, Nodes
<1>3. AskedOnce(d, q) /\ (n = "client" /\ Opens(Head(chan[c][n][s]), q) => ~ Asked(d, q))
  BY <1>2, TakeAskedOnce
<1>4. InFlight(d, "client") \subseteq InFlight(chan, "client")
  BY <1>2, TakeInFlight
<1>5. Asked(d, q) => Asked(chan, q)
  BY <1>4 DEF Asked
<1> QED
  BY <1>1, <1>3, <1>5

(* The same when it is answered. *)
LEMMA AnswersAsked ==
  ASSUME LinksOK, NEW c \in Conns, NEW s \in Streams, NEW t \in Streams, NEW x, ReadsAndAnswers(c, s, t, x),
         NEW q \in Reqs, AskedOnce(chan, q)
  PROVE  /\ AskedOnce(chan', q)
         /\ Asked(chan', q) => Asked(chan, q)
         /\ Opens(Head(chan[c]["client"][s]), q) => ~ Asked(chan', q)
<1>1. PICK d, ch : d = chan' /\ ch = Take(c, "client", s)
  OBVIOUS
<1>2. /\ chan[c]["client"][s] # <<>> /\ "client" \in Nodes /\ "server" \in Nodes /\ "server" # "client"
      /\ x \in Message /\ d = Put(ch, "server", t, x)
  BY <1>1 DEF ReadsAndAnswers, Served, Nodes
<1>3. ch \in Channels
  BY <1>1, <1>2, TakeAt
<1>4. AskedOnce(ch, q) /\ (Opens(Head(chan[c]["client"][s]), q) => ~ Asked(ch, q))
  BY <1>1, <1>2, TakeAskedOnce
<1>5. InFlight(ch, "client") \subseteq InFlight(chan, "client")
  BY <1>1, <1>2, TakeInFlight
<1>6. AskedOnce(d, q)
  BY <1>2, <1>3, <1>4, PutAskedOnce
<1>7. InFlight(d, "client") \subseteq InFlight(ch, "client")
  BY <1>2, <1>3, PutInFlight
<1>8. (Asked(d, q) => Asked(ch, q)) /\ (Asked(ch, q) => Asked(chan, q))
  BY <1>5, <1>7 DEF Asked
<1> QED
  BY <1>1, <1>4, <1>6, <1>8

(* Who is told what: the client learns only what the server has sent. *)
Outs == {"nack", "stored", "freed"}
Fresh(m) == m \in InFlight(chan', "server") /\ m \notin InFlight(chan, "server")
(* An answer that is told was told before, or is sent in this step. *)
LEMMA ToldStep ==
  ASSUME ShapeInv, KindInv, WaitInv, [Next]_vars, NEW q \in Stores \cup Frees, NEW out \in Outs,
         Told(q, out)'
  PROVE  Told(q, out) \/ \E m : Fresh(m) /\ m.req = q /\ m.type = out
<1>1. q \in Reqs /\ q \notin Loads
  BY ReplicationAssumption DEF Reqs
<1>2. out \notin {"failed", "cancelled", "open"}
  BY DEF Outs
<1>3. \/ \E m \in InFlight(chan', "server") : m.req = q /\ m.type = out
      \/ reply'[q].type = out
      \/ result'[q].out = out
  BY DEF Told, InFlight, Elements, Streams, Conns
<1>4. CASE \E m \in InFlight(chan', "server") : m.req = q /\ m.type = out
  BY <1>4 DEF Told, Fresh
<1>5. CASE reply'[q].type = out
  BY <1>1, <1>2, <1>5, ReplyStep DEF Told
<1>6. CASE result'[q].out = out
  <2>1. q \notin DOMAIN pulled
    BY <1>1 DEF ShapeInv, ClientOK
  <2>2. result'[q] = Value(reply[q].type, reply[q].data) => result'[q].out = reply[q].type
    BY DEF Value
  <2> QED
    BY <1>1, <1>2, <1>6, <2>1, <2>2, ResultStep DEF Told
<1> QED
  BY <1>3, <1>4, <1>5, <1>6

(* No request becomes idle. *)
LEMMA PhaseStep ==
  ASSUME ShapeInv, [Next]_vars, NEW q \in Reqs, phase'[q] = "idle"
  PROVE  phase[q] = "idle"
<1>1. phase \in [Reqs -> Phases]
  BY DEF ShapeInv, ClientOK
<1>2. ASSUME NEW r \in Reqs, Begin(r) \/ Coroutine(r) PROVE phase[q] = "idle"
  <2>1. CASE Begin(r)
    BY <1>1, <2>1 DEF Begin, Finish
  <2>2. CASE SendChunk(r)
    BY <1>1, <2>2 DEF SendChunk, Finish
  <2>3. CASE Replied(r)
    BY <1>1, <2>3 DEF Replied, Finish
  <2>4. CASE Sent(r) \/ Collected(r) \/ TimesOut(r) \/ ClearsUp(r)
    BY <1>1, <2>4 DEF Sent, Collected, TimesOut, ClearsUp, Finish
  <2> QED
    BY <1>2, <2>1, <2>2, <2>3, <2>4, Zenon DEF Coroutine, Resumes
<1>3. ASSUME NEW r \in Reqs, StreamChunk(r) \/ Evict(r) \/ Ages(r) PROVE UNCHANGED phase
  BY <1>3, Zenon DEF StreamChunk, Evict, Ages, client
<1>4. ASSUME NEW c \in Conns, NEW s \in Streams, Deliver(c, s) PROVE UNCHANGED phase
  BY <1>4, Zenon DEF Deliver, PullChunk, TakeReply, ServeStore, OpenPush, PushChunk, ServeLoad, ServeFree, client
<1>5. ASSUME NEW c \in Conns, Drop(c) \/ \E n \in Nodes : EndFails(n, c) PROVE UNCHANGED phase
  BY <1>5, Zenon DEF Drop, EndFails, ReadLoopEnds, WriterFails, Unwritten, client
<1>6. CASE Connect \/ UNCHANGED vars
  BY <1>6 DEF Connect, vars, client
<1> QED
  BY <1>2, <1>3, <1>4, <1>5, <1>6 DEF Next

(* Only a message that the server handles adds to what it has. *)
LEMMA ServerQuiet ==
  ASSUME ServerOK, [Next]_vars
  PROVE  \/ \E c \in Conns, s \in Streams : Served(c, s)
         \/ DOMAIN pushes' = DOMAIN pushes /\ committed' = committed /\ DOMAIN held' \subseteq DOMAIN held
<1> DEFINE Q == DOMAIN pushes' = DOMAIN pushes /\ committed' = committed /\ DOMAIN held' \subseteq DOMAIN held
<1>1. UNCHANGED server => Q
  BY Zenon DEF server
<1>2. ASSUME NEW r \in Reqs, Begin(r) \/ Coroutine(r) PROVE UNCHANGED server
  BY <1>2 DEF Begin, Coroutine, Resumes, SendChunk, Sent, Replied, Collected, TimesOut, ClearsUp
<1>3. ASSUME NEW c \in Conns, Drop(c) \/ \E n \in Nodes : EndFails(n, c) PROVE UNCHANGED server
  BY <1>3, Zenon DEF Drop, EndFails, ReadLoopEnds, WriterFails, Unwritten
<1>4. ASSUME NEW r \in Reqs, StreamChunk(r) \/ Evict(r) PROVE Q
  BY <1>4 DEF StreamChunk, Evict, Without
<1>5. ASSUME NEW r \in Reqs, Ages(r) PROVE Q
  BY <1>5 DEF Ages
<1>6. ASSUME NEW c \in Conns, NEW s \in Streams, Deliver(c, s) PROVE Served(c, s) \/ UNCHANGED server
  BY <1>6, DeliverCases, Zenon DEF Served, Serves, PullChunk, TakeReply
<1>7. CASE Connect \/ UNCHANGED vars
  BY <1>7, Zenon DEF Connect, vars, server
<1> QED
  BY <1>1, <1>2, <1>3, <1>4, <1>5, <1>6, <1>7 DEF Next

(* A request that a step is not about. *)
LEMMA TokenKeeps ==
  ASSUME NEW q \in Reqs, Token(q), AskedOnce(chan', q), Asked(chan', q) => Asked(chan, q),
         phase'[q] = "idle" => phase[q] = "idle",
         \A out \in Outs : q \in Stores \cup Frees /\ Told(q, out)' => Told(q, out),
         q \in DOMAIN pushes' => q \in DOMAIN pushes, q \in committed' <=> q \in committed,
         q \in Frees => (Target[q] \in committed \ DOMAIN held => Target[q] \in committed' \ DOMAIN held')
  PROVE  Token(q)'
<1>1. AskedOnce(chan, q)' <=> AskedOnce(chan', q)
  BY Zenon DEF AskedOnce, Opens, Streams, Conns
<1>2. Asked(chan, q)' <=> Asked(chan', q)
  BY DEF Asked, InFlight, Elements, Opens, Streams, Conns
<1>3. "nack" \in Outs /\ "stored" \in Outs /\ "freed" \in Outs
  BY DEF Outs
<1>4. Undecided(q)' <=> q \notin committed' /\ ~ Told(q, "nack")'
  BY DEF Undecided
<1>5. q \in Stores => /\ Told(q, "nack")' => Told(q, "nack")
                      /\ Told(q, "stored")' => Told(q, "stored")
  BY <1>3
<1>6. q \in Frees => (Told(q, "freed")' => Told(q, "freed"))
  BY <1>3
<1> QED
  BY <1>1, <1>2, <1>4, <1>5, <1>6, Zenon DEF Token, Undecided

(* The steps that neither begin a request nor handle one. *)
LEMMA ChannelQuiet ==
  ASSUME ShapeInv, KindInv, TokenInv, Moves, \A r \in Reqs : ~ Begin(r),
         \A c \in Conns, s \in Streams : ~ Served(c, s)
  PROVE  /\ \A q \in Reqs : AskedOnce(chan', q) /\ (Asked(chan', q) => Asked(chan, q))
         /\ \A m : Fresh(m) => m.type = "chunk"
<1>1. LinksOK /\ chan \in Channels /\ "client" \in Nodes /\ "server" \in Nodes /\ \A q \in Reqs : AskedOnce(chan, q)
  BY DEF ShapeInv, LinksOK, Nodes, TokenInv, Token
<1>2. CASE UNCHANGED chan
  BY <1>1, <1>2, Zenon DEF Fresh
<1>3. ASSUME NEW n \in Nodes, NEW s \in Streams, NEW m, Sends(n, s, m)
      PROVE  /\ \A q \in Reqs : AskedOnce(chan', q) /\ (Asked(chan', q) => Asked(chan, q))
             /\ \A x : Fresh(x) => x.type = "chunk"
  <2>1. m.type = "chunk" /\ m \in Message
    BY <1>3 DEF Sends
  <2>2. \A q : ~ Opens(m, q)
    BY <2>1 DEF Opens
  <2>3. \A q \in Reqs : AskedOnce(chan', q) /\ (Asked(chan', q) => Asked(chan, q))
    BY <1>1, <1>3, <2>2, SendsAsked, Zenon
  <2>4. PICK d : d = chan' /\ d = Put(chan, n, s, m)
    BY <1>3 DEF Sends
  <2>5. InFlight(d, "server") \subseteq InFlight(chan, "server") \cup {m}
    BY <1>1, <2>1, <2>4, PutInFlight, ZenonT(60)
  <2> QED
    BY <2>1, <2>3, <2>4, <2>5, Zenon DEF Fresh
<1>4. ASSUME NEW c \in Conns, NEW n \in Nodes, NEW s \in Streams, Reads(c, n, s)
      PROVE  /\ \A q \in Reqs : AskedOnce(chan', q) /\ (Asked(chan', q) => Asked(chan, q))
             /\ \A x : Fresh(x) => x.type = "chunk"
  <2>1. PICK d : d = chan' /\ d = Take(c, n, s) /\ chan[c][n][s] # <<>>
    BY <1>4 DEF Reads
  <2>2. InFlight(d, "server") \subseteq InFlight(chan, "server")
    BY <1>1, <2>1, TakeInFlight, Zenon
  <2> QED
    BY <1>1, <1>4, <2>1, <2>2, ReadsAsked DEF Fresh
<1>5. ASSUME NEW c \in Conns, Drop(c)
      PROVE  /\ \A q \in Reqs : AskedOnce(chan', q) /\ (Asked(chan', q) => Asked(chan, q))
             /\ \A x : Fresh(x) => x.type = "chunk"
  <2>1. /\ InFlight(chan', "server") \subseteq InFlight(chan, "server")
        /\ InFlight(chan', "client") \subseteq InFlight(chan, "client")
        /\ \A q \in Reqs : AskedOnce(chan', q)
    BY <1>1, <1>5, DropAt
  <2> QED
    BY <2>1 DEF Fresh, Asked
<1>6. ASSUME NEW n \in Nodes, NEW c \in Conns, Unwritten(n, c)
      PROVE  /\ \A q \in Reqs : AskedOnce(chan', q) /\ (Asked(chan', q) => Asked(chan, q))
             /\ \A x : Fresh(x) => x.type = "chunk"
  <2>1. /\ InFlight(chan', "server") \subseteq InFlight(chan, "server")
        /\ InFlight(chan', "client") \subseteq InFlight(chan, "client")
        /\ \A q \in Reqs : AskedOnce(chan', q)
    BY <1>1, <1>6, UnwrittenAt
  <2> QED
    BY <2>1 DEF Fresh, Asked
<1> QED
  BY <1>2, <1>3, <1>4, <1>5, <1>6, Zenon DEF Moves, ReadsAndAnswers

(* Such a step keeps what is known of every request. *)
LEMMA TokenQuiet ==
  ASSUME ShapeInv, KindInv, WaitInv, TokenInv, [Next]_vars, \A r \in Reqs : ~ Begin(r),
         \A c \in Conns, s \in Streams : ~ Served(c, s)
  PROVE  TokenInv'
<1>1. /\ \A q \in Reqs : AskedOnce(chan', q) /\ (Asked(chan', q) => Asked(chan, q))
      /\ \A m : Fresh(m) => m.type = "chunk"
  BY ChannelQuiet, StepMoves
<1>2. DOMAIN pushes' = DOMAIN pushes /\ committed' = committed /\ DOMAIN held' \subseteq DOMAIN held
  BY ServerQuiet DEF ShapeInv
<1>3. ASSUME NEW q \in Reqs PROVE Token(q)'
  <2>1. \A out \in Outs : q \in Stores \cup Frees /\ Told(q, out)' => Told(q, out)
    BY <1>1, ToldStep DEF Outs
  <2>2. Token(q) /\ (phase'[q] = "idle" => phase[q] = "idle")
    BY PhaseStep DEF TokenInv
  <2> QED
    BY <1>1, <1>2, <2>1, <2>2, TokenKeeps, Zenon
<1> QED
  BY <1>3 DEF TokenInv

(* A request is made. *)
LEMMA TokenBegin ==
  ASSUME ShapeInv, KindInv, WaitInv, TokenInv, [Next]_vars, NEW r \in Reqs, Begin(r)
  PROVE  TokenInv'
<1>1. LinksOK /\ chan \in Channels /\ "client" \in Nodes /\ "server" \in Nodes
  BY DEF ShapeInv, LinksOK, Nodes
<1>2. /\ phase[r] = "idle" /\ phase'[r] # "idle"
      /\ pushes' = pushes /\ committed' = committed /\ held' = held
  BY Zenon DEF Begin, Finish, ShapeInv, ClientOK, server
<1>3. Token(r) /\ ~ Asked(chan, r)
  BY <1>2 DEF TokenInv, Token
<1>4. /\ \A q \in Reqs : AskedOnce(chan', q) /\ (Asked(chan', q) => Asked(chan, q) \/ q = r)
      /\ \A m : ~ Fresh(m)
  <2>1. CASE UNCHANGED chan
    BY <2>1 DEF TokenInv, Token, Fresh
  <2>2. ASSUME NEW s \in Streams, Sends("client", s, Request(r))
        PROVE  /\ \A q \in Reqs : AskedOnce(chan', q) /\ (Asked(chan', q) => Asked(chan, q) \/ q = r)
               /\ \A m : ~ Fresh(m)
    <3>1. PICK m \in Message : m = Request(r) /\ m.req = r
      BY RequestIs
    <3>2. \A q : Opens(m, q) => q = r
      BY <3>1 DEF Opens
    <3>3. \A q \in Reqs : AskedOnce(chan', q) /\ (Asked(chan', q) => Asked(chan, q) \/ q = r)
      <4>1. \A q \in Reqs : AskedOnce(chan, q) /\ (Opens(m, q) => ~ Asked(chan, q))
        BY <1>3, <3>2 DEF TokenInv, Token
      <4>2. Sends("client", s, m)
        BY <2>2, <3>1
      <4> QED
        BY <1>1, <3>2, <4>1, <4>2, SendsAsked, Zenon
    <3>4. PICK d : d = chan' /\ d = Put(chan, "client", s, m)
      BY <2>2, <3>1, Zenon DEF Sends
    <3>5. InFlight(d, "server") \subseteq InFlight(chan, "server")
      BY <1>1, <3>4, PutInFlight
    <3> QED
      BY <3>3, <3>4, <3>5 DEF Fresh
  <2> QED
    BY <2>1, <2>2, BeginMoves, Zenon
<1>5. ASSUME NEW q \in Reqs PROVE \A out \in Outs : q \in Stores \cup Frees /\ Told(q, out)' => Told(q, out)
  BY <1>4, ToldStep
<1>6. ASSUME NEW q \in Reqs, q # r PROVE Token(q)'
  <2>1. Token(q) /\ (phase'[q] = "idle" => phase[q] = "idle")
    BY PhaseStep DEF TokenInv
  <2> QED
    BY <1>2, <1>4, <1>5, <1>6, <2>1, TokenKeeps, Zenon
<1>7. Token(r)'
  <2>1. AskedOnce(chan, r)'
    BY <1>4, Zenon DEF AskedOnce, Opens, Streams, Conns
  <2>2. "nack" \in Outs /\ "stored" \in Outs /\ "freed" \in Outs
    BY DEF Outs
  <2>3. r \in Stores => r \notin DOMAIN pushes' /\ r \notin committed' /\ ~ Told(r, "nack")' /\ ~ Told(r, "stored")'
    <3>1. r \in Stores => r \notin DOMAIN pushes /\ r \notin committed /\ ~ Told(r, "nack") /\ ~ Told(r, "stored")
      BY <1>2, <1>3 DEF Token, Undecided
    <3> QED
      BY <1>2, <1>5, <2>2, <3>1, Zenon
  <2>4. r \in Frees => (Told(r, "freed")' => Told(r, "freed"))
    BY <1>5, <2>2
  <2> QED
    BY <1>2, <1>3, <2>1, <2>3, <2>4, Zenon DEF Token, Undecided
<1> QED
  BY <1>6, <1>7, Zenon DEF TokenInv

(* A message that the server handles is gone, and it sends one answer at most. *)
LEMMA ServedFresh ==
  ASSUME LinksOK, NEW c \in Conns, NEW s \in Streams, chan[c]["client"][s] # <<>>,
         NEW ch, ch = Take(c, "client", s)
  PROVE  /\ chan' = ch => \A y : ~ Fresh(y)
         /\ \A t \in Streams, x \in Message : chan' = Put(ch, "server", t, x) => \A y : Fresh(y) => y = x
<1>1. "client" \in Nodes /\ "server" \in Nodes
  BY DEF Nodes
<1>2. ch \in Channels /\ InFlight(ch, "server") \subseteq InFlight(chan, "server")
  BY <1>1, TakeAt, TakeInFlight
<1>3. chan' = ch => \A y : ~ Fresh(y)
  BY <1>2 DEF Fresh
<1>4. ASSUME NEW t \in Streams, NEW x \in Message, chan' = Put(ch, "server", t, x), NEW y, Fresh(y) PROVE y = x
  <2>1. PICK d : d = chan' /\ d = Put(ch, "server", t, x)
    BY <1>4, Zenon
  <2>2. InFlight(d, "server") \subseteq InFlight(ch, "server") \cup {x}
    BY <1>1, <1>2, <2>1, PutInFlight
  <2> QED
    BY <1>2, <1>4, <2>1, <2>2, Zenon DEF Fresh
<1> QED
  BY <1>3, <1>4

(* A request that the server handles was asked and is asked no more. *)
LEMMA ServedAsked ==
  ASSUME ShapeInv, KindInv, TokenInv, NEW c \in Conns, NEW s \in Streams, Served(c, s),
         NEW m, m = Head(chan[c]["client"][s]), NEW q \in Reqs
  PROVE  /\ m \in Message /\ Asks(m)
         /\ AskedOnce(chan', q) /\ (Asked(chan', q) => Asked(chan, q))
         /\ Opens(m, q) => Asked(chan, q) /\ ~ Asked(chan', q)
<1>1. LinksOK /\ ServerOK /\ AskedOnce(chan, q) /\ "client" \in Nodes
  BY ZenonT(60) DEF ShapeInv, TokenInv, Token, Nodes
<1>2. m \in Message /\ m \in InFlight(chan, "client") /\ Asks(m)
  BY <1>1, HeadKinds DEF Served
<1>3. Opens(m, q) => Asked(chan, q)
  BY <1>2 DEF Asked
<1>4. PICK ch : ch = Take(c, "client", s)
  OBVIOUS
<1>5. Serves(m, ch, c)
  BY <1>4 DEF Served
<1>6. /\ UNCHANGED links
      /\ \/ chan' = ch
         \/ \E t \in Streams, x \in Message :
              Answers(x) /\ x.req = m.req /\ chan' = Put(ch, "server", t, x)
  BY <1>1, <1>2, <1>5, ServesAnswers, ZenonT(60)
<1>7. Reads(c, "client", s) \/ \E t \in Streams : \E x : ReadsAndAnswers(c, s, t, x)
  BY <1>4, <1>6 DEF Reads, ReadsAndAnswers, Served
<1>8. /\ AskedOnce(chan', q) /\ (Asked(chan', q) => Asked(chan, q))
      /\ Opens(m, q) => ~ Asked(chan', q)
  BY <1>1, <1>7, ReadsAsked, AnswersAsked, ZenonT(60)
<1> QED
  BY <1>2, <1>3, <1>8

(* A store is decided. *)
LEMMA TokenDecide ==
  ASSUME ShapeInv, KindInv, WaitInv, TokenInv, [Next]_vars, NEW r \in Stores, Undecided(r),
         \A q \in Reqs : AskedOnce(chan', q) /\ (Asked(chan', q) => Asked(chan, q)),
         ~ Asked(chan', r), phase[r] # "idle",
         DOMAIN pushes' \subseteq DOMAIN pushes, r \notin DOMAIN pushes',
         NEW out, \A y : Fresh(y) => y.req = r /\ y.type = out,
         \/ out = "stored" /\ committed' = committed \cup {r} /\ DOMAIN held' \subseteq DOMAIN held \cup {r}
         \/ out = "nack" /\ committed' = committed /\ held' = held
  PROVE  TokenInv'
<1>1. r \in Reqs /\ r \notin committed
  BY Zenon DEF Reqs, Undecided
<1>2. ASSUME NEW q \in Reqs, NEW o \in Outs, q \in Stores \cup Frees, Told(q, o)', ~ (q = r /\ o = out)
      PROVE  Told(q, o)
  BY <1>2, ToldStep
<1>3. ASSUME NEW q \in Reqs, q # r PROVE Token(q)'
  <2>1. Token(q) /\ (phase'[q] = "idle" => phase[q] = "idle")
    BY PhaseStep, Zenon DEF TokenInv
  <2>2. \A o \in Outs : q \in Stores \cup Frees /\ Told(q, o)' => Told(q, o)
    BY <1>2, <1>3, Zenon
  <2>3. q \in committed' <=> q \in committed
    BY <1>3, Zenon
  <2>4. q \in Frees => (Target[q] \in committed \ DOMAIN held => Target[q] \in committed' \ DOMAIN held')
    BY <1>1
  <2>5. AskedOnce(chan', q) /\ (Asked(chan', q) => Asked(chan, q)) /\ (q \in DOMAIN pushes' => q \in DOMAIN pushes)
    OBVIOUS
  <2> QED
    BY <2>1, <2>2, <2>3, <2>4, <2>5, TokenKeeps, ZenonT(60)
<1>4. Token(r)'
  <2>1. AskedOnce(chan, r)'
    BY <1>1, Zenon DEF AskedOnce, Opens, Streams, Conns
  <2>2. ~ (Asked(chan, r))'
    BY DEF Asked, InFlight, Elements, Opens, Streams, Conns
  <2>3. "nack" \in Outs /\ "stored" \in Outs
    BY Zenon DEF Outs
  <2>4. ~ Told(r, "nack") /\ ~ Told(r, "stored")
    BY <1>1, Zenon DEF TokenInv, Token, Undecided
  <2>5. Told(r, "nack")' => out = "nack"
    BY <1>1, <1>2, <2>3, <2>4, Zenon
  <2>6. Told(r, "stored")' => out = "stored"
    BY <1>1, <1>2, <2>3, <2>4, ZenonT(60)
  <2>7. r \notin Frees /\ phase'[r] # "idle"
    BY <1>1, ReplicationAssumption, PhaseStep
  <2>8. (Told(r, "nack")' => r \notin committed') /\ (Told(r, "stored")' => r \in committed')
    BY <1>1, <2>5, <2>6, Zenon
  <2> QED
    BY <2>1, <2>2, <2>7, <2>8, Zenon DEF Token
<1> QED
  BY <1>3, <1>4 DEF TokenInv

(* The server handles a store. *)
LEMMA TokenStore ==
  ASSUME ShapeInv, KindInv, WaitInv, TokenInv, [Next]_vars, NEW c \in Conns, NEW s \in Streams, Served(c, s),
         NEW m, m = Head(chan[c]["client"][s]), NEW ch, ch = Take(c, "client", s),
         m.req \in Stores, Undecided(m.req), ~ Asked(chan', m.req), phase[m.req] # "idle",
         DOMAIN pushes' \subseteq DOMAIN pushes, m.req \notin DOMAIN pushes',
         NEW d, Commit(m.req, d, ch) \/ Reject(m.req, ch)
  PROVE  TokenInv'
<1>1. PICK r \in Stores : r = m.req
  BY Zenon
<1>2. LinksOK /\ chan[c]["client"][s] # <<>> /\ "control" \in Streams /\ r \in Reqs
  BY Zenon DEF ShapeInv, Served, Streams, Reqs
<1>3. \A q \in Reqs : AskedOnce(chan', q) /\ (Asked(chan', q) => Asked(chan, q))
  BY ServedAsked, Zenon
<1>4. ASSUME NEW out \in {"stored", "nack"}, chan' = Put(ch, "server", "control", Plain(out, r))
      PROVE  \A y : Fresh(y) => y.req = r /\ y.type = out
  <2>1. PICK x \in Message : x = Plain(out, r) /\ x.req = r /\ x.type = out
    BY <1>2, MessageTypes, Zenon DEF Types, Plain, Msg
  <2>2. chan' = Put(ch, "server", "control", x)
    BY <1>4, <2>1, Zenon
  <2>3. \A y : Fresh(y) => y = x
    BY <1>2, <2>2, ServedFresh, Zenon
  <2> QED
    BY <2>1, <2>3, Zenon
<1>5. CASE held' = With(held, r, d) /\ committed' = committed \cup {r} /\ chan' = Put(ch, "server", "control", Plain("stored", r))
  <2>1. DOMAIN held' \subseteq DOMAIN held \cup {r}
    BY <1>5, Zenon DEF With
  <2>2. PICK out : out = "stored"
    BY Zenon
  <2>3. \A y : Fresh(y) => y.req = r /\ y.type = out
    BY <1>4, <1>5, <2>2, Zenon
  <2> QED
    BY <1>1, <1>3, <1>5, <2>1, <2>2, <2>3, TokenDecide, Zenon
<1>6. CASE UNCHANGED <<held, committed>> /\ chan' = Put(ch, "server", "control", Plain("nack", r))
  <2>1. PICK out : out = "nack"
    BY Zenon
  <2>2. \A y : Fresh(y) => y.req = r /\ y.type = out
    BY <1>4, <1>6, <2>1, Zenon
  <2> QED
    BY <1>1, <1>3, <1>6, <2>1, <2>2, TokenDecide, ZenonT(60)
<1> QED
  BY <1>1, <1>5, <1>6, Zenon DEF Commit, Reject, Answer

(* The server handles a message and decides nothing. *)
LEMMA TokenCalm ==
  ASSUME ShapeInv, KindInv, WaitInv, TokenInv, [Next]_vars, NEW c \in Conns, NEW s \in Streams, Served(c, s),
         DOMAIN pushes' \subseteq DOMAIN pushes, committed' = committed, DOMAIN held' \subseteq DOMAIN held,
         \A y : Fresh(y) => y.type \notin Outs
  PROVE  TokenInv'
<1>1. ASSUME NEW q \in Reqs PROVE Token(q)'
  <2>1. \A out \in Outs : q \in Stores \cup Frees /\ Told(q, out)' => Told(q, out)
    BY ToldStep
  <2>2. Token(q) /\ (phase'[q] = "idle" => phase[q] = "idle")
    BY PhaseStep DEF TokenInv
  <2>3. AskedOnce(chan', q) /\ (Asked(chan', q) => Asked(chan, q))
    BY ServedAsked, Zenon
  <2> QED
    BY <2>1, <2>2, <2>3, TokenKeeps, ZenonT(60)
<1> QED
  BY <1>1, Zenon DEF TokenInv

(* A chunked store is accepted: its buffer takes over from its header. *)
LEMMA TokenOpen ==
  ASSUME ShapeInv, KindInv, WaitInv, TokenInv, [Next]_vars, NEW c \in Conns, NEW s \in Streams, Served(c, s),
         NEW m, m = Head(chan[c]["client"][s]), m.req \in Stores, Opens(m, m.req),
         chan' = Take(c, "client", s), UNCHANGED <<held, committed>>,
         DOMAIN pushes' \subseteq DOMAIN pushes \cup {m.req}
  PROVE  TokenInv'
<1>1. PICK r \in Stores : r = m.req
  BY ZenonT(60)
<1>2. LinksOK /\ chan[c]["client"][s] # <<>> /\ r \in Reqs /\ r \notin Frees
  BY ReplicationAssumption DEF ShapeInv, Served, Reqs
<1>3. \A q \in Reqs : AskedOnce(chan', q) /\ (Asked(chan', q) => Asked(chan, q))
  BY ServedAsked, Zenon
<1>4. Asked(chan, r) /\ ~ Asked(chan', r)
  BY <1>1, <1>2, ServedAsked, ZenonT(60)
<1>5. \A y : ~ Fresh(y)
  BY <1>2, ServedFresh
<1>6. ASSUME NEW q \in Reqs PROVE \A out \in Outs : q \in Stores \cup Frees /\ Told(q, out)' => Told(q, out)
  BY <1>5, ToldStep, Zenon
<1>7. ASSUME NEW q \in Reqs, q # r PROVE Token(q)'
  <2>1. Token(q) /\ (phase'[q] = "idle" => phase[q] = "idle")
    BY PhaseStep, Zenon DEF TokenInv
  <2>2. q \in DOMAIN pushes' => q \in DOMAIN pushes
    BY <1>1, <1>7, Zenon
  <2>3. AskedOnce(chan', q) /\ (Asked(chan', q) => Asked(chan, q))
    BY <1>3, Zenon
  <2>4. \A out \in Outs : q \in Stores \cup Frees /\ Told(q, out)' => Told(q, out)
    BY <1>6, ZenonT(60)
  <2>5. /\ q \in committed' <=> q \in committed
        /\ q \in Frees => (Target[q] \in committed \ DOMAIN held => Target[q] \in committed' \ DOMAIN held')
    OBVIOUS
  <2> QED
    BY <2>1, <2>2, <2>3, <2>4, <2>5, TokenKeeps, Zenon
<1>8. Token(r)'
  <2>1. AskedOnce(chan, r)'
    BY <1>2, <1>3, Zenon DEF AskedOnce, Opens, Streams, Conns
  <2>2. ~ (Asked(chan, r))'
    BY <1>4, Zenon DEF Asked, InFlight, Elements, Opens, Streams, Conns
  <2>3. "nack" \in Outs /\ "stored" \in Outs
    BY DEF Outs
  <2>4. phase[r] # "idle" /\ r \notin committed /\ ~ Told(r, "nack") /\ ~ Told(r, "stored")
    BY <1>2, <1>4, Zenon DEF TokenInv, Token, Undecided
  <2>5. phase'[r] # "idle"
    BY <1>2, <2>4, PhaseStep, ZenonT(60)
  <2>6. ~ Told(r, "nack")' /\ ~ Told(r, "stored")' /\ r \notin committed'
    BY <1>2, <1>6, <2>3, <2>4
  <2> QED
    BY <1>2, <2>1, <2>2, <2>5, <2>6, Zenon DEF Token, Undecided
<1> QED
  BY <1>7, <1>8, Zenon DEF TokenInv

(* A block is freed. *)
LEMMA TokenFree ==
  ASSUME ShapeInv, KindInv, WaitInv, TokenInv, [Next]_vars, NEW c \in Conns, NEW s \in Streams, Served(c, s),
         ServeFree(Head(chan[c]["client"][s]), Take(c, "client", s))
  PROVE  TokenInv'
<1>1. PICK m, ch : m = Head(chan[c]["client"][s]) /\ ch = Take(c, "client", s)
  OBVIOUS
<1>2. LinksOK /\ chan[c]["client"][s] # <<>> /\ "control" \in Streams
  BY Zenon DEF ShapeInv, Served, Streams
<1>3. m \in Message /\ Asks(m) /\ m.type = "free"
  <2>1. Head(chan[c]["client"][s]) \in Message /\ Asks(Head(chan[c]["client"][s]))
    BY <1>2, HeadKinds, Zenon
  <2> QED
    BY <1>1, <2>1, ZenonT(60) DEF ServeFree
<1>4. PICK r \in Frees : r = m.req
  BY <1>3 DEF Asks
<1>5. r \in Reqs /\ r \notin Stores
  BY ReplicationAssumption DEF Reqs
<1>6. PICK out \in {"freed", "not_freed"} : out = IF Target[r] \in DOMAIN held THEN "freed" ELSE "not_freed"
  BY Zenon
<1>7. /\ held' = Without(held, {Target[r]}) /\ chan' = Put(ch, "server", "control", Plain(out, r))
      /\ UNCHANGED <<pushes, committed>>
  BY <1>1, <1>4, <1>6, Zenon DEF ServeFree, Answer
<1>8. PICK x \in Message : x = Plain(out, r) /\ x.req = r /\ x.type = out
  BY <1>5, MessageTypes, Zenon DEF Types, Plain, Msg
<1>9. \A y : Fresh(y) => y = x
  BY <1>1, <1>2, <1>7, <1>8, ServedFresh, Zenon
<1>10. DOMAIN held' = DOMAIN held \ {Target[r]}
  BY <1>7 DEF Without
<1>11. CASE out = "not_freed"
  <2>1. \A y : Fresh(y) => y.type \notin Outs
    BY <1>8, <1>9, <1>11 DEF Outs
  <2> QED
    BY <1>7, <1>10, <2>1, TokenCalm, Zenon
<1>12. CASE out = "freed"
  <2>1. Target[r] \in committed' \ DOMAIN held'
    BY <1>6, <1>7, <1>10, <1>12, Zenon DEF ShapeInv, ServerOK
  <2>2. ASSUME NEW q \in Reqs, q # r PROVE Token(q)'
    <3>1. \A o \in Outs : q \in Stores \cup Frees /\ Told(q, o)' => Told(q, o)
      BY <1>8, <1>9, <2>2, ToldStep, ZenonT(60)
    <3>2. Token(q) /\ (phase'[q] = "idle" => phase[q] = "idle")
      BY PhaseStep DEF TokenInv
    <3>3. AskedOnce(chan', q) /\ (Asked(chan', q) => Asked(chan, q))
      BY ServedAsked, Zenon
    <3>4. /\ q \in DOMAIN pushes' => q \in DOMAIN pushes
          /\ q \in committed' <=> q \in committed
          /\ q \in Frees => (Target[q] \in committed \ DOMAIN held => Target[q] \in committed' \ DOMAIN held')
      BY <1>7, <1>10, ZenonT(60)
    <3> QED
      BY <3>1, <3>2, <3>3, <3>4, TokenKeeps, Zenon
  <2>3. Token(r)'
    <3>1. AskedOnce(chan', r) /\ (Asked(chan', r) => Asked(chan, r))
      BY <1>5, ServedAsked, Zenon
    <3>2. AskedOnce(chan, r)'
      BY <3>1, Zenon DEF AskedOnce, Opens, Streams, Conns
    <3>3. (Asked(chan, r))' => Asked(chan, r)
      BY <3>1, Zenon DEF Asked, InFlight, Elements, Opens, Streams, Conns
    <3>4. phase'[r] = "idle" => ~ (Asked(chan, r))'
      BY <1>5, <3>3, PhaseStep, Zenon DEF TokenInv, Token
    <3> QED
      BY <1>5, <2>1, <3>2, <3>4 DEF Token
  <2> QED
    BY <2>2, <2>3 DEF TokenInv
<1> QED
  BY <1>11, <1>12

(* Every message that the server handles keeps what is known. *)
LEMMA TokenServed ==
  ASSUME ShapeInv, KindInv, WaitInv, TokenInv, [Next]_vars, NEW c \in Conns, NEW s \in Streams, Served(c, s)
  PROVE  TokenInv'
<1>1. PICK m, ch : m = Head(chan[c]["client"][s]) /\ ch = Take(c, "client", s)
  OBVIOUS
<1>2. LinksOK /\ chan[c]["client"][s] # <<>> /\ "control" \in Streams /\ Serves(m, ch, c)
  BY <1>1, Zenon DEF ShapeInv, Served, Streams
<1>3. m \in Message /\ Asks(m) /\ m.req \in Reqs /\ m.req \in Streams
  BY <1>1, <1>2, HeadKinds, Zenon DEF Message, Streams
<1>4. PICK r \in Reqs : r = m.req
  BY <1>3, Zenon
<1>5. m.type \in {"store", "store_chunked"} =>
        /\ r \in Stores /\ r \notin Loads /\ Asked(chan, r) /\ ~ Asked(chan', r)
        /\ Undecided(r) /\ phase[r] # "idle" /\ r \notin DOMAIN pushes /\ Opens(m, r)
  <2> SUFFICES ASSUME m.type \in {"store", "store_chunked"}
               PROVE  /\ r \in Stores /\ r \notin Loads /\ Asked(chan, r) /\ ~ Asked(chan', r)
                      /\ Undecided(r) /\ phase[r] # "idle" /\ r \notin DOMAIN pushes /\ Opens(m, r)
    OBVIOUS
  <2>1. r \in Stores /\ Opens(m, r) /\ r \notin Loads
    BY <1>3, <1>4, ReplicationAssumption, Zenon DEF Asks, Opens
  <2>2. Asked(chan, r) /\ ~ Asked(chan', r)
    BY <1>1, <2>1, ServedAsked, Zenon
  <2> QED
    BY <2>1, <2>2, ZenonT(60) DEF TokenInv, Token
<1>6. /\ chan' = ch => \A y : ~ Fresh(y)
      /\ \A t \in Streams, x \in Message : chan' = Put(ch, "server", t, x) => \A y : Fresh(y) => y = x
  BY <1>1, <1>2, ServedFresh, Zenon
<1>7. CASE ServeStore(m, ch)
  <2>1. m.type = "store" /\ Commit(r, m.data, ch) /\ UNCHANGED pushes
    BY <1>4, <1>7, Zenon DEF ServeStore
  <2>2. r \notin DOMAIN pushes' /\ DOMAIN pushes' \subseteq DOMAIN pushes
    BY <1>5, <2>1
  <2> QED
    BY <1>1, <1>4, <1>5, <2>1, <2>2, TokenStore, Zenon
<1>8. CASE OpenPush(m, ch)
  <2>1. m.type = "store_chunked"
    BY <1>8 DEF OpenPush
  <2>2. DOMAIN Without(pushes, Stale(pushes)) \subseteq DOMAIN pushes
    BY Zenon DEF Without
  <2>3. CASE Reject(r, ch) /\ (pushes' = pushes \/ pushes' = Without(pushes, Stale(pushes)))
    <3>1. r \notin DOMAIN pushes' /\ DOMAIN pushes' \subseteq DOMAIN pushes
      BY <1>5, <2>1, <2>2, <2>3, Zenon
    <3> QED
      BY <1>1, <1>4, <1>5, <2>1, <2>3, <3>1, TokenStore, Zenon
  <2>4. CASE /\ chan' = ch /\ pushes' = With(Without(pushes, Stale(pushes)), r, Buffer(m.total))
             /\ UNCHANGED <<held, committed>>
    <3>1. DOMAIN pushes' \subseteq DOMAIN pushes \cup {r}
      BY <2>2, <2>4, Zenon DEF With
    <3> QED
      BY <1>1, <1>4, <1>5, <2>1, <2>4, <3>1, TokenOpen, Zenon
  <2> QED
    BY <1>4, <1>8, <2>3, <2>4 DEF OpenPush, Refuse
<1>9. CASE PushChunk(m, ch)
  <2>1. r \in Stores
    BY <1>3, <1>4, <1>9, Zenon DEF PushChunk, Asks
  <2>2. CASE /\ r \in DOMAIN pushes /\ pushes' = Without(pushes, {r})
             /\ Commit(r, Add(pushes[r], m).got, ch) \/ Reject(r, ch)
    <3>1. r \notin DOMAIN pushes' /\ DOMAIN pushes' \subseteq DOMAIN pushes
      BY <2>2, Zenon DEF Without
    <3>2. Undecided(r) /\ ~ Asked(chan, r) /\ phase[r] # "idle"
      BY <2>1, <2>2, Zenon DEF TokenInv, Token
    <3>3. ~ Asked(chan', r)
      BY <1>1, <3>2, ServedAsked, Zenon
    <3> QED
      BY <1>1, <1>4, <2>1, <2>2, <3>1, <3>2, <3>3, TokenStore, ZenonT(60)
  <2>3. CASE /\ chan' = ch /\ DOMAIN pushes' \subseteq DOMAIN pushes /\ UNCHANGED <<held, committed>>
    <3>1. \A y : Fresh(y) => y.type \notin Outs
      BY <1>6, <2>3, Zenon
    <3> QED
      BY <2>3, <3>1, TokenCalm, ZenonT(60)
  <2>4. r \in DOMAIN pushes => DOMAIN With(pushes, r, Add(pushes[r], m)) \subseteq DOMAIN pushes
    BY DEF With
  <2> QED
    BY <1>4, <1>9, <2>2, <2>3, <2>4, Zenon DEF PushChunk
<1>10. CASE ServeLoad(m, ch, c)
  <2>1. UNCHANGED <<held, pushes, committed>> /\ r \in Loads
    BY <1>3, <1>4, <1>10, Zenon DEF ServeLoad, Asks
  <2>2. \A y : Fresh(y) => y.type \notin Outs
    <3>1. /\ UNCHANGED <<links, client>>
          /\ \/ chan' = ch
             \/ \E t \in Streams, x \in Message :
                  Answers(x) /\ x.req = r /\ chan' = Put(ch, "server", t, x)
      BY <1>2, <1>3, <1>4, ServesAnswers, Zenon DEF ShapeInv
    <3>2. \A x : Answers(x) /\ x.req = r => x.type \notin Outs
      BY <2>1, ReplicationAssumption DEF Answers, Outs
    <3>3. ASSUME NEW y, Fresh(y)
          PROVE  \E t \in Streams, x \in Message : Answers(x) /\ x.req = r /\ chan' = Put(ch, "server", t, x)
      BY <1>6, <3>1, <3>3, Zenon
    <3>4. ASSUME NEW y, Fresh(y) PROVE y.type \notin Outs
      <4>1. PICK t \in Streams, x \in Message : Answers(x) /\ x.req = r /\ chan' = Put(ch, "server", t, x)
        BY <3>3, <3>4, Zenon
      <4>2. y = x
        BY <1>6, <3>4, <4>1, Zenon
      <4> QED
        BY <3>2, <4>1, <4>2, Zenon
    <3> QED
      BY <3>4, Zenon
  <2> QED
    BY <2>1, <2>2, TokenCalm, Zenon
<1>11. CASE ServeFree(m, ch)
  BY <1>1, <1>11, TokenFree
<1> QED
  BY <1>2, <1>7, <1>8, <1>9, <1>10, <1>11, Zenon DEF Serves

(* Every step does. *)
LEMMA TokenStep ==
  ASSUME ShapeInv, KindInv, WaitInv, TokenInv, [Next]_vars
  PROVE  TokenInv'
BY TokenQuiet, TokenBegin, TokenServed

-----------------------------------------------------------------------------
(* The theorems.                                                           *)

Inv == ShapeInv /\ KindInv /\ WaitInv /\ TokenInv

(* Nothing has been asked or sent at the start. *)
LEMMA InitInv ==
  ASSUME Init
  PROVE  Inv
<1>1. <<>> \in Seq(Message) /\ <<>> \in Seq(Nat) /\ Len(<<>>) = 0
  OBVIOUS
<1>2. PICK sc \in Scenarios : /\ spare = sc.conns /\ frail = sc.frail
                             /\ phase = [r \in Reqs |-> IF r \in sc.reqs THEN "idle" ELSE "done"]
  BY DEF Init
<1>3. spare \in 1 .. MaxConns /\ MaxConns \in Nat /\ frail \subseteq Nodes
  BY <1>2, ReplicationAssumption DEF Conns, Nodes
<1>4. \A c \in Conns, n \in Nodes, s \in Streams : chan[c][n][s] = <<>>
  BY DEF Init
<1>5. LinksOK
  <2>1. chan \in Channels
    BY <1>1 DEF Init, Channels
  <2>2. route \in [Nodes -> 0 .. 0]
    BY DEF Init
  <2> QED
    BY <1>3, <1>4, <2>1, <2>2 DEF Init, LinksOK
<1>6. ClientOK
  <2>1. phase \in [Reqs -> Phases]
    BY <1>2, Zenon DEF Phases
  <2>2. reply \in [Reqs -> Message]
    <3>1. \A r \in Reqs : Plain("open", r) \in Message
      BY MessageTypes DEF Types
    <3> QED
      BY <3>1 DEF Init
  <2>3. pulls = <<>> /\ pulled = <<>>
    BY DEF Init
  <2>4. DOMAIN <<>> = {} /\ <<>> \in [{} -> BufferType] /\ <<>> \in [{} -> Outcome]
    OBVIOUS
  <2>5. result \in [Reqs -> Outcome]
    <3>1. Failed("none") \in Outcome
      BY <1>1, Zenon DEF Failed, Value, Outcome
    <3> QED
      BY <3>1 DEF Init
  <2>6. pos \in [Stores -> Nat]
    BY DEF Init
  <2>7. pending = {}
    BY DEF Init
  <2> QED
    BY <2>1, <2>2, <2>3, <2>4, <2>5, <2>6, <2>7, Zenon DEF ClientOK
<1>7. ServerOK
  <2>1. held = <<>> /\ pushes = <<>> /\ serving = <<>> /\ committed = {}
    BY DEF Init
  <2>2. DOMAIN <<>> = {} /\ <<>> \in [{} -> BufferType] /\ <<>> \in [{} -> Stream] /\ <<>> \in [{} -> Seq(Nat)]
    OBVIOUS
  <2> QED
    BY <2>1, <2>2, Zenon DEF ServerOK
<1>8. \A n \in Nodes : InFlight(chan, n) = {}
  <2> SUFFICES ASSUME NEW n \in Nodes, NEW m \in InFlight(chan, n) PROVE FALSE
    OBVIOUS
  <2>1. PICK c \in Conns, s \in Streams : \E i \in 1 .. Len(chan[c][n][s]) : chan[c][n][s][i] = m
    BY InFlightAt
  <2> QED
    BY <1>1, <1>4, <2>1
<1>9. InFlight(chan, "client") = {} /\ InFlight(chan, "server") = {}
  BY <1>8, ZenonT(60) DEF Nodes
<1>10. \A r \in Reqs : reply[r].type = "open" /\ result[r].out = "none"
  BY DEF Init, Plain, Msg, Failed, Value
<1>11. KindInv
  BY <1>9, <1>10 DEF KindInv
<1>12. WaitInv
  <2>1. pulled = <<>> /\ pending = {} /\ DOMAIN <<>> = {}
    BY DEF Init
  <2>2. \A r \in Reqs : phase[r] # "collecting"
    BY <1>2
  <2> QED
    BY <1>10, <2>1, <2>2, Zenon DEF WaitInv
<1>13. TokenInv
  <2> SUFFICES ASSUME NEW r \in Reqs PROVE Token(r)
    BY DEF TokenInv
  <2>1. ~ Asked(chan, r)
    BY <1>9 DEF Asked
  <2>2. AskedOnce(chan, r)
    BY <1>1, <1>4 DEF AskedOnce, Nodes
  <2>3. ~ Told(r, "nack") /\ ~ Told(r, "stored") /\ ~ Told(r, "freed")
    BY <1>9, <1>10, Zenon DEF Told
  <2>4. pushes = <<>> /\ committed = {} /\ DOMAIN <<>> = {}
    BY DEF Init
  <2> QED
    BY <2>1, <2>2, <2>3, <2>4, Zenon DEF Token, Undecided
<1> QED
  BY <1>5, <1>6, <1>7, <1>11, <1>12, <1>13 DEF Inv, ShapeInv

(* The invariant is inductive. *)
LEMMA StepInv ==
  ASSUME Inv, [Next]_vars
  PROVE  Inv'
BY BasicStep, TokenStep DEF Inv

(* So it holds at all times. *)
LEMMA Invariance == Spec => []Inv
<1>1. Init => Inv
  BY InitInv
<1>2. Inv /\ [Next]_vars => Inv'
  BY StepInv
<1> QED
  BY <1>1, <1>2, PTL DEF Spec

(* store_remote returns a block id only for a block that the server has    *)
(* created, and raises OutOfMemory only for one that it has not created    *)
(* and never will.                                                         *)
THEOREM StoresReportTruth == Spec => []StoreReportsTruth
<1>1. Inv => StoreReportsTruth
  BY Zenon DEF Inv, TokenInv, Token, Told, StoreReportsTruth, Reqs
<1> QED
  BY <1>1, Invariance, PTL

(* free_remote reports success only for a block that was there, and the    *)
(* block does not come back.                                               *)
THEOREM FreedStaysGone == Spec => []FreedIsGone
<1>1. Inv => FreedIsGone
  BY Zenon DEF Inv, TokenInv, Token, Told, FreedIsGone, Reqs
<1> QED
  BY <1>1, Invariance, PTL

(* When a request is over the client keeps neither its waiter nor its      *)
(* buffer nor its collector, however timeout and reply were interleaved.   *)
THEOREM NothingIsLeftBehind == Spec => []NothingLeftBehind
<1>1. Inv => NothingLeftBehind
  BY DEF Inv, WaitInv, ShapeInv, ClientOK, NothingLeftBehind
<1> QED
  BY <1>1, Invariance, PTL

-----------------------------------------------------------------------------
(* The table of inbound transfers.                                         *)

INSTANCE FiniteSetTheorems

SlotInv == IsFiniteSet(DOMAIN pushes) /\ Cardinality(DOMAIN pushes) <= MaxInbound

(* Losing entries keeps the bound. *)
LEMMA FewerSlots ==
  ASSUME SlotInv, NEW D, D \subseteq DOMAIN pushes
  PROVE  IsFiniteSet(D) /\ Cardinality(D) <= MaxInbound
<1>1. IsFiniteSet(D) /\ Cardinality(D) <= Cardinality(DOMAIN pushes)
  BY FS_Subset DEF SlotInv
<1>2. Cardinality(D) \in Nat /\ Cardinality(DOMAIN pushes) \in Nat /\ MaxInbound \in Nat
  BY <1>1, FS_CardinalityType, ReplicationAssumption, ZenonT(60) DEF SlotInv
<1> QED
  BY <1>1, <1>2, WithinLimit, Zenon DEF SlotInv

(* A transfer takes a slot only when one is left. *)
LEMMA SlotStep ==
  ASSUME ServerOK, SlotInv, [Next]_vars
  PROVE  SlotInv'
<1>1. ASSUME DOMAIN pushes' \subseteq DOMAIN pushes PROVE SlotInv'
  BY <1>1, FewerSlots, Zenon DEF SlotInv
<1>2. ASSUME NEW m, NEW ch, OpenPush(m, ch) PROVE SlotInv'
  <2>1. PICK D : D = DOMAIN pushes \ Stale(pushes)
    BY Zenon
  <2>2. DOMAIN Without(pushes, Stale(pushes)) = D
    BY <2>1, Zenon DEF Without
  <2>3. \/ DOMAIN pushes' \subseteq DOMAIN pushes
        \/ ~ (Cardinality(D) >= MaxInbound) /\ DOMAIN pushes' = D \cup {m.req}
    BY <1>2, <2>1, <2>2, ZenonT(60) DEF OpenPush, Refuse, With
  <2>4. IsFiniteSet(D) /\ Cardinality(D) <= MaxInbound
    BY <2>1, FewerSlots, ZenonT(60)
  <2>5. /\ IsFiniteSet(D \cup {m.req}) /\ Cardinality(D) \in Nat /\ MaxInbound \in Nat
        /\ Cardinality(D \cup {m.req}) = Cardinality(D) \/ Cardinality(D \cup {m.req}) = Cardinality(D) + 1
    BY <2>4, FS_AddElement, FS_CardinalityType, ReplicationAssumption, ZenonT(60)
  <2>6. CASE ~ (Cardinality(D) >= MaxInbound) /\ DOMAIN pushes' = D \cup {m.req}
    <3>1. Cardinality(D \cup {m.req}) \in Nat
      BY <2>5, FS_CardinalityType, Zenon
    <3>2. Cardinality(D \cup {m.req}) <= MaxInbound
      BY <2>5, <2>6, <3>1, WithinLimit, Zenon
    <3> QED
      BY <2>5, <2>6, <3>2, Zenon DEF SlotInv
  <2> QED
    BY <1>1, <2>3, <2>6, ZenonT(60)
<1>3. ASSUME NEW m, NEW ch, PushChunk(m, ch) PROVE DOMAIN pushes' \subseteq DOMAIN pushes
  BY <1>3 DEF PushChunk, With, Without
<1>4. ASSUME NEW c \in Conns, NEW s \in Streams, Deliver(c, s) PROVE SlotInv'
  <2>1. PICK m, ch : PullChunk(m, ch) \/ TakeReply(m, ch) \/ ServeStore(m, ch) \/ OpenPush(m, ch)
                     \/ PushChunk(m, ch) \/ ServeLoad(m, ch, c) \/ ServeFree(m, ch)
    BY <1>4 DEF Deliver
  <2>2. CASE PullChunk(m, ch) \/ TakeReply(m, ch) \/ ServeStore(m, ch) \/ ServeLoad(m, ch, c) \/ ServeFree(m, ch)
    <3>1. UNCHANGED pushes
      BY <2>2, Zenon DEF PullChunk, TakeReply, ServeStore, ServeLoad, ServeFree, server
    <3> QED
      BY <1>1, <3>1, ZenonT(60)
  <2> QED
    BY <1>1, <1>2, <1>3, <2>1, <2>2, ZenonT(60)
<1>5. ASSUME NEW r \in Reqs, Ages(r) PROVE DOMAIN pushes' \subseteq DOMAIN pushes
  BY <1>5, ZenonT(60) DEF Ages
<1>6. ASSUME NEW r \in Reqs, Begin(r) \/ Coroutine(r) \/ StreamChunk(r) \/ Evict(r) PROVE UNCHANGED pushes
  BY <1>6 DEF Begin, Coroutine, Resumes, SendChunk, Sent, Replied, Collected, TimesOut, ClearsUp, StreamChunk, Evict, server
<1>7. ASSUME Connect \/ (\E c \in Conns : Drop(c) \/ \E n \in Nodes : EndFails(n, c)) PROVE UNCHANGED pushes
  BY <1>7, Zenon DEF Connect, Drop, EndFails, ReadLoopEnds, WriterFails, Unwritten, server
<1>8. CASE UNCHANGED vars
  BY <1>1, <1>8, ZenonT(60) DEF vars, server
<1> QED
  BY <1>1, <1>4, <1>5, <1>6, <1>7, <1>8, ZenonT(60) DEF Next

(* The variables keep their shapes; in particular the server never has     *)
(* more transfers open than MAX_INBOUND_STREAMS, although it looks at the  *)
(* table only when one begins.                                             *)
THEOREM ReplicationTypes == Spec => []TypeOK
<1>1. Init => SlotInv
  <2> SUFFICES ASSUME Init PROVE SlotInv
    OBVIOUS
  <2>1. DOMAIN pushes = {}
    BY DEF Init
  <2>2. IsFiniteSet({}) /\ Cardinality({}) = 0
    BY FS_EmptySet
  <2> QED
    BY <2>1, <2>2, WithinLimit, Zenon DEF SlotInv
<1>2. Inv /\ SlotInv /\ [Next]_vars => SlotInv'
  BY SlotStep, Zenon DEF Inv, ShapeInv
<1>3. Inv /\ SlotInv => TypeOK
  <2> SUFFICES ASSUME Inv, SlotInv PROVE TypeOK
    BY Zenon
  <2>1. opened + spare \in 0 .. MaxConns
    BY ReplicationAssumption DEF Inv, ShapeInv, LinksOK
  <2> QED
    BY <2>1 DEF Inv, ShapeInv, LinksOK, ClientOK, ServerOK, TypeOK, Phases, SlotInv
<1> QED
  BY <1>1, <1>2, <1>3, Invariance, PTL DEF Spec

=============================================================================
