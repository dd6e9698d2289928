-------------------------- MODULE ReplicationSteps --------------------------
(***************************************************************************)
(* Every step of Replication keeps the shape of its state and the kinds of *)
(* its messages: the part of the inductive invariant that does not speak   *)
(* of what became of a request.                                            *)
(***************************************************************************)
EXTENDS ReplicationLemmas

-----------------------------------------------------------------------------
(* What each variable holds, step by step.                                 *)

(* A chunk added to a reassembly buffer. *)
LEMMA AddType ==
  ASSUME NEW buf \in BufferType, NEW m \in Message
  PROVE  /\ Add(buf, m) \in BufferType
         /\ Add(buf, m).got = buf.got \o m.data /\ Add(buf, m).total = buf.total
<1>1. buf.got \in Seq(Nat) /\ m.data \in Seq(Nat)
  BY DEF BufferType, Message
<1>2. PICK g \in Seq(Nat) : g = buf.got \o m.data
  <2>1. \A p, q \in Seq(Nat) : p \o q \in Seq(Nat)
    OBVIOUS
  <2> QED
    BY <1>1, <2>1, Zenon
<1>3. Add(buf, m) = [buf EXCEPT !.got = g]
  BY <1>2 DEF Add
<1> QED
  BY <1>2, <1>3, Zenon DEF BufferType

(* What a finished request's finally clauses leave of the tables. *)
LEMMA ForgetType ==
  ASSUME ClientOK, NEW r \in Reqs, Forget(r)
  PROVE  /\ pending' = pending \ {r}
         /\ pulls' \in [DOMAIN pulls' -> BufferType] /\ pulled' \in [DOMAIN pulled' -> Outcome]
         /\ DOMAIN pulls' = DOMAIN pulls \ {r} /\ DOMAIN pulled' = DOMAIN pulled \ {r}
         /\ \A x \in DOMAIN pulls \ {r} : pulls'[x] = pulls[x]
         /\ \A x \in DOMAIN pulled \ {r} : pulled'[x] = pulled[x]
<1>1. pulls \in [DOMAIN pulls -> BufferType] /\ pulled \in [DOMAIN pulled -> Outcome]
  BY DEF ClientOK
<1>2. PICK f, g : f = Without(pulls, {r}) /\ g = Without(pulled, {r})
  OBVIOUS
<1>3. /\ f \in [DOMAIN f -> BufferType] /\ DOMAIN f = DOMAIN pulls \ {r}
      /\ \A x \in DOMAIN pulls \ {r} : f[x] = pulls[x]
  BY <1>1, <1>2 DEF Without
<1>4. /\ g \in [DOMAIN g -> Outcome] /\ DOMAIN g = DOMAIN pulled \ {r}
      /\ \A x \in DOMAIN pulled \ {r} : g[x] = pulled[x]
  BY <1>1, <1>2 DEF Without
<1> QED
  BY <1>2, <1>3, <1>4, Zenon DEF Forget

(* How a chunk that the client reads changes the tables. *)
LEMMA PullChunkIs ==
  ASSUME ClientOK, NEW m \in Message, NEW ch, PullChunk(m, ch)
  PROVE  /\ UNCHANGED <<links, phase, pos, pending, reply, result, server>> /\ chan' = ch
         /\ \/ m.req \notin DOMAIN pulls /\ UNCHANGED <<pulls, pulled>>
            \/ /\ m.req \in DOMAIN pulls /\ pulls' = Without(pulls, {m.req})
               /\ \E v \in {Failed("failed")} \cup (IF m.final THEN {Value("data", pulls[m.req].got \o m.data)} ELSE {}) :
                    pulled' = [pulled EXCEPT ![m.req] = IF @.out = "open" THEN v ELSE @]
            \/ /\ m.req \in DOMAIN pulls /\ ~ m.final
               /\ pulls' = With(pulls, m.req, Add(pulls[m.req], m)) /\ UNCHANGED pulled
<1>1. m.req \in DOMAIN pulls => pulls[m.req] \in BufferType
  BY DEF ClientOK
<1>2. m.req \in DOMAIN pulls => Add(pulls[m.req], m).got = pulls[m.req].got \o m.data
  BY <1>1, AddType, Zenon
<1>3. m.final \in BOOLEAN
  BY DEF Message
<1> QED
  BY <1>2, <1>3, Zenon DEF PullChunk

(* What a collector may be resolved with. *)
LEMMA OutcomeTypes ==
  /\ Failed("failed") \in Outcome /\ Failed("open") \in Outcome /\ Failed("cancelled") \in Outcome
  /\ \A d \in Seq(Nat) : Value("data", d) \in Outcome
  /\ \A m \in Message : Value(m.type, m.data) \in Outcome
<1>1. <<>> \in Seq(Nat)
  OBVIOUS
<1> QED
  BY <1>1 DEF Failed, Value, Outcome, Types, Message

(* The tables of a client that reads a chunk keep their types. *)
LEMMA PullChunkType ==
  ASSUME ClientOK, NEW m \in Message, NEW ch, PullChunk(m, ch)
  PROVE  /\ pulls' \in [DOMAIN pulls' -> BufferType] /\ pulled' \in [DOMAIN pulled' -> Outcome]
         /\ DOMAIN pulls' \subseteq DOMAIN pulls /\ DOMAIN pulled' = DOMAIN pulled
         /\ \A x \in DOMAIN pulls' : x # m.req => pulls'[x] = pulls[x]
<1> DEFINE r == m.req
<1>1. pulls \in [DOMAIN pulls -> BufferType] /\ pulled \in [DOMAIN pulled -> Outcome]
      /\ m.data \in Seq(Nat)
  BY DEF ClientOK, Message
<1>2. CASE r \notin DOMAIN pulls /\ UNCHANGED <<pulls, pulled>>
  BY <1>1, <1>2
<1>3. ASSUME r \in DOMAIN pulls, pulls' = Without(pulls, {r}),
             NEW v \in {Failed("failed")} \cup (IF m.final THEN {Value("data", pulls[r].got \o m.data)} ELSE {}),
             pulled' = [pulled EXCEPT ![r] = IF @.out = "open" THEN v ELSE @]
      PROVE  /\ pulls' \in [DOMAIN pulls' -> BufferType] /\ pulled' \in [DOMAIN pulled' -> Outcome]
             /\ DOMAIN pulls' \subseteq DOMAIN pulls /\ DOMAIN pulled' = DOMAIN pulled
             /\ \A x \in DOMAIN pulls' : x # r => pulls'[x] = pulls[x]
  <2>1. pulls[r].got \in Seq(Nat)
    BY <1>1, <1>3 DEF BufferType
  <2>2. pulls[r].got \o m.data \in Seq(Nat)
    BY <1>1, <2>1
  <2>3. v \in Outcome
    BY <1>3, <2>2, OutcomeTypes, Zenon
  <2>4. pulled' \in [DOMAIN pulled' -> Outcome] /\ DOMAIN pulled' = DOMAIN pulled
    BY <1>1, <1>3, <2>3, Zenon
  <2>5. PICK f : f = Without(pulls, {r})
    OBVIOUS
  <2>6. /\ f \in [DOMAIN f -> BufferType] /\ DOMAIN f = DOMAIN pulls \ {r}
        /\ \A x \in DOMAIN pulls \ {r} : f[x] = pulls[x]
    BY <1>1, <2>5 DEF Without
  <2> QED
    BY <1>3, <2>4, <2>5, <2>6, Zenon
<1>4. CASE r \in DOMAIN pulls /\ pulls' = With(pulls, r, Add(pulls[r], m)) /\ UNCHANGED pulled
  <2>1. PICK v \in BufferType : v = Add(pulls[r], m)
    BY <1>1, <1>4, AddType, Zenon
  <2>2. PICK f : f = With(pulls, r, v)
    OBVIOUS
  <2>3. /\ f \in [DOMAIN f -> BufferType] /\ DOMAIN f = DOMAIN pulls \cup {r}
        /\ \A x \in DOMAIN pulls \ {r} : f[x] = pulls[x]
    BY <1>1, <2>2 DEF With
  <2> QED
    BY <1>1, <1>4, <2>1, <2>2, <2>3
<1> QED
  BY <1>2, <1>3, <1>4, PullChunkIs, Zenon

(* A streamed reply is announced. *)
LEMMA OpenPullType ==
  ASSUME ClientOK, NEW r \in Loads, NEW n \in Nat, OpenPull(r, n)
  PROVE  /\ pulls' \in [DOMAIN pulls' -> BufferType] /\ pulled' \in [DOMAIN pulled' -> Outcome]
         /\ DOMAIN pulls' \subseteq DOMAIN pulls \cup {r} /\ DOMAIN pulled' = DOMAIN pulled \cup {r}
         /\ \A x \in DOMAIN pulls' : x # r => pulls'[x] = pulls[x]
         /\ r \in DOMAIN pulls' /\ pulls'[r] = Buffer(n) /\ pulled'[r] = Failed("open")
         /\ \A x \in DOMAIN pulled' : x # r => pulled'[x] \in {pulled[x], Failed("failed")}
<1>1. pulls \in [DOMAIN pulls -> BufferType] /\ pulled \in [DOMAIN pulled -> Outcome]
  BY DEF ClientOK
<1>2. PICK f : f = Without(pulls, Stale(pulls))
  OBVIOUS
<1>3. /\ f \in [DOMAIN f -> BufferType] /\ DOMAIN f \subseteq DOMAIN pulls
      /\ \A x \in DOMAIN f : f[x] = pulls[x]
  BY <1>1, <1>2 DEF Without
<1>4. Buffer(n) \in BufferType
  <2>1. <<>> \in Seq(Nat)
    OBVIOUS
  <2> QED
    BY <2>1 DEF Buffer, BufferType
<1>5. PICK b \in BufferType : b = Buffer(n)
  BY <1>4
<1>6. PICK g : g = With(f, r, b)
  OBVIOUS
<1>7. /\ g \in [DOMAIN g -> BufferType] /\ DOMAIN g = DOMAIN f \cup {r} /\ g[r] = b
      /\ \A x \in DOMAIN f \ {r} : g[x] = f[x]
  BY <1>3, <1>6 DEF With
<1>8. PICK h : h = [x \in DOMAIN pulled |->
                  IF x \in Stale(pulls) /\ pulled[x].out = "open" THEN Failed("failed") ELSE pulled[x]]
  BY Zenon
<1>9. h \in [DOMAIN h -> Outcome] /\ DOMAIN h = DOMAIN pulled /\ \A x \in DOMAIN h : h[x] \in {pulled[x], Failed("failed")}
  BY <1>1, <1>8, OutcomeTypes
<1>10. PICK v \in Outcome : v = Failed("open")
  BY OutcomeTypes
<1>11. PICK k : k = With(h, r, v)
  OBVIOUS
<1>12. /\ k \in [DOMAIN k -> Outcome] /\ DOMAIN k = DOMAIN h \cup {r} /\ k[r] = v
       /\ \A x \in DOMAIN h \ {r} : k[x] = h[x]
  BY <1>9, <1>11, ZenonT(60) DEF With
<1>13. pulls' = g /\ pulled' = k
  BY <1>2, <1>5, <1>6, <1>8, <1>10, <1>11 DEF OpenPull
<1> QED
  BY <1>3, <1>5, <1>7, <1>9, <1>10, <1>12, <1>13, Zenon

(* Its answer is read by the client. *)
LEMMA TakeReplyClient ==
  ASSUME ClientOK, WaitInv, NEW m \in Message, NEW ch, TakeReply(m, ch), Answers(m)
  PROVE  ClientOK' /\ WaitInv'
<1> DEFINE r == m.req
<1>1. r \in Reqs /\ m.total \in Nat /\ (m.type = "data_chunked" => r \in Loads)
  BY ZenonT(60) DEF Message, Answers
<1>2. UNCHANGED <<phase, pos, result>>
  BY DEF TakeReply
<1>3. CASE r \notin pending
  BY <1>2, <1>3 DEF TakeReply, ClientOK, WaitInv
<1>4. CASE r \in pending
  <2>1. pending' = pending \ {r} /\ reply' = [reply EXCEPT ![r] = IF @.type = "open" THEN m ELSE @]
    BY <1>4 DEF TakeReply
  <2>2. phase[r] \notin {"idle", "done"}
    BY <1>1, <1>4 DEF WaitInv
  <2>3. reply' \in [Reqs -> Message] /\ \A q \in Reqs : reply'[q] = reply[q] \/ (q = r /\ reply'[q] = m)
    BY <1>1, <2>1 DEF ClientOK
  <2>4. /\ pulls' \in [DOMAIN pulls' -> BufferType] /\ pulled' \in [DOMAIN pulled' -> Outcome]
        /\ DOMAIN pulls' \subseteq DOMAIN pulls \cup (DOMAIN pulled' \cap {r})
        /\ DOMAIN pulled' = DOMAIN pulled \cup (IF m.type = "data_chunked" THEN {r} ELSE {})
    <3>1. CASE m.type = "data_chunked"
      <4>1. OpenPull(r, m.total)
        BY <1>4, <3>1 DEF TakeReply
      <4>2. r \in Loads /\ m.total \in Nat
        BY <1>1, <3>1
      <4> QED
        BY <3>1, <4>1, <4>2, OpenPullType
    <3>2. CASE m.type # "data_chunked"
      BY <1>4, <3>2 DEF TakeReply, ClientOK
    <3> QED
      BY <3>1, <3>2
  <2>5. ClientOK'
    BY <1>1, <1>2, <2>1, <2>3, <2>4 DEF ClientOK
  <2>6. WaitInv'
    BY <1>1, <1>2, <2>1, <2>2, <2>3, <2>4, Zenon DEF WaitInv
  <2> QED
    BY <2>5, <2>6
<1> QED
  BY <1>3, <1>4

(* What the client has of its requests, and that it keeps nothing else. *)
LEMMA ClientStep ==
  ASSUME ShapeInv, KindInv, WaitInv, [Next]_vars
  PROVE  ClientOK' /\ WaitInv'
<1> USE DEF ShapeInv
<1>1. ASSUME UNCHANGED client PROVE ClientOK' /\ WaitInv'
  BY <1>1 DEF client, ClientOK, WaitInv
<1>2. Stores \cap Loads = {} /\ Stores \subseteq Reqs /\ Loads \subseteq Reqs
  BY ReplicationAssumption DEF Reqs
<1>3. ASSUME NEW r \in Reqs, Finish(r, result'[r]), result'[r] \in Outcome, Forget(r), UNCHANGED <<pos, reply>>
      PROVE  ClientOK' /\ WaitInv'
  <2>1. PICK v \in Outcome : v = result'[r]
    BY <1>3
  <2>2. phase' = [phase EXCEPT ![r] = "done"] /\ result' = [result EXCEPT ![r] = v]
    BY <1>3, <2>1 DEF Finish
  <2>3. "done" \in Phases
    BY DEF Phases
  <2>4. /\ phase' \in [Reqs -> Phases] /\ pos' \in [Stores -> Nat]
    BY <1>3, <2>2, <2>3 DEF ClientOK
  <2>5. result' \in [Reqs -> Outcome]
    BY <2>2 DEF ClientOK
  <2>6. /\ pending' = pending \ {r}
        /\ pulls' \in [DOMAIN pulls' -> BufferType] /\ pulled' \in [DOMAIN pulled' -> Outcome]
        /\ DOMAIN pulls' = DOMAIN pulls \ {r} /\ DOMAIN pulled' = DOMAIN pulled \ {r}
    BY <1>3, ForgetType, Zenon
  <2>7. ClientOK'
    BY <1>3, <2>4, <2>5, <2>6 DEF ClientOK
  <2>8. \A q \in Reqs : phase'[q] = IF q = r THEN "done" ELSE phase[q]
    BY <2>2 DEF ClientOK
  <2>9. WaitInv'
    BY <1>3, <2>6, <2>8 DEF WaitInv
  <2> QED
    BY <2>7, <2>9
<1>4. ASSUME NEW r \in Reqs, Begin(r) PROVE ClientOK' /\ WaitInv'
  <2>1. UNCHANGED <<pos, reply, pulls, pulled>> /\ phase[r] = "idle"
    BY <1>4 DEF Begin
  <2>2. PICK p \in Phases : /\ phase' = [phase EXCEPT ![r] = p] /\ p # "idle"
                            /\ pending' \subseteq pending \cup {r} /\ (p = "done" => pending' = pending)
    BY <1>4 DEF Begin, Finish, Phases
  <2>3. /\ phase' \in [Reqs -> Phases] /\ pos' \in [Stores -> Nat]
    BY <2>1, <2>2 DEF ClientOK
  <2>4. result' \in [Reqs -> Outcome]
    BY <1>4, OutcomeTypes, ZenonT(60) DEF Begin, Finish, ClientOK
  <2>5. ClientOK'
    BY <2>1, <2>2, <2>3, <2>4 DEF ClientOK
  <2>6. \A q \in Reqs : phase'[q] = IF q = r THEN p ELSE phase[q]
    BY <2>2 DEF ClientOK
  <2>7. p # "collecting"
    BY <1>4, <2>6 DEF Begin, Finish, ClientOK
  <2>8. WaitInv'
    BY <2>1, <2>2, <2>6, <2>7 DEF WaitInv
  <2> QED
    BY <2>5, <2>8
<1>5. ASSUME NEW r \in Reqs, SendChunk(r) PROVE ClientOK' /\ WaitInv'
  <2>1. /\ UNCHANGED <<reply, pulls, pulled>> /\ phase[r] = "sending"
        /\ r \in Stores /\ pos[r] \in Nat
    BY <1>5 DEF SendChunk, InChunks, ClientOK
  <2>2. CASE ~ Sendable("client")
    <3>1. /\ phase' = [phase EXCEPT ![r] = "done"] /\ result' = [result EXCEPT ![r] = Failed("failed")]
          /\ pending' = pending \ {r} /\ UNCHANGED pos
      BY <1>5, <2>2 DEF SendChunk, Finish
    <3>2. result' \in [Reqs -> Outcome]
      BY <3>1, OutcomeTypes DEF ClientOK
    <3>3. \A q \in Reqs : phase'[q] = IF q = r THEN "done" ELSE phase[q]
      BY <3>1 DEF ClientOK
    <3>4. ClientOK'
      BY <2>1, <3>1, <3>2, <3>3 DEF ClientOK, Phases
    <3>5. r \notin DOMAIN pulled
      BY <1>2, <2>1 DEF ClientOK
    <3>6. WaitInv'
      <4>1. \A q \in Reqs : phase'[q] \in {"idle", "done"} => q \notin pending' /\ q \notin DOMAIN pulled'
        BY <2>1, <3>1, <3>3, <3>5, Zenon DEF WaitInv
      <4>2. \A q \in Reqs : phase'[q] = "collecting" => q \in DOMAIN pulled'
        BY <2>1, <3>3, ZenonT(60) DEF WaitInv
      <4>3. \A q \in Reqs : reply'[q].type = "data_chunked" /\ phase'[q] # "done" => q \in DOMAIN pulled'
        BY <2>1, <3>3 DEF WaitInv
      <4> QED
        BY <4>1, <4>2, <4>3, Zenon DEF WaitInv
    <3> QED
      BY <3>4, <3>6, ZenonT(60)
  <2>3. CASE Sendable("client")
    <3>1. pos' = [pos EXCEPT ![r] = @ + 1] /\ UNCHANGED <<phase, pending, result>>
      BY <1>5, <2>3 DEF SendChunk
    <3>2. pos' \in [Stores -> Nat]
      BY <2>1, <3>1 DEF ClientOK
    <3>3. ClientOK'
      BY <2>1, <3>1, <3>2, Zenon DEF ClientOK
    <3>4. WaitInv'
      BY <2>1, <3>1, Zenon DEF WaitInv
    <3> QED
      BY <3>3, <3>4
  <2> QED
    BY <2>2, <2>3
<1>6. ASSUME NEW r \in Reqs, Replied(r) PROVE ClientOK' /\ WaitInv'
  <2>1. UNCHANGED <<pos, reply>> /\ reply[r] \in Message /\ phase[r] = "awaiting"
    BY <1>6 DEF Replied, ClientOK
  <2>2. CASE reply[r].type = "data_chunked"
    <3>1. phase' = [phase EXCEPT ![r] = "collecting"] /\ UNCHANGED <<pending, pulls, pulled, result>>
      BY <1>6, <2>2 DEF Replied
    <3>2. \A q \in Reqs : phase'[q] = IF q = r THEN "collecting" ELSE phase[q]
      BY <3>1 DEF ClientOK
    <3>3. ClientOK'
      BY <2>1, <3>1, <3>2 DEF ClientOK, Phases
    <3>4. WaitInv'
      BY <2>1, <2>2, <3>1, <3>2 DEF WaitInv
    <3> QED
      BY <3>3, <3>4
  <2>3. CASE reply[r].type # "data_chunked"
    <3>1. Finish(r, Value(reply[r].type, reply[r].data)) /\ Forget(r)
      BY <1>6, <2>3 DEF Replied
    <3>2. result'[r] = Value(reply[r].type, reply[r].data)
      BY <3>1 DEF Finish, ClientOK
    <3>3. result'[r] \in Outcome
      BY <2>1, <3>2, OutcomeTypes, Zenon
    <3> QED
      BY <1>3, <2>1, <3>1, <3>2, <3>3, Zenon
  <2> QED
    BY <2>2, <2>3
<1>7. ASSUME NEW r \in Reqs, Collected(r) PROVE ClientOK' /\ WaitInv'
  <2>1. UNCHANGED <<pos, reply>> /\ phase[r] = "collecting" /\ Finish(r, pulled[r]) /\ Forget(r)
    BY <1>7 DEF Collected
  <2>2. pulled[r] \in Outcome
    BY <2>1 DEF WaitInv, ClientOK
  <2>3. result'[r] = pulled[r]
    BY <2>1 DEF Finish, ClientOK
  <2> QED
    BY <1>3, <2>1, <2>2, <2>3
<1>8. ASSUME NEW r \in Reqs, ClearsUp(r) PROVE ClientOK' /\ WaitInv'
  <2>1. UNCHANGED <<pos, reply>> /\ Finish(r, Failed("failed")) /\ Forget(r)
    BY <1>8 DEF ClearsUp
  <2>2. result'[r] = Failed("failed")
    BY <2>1 DEF Finish, ClientOK
  <2> QED
    BY <1>3, <2>1, <2>2, OutcomeTypes
<1>9. ASSUME NEW r \in Reqs, TimesOut(r) PROVE ClientOK' /\ WaitInv'
  <2>1. UNCHANGED <<pos, pending, pulls, result>> /\ phase' = [phase EXCEPT ![r] = "expired"]
    BY <1>9 DEF TimesOut
  <2>2. \A q \in Reqs : phase'[q] = IF q = r THEN "expired" ELSE phase[q]
    BY <2>1 DEF ClientOK
  <2>3. reply' \in [Reqs -> Message] /\ \A q \in Reqs : reply'[q] = reply[q] \/ reply'[q].type = "cancelled"
    <3>1. PICK x \in Message : x = Plain("cancelled", r) /\ x.type = "cancelled"
      BY MessageTypes, Zenon DEF Types, Plain, Msg
    <3> QED
      BY <1>9, <3>1 DEF TimesOut, ClientOK
  <2>4. pulled' \in [DOMAIN pulled' -> Outcome] /\ DOMAIN pulled' = DOMAIN pulled
    BY <1>9, OutcomeTypes DEF TimesOut, ClientOK
  <2>5. ClientOK'
    <3>1. phase' \in [Reqs -> Phases]
      BY <2>1 DEF ClientOK, Phases
    <3>2. DOMAIN pulls' = DOMAIN pulls
      BY <2>1
    <3> QED
      BY <2>1, <2>2, <2>3, <2>4, <3>1, <3>2 DEF ClientOK
  <2>6. WaitInv'
    <3>1. \A q \in Reqs : reply'[q].type = "data_chunked" => reply[q].type = "data_chunked"
      BY <2>3
    <3>2. phase[r] \notin {"idle", "done"}
      BY <1>9 DEF TimesOut
    <3> QED
      BY <2>1, <2>2, <2>4, <3>1, <3>2 DEF WaitInv
  <2> QED
    BY <2>5, <2>6
<1>10. ASSUME NEW r \in Reqs, Ages(r) PROVE ClientOK' /\ WaitInv'
  <2>1. UNCHANGED <<phase, pos, pending, reply, pulled, result>>
    BY <1>10 DEF Ages
  <2>2. pulls' \in [DOMAIN pulls' -> BufferType] /\ DOMAIN pulls' = DOMAIN pulls
    <3>1. CASE UNCHANGED pulls
      BY <3>1 DEF ClientOK
    <3>2. CASE r \in DOMAIN pulls /\ pulls' = [pulls EXCEPT ![r].old = TRUE]
      <4>1. [pulls[r] EXCEPT !.old = TRUE] \in BufferType
        BY <3>2, Zenon DEF ClientOK, BufferType
      <4> QED
        BY <3>2, <4>1 DEF ClientOK
    <3> QED
      BY <1>10, <3>1, <3>2 DEF Ages
  <2> QED
    BY <2>1, <2>2 DEF ClientOK, WaitInv
<1>11. ASSUME NEW c \in Conns, NEW s \in Streams, Deliver(c, s) PROVE ClientOK' /\ WaitInv'
  <2>1. PICK m, ch : m = Head(chan[c]["server"][s]) /\ ch = Take(c, "server", s)
    OBVIOUS
  <2>2. CASE chan[c]["server"][s] # <<>> /\ PullChunk(m, ch)
    <3>1. m \in Message
      BY <2>1, <2>2, HeadKinds, ZenonT(60)
    <3>2. UNCHANGED <<phase, pos, pending, reply, result>>
      BY <2>2 DEF PullChunk
    <3>3. /\ pulls' \in [DOMAIN pulls' -> BufferType] /\ pulled' \in [DOMAIN pulled' -> Outcome]
          /\ DOMAIN pulls' \subseteq DOMAIN pulls /\ DOMAIN pulled' = DOMAIN pulled
      BY <2>2, <3>1, PullChunkType
    <3> QED
      BY <3>2, <3>3, Zenon DEF ClientOK, WaitInv
  <2>3. CASE chan[c]["server"][s] # <<>> /\ TakeReply(m, ch)
    <3>1. m \in Message /\ (Answers(m) \/ m.type = "chunk")
      BY <2>1, <2>3, HeadKinds, Zenon
    <3>2. m.type # "chunk"
      BY <2>3, Zenon DEF TakeReply
    <3> QED
      BY <2>3, <3>1, <3>2, TakeReplyClient, Zenon
  <2>4. CASE UNCHANGED client
    BY <1>1, <2>4, Zenon
  <2> QED
    BY <1>11, <2>1, <2>2, <2>3, <2>4, DeliverCases, Zenon DEF ServeStore, OpenPush, PushChunk, ServeLoad, ServeFree
<1>12. ASSUME NEW c \in Conns, Drop(c) \/ \E n \in Nodes : EndFails(n, c) PROVE UNCHANGED client
  BY <1>12, Zenon DEF Drop, EndFails, ReadLoopEnds, WriterFails, Unwritten
<1>13. ASSUME NEW r \in Reqs, StreamChunk(r) \/ Evict(r) PROVE UNCHANGED client
  BY <1>13, Zenon DEF StreamChunk, Evict
<1>14. ASSUME NEW r \in Reqs, Sent(r) PROVE ClientOK' /\ WaitInv'
  <2>1. /\ phase[r] = "sending" /\ phase' = [phase EXCEPT ![r] = "awaiting"]
        /\ UNCHANGED <<pos, pending, reply, pulls, pulled, result>>
    BY <1>14 DEF Sent
  <2>2. \A q \in Reqs : phase'[q] = IF q = r THEN "awaiting" ELSE phase[q]
    BY <2>1 DEF ClientOK
  <2>3. ClientOK'
    BY <2>1 DEF ClientOK, Phases
  <2>4. WaitInv'
    BY <2>1, <2>2 DEF WaitInv
  <2> QED
    BY <2>3, <2>4
<1>15. ASSUME NEW r \in Reqs, Coroutine(r) PROVE ClientOK' /\ WaitInv'
  BY <1>5, <1>6, <1>7, <1>8, <1>9, <1>14, <1>15, Zenon DEF Coroutine, Resumes
<1> QED
  BY <1>1, <1>4, <1>10, <1>11, <1>12, <1>13, <1>15, ZenonT(60) DEF Next, Connect, vars

(* A future is resolved once, by an answer to its request, or cancelled. *)
LEMMA ReplyStep ==
  ASSUME ShapeInv, KindInv, [Next]_vars, NEW q \in Reqs
  PROVE  \/ reply'[q] = reply[q]
         \/ reply'[q].type = "cancelled"
         \/ Answers(reply'[q]) /\ reply'[q].req = q /\ reply'[q] \in InFlight(chan, "server")
<1> USE DEF ShapeInv
<1>1. ASSUME NEW r \in Reqs, TimesOut(r) PROVE reply'[q] = reply[q] \/ reply'[q].type = "cancelled"
  BY <1>1, SMTT(30) DEF TimesOut, ClientOK, Plain, Msg
<1>2. ASSUME NEW c \in Conns, NEW s \in Streams, Deliver(c, s)
      PROVE  \/ reply'[q] = reply[q]
             \/ Answers(reply'[q]) /\ reply'[q].req = q /\ reply'[q] \in InFlight(chan, "server")
  <2>1. PICK m, ch : m = Head(chan[c]["server"][s]) /\ ch = Take(c, "server", s)
    OBVIOUS
  <2>2. CASE chan[c]["server"][s] # <<>> /\ TakeReply(m, ch)
    <3>1. m \in Message /\ (Answers(m) \/ m.type = "chunk") /\ m \in InFlight(chan, "server")
      BY <2>1, <2>2, HeadKinds
    <3>2. m.type # "chunk"
      BY <2>2 DEF TakeReply
    <3>3. reply'[q] = reply[q] \/ (q = m.req /\ reply'[q] = m)
      BY <2>2 DEF TakeReply, ClientOK
    <3> QED
      BY <3>1, <3>2, <3>3, ZenonT(60)
  <2>3. CASE UNCHANGED reply
    BY <2>3
  <2> QED
    BY <1>2, <2>1, <2>2, <2>3, DeliverCases, Zenon
       DEF PullChunk, client, ServeStore, OpenPush, PushChunk, ServeLoad, ServeFree
<1>3. ASSUME NEW r \in Reqs, Begin(r) \/ SendChunk(r) \/ Sent(r) \/ Replied(r) \/ Collected(r) \/ ClearsUp(r) \/ Ages(r)
      PROVE  UNCHANGED reply
  BY <1>3 DEF Begin, SendChunk, Sent, Replied, Collected, ClearsUp, Ages
<1>4. ASSUME NEW r \in Reqs, StreamChunk(r) \/ Evict(r) PROVE UNCHANGED client
  BY <1>4 DEF StreamChunk, Evict
<1>5. ASSUME NEW c \in Conns, Drop(c) \/ \E n \in Nodes : EndFails(n, c) PROVE UNCHANGED client
  BY <1>5, ZenonT(60) DEF Drop, EndFails, ReadLoopEnds, WriterFails, Unwritten
<1>6. CASE Connect \/ UNCHANGED vars
  BY <1>6 DEF Connect, vars, client
<1>7. UNCHANGED client => UNCHANGED reply
  BY Zenon DEF client
<1> QED
  BY <1>1, <1>2, <1>3, <1>4, <1>5, <1>6, <1>7, ZenonT(60) DEF Next, Coroutine, Resumes

(* What a request returns is a failure, its answer, or what was collected. *)
LEMMA ResultStep ==
  ASSUME ShapeInv, KindInv, WaitInv, [Next]_vars, NEW q \in Reqs
  PROVE  \/ result'[q] = result[q]
         \/ result'[q].out = "failed"
         \/ result'[q] = Value(reply[q].type, reply[q].data) /\ reply[q].type \notin {"open", "cancelled"}
         \/ result'[q] = pulled[q] /\ q \in DOMAIN pulled
<1> USE DEF ShapeInv
<1>1. result \in [Reqs -> Outcome] /\ Failed("failed").out = "failed"
  BY DEF ClientOK, Failed, Value
<1>2. ASSUME NEW r \in Reqs, Begin(r) \/ SendChunk(r) \/ ClearsUp(r)
      PROVE  result'[q] = result[q] \/ result'[q].out = "failed"
  <2>1. result' = result \/ result' = [result EXCEPT ![r] = Failed("failed")]
    BY <1>2, Zenon DEF Begin, SendChunk, ClearsUp, Finish
  <2> QED
    BY <1>1, <2>1, Zenon
<1>3. ASSUME NEW r \in Reqs, Replied(r)
      PROVE  \/ result'[q] = result[q]
             \/ result'[q] = Value(reply[q].type, reply[q].data) /\ reply[q].type \notin {"open", "cancelled"}
  BY <1>1, <1>3, Zenon DEF Replied, Finish
<1>4. ASSUME NEW r \in Reqs, Collected(r)
      PROVE  result'[q] = result[q] \/ (result'[q] = pulled[q] /\ q \in DOMAIN pulled)
  BY <1>1, <1>4 DEF Collected, Finish, WaitInv
<1>5. ASSUME NEW r \in Reqs, Sent(r) \/ TimesOut(r) \/ Ages(r) PROVE UNCHANGED result
  BY <1>5 DEF Sent, TimesOut, Ages
<1>6. ASSUME NEW r \in Reqs, StreamChunk(r) \/ Evict(r) PROVE UNCHANGED client
  BY <1>6 DEF StreamChunk, Evict
<1>7. ASSUME NEW c \in Conns, Drop(c) \/ \E n \in Nodes : EndFails(n, c) PROVE UNCHANGED client
  BY <1>7, Zenon DEF Drop, EndFails, ReadLoopEnds, WriterFails, Unwritten
<1>8. CASE Connect \/ UNCHANGED vars
  BY <1>8, Zenon DEF Connect, vars, client
<1>9. UNCHANGED client => UNCHANGED result
  BY DEF client
<1>10. ASSUME NEW c \in Conns, NEW s \in Streams, Deliver(c, s) PROVE UNCHANGED result
  BY <1>9, <1>10, ZenonT(60) DEF Deliver, PullChunk, TakeReply, ServeStore, OpenPush, PushChunk, ServeLoad, ServeFree
<1> QED
  BY <1>2, <1>3, <1>4, <1>5, <1>6, <1>7, <1>8, <1>9, <1>10, Zenon DEF Next, Coroutine, Resumes

(* What comes to be under way when n sends a message. *)
LEMMA SendsInFlight ==
  ASSUME LinksOK, NEW n \in Nodes, NEW s \in Streams, NEW m, Sends(n, s, m), NEW k \in Nodes
  PROVE  /\ InFlight(chan', k) \subseteq InFlight(chan, k) \cup {m}
         /\ k # n => InFlight(chan', k) \subseteq InFlight(chan, k)
<1>1. PICK d : d = chan'
  OBVIOUS
<1>2. m \in Message /\ d = Put(chan, n, s, m) /\ chan \in Channels
  BY <1>1 DEF Sends, LinksOK
<1>3. InFlight(d, k) \subseteq InFlight(chan, k) \cup {m} /\ (k # n => InFlight(d, k) \subseteq InFlight(chan, k))
  BY <1>2, PutInFlight
<1> QED
  BY <1>1, <1>3

(* Nothing comes to be under way when a message is read. *)
LEMMA ReadsInFlight ==
  ASSUME LinksOK, NEW c \in Conns, NEW n \in Nodes, NEW s \in Streams, Reads(c, n, s), NEW k \in Nodes
  PROVE  InFlight(chan', k) \subseteq InFlight(chan, k)
<1>1. PICK d : d = chan'
  BY Zenon
<1>2. chan[c][n][s] # <<>> /\ d = Take(c, n, s) /\ chan \in Channels
  BY <1>1 DEF Reads, LinksOK
<1>3. InFlight(d, k) \subseteq InFlight(chan, k)
  BY <1>2, TakeInFlight
<1> QED
  BY <1>1, <1>3

(* What comes to be under way when the server answers a message it reads. *)
LEMMA AnswersInFlight ==
  ASSUME LinksOK, NEW c \in Conns, NEW s \in Streams, NEW t \in Streams, NEW x, ReadsAndAnswers(c, s, t, x),
         NEW k \in Nodes
  PROVE  /\ InFlight(chan', k) \subseteq InFlight(chan, k) \cup {x}
         /\ k # "server" => InFlight(chan', k) \subseteq InFlight(chan, k)
<1>1. PICK d, ch : d = chan' /\ ch = Take(c, "client", s)
  OBVIOUS
<1>2. chan[c]["client"][s] # <<>> /\ x \in Message /\ d = Put(ch, "server", t, x)
  BY <1>1 DEF ReadsAndAnswers, Served
<1>3. "client" \in Nodes /\ "server" \in Nodes /\ chan \in Channels
  BY DEF Nodes, LinksOK
<1>4. ch \in Channels
  BY <1>1, <1>2, <1>3, TakeAt, Zenon
<1>5. InFlight(ch, k) \subseteq InFlight(chan, k)
  BY <1>1, <1>2, <1>3, TakeInFlight, Zenon
<1>6. InFlight(d, k) \subseteq InFlight(ch, k) \cup {x}
  BY <1>2, <1>3, <1>4, PutInFlight
<1>7. k # "server" => InFlight(d, k) \subseteq InFlight(ch, k)
  BY <1>2, <1>3, <1>4, PutInFlight
<1> QED
  BY <1>1, <1>5, <1>6, <1>7

(* What comes to be under way is one message, which is of its sender's kind. *)
LEMMA NewInFlight ==
  ASSUME LinksOK, Moves
  PROVE  /\ \A m \in InFlight(chan', "client") :
              m \in InFlight(chan, "client") \/ (Asks(m) /\ (m.type = "chunk" \/ (m.req \in Reqs /\ m = Request(m.req))))
         /\ \A m \in InFlight(chan', "server") :
              \/ m \in InFlight(chan, "server")
              \/ Answers(m) /\ \E c \in Conns, s \in Streams : Served(c, s)
              \/ m.type = "chunk" /\ m.req \in Loads
<1>1. "client" \in Nodes /\ "server" \in Nodes /\ "client" # "server"
  BY DEF Nodes
<1>2. CASE UNCHANGED chan
  BY <1>2
<1>3. ASSUME NEW n \in Nodes, NEW s \in Streams, NEW m, Sends(n, s, m)
      PROVE  IF n = "client" THEN Asks(m) /\ (m.type = "chunk" \/ (m.req \in Reqs /\ m = Request(m.req)))
             ELSE m.type = "chunk" /\ m.req \in Loads
  BY <1>3 DEF Sends
<1>4. CASE \E n \in Nodes, s \in Streams : \E m : Sends(n, s, m)
  BY <1>1, <1>3, <1>4, SendsInFlight
<1>5. CASE \E c \in Conns, n \in Nodes, s \in Streams : Reads(c, n, s)
  BY <1>1, <1>5, ReadsInFlight, Zenon
<1>6. ASSUME NEW c \in Conns, NEW s \in Streams, NEW t \in Streams, NEW x, ReadsAndAnswers(c, s, t, x)
      PROVE  Answers(x) /\ Served(c, s)
  BY <1>6 DEF ReadsAndAnswers, Served
<1>7. CASE \E c \in Conns, s \in Streams, t \in Streams : \E x : ReadsAndAnswers(c, s, t, x)
  BY <1>1, <1>6, <1>7, AnswersInFlight
<1>8. CASE \E c \in Conns : Drop(c)
  <2>1. \A k \in Nodes : InFlight(chan', k) \subseteq InFlight(chan, k)
    BY <1>8, DropAt DEF LinksOK
  <2> QED
    BY <1>1, <2>1, Zenon
<1>9. CASE \E n \in Nodes, c \in Conns : Unwritten(n, c)
  <2>1. \A k \in Nodes : InFlight(chan', k) \subseteq InFlight(chan, k)
    BY <1>9, UnwrittenAt, Zenon
  <2> QED
    BY <1>1, <2>1, Zenon
<1> QED
  BY <1>2, <1>4, <1>5, <1>7, <1>8, <1>9, Zenon DEF Moves

(* Every step keeps the messages and the futures to their kinds. *)
LEMMA KindStep ==
  ASSUME ShapeInv, KindInv, [Next]_vars
  PROVE  KindInv'
<1>1. /\ \A m \in InFlight(chan', "client") : m \in InFlight(chan, "client") \/ Asks(m)
      /\ \A m \in InFlight(chan', "server") :
           m \in InFlight(chan, "server") \/ Answers(m) \/ (m.type = "chunk" /\ m.req \in Loads)
  BY NewInFlight, StepMoves, Zenon DEF ShapeInv
<1>2. /\ \A m \in InFlight(chan', "client") : Asks(m)
      /\ \A m \in InFlight(chan', "server") : Answers(m) \/ (m.type = "chunk" /\ m.req \in Loads)
  BY <1>1, Zenon DEF KindInv
<1>3. \A r \in Reqs : reply'[r].type \in {"open", "cancelled"} \/ (Answers(reply'[r]) /\ reply'[r].req = r)
  BY ReplyStep, Zenon DEF KindInv
<1>4. (InFlight(chan, "client"))' = InFlight(chan', "client") /\ (InFlight(chan, "server"))' = InFlight(chan', "server")
  BY DEF InFlight, Streams, Conns, Elements
<1> QED
  BY <1>2, <1>3, <1>4, Zenon DEF KindInv, Asks, Answers

(* The blocks and the buffers of the server, each on its own. *)
HeldOK == held \in [DOMAIN held -> Seq(Nat)] /\ DOMAIN held \subseteq committed /\ committed \subseteq Stores
PushesOK ==
  /\ pushes \in [DOMAIN pushes -> BufferType] /\ DOMAIN pushes \subseteq Stores
ServingOK ==
  /\ serving \in [DOMAIN serving -> Stream] /\ DOMAIN serving \subseteq Loads
  /\ \A r \in DOMAIN serving : serving[r].pos < Len(serving[r].data)

(* A block that is created or refused. *)
LEMMA CommitHeld ==
  ASSUME HeldOK, NEW r \in Stores, NEW d \in Seq(Nat), NEW ch, Commit(r, d, ch) \/ Reject(r, ch)
  PROVE  HeldOK'
<1>1. CASE UNCHANGED <<held, committed>>
  BY <1>1 DEF HeldOK
<1>2. CASE held' = With(held, r, d) /\ committed' = committed \cup {r}
  <2>1. PICK f : f = With(held, r, d)
    OBVIOUS
  <2>2. f \in [DOMAIN f -> Seq(Nat)] /\ DOMAIN f = DOMAIN held \cup {r}
    BY <2>1 DEF With, HeldOK
  <2> QED
    BY <1>2, <2>1, <2>2, Zenon DEF HeldOK
<1> QED
  BY <1>1, <1>2 DEF Commit, Reject

(* Fewer transfers, or one more. *)
LEMMA LessPushes ==
  ASSUME PushesOK, NEW S, pushes' = Without(pushes, S)
  PROVE  PushesOK' /\ DOMAIN pushes' = DOMAIN pushes \ S /\ \A x \in DOMAIN pushes' : pushes'[x] = pushes[x]
<1>1. PICK f : f = Without(pushes, S)
  OBVIOUS
<1>2. f \in [DOMAIN f -> BufferType] /\ DOMAIN f = DOMAIN pushes \ S /\ \A x \in DOMAIN f : f[x] = pushes[x]
  BY <1>1 DEF Without, PushesOK
<1> QED
  BY <1>1, <1>2 DEF PushesOK

(* A transfer that is opened or refused. *)
LEMMA OpenPushBuffers ==
  ASSUME PushesOK, NEW m \in Message, m.req \in Stores, NEW ch, OpenPush(m, ch)
  PROVE  PushesOK'
<1>1. CASE UNCHANGED pushes
  BY <1>1 DEF PushesOK
<1>2. CASE pushes' = Without(pushes, Stale(pushes))
  BY <1>2, LessPushes, Zenon
<1>3. CASE pushes' = With(Without(pushes, Stale(pushes)), m.req, Buffer(m.total))
  <2>1. PICK r \in Stores, n \in Nat : r = m.req /\ n = m.total
    BY DEF Message
  <2>2. <<>> \in Seq(Nat)
    OBVIOUS
  <2>3. PICK b \in BufferType : b = Buffer(n)
    BY <2>2, Zenon DEF Buffer, BufferType
  <2>4. PICK f : f = Without(pushes, Stale(pushes))
    OBVIOUS
  <2>5. f \in [DOMAIN f -> BufferType] /\ DOMAIN f \subseteq DOMAIN pushes
    BY <2>4 DEF Without, PushesOK
  <2>6. PICK g : g = With(f, r, b)
    OBVIOUS
  <2>7. g \in [DOMAIN g -> BufferType] /\ DOMAIN g = DOMAIN f \cup {r}
    BY <2>5, <2>6 DEF With
  <2>8. DOMAIN g \subseteq Stores
    BY <2>5, <2>7 DEF PushesOK
  <2> QED
    BY <1>3, <2>1, <2>3, <2>4, <2>6, <2>7, <2>8, ZenonT(60) DEF PushesOK
<1> QED
  BY <1>1, <1>2, <1>3 DEF OpenPush, Refuse

(* A chunk that is received. *)
LEMMA PushChunkBuffers ==
  ASSUME PushesOK, HeldOK, NEW m \in Message, m.req \in Stores, NEW ch, PushChunk(m, ch)
  PROVE  PushesOK' /\ HeldOK'
<1>1. PICK r \in Stores : r = m.req
  OBVIOUS
<1>2. CASE r \notin DOMAIN pushes
  BY <1>1, <1>2, Zenon DEF PushChunk, PushesOK, HeldOK
<1>3. CASE r \in DOMAIN pushes
  <2>1. PICK buf \in BufferType : buf = Add(pushes[r], m)
    BY <1>3, AddType, Zenon DEF PushesOK
  <2>2. buf.got \in Seq(Nat)
    BY DEF BufferType
  <2>3. CASE /\ pushes' = Without(pushes, {r})
             /\ Reject(r, ch) \/ Commit(r, buf.got, ch)
    BY <2>2, <2>3, LessPushes, CommitHeld, Zenon
  <2>4. CASE pushes' = With(pushes, r, buf) /\ UNCHANGED <<held, committed>>
    <3>1. PICK g : g = With(pushes, r, buf)
      OBVIOUS
    <3>2. g \in [DOMAIN g -> BufferType] /\ DOMAIN g = DOMAIN pushes
      BY <1>3, <3>1 DEF With, PushesOK
    <3> QED
      BY <2>4, <3>1, <3>2 DEF PushesOK, HeldOK
  <2> QED
    BY <1>1, <1>3, <2>1, <2>3, <2>4, Zenon DEF PushChunk
<1> QED
  BY <1>2, <1>3

(* Fewer blocks. *)
LEMMA LessHeld ==
  ASSUME HeldOK, NEW S, held' = Without(held, S), UNCHANGED committed
  PROVE  HeldOK' /\ DOMAIN held' = DOMAIN held \ S /\ \A x \in DOMAIN held' : held'[x] = held[x]
<1>1. PICK f : f = Without(held, S)
  OBVIOUS
<1>2. f \in [DOMAIN f -> Seq(Nat)] /\ DOMAIN f = DOMAIN held \ S /\ \A x \in DOMAIN f : f[x] = held[x]
  BY <1>1 DEF Without, HeldOK
<1> QED
  BY <1>1, <1>2 DEF HeldOK

(* A streamed reply begins with something to send, and ends at its end. *)
LEMMA ServeLoadStreams ==
  ASSUME HeldOK, ServingOK, NEW m \in Message, m.req \in Loads, NEW ch, NEW c \in Conns, ServeLoad(m, ch, c)
  PROVE  ServingOK'
<1>1. PICK r \in Loads : r = m.req
  OBVIOUS
<1> PICK b : b = Target[r]
  OBVIOUS
<1>2. CASE UNCHANGED serving
  BY <1>2 DEF ServingOK
<1>3. CASE b \in DOMAIN held /\ Chunked(held[b]) /\ serving' = With(serving, r, [conn |-> c, data |-> held[b], pos |-> 0])
  <2>1. PICK d \in Seq(Nat) : d = held[b]
    BY <1>3, Zenon DEF HeldOK
  <2>2. Len(d) > 0 /\ 0 \in Nat
    BY <1>3, <2>1, ChunkedLen, Zenon
  <2>3. PICK x \in Stream : x = [conn |-> c, data |-> d, pos |-> 0]
    BY Zenon DEF Stream
  <2>4. x.pos < Len(x.data)
    BY <2>2, <2>3, Zenon
  <2>5. PICK f : f = With(serving, r, x)
    OBVIOUS
  <2>6. /\ f \in [DOMAIN f -> Stream] /\ DOMAIN f = DOMAIN serving \cup {r}
        /\ \A y \in DOMAIN f : f[y] = IF y = r THEN x ELSE serving[y]
    BY <2>5 DEF With, ServingOK
  <2> QED
    BY <1>3, <2>1, <2>3, <2>4, <2>5, <2>6 DEF ServingOK
<1> QED
  BY <1>1, <1>2, <1>3, Zenon DEF ServeLoad

(* A chunk of a streamed reply is sent. *)
LEMMA StreamChunkStreams ==
  ASSUME ServingOK, NEW r \in Reqs, StreamChunk(r)
  PROVE  ServingOK'
<1>1. r \in DOMAIN serving /\ serving[r] \in Stream
  BY DEF StreamChunk, ServingOK
<1>2. CASE serving' = Without(serving, {r})
  <2>1. PICK f : f = Without(serving, {r})
    OBVIOUS
  <2>2. f \in [DOMAIN f -> Stream] /\ DOMAIN f \subseteq DOMAIN serving /\ \A x \in DOMAIN f : f[x] = serving[x]
    BY <2>1 DEF Without, ServingOK
  <2> QED
    BY <1>2, <2>1, <2>2, Zenon DEF ServingOK
<1>3. CASE serving' = [serving EXCEPT ![r].pos = serving[r].pos + 1] /\ serving[r].pos + 1 < Len(serving[r].data)
  <2>1. PICK p \in Nat : p = serving[r].pos + 1
    BY <1>1 DEF Stream
  <2>2. PICK x : x = [serving[r] EXCEPT !.pos = p]
    BY Zenon
  <2>3. x \in Stream /\ x.pos = p /\ x.data = serving[r].data
    BY <1>1, <2>2 DEF Stream
  <2>4. serving' = [serving EXCEPT ![r] = x]
    BY <1>3, <2>1, <2>2
  <2> QED
    BY <1>1, <1>3, <2>1, <2>3, <2>4 DEF ServingOK
<1> QED
  BY <1>2, <1>3 DEF StreamChunk

(* What the server holds. *)
LEMMA ServerStep ==
  ASSUME ShapeInv, KindInv, [Next]_vars
  PROVE  ServerOK'
<1> USE DEF ShapeInv
<1>1. ServerOK <=> HeldOK /\ PushesOK /\ ServingOK
  BY DEF ServerOK, HeldOK, PushesOK, ServingOK
<1>2. ServerOK' <=> HeldOK' /\ PushesOK' /\ ServingOK'
  BY DEF ServerOK, HeldOK, PushesOK, ServingOK
<1>3. UNCHANGED <<held, committed>> => HeldOK'
  BY <1>1 DEF HeldOK
<1>4. UNCHANGED pushes => PushesOK'
  BY <1>1 DEF PushesOK
<1>5. UNCHANGED serving => ServingOK'
  BY <1>1, Zenon DEF ServingOK
<1>6. ASSUME NEW c \in Conns, NEW s \in Streams, Deliver(c, s) PROVE ServerOK'
  <2>1. PICK m, ch : m = Head(chan[c]["client"][s]) /\ ch = Take(c, "client", s)
    BY Zenon
  <2>2. CASE chan[c]["client"][s] # <<>> /\ Serves(m, ch, c)
    <3>1. m \in Message /\ Asks(m) /\ m.data \in Seq(Nat)
      BY <2>1, <2>2, HeadKinds, Zenon DEF Message
    <3>2. CASE ServeStore(m, ch)
      <4>1. m.req \in Stores /\ Commit(m.req, m.data, ch) /\ UNCHANGED <<pushes, serving>>
        BY <3>1, <3>2 DEF ServeStore, Asks
      <4>2. HeldOK'
        BY <1>1, <3>1, <4>1, CommitHeld, Zenon
      <4> QED
        BY <1>2, <1>4, <1>5, <4>1, <4>2, Zenon
    <3>3. CASE OpenPush(m, ch)
      <4>1. m.req \in Stores /\ UNCHANGED <<held, committed, serving>>
        BY <3>1, <3>3 DEF OpenPush, Asks, Refuse, Reject
      <4>2. PushesOK'
        BY <1>1, <3>1, <3>3, <4>1, OpenPushBuffers, Zenon
      <4> QED
        BY <1>2, <1>3, <1>5, <4>1, <4>2, Zenon
    <3>4. CASE PushChunk(m, ch)
      <4>1. m.req \in Stores /\ UNCHANGED serving
        BY <3>1, <3>4, Zenon DEF PushChunk, Asks
      <4>2. PushesOK' /\ HeldOK'
        BY <1>1, <3>1, <3>4, <4>1, PushChunkBuffers
      <4> QED
        BY <1>2, <1>5, <4>1, <4>2, Zenon
    <3>5. CASE ServeLoad(m, ch, c)
      <4>1. m.req \in Loads /\ UNCHANGED <<held, committed, pushes>>
        BY <3>1, <3>5, Zenon DEF ServeLoad, Asks
      <4>2. ServingOK'
        BY <1>1, <3>1, <3>5, <4>1, ServeLoadStreams
      <4> QED
        BY <1>2, <1>3, <1>4, <4>1, <4>2, Zenon
    <3>6. CASE ServeFree(m, ch)
      <4>1. held' = Without(held, {Target[m.req]}) /\ UNCHANGED <<pushes, serving, committed>>
        BY <3>6 DEF ServeFree
      <4>2. HeldOK'
        BY <1>1, <4>1, LessHeld, Zenon
      <4> QED
        BY <1>2, <1>4, <1>5, <4>1, <4>2, Zenon
    <3> QED
      BY <2>2, <3>2, <3>3, <3>4, <3>5, <3>6, SMTT(30) DEF Serves
  <2>3. CASE UNCHANGED server
    BY <1>2, <1>3, <1>4, <1>5, <2>3 DEF server
  <2> QED
    BY <1>6, <2>1, <2>2, <2>3, DeliverCases, Zenon DEF PullChunk, TakeReply, Serves
<1>7. ASSUME NEW r \in Reqs, StreamChunk(r) PROVE ServerOK'
  <2>1. UNCHANGED <<held, pushes, committed>>
    BY <1>7 DEF StreamChunk
  <2> QED
    BY <1>1, <1>2, <1>3, <1>4, <1>7, <2>1, StreamChunkStreams
<1>8. ASSUME NEW r \in Reqs, Evict(r) PROVE ServerOK'
  <2>1. held' = Without(held, {r}) /\ UNCHANGED <<pushes, serving, committed>>
    BY <1>8 DEF Evict
  <2> QED
    BY <1>1, <1>2, <1>4, <1>5, <2>1, LessHeld, Zenon
<1>9. ASSUME NEW r \in Reqs, Ages(r) PROVE ServerOK'
  <2>1. UNCHANGED <<held, serving, committed>>
    BY <1>9 DEF Ages
  <2>2. CASE r \in DOMAIN pushes /\ pushes' = [pushes EXCEPT ![r].old = TRUE]
    <3>1. [pushes[r] EXCEPT !.old = TRUE] \in BufferType
      BY <1>1, <2>2, Zenon DEF PushesOK, BufferType
    <3>2. pushes' \in [DOMAIN pushes' -> BufferType] /\ DOMAIN pushes' = DOMAIN pushes
      BY <1>1, <2>2, <3>1 DEF PushesOK
    <3>3. PushesOK'
      BY <1>1, <3>2, Zenon DEF PushesOK
    <3> QED
      BY <1>2, <1>3, <1>5, <2>1, <3>3, Zenon
  <2> QED
    BY <1>2, <1>3, <1>4, <1>5, <1>9, <2>1, <2>2 DEF Ages
<1>10. ASSUME NEW r \in Reqs, Begin(r) \/ Coroutine(r) PROVE UNCHANGED server
  BY <1>10, Zenon DEF Begin, Coroutine, Resumes, SendChunk, Sent, Replied, Collected, TimesOut, ClearsUp
<1>11. ASSUME NEW c \in Conns, Drop(c) \/ \E n \in Nodes : EndFails(n, c) PROVE UNCHANGED server
  BY <1>11, Zenon DEF Drop, EndFails, ReadLoopEnds, WriterFails, Unwritten
<1>12. CASE Connect \/ UNCHANGED vars
  BY <1>2, <1>3, <1>4, <1>5, <1>12 DEF Connect, vars, server
<1>13. UNCHANGED server => ServerOK'
  BY <1>2, <1>3, <1>4, <1>5 DEF server
<1> QED
  BY <1>6, <1>7, <1>8, <1>9, <1>10, <1>11, <1>12, <1>13, Zenon DEF Next

(* The shapes and kinds together, and what the client keeps. *)
LEMMA BasicStep ==
  ASSUME ShapeInv, KindInv, WaitInv, [Next]_vars
  PROVE  ShapeInv' /\ KindInv' /\ WaitInv'
BY StepMoves, LinksStep, ClientStep, ServerStep, KindStep DEF ShapeInv

=============================================================================
