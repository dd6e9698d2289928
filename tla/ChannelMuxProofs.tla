-------------------------- MODULE ChannelMuxProofs --------------------------
(***************************************************************************)
(* Proofs about the multiplexer, for any number of streams and senders and *)
(* any bound on queued messages.                                           *)
(***************************************************************************)
EXTENDS ChannelMux, FiniteSetTheorems, SequenceTheorems, TLAPS

(* Where the tasks of the connection are, and what the writer then holds:  *)
(* before run() there is no writer, and a writer that has not stopped has  *)
(* a message in hand only while it sends it.                               *)
TasksInv ==
  /\ reader = "unstarted" <=> writer = "none"
  /\ writer = "none" => ~ cancelled
  /\ writer \in {"none", "started", "waiting"} => inflight = NoMessage

(* The rotation is the queues, each once; a queue is not empty, and holds  *)
(* messages of its own stream.                                             *)
RotationInv ==
  /\ Range(order) = DOMAIN queues
  /\ \A i, j \in 1 .. Len(order) : order[i] = order[j] => i = j
  /\ \A s \in DOMAIN queues :
       queues[s] # <<>> /\ \A i \in 1 .. Len(queues[s]) : queues[s][i].stream = s

Sending == IF writer = "sending" THEN 1 ELSE 0
SlotsInv ==
  /\ IsFiniteSet(Queued)
  /\ slots + granted + Cardinality(Queued) + Sending = MaxQueued

(* A stream was served at most once while another waits, and since then    *)
(* it is behind that one in the rotation, or not in it.                    *)
TurnsInv ==
  \A i \in 1 .. Len(order) :
    /\ \A t \in Streams : passed[order[i]][t] <= 1
    /\ \A j \in 1 .. i : passed[order[i]][order[j]] = 0

MuxInv ==
  /\ TypeOK /\ TasksInv /\ RotationInv /\ SlotsInv
  /\ NoLostWakeup /\ FifoPerStream /\ TurnsInv

-----------------------------------------------------------------------------
(* Sequences.                                                              *)

(* The head of a nonempty queue, and the rest. *)
LEMMA FirstAndRest ==
  ASSUME NEW S, NEW q \in Seq(S), q # <<>>
  PROVE  /\ Head(q) \in S /\ Tail(q) \in Seq(S)
         /\ Len(q) \in Nat \ {0} /\ Len(Tail(q)) = Len(q) - 1
         /\ Head(q) = q[1] /\ \A i \in 1 .. Len(q) - 1 : Tail(q)[i] = q[i + 1]
         /\ q = <<Head(q)>> \o Tail(q)
  OBVIOUS

(* Appending to the last of three pieces. *)
LEMMA AppendToLast ==
  ASSUME NEW a \in Seq(Message), NEW b \in Seq(Message), NEW c \in Seq(Message), NEW m \in Message
  PROVE  Append(a \o b \o c, m) = a \o b \o Append(c, m)
  <1>1. a \o b \in Seq(Message)
    BY ConcatProperties
  <1>2. a \o b \o c \in Seq(Message) /\ <<m>> \in Seq(Message)
    BY <1>1, ConcatProperties
  <1>3. Append(a \o b \o c, m) = (a \o b \o c) \o <<m>> /\ Append(c, m) = c \o <<m>>
    BY <1>2, AppendIsConcat, Zenon
  <1> QED
    BY <1>1, <1>2, <1>3, ConcatAssociative, SMTT(60)

(* Counts of slots and of waiting senders. *)
LEMMA Counts ==
  /\ \A n \in 0 .. 1 : n \in Nat
  /\ \A len \in Nat : \A g \in 0 .. len : g \in Nat /\ (g > 0 => \E n \in Nat : n = len - 1 /\ len = n + 1)
  OBVIOUS

-----------------------------------------------------------------------------
(* send() with its slot.                                                   *)

(* A queue holds messages, whether or not the stream has an entry. *)
LEMMA QueueTyped ==
  ASSUME TypeOK, NEW s \in Streams
  PROVE  Queue(s) \in Seq(Message)
  BY DEF TypeOK, Queue

(* What Enqueue does to the queues. *)
LEMMA EnqueueAdds ==
  ASSUME TypeOK, NEW m \in Message, Enqueue(m)
  PROVE  /\ m.stream \in Streams
         /\ DOMAIN queues' = DOMAIN queues \cup {m.stream}
         /\ \A x \in DOMAIN queues : x # m.stream => queues'[x] = queues[x]
         /\ queues'[m.stream] = Append(Queue(m.stream), m)
         /\ queues'[m.stream] \in Seq(Message)
         /\ Len(queues'[m.stream]) = Len(Queue(m.stream)) + 1
         /\ Len(Queue(m.stream)) \in Nat
         /\ \A i \in 1 .. Len(Queue(m.stream)) : queues'[m.stream][i] = Queue(m.stream)[i]
         /\ queues'[m.stream][Len(Queue(m.stream)) + 1] = m
  <1>1. m.stream \in Streams
    BY DEF Message
  <1>2. Queue(m.stream) \in Seq(Message)
    BY <1>1, QueueTyped
  <1>3. PICK q : q = Queue(m.stream)
    OBVIOUS
  <1>4. queues' = [x \in DOMAIN queues \cup {m.stream} |-> IF x # m.stream THEN queues[x] ELSE Append(q, m)]
    BY <1>3 DEF Enqueue, AddTo
  <1>5. queues'[m.stream] = Append(q, m)
    BY <1>4
  <1>6. DOMAIN queues' = DOMAIN queues \cup {m.stream} /\ \A x \in DOMAIN queues : x # m.stream => queues'[x] = queues[x]
    BY <1>4
  <1>7. /\ Append(q, m) \in Seq(Message) /\ Len(Append(q, m)) = Len(q) + 1 /\ Len(q) \in Nat
        /\ \A i \in 1 .. Len(q) : Append(q, m)[i] = q[i]
        /\ Append(q, m)[Len(q) + 1] = m
    BY <1>2, <1>3
  <1> QED
    BY <1>1, <1>3, <1>5, <1>6, <1>7

(* A stream joins the rotation with its first message only. *)
LEMMA EnqueueRotation ==
  ASSUME TypeOK, RotationInv, NEW m \in Message, Enqueue(m)
  PROVE  RotationInv' /\ order' \in Seq(Streams)
  <1> DEFINE s == m.stream
  <1>1. s \in Streams /\ order \in Seq(Streams)
    BY EnqueueAdds, Zenon DEF TypeOK
  <1> DOMAIN queues' = DOMAIN queues \cup {s} /\ \A x \in DOMAIN queues : x # s => queues'[x] = queues[x]
    BY EnqueueAdds, Zenon
  <1>2. ASSUME NEW x \in DOMAIN queues'
        PROVE  queues'[x] # <<>> /\ \A i \in 1 .. Len(queues'[x]) : queues'[x][i].stream = x
    <2>1. CASE x # s
      <3>1. x \in DOMAIN queues /\ queues'[x] = queues[x]
        BY <2>1
      <3> QED
        BY <3>1 DEF RotationInv
    <2>2. CASE x = s
      <3>1. ASSUME NEW i \in 1 .. Len(Queue(s))
            PROVE  Queue(s)[i].stream = s
        <4>1. s \in DOMAIN queues
          BY DEF Queue
        <4> QED
          BY <4>1 DEF Queue, RotationInv
      <3>2. PICK n \in Nat : n = Len(Queue(s))
        BY EnqueueAdds, Zenon
      <3>3. Len(queues'[s]) = n + 1 /\ queues'[s][n + 1] = m
        BY <3>2, EnqueueAdds
      <3>4. \A i \in 1 .. n : queues'[s][i].stream = s
        BY <3>1, <3>2, EnqueueAdds
      <3>5. queues'[s] # <<>>
        BY <3>3, EnqueueAdds
      <3>6. \A i \in 1 .. n + 1 : i \in 1 .. n \/ i = n + 1
        OBVIOUS
      <3> QED
        BY <2>2, <3>3, <3>4, <3>5, <3>6
    <2> QED
      BY <2>1, <2>2
  <1>3. CASE s \in DOMAIN queues
    <2>1. order' = order /\ DOMAIN queues' = DOMAIN queues
      BY <1>3, EnqueueAdds, Zenon DEF Enqueue
    <2>2. Range(order') = DOMAIN queues'
      BY <2>1, Zenon DEF RotationInv
    <2>3. \A i, j \in 1 .. Len(order') : order'[i] = order'[j] => i = j
      BY <2>1, Zenon DEF RotationInv
    <2> QED
      BY <1>1, <1>2, <2>1, <2>2, <2>3, Zenon DEF RotationInv
  <1>4. CASE s \notin DOMAIN queues
    <2>1. order' = Append(order, s) /\ DOMAIN queues' = DOMAIN queues \cup {s}
      BY <1>4, EnqueueAdds DEF Enqueue
    <2>2. PICK n \in Nat : n = Len(order)
      BY <1>1
    <2>3. /\ order' \in Seq(Streams) /\ Len(order') = n + 1 /\ order'[n + 1] = s
          /\ \A i \in 1 .. n : order'[i] = order[i]
      BY <1>1, <2>1, <2>2
    <2>4. \A i \in 1 .. n : order[i] # s /\ order[i] \in DOMAIN queues
      BY <1>1, <1>4, <2>2 DEF RotationInv, Range
    <2>5. \A i \in 1 .. n + 1 : i \in 1 .. n \/ i = n + 1
      OBVIOUS
    <2>6. \A i, j \in 1 .. Len(order') : order'[i] = order'[j] => i = j
      BY <2>2, <2>3, <2>4, <2>5, ZenonT(60) DEF RotationInv
    <2>7. DOMAIN order' = 1 .. n + 1 /\ DOMAIN order = 1 .. n
      BY <1>1, <2>2, <2>3
    <2>8. Range(order') = Range(order) \cup {s}
      BY <2>3, <2>5, <2>7 DEF Range
    <2> QED
      BY <1>2, <2>1, <2>3, <2>6, <2>8, Zenon DEF RotationInv
  <1> QED
    BY <1>3, <1>4

(* The message takes one place more. *)
LEMMA EnqueueTakesPlace ==
  ASSUME TypeOK, IsFiniteSet(Queued), NEW m \in Message, Enqueue(m)
  PROVE  /\ IsFiniteSet(Queued') /\ Cardinality(Queued) \in Nat
         /\ Cardinality(Queued') = Cardinality(Queued) + 1
  <1> DEFINE s == m.stream
             place == <<s, Len(Queue(s)) + 1>>
  <1>1. PICK n \in Nat : n = Len(Queue(s))
    BY EnqueueAdds, Zenon
  <1> DOMAIN queues' = DOMAIN queues \cup {s} /\ \A x \in DOMAIN queues : x # s => queues'[x] = queues[x]
    BY EnqueueAdds, Zenon
  <1>2. \A x, i : <<x, i>> \in Queued <=> x \in DOMAIN queues /\ i \in 1 .. Len(queues[x])
    BY DEF Queued
  <1>3. \A x, i : <<x, i>> \in Queued' <=> x \in DOMAIN queues' /\ i \in 1 .. Len(queues'[x])
    BY DEF Queued
  <1>4. s \in DOMAIN queues => queues[s] = Queue(s)
    BY DEF Queue
  <1>5. s \notin DOMAIN queues => n = 0
    BY <1>1 DEF Queue
  <1>6. place \notin Queued
    BY <1>1, <1>2, <1>4
  <1>7. ASSUME NEW x, NEW i
        PROVE  <<x, i>> \in Queued' <=> <<x, i>> \in Queued \/ <<x, i>> = place
    <2>1. CASE x # s
      <3>1. x \in DOMAIN queues' <=> x \in DOMAIN queues
        BY <2>1
      <3>2. x \in DOMAIN queues => queues'[x] = queues[x]
        BY <2>1
      <3>3. <<x, i>> # place
        BY <2>1
      <3> QED
        BY <1>2, <1>3, <3>1, <3>2, <3>3
    <2>2. CASE x = s
      <3>1. <<x, i>> \in Queued' <=> i \in 1 .. n + 1
        BY <1>1, <1>3, <2>2, EnqueueAdds
      <3>2. <<x, i>> \in Queued <=> i \in 1 .. n
        BY <1>1, <1>2, <1>4, <1>5, <2>2
      <3>3. <<x, i>> = place <=> i = n + 1
        BY <1>1, <2>2
      <3> QED
        BY <3>1, <3>2, <3>3
    <2> QED
      BY <2>1, <2>2
  <1>8. \A p \in Queued \cup Queued' \cup {place} : \E x, i : p = <<x, i>>
    BY DEF Queued
  <1>9. Queued' = Queued \cup {place}
    BY <1>7, <1>8
  <1> QED
    BY <1>6, <1>9, FS_AddElement, FS_CardinalityType

(* The histories, and whose turn it is. *)
LEMMA EnqueueInOrder ==
  ASSUME TypeOK, FifoPerStream, NEW m \in Message, Enqueue(m)
  PROVE  FifoPerStream' /\ accepted' \in [Streams -> Seq(Message)]
  <1> DEFINE s == m.stream
             Pending(x) == IF inflight # NoMessage /\ inflight.stream = x THEN <<inflight>> ELSE <<>>
  <1>1. s \in Streams /\ accepted \in [Streams -> Seq(Message)] /\ wire \in [Streams -> Seq(Message)]
    BY EnqueueAdds, Zenon DEF TypeOK
  <1>2. inflight' = inflight /\ wire' = wire /\ accepted' = [accepted EXCEPT ![s] = Append(@, m)]
    BY DEF Enqueue
  <1>3. accepted' \in [Streams -> Seq(Message)]
    BY <1>1, <1>2
  <1>4. \A x \in Streams : x # s => Queue(x)' = Queue(x)
    <2>1. DOMAIN queues' = DOMAIN queues \cup {s} /\ \A x \in DOMAIN queues : x # s => queues'[x] = queues[x]
      BY EnqueueAdds, Zenon
    <2> QED
      BY <2>1 DEF Queue
  <1>5. Queue(s)' = Append(Queue(s), m)
    <2>1. s \in DOMAIN queues' /\ queues'[s] = Append(Queue(s), m)
      BY EnqueueAdds, Zenon
    <2> QED
      BY <2>1 DEF Queue
  <1>6. \A x \in Streams : Pending(x) \in Seq(Message)
    BY DEF TypeOK
  <1>7. \A x \in Streams : accepted[x] = wire[x] \o Pending(x) \o Queue(x)
    BY Zenon DEF FifoPerStream
  <1>8. Append(wire[s] \o Pending(s) \o Queue(s), m) = wire[s] \o Pending(s) \o Append(Queue(s), m)
    <2>1. wire[s] \in Seq(Message) /\ Pending(s) \in Seq(Message) /\ Queue(s) \in Seq(Message)
      BY <1>1, <1>6, QueueTyped
    <2>2. PICK w, p, q : w = wire[s] /\ p = Pending(s) /\ q = Queue(s)
      BY Zenon
    <2>3. w \in Seq(Message) /\ p \in Seq(Message) /\ q \in Seq(Message)
      BY <2>1, <2>2
    <2>4. Append(w \o p \o q, m) = w \o p \o Append(q, m)
      BY <2>3, AppendToLast, ZenonT(60)
    <2> QED
      BY <2>2, <2>4, Zenon
  <1>9. \A x \in Streams : accepted'[x] = wire[x] \o Pending(x) \o Queue(x)'
    BY <1>1, <1>2, <1>4, <1>5, <1>7, <1>8, Zenon
  <1>10. \A x \in Streams : accepted'[x] = wire'[x]
            \o (IF inflight' # NoMessage /\ inflight'.stream = x THEN <<inflight'>> ELSE <<>>) \o Queue(x)'
    BY <1>2, <1>9, Zenon
  <1> QED
    BY <1>3, <1>10, Zenon DEF FifoPerStream

(* A new queue joins at the back, and nobody has passed it. *)
LEMMA EnqueueTurns ==
  ASSUME TypeOK, RotationInv, TurnsInv, NEW m \in Message, Enqueue(m)
  PROVE  TurnsInv' /\ passed' \in [Streams -> [Streams -> Nat]]
  <1> DEFINE s == m.stream
  <1>1. s \in Streams /\ order \in Seq(Streams) /\ passed \in [Streams -> [Streams -> Nat]]
    BY EnqueueAdds, Zenon DEF TypeOK
  <1>2. Nobody \in [Streams -> Nat] /\ \A t \in Streams : Nobody[t] = 0
    BY DEF Nobody
  <1>3. CASE s \in DOMAIN queues
    <2>1. order' = order /\ passed' = passed
      BY <1>1, <1>3 DEF Enqueue
    <2> QED
      BY <1>1, <2>1 DEF TurnsInv
  <1>4. CASE s \notin DOMAIN queues
    <2>1. order' = Append(order, s) /\ passed' = [passed EXCEPT ![s] = Nobody]
      BY <1>4 DEF Enqueue
    <2>2. PICK n \in Nat : n = Len(order)
      BY <1>1
    <2>3. /\ Len(order') = n + 1 /\ order'[n + 1] = s
          /\ \A i \in 1 .. n : order'[i] = order[i]
      BY <1>1, <2>1, <2>2
    <2>4. \A i \in 1 .. n : order[i] # s /\ order[i] \in Streams
      <3>1. \A i \in 1 .. n : order[i] \in Streams /\ order[i] \in Range(order)
        BY <1>1, <2>2 DEF Range
      <3>2. Range(order) = DOMAIN queues
        BY DEF RotationInv
      <3> QED
        BY <1>4, <3>1, <3>2
    <2>5. ASSUME NEW i \in 1 .. n + 1
          PROVE  /\ \A t \in Streams : passed'[order'[i]][t] <= 1
                 /\ \A j \in 1 .. i : passed'[order'[i]][order'[j]] = 0
      <3>1. CASE i = n + 1
        <4>1. passed'[order'[i]] = Nobody
          BY <1>1, <2>1, <2>3, <3>1
        <4>2. \A j \in 1 .. i : order'[j] \in Streams
          <5>1. \A j \in 1 .. n + 1 : j \in 1 .. n \/ j = n + 1
            OBVIOUS
          <5> QED
            BY <1>1, <2>3, <2>4, <3>1, <5>1, Zenon
        <4> QED
          BY <1>2, <4>1, <4>2
      <3>2. CASE i \in 1 .. n
        <4>1. passed'[order'[i]] = passed[order[i]]
          BY <1>1, <2>1, <2>3, <2>4, <3>2, Zenon
        <4>2. \A j \in 1 .. i : order'[j] = order[j]
          BY <2>3, <3>2
        <4> QED
          BY <2>2, <3>2, <4>1, <4>2 DEF TurnsInv
      <3> QED
        BY <3>1, <3>2
    <2>6. passed' \in [Streams -> [Streams -> Nat]]
      BY <1>1, <1>2, <2>1
    <2> QED
      BY <2>3, <2>5, <2>6 DEF TurnsInv
  <1> QED
    BY <1>3, <1>4

-----------------------------------------------------------------------------
(* The writer's choice.                                                    *)

(* What is in rotation has a message, so the writer takes the very first.  *)
LEMMA AllReady ==
  ASSUME TypeOK, RotationInv
  PROVE  Ready = 1 .. Len(order) /\ \A i \in Ready : order[i] \in DOMAIN queues
  <1>1. order \in Seq(Streams) /\ DOMAIN order = 1 .. Len(order)
    BY DEF TypeOK
  <1>2. ASSUME NEW i \in 1 .. Len(order)
        PROVE  order[i] \in DOMAIN queues /\ Queue(order[i]) # <<>>
    <2>1. order[i] \in DOMAIN queues
      BY <1>1 DEF RotationInv, Range
    <2> QED
      BY <2>1 DEF RotationInv, Queue
  <1> QED
    BY <1>2 DEF Ready

(* So Take is what _next_message does at the first stream in rotation. *)
LEMMA TakesFirst ==
  ASSUME TypeOK, RotationInv, NEW i \in Ready, Take(i)
  PROVE  LET s == order[1]
             done == Tail(queues[s]) = <<>>
         IN  /\ order # <<>> /\ s \in Streams /\ s \in DOMAIN queues
             /\ queues[s] \in Seq(Message) /\ queues[s] # <<>>
             /\ inflight' = Head(queues[s]) /\ inflight'.stream = s
             /\ inflight' \in Message
             /\ DOMAIN queues' = IF done THEN DOMAIN queues \ {s} ELSE DOMAIN queues
             /\ \A x \in DOMAIN queues' : queues'[x] = IF x = s THEN Tail(queues[x]) ELSE queues[x]
             /\ order' = IF done THEN Tail(order) ELSE Append(Tail(order), s)
             /\ passed' = [x \in Streams |-> IF x = s THEN Nobody ELSE [passed[x] EXCEPT ![s] = @ + 1]]
             /\ writer' = "sending" /\ wake' = wake
  <1> DEFINE s == order[1]
             done == Tail(queues[s]) = <<>>
  <1>1. Ready = 1 .. Len(order) /\ order \in Seq(Streams) /\ Len(order) \in Nat
    BY AllReady DEF TypeOK
  <1>2. i = 1
    <2>1. i \in 1 .. Len(order) /\ 1 \in Ready
      BY <1>1
    <2>2. \A j \in Ready : i <= j
      BY DEF Take
    <2> QED
      BY <1>1, <2>1, <2>2
  <1>3. order # <<>> /\ s \in Streams /\ s \in DOMAIN queues
    BY <1>1, <1>2, AllReady
  <1>4. queues[s] \in Seq(Message) /\ queues[s] # <<>> /\ queues[s][1].stream = s
    <2>1. queues[s] \in Seq(Message)
      BY <1>3, Zenon DEF TypeOK
    <2>2. queues[s] # <<>> /\ \A k \in 1 .. Len(queues[s]) : queues[s][k].stream = s
      BY <1>3 DEF RotationInv
    <2>3. 1 \in 1 .. Len(queues[s])
      BY <2>1, <2>2
    <2> QED
      BY <2>1, <2>2, <2>3
  <1>5. inflight' = Head(queues[s]) /\ writer' = "sending" /\ wake' = wake
    BY <1>2 DEF Take
  <1>6. inflight' \in Message /\ inflight'.stream = s
    BY <1>4, <1>5
  <1>7. {order[j] : j \in 1 .. i - 1} = {}
    BY <1>2
  <1>8. queues' = [x \in DOMAIN queues \ (IF done THEN {s} ELSE {}) |-> IF x = s THEN Tail(queues[x]) ELSE queues[x]]
    BY <1>2, <1>7 DEF Take, Emptied
  <1>9. order' = IF done THEN SubSeq(order, 2, Len(order)) ELSE Append(SubSeq(order, 2, Len(order)), s)
    BY <1>2 DEF Take, Requeue
  <1>10. Tail(order) = SubSeq(order, 2, Len(order))
    BY <1>1, <1>3
  <1>11. passed' = [x \in Streams |-> IF x = s THEN Nobody ELSE [passed[x] EXCEPT ![s] = @ + 1]]
    BY <1>2 DEF Take
  <1>12. /\ DOMAIN queues' = IF done THEN DOMAIN queues \ {s} ELSE DOMAIN queues
         /\ \A x \in DOMAIN queues' : queues'[x] = IF x = s THEN Tail(queues[x]) ELSE queues[x]
    BY <1>8, Zenon
  <1> QED
    BY <1>3, <1>4, <1>5, <1>6, <1>9, <1>10, <1>11, <1>12, ZenonT(60)

(* Taking a message keeps the rotation exact: the stream served leaves it  *)
(* with its queue, or goes to the back.                                    *)
LEMMA TakeRotation ==
  ASSUME TypeOK, RotationInv, TurnsInv, NEW i \in Ready, Take(i)
  PROVE  /\ order' \in Seq(Streams) /\ RotationInv'
         /\ DOMAIN queues' \subseteq Streams /\ \A x \in DOMAIN queues' : queues'[x] \in Seq(Message)
         /\ TurnsInv' /\ passed' \in [Streams -> [Streams -> Nat]]
  <1> DEFINE s == order[1]
             done == Tail(queues[s]) = <<>>
  <1>1. /\ order # <<>> /\ s \in Streams /\ s \in DOMAIN queues
        /\ queues[s] \in Seq(Message) /\ queues[s] # <<>>
        /\ DOMAIN queues' = IF done THEN DOMAIN queues \ {s} ELSE DOMAIN queues
        /\ \A x \in DOMAIN queues' : queues'[x] = IF x = s THEN Tail(queues[x]) ELSE queues[x]
        /\ order' = IF done THEN Tail(order) ELSE Append(Tail(order), s)
        /\ passed' = [x \in Streams |-> IF x = s THEN Nobody ELSE [passed[x] EXCEPT ![s] = @ + 1]]
    BY TakesFirst, Zenon
  <1>2. order \in Seq(Streams) /\ passed \in [Streams -> [Streams -> Nat]]
    BY DEF TypeOK
  <1>3. PICK n \in Nat : Len(order) = n + 1
    <2>1. Len(order) \in Nat \ {0}
      BY <1>1, <1>2
    <2> QED
      BY <2>1
  <1>4. /\ Tail(order) \in Seq(Streams) /\ Len(Tail(order)) = n
        /\ \A j \in 1 .. n : Tail(order)[j] = order[j + 1]
    BY <1>1, <1>2, <1>3
  <1>5. \A j \in 1 .. n : order[j + 1] # s /\ order[j + 1] \in DOMAIN queues /\ order[j + 1] \in Streams
    <2>1. \A j \in 1 .. n : j + 1 \in 1 .. n + 1 /\ 1 \in 1 .. n + 1 /\ j + 1 # 1
      OBVIOUS
    <2>2. \A j \in 1 .. n + 1 : order[j] \in DOMAIN queues /\ order[j] \in Streams
      <3>1. \A j \in 1 .. n + 1 : order[j] \in DOMAIN queues
        BY <1>3, AllReady
      <3> QED
        BY <3>1 DEF TypeOK
    <2>3. \A j \in 1 .. n : order[j + 1] = order[1] => j + 1 = 1
      BY <1>3, <2>1 DEF RotationInv
    <2> QED
      BY <2>1, <2>2, <2>3
  <1>6. /\ order' \in Seq(Streams) /\ Len(order') = IF done THEN n ELSE n + 1
        /\ \A j \in 1 .. n : order'[j] = order[j + 1]
        /\ ~ done => order'[n + 1] = s
    <2>1. PICK rest : rest = Tail(order)
      BY Zenon
    <2>2. rest \in Seq(Streams) /\ Len(rest) = n /\ \A j \in 1 .. n : rest[j] = order[j + 1]
      BY <1>4, <2>1
    <2>3. CASE done
      <3>1. order' = rest
        BY <1>1, <2>1, <2>3
      <3> QED
        BY <2>2, <2>3, <3>1
    <2>4. CASE ~ done
      <3>1. order' = Append(rest, s)
        BY <1>1, <2>1, <2>4
      <3>2. PICK x \in Streams : x = s
        BY <1>1
      <3>3. /\ Append(rest, x) \in Seq(Streams) /\ Len(Append(rest, x)) = n + 1
            /\ Append(rest, x)[n + 1] = x /\ \A j \in 1 .. n : Append(rest, x)[j] = rest[j]
        BY <2>2
      <3> QED
        BY <2>2, <2>4, <3>1, <3>2, <3>3
    <2> QED
      BY <2>3, <2>4
  <1> HIDE DEF done
  <1>7. \A j \in 1 .. Len(order') : j \in 1 .. n \/ (~ done /\ j = n + 1)
    BY <1>6
  <1>8. \A j, k \in 1 .. Len(order') : order'[j] = order'[k] => j = k
    <2>1. ASSUME NEW j \in 1 .. n, NEW k \in 1 .. n, order[j + 1] = order[k + 1]
          PROVE  j = k
      <3>1. j + 1 \in 1 .. Len(order) /\ k + 1 \in 1 .. Len(order)
        BY <1>3
      <3>2. j + 1 = k + 1
        BY <2>1, <3>1 DEF RotationInv
      <3> QED
        BY <3>2
    <2>2. ASSUME NEW j \in 1 .. Len(order'), NEW k \in 1 .. Len(order'), order'[j] = order'[k]
          PROVE  j = k
      <3>1. CASE j \in 1 .. n /\ k \in 1 .. n
        BY <1>6, <2>1, <2>2, <3>1, Zenon
      <3>2. CASE j \in 1 .. n /\ ~ done /\ k = n + 1
        BY <1>5, <1>6, <2>2, <3>2
      <3>3. CASE k \in 1 .. n /\ ~ done /\ j = n + 1
        BY <1>5, <1>6, <2>2, <3>3
      <3> QED
        BY <1>7, <3>1, <3>2, <3>3
    <2> QED
      BY <2>2
  <1>9. Range(order') = DOMAIN queues'
    <2>1. DOMAIN order' = 1 .. Len(order') /\ DOMAIN order = 1 .. n + 1
      BY <1>2, <1>3, <1>6
    <2>2. \A k \in 1 .. n + 1 : k = 1 \/ (k - 1 \in 1 .. n /\ k = (k - 1) + 1)
      OBVIOUS
    <2>3. \A x \in DOMAIN queues : x = s \/ \E j \in 1 .. n : x = order[j + 1]
      BY <2>1, <2>2 DEF RotationInv, Range
    <2>4. \A j \in 1 .. n : j \in 1 .. Len(order')
      BY <1>6
    <2>5. ~ done => n + 1 \in 1 .. Len(order')
      BY <1>6
    <2>6. \A x \in Range(order') : x \in DOMAIN queues'
      BY <1>1, <1>5, <1>6, <1>7, <2>1 DEF Range
    <2>7. \A x \in DOMAIN queues' : x \in Range(order')
      <3>1. ASSUME NEW x \in DOMAIN queues', x # s PROVE x \in Range(order')
        <4>1. PICK j \in 1 .. n : x = order[j + 1]
          BY <1>1, <2>3, <3>1
        <4> QED
          BY <1>6, <2>1, <2>4, <4>1, ZenonT(60) DEF Range
      <3>2. ASSUME s \in DOMAIN queues' PROVE s \in Range(order')
        BY <1>1, <1>6, <2>1, <2>5, <3>2 DEF Range
      <3> QED
        BY <3>1, <3>2
    <2> QED
      BY <2>6, <2>7
  <1>10. ASSUME NEW x \in DOMAIN queues'
         PROVE  /\ queues'[x] # <<>> /\ queues'[x] \in Seq(Message) /\ x \in Streams
                /\ \A k \in 1 .. Len(queues'[x]) : queues'[x][k].stream = x
    <2>1. x \in DOMAIN queues /\ x \in Streams
      BY <1>1, Zenon DEF TypeOK
    <2>2. CASE x # s
      BY <1>1, <2>1, <2>2, Zenon DEF TypeOK, RotationInv
    <2>3. CASE x = s
      <3>1. queues'[x] = Tail(queues[s]) /\ Tail(queues[s]) # <<>>
        BY <1>1, <2>3, Zenon DEF done
      <3>2. PICK q \in Seq(Message) : q = queues[s] /\ q # <<>> /\ \A k \in 1 .. Len(q) : q[k].stream = s
        BY <1>1, Zenon DEF RotationInv
      <3>3. Tail(q) \in Seq(Message) /\ \A k \in 1 .. Len(Tail(q)) : Tail(q)[k].stream = s
        BY <3>2, SMTT(60)
      <3> QED
        BY <2>1, <2>3, <3>1, <3>2, <3>3, ZenonT(60)
    <2> QED
      BY <2>2, <2>3
  <1>11. Nobody \in [Streams -> Nat] /\ \A t \in Streams : Nobody[t] = 0
    BY DEF Nobody
  <1>12. passed' \in [Streams -> [Streams -> Nat]]
    <2>1. ASSUME NEW x \in Streams PROVE passed'[x] \in [Streams -> Nat]
      <3>1. passed[x] \in [Streams -> Nat]
        BY <1>2
      <3>2. [passed[x] EXCEPT ![s] = @ + 1] \in [Streams -> Nat]
        <4>1. PICK f \in [Streams -> Nat] : f = passed[x]
          BY <3>1
        <4>2. PICK t \in Streams : t = s
          BY <1>1
        <4>3. f[t] + 1 \in Nat
          OBVIOUS
        <4> QED
          BY <4>1, <4>2, <4>3
      <3> QED
        BY <1>1, <1>11, <3>2
    <2> QED
      BY <1>1, <2>1
  <1>13. TurnsInv'
    <2>1. ASSUME NEW k \in 1 .. n
          PROVE  /\ \A t \in Streams : passed'[order[k + 1]][t] <= 1
                 /\ \A j \in 1 .. k : passed'[order[k + 1]][order[j + 1]] = 0
      <3>1. PICK x \in Streams : x = order[k + 1] /\ x # s
        BY <1>5
      <3>2. passed'[x] = [passed[x] EXCEPT ![s] = @ + 1] /\ passed[x] \in [Streams -> Nat]
        BY <1>1, <1>2, <3>1, Zenon
      <3>3. k + 1 \in 1 .. Len(order) /\ 1 \in 1 .. k + 1
        BY <1>3
      <3>4. passed[x][s] = 0 /\ \A t \in Streams : passed[x][t] <= 1
        BY <3>1, <3>3 DEF TurnsInv
      <3>5. ASSUME NEW j \in 1 .. k PROVE passed'[x][order[j + 1]] = 0
        <4>1. j + 1 \in 1 .. k + 1 /\ j \in 1 .. n
          OBVIOUS
        <4>2. passed[x][order[j + 1]] = 0
          BY <3>1, <3>3, <4>1, Zenon DEF TurnsInv
        <4> QED
          BY <1>5, <3>2, <4>1, <4>2
      <3> QED
        BY <3>1, <3>2, <3>4, <3>5
    <2>2. passed'[s] = Nobody
      BY <1>1
    <2>3. ASSUME NEW k \in 1 .. Len(order')
          PROVE  /\ \A t \in Streams : passed'[order'[k]][t] <= 1
                 /\ \A j \in 1 .. k : passed'[order'[k]][order'[j]] = 0
      <3>1. CASE k \in 1 .. n
        <4>1. \A j \in 1 .. k : order'[j] = order[j + 1]
          BY <1>6, <3>1
        <4>2. order'[k] = order[k + 1]
          BY <1>6, <3>1
        <4> QED
          BY <2>1, <3>1, <4>1, <4>2, ZenonT(60)
      <3>2. CASE ~ done /\ k = n + 1
        <4>1. \A j \in 1 .. k : order'[j] \in Streams
          BY <1>6, <3>2
        <4> QED
          BY <1>6, <1>11, <2>2, <3>2, <4>1
      <3> QED
        BY <1>7, <3>1, <3>2
    <2> QED
      BY <2>3 DEF TurnsInv
  <1> QED
    BY <1>6, <1>8, <1>9, <1>10, <1>12, <1>13, Zenon DEF RotationInv

(* The message taken gives up its place in the queue. *)
LEMMA TakeFreesPlace ==
  ASSUME TypeOK, RotationInv, IsFiniteSet(Queued), NEW i \in Ready, Take(i)
  PROVE  /\ IsFiniteSet(Queued') /\ Cardinality(Queued') \in Nat
         /\ Cardinality(Queued) = Cardinality(Queued') + 1
  <1> DEFINE s == order[1]
  <1>1. /\ s \in DOMAIN queues /\ queues[s] \in Seq(Message) /\ queues[s] # <<>>
        /\ DOMAIN queues' = IF Tail(queues[s]) = <<>> THEN DOMAIN queues \ {s} ELSE DOMAIN queues
        /\ \A x \in DOMAIN queues' : queues'[x] = IF x = s THEN Tail(queues[x]) ELSE queues[x]
    BY TakesFirst, Zenon
  <1>2. PICK q \in Seq(Message) : q = queues[s] /\ q # <<>>
    BY <1>1
  <1>3. PICK n \in Nat : Len(q) = n + 1
    <2>1. Len(q) \in Nat \ {0}
      BY <1>2
    <2> QED
      BY <2>1
  <1>4. Tail(q) \in Seq(Message) /\ Len(Tail(q)) = n /\ (Tail(q) = <<>> <=> n = 0)
    <2>1. Tail(q) \in Seq(Message) /\ Len(Tail(q)) = n
      BY <1>2, <1>3
    <2> QED
      BY <2>1
  <1> DEFINE place == <<s, n + 1>>
  <1>5. \A x, k : <<x, k>> \in Queued <=> x \in DOMAIN queues /\ k \in 1 .. Len(queues[x])
    BY DEF Queued
  <1>6. \A x, k : <<x, k>> \in Queued' <=> x \in DOMAIN queues' /\ k \in 1 .. Len(queues'[x])
    BY DEF Queued
  <1>7. place \in Queued
    BY <1>1, <1>2, <1>3, <1>5
  <1>8. ASSUME NEW x, NEW k
        PROVE  <<x, k>> \in Queued' <=> <<x, k>> \in Queued /\ <<x, k>> # place
    <2>1. CASE x # s
      <3>1. x \in DOMAIN queues' <=> x \in DOMAIN queues
        BY <1>1, <2>1
      <3>2. x \in DOMAIN queues' => queues'[x] = queues[x]
        BY <1>1, <2>1
      <3>3. <<x, k>> # place
        BY <2>1
      <3> QED
        BY <1>5, <1>6, <3>1, <3>2, <3>3
    <2>2. CASE x = s
      <3>1. <<x, k>> \in Queued <=> k \in 1 .. n + 1
        BY <1>1, <1>2, <1>3, <1>5, <2>2
      <3>2. <<x, k>> \in Queued' <=> k \in 1 .. n
        <4>1. CASE n = 0
          <5>1. s \notin DOMAIN queues'
            BY <1>1, <1>2, <1>4, <4>1
          <5> QED
            BY <1>6, <2>2, <4>1, <5>1
        <4>2. CASE n # 0
          <5>1. s \in DOMAIN queues' /\ queues'[s] = Tail(q)
            BY <1>1, <1>2, <1>4, <4>2, ZenonT(60)
          <5> QED
            BY <1>4, <1>6, <2>2, <5>1
        <4> QED
          BY <4>1, <4>2
      <3>3. <<x, k>> = place <=> k = n + 1
        BY <2>2
      <3>4. k \in 1 .. n <=> k \in 1 .. n + 1 /\ k # n + 1
        OBVIOUS
      <3> QED
        BY <3>1, <3>2, <3>3, <3>4
    <2> QED
      BY <2>1, <2>2
  <1>9. \A p \in Queued \cup Queued' \cup {place} : \E x, k : p = <<x, k>>
    BY DEF Queued
  <1>10. Queued' = Queued \ {place}
    BY <1>8, <1>9
  <1>11. /\ IsFiniteSet(Queued') /\ Cardinality(Queued') = Cardinality(Queued) - 1
         /\ Cardinality(Queued) \in Nat /\ Cardinality(Queued') \in Nat
    BY <1>7, <1>10, FS_RemoveElement, FS_CardinalityType, ZenonT(60)
  <1> QED
    BY <1>11

(* Nothing is pending beside w, and the writer takes the next message. *)
LEMMA TakeInOrder ==
  ASSUME TypeOK, RotationInv, NEW i \in Ready, Take(i),
         NEW w \in [Streams -> Seq(Message)],
         \A x \in Streams : accepted[x] = w[x] \o Queue(x)
  PROVE  \A x \in Streams : accepted[x] = w[x] \o
           (IF inflight' # NoMessage /\ inflight'.stream = x THEN <<inflight'>> ELSE <<>>) \o Queue(x)'
  <1>0. PICK s : s = order[1]
    BY Zenon
  <1>1. /\ s \in Streams /\ s \in DOMAIN queues /\ queues[s] \in Seq(Message) /\ queues[s] # <<>>
        /\ DOMAIN queues' = IF Tail(queues[s]) = <<>> THEN DOMAIN queues \ {s} ELSE DOMAIN queues
        /\ \A x \in DOMAIN queues' : queues'[x] = IF x = s THEN Tail(queues[x]) ELSE queues[x]
        /\ inflight' = Head(queues[s]) /\ inflight'.stream = s /\ inflight' \in Message
    BY <1>0, TakesFirst, Zenon
  <1>2. inflight' # NoMessage
    BY <1>1, MuxAssumption
  <1>3. ASSUME NEW x \in Streams, x # s
        PROVE  Queue(x)' = Queue(x) /\ w[x] \o <<>> = w[x]
    <2>1. x \in DOMAIN queues' <=> x \in DOMAIN queues
      BY <1>1, <1>3
    <2>2. x \in DOMAIN queues' => queues'[x] = queues[x]
      BY <1>1, <1>3, Zenon
    <2>3. w[x] \in Seq(Message)
      OBVIOUS
    <2> QED
      BY <2>1, <2>2, <2>3, ConcatEmptySeq, Zenon DEF Queue
  <1>4. Queue(s) = queues[s] /\ Queue(s)' = Tail(queues[s])
    <2>1. Queue(s) = queues[s]
      BY <1>1 DEF Queue
    <2>2. CASE Tail(queues[s]) = <<>>
      <3>1. s \notin DOMAIN queues'
        BY <1>1, <2>2
      <3>2. Queue(s)' = <<>>
        BY <3>1 DEF Queue
      <3> QED
        BY <2>1, <2>2, <3>2
    <2>3. CASE Tail(queues[s]) # <<>>
      <3>1. s \in DOMAIN queues' /\ queues'[s] = Tail(queues[s])
        BY <1>1, <2>3, Zenon
      <3>2. Queue(s)' = Tail(queues[s])
        BY <3>1 DEF Queue
      <3> QED
        BY <2>1, <3>2
    <2> QED
      BY <2>2, <2>3
  <1>5. w[s] \o Queue(s) = w[s] \o <<inflight'>> \o Queue(s)'
    <2>1. PICK q \in Seq(Message) : q = queues[s] /\ q # <<>>
      BY <1>1
    <2>2. PICK v \in Seq(Message) : v = w[s]
      BY <1>1
    <2>3. q = <<Head(q)>> \o Tail(q) /\ Head(q) \in Message /\ Tail(q) \in Seq(Message)
      BY <2>1, FirstAndRest
    <2>4. PICK h \in Message, r \in Seq(Message) : h = Head(q) /\ r = Tail(q)
      BY <2>3, Zenon
    <2>5. <<h>> \in Seq(Message)
      OBVIOUS
    <2>6. (v \o <<h>>) \o r = v \o (<<h>> \o r)
      BY <2>5, ConcatAssociative
    <2>7. q = <<h>> \o r /\ inflight' = h /\ Queue(s)' = r /\ Queue(s) = q
      BY <1>1, <1>4, <2>1, <2>3, <2>4, Zenon
    <2> QED
      BY <2>2, <2>6, <2>7, ZenonT(60)
  <1>6. ASSUME NEW x \in Streams
        PROVE  accepted[x] = w[x] \o
                 (IF inflight' # NoMessage /\ inflight'.stream = x THEN <<inflight'>> ELSE <<>>) \o Queue(x)'
    <2>1. CASE x = s
      BY <1>1, <1>2, <1>5, <2>1, Zenon
    <2>2. CASE x # s
      <3>1. accepted[x] = w[x] \o <<>> \o Queue(x)'
        BY <1>3, <2>2, Zenon
      <3> QED
        BY <1>1, <2>2, <3>1, Zenon
    <2> QED
      BY <2>1, <2>2, Zenon
  <1> QED
    BY <1>6

(* An idle writer leaves nothing behind: nothing was in rotation. *)
LEMMA IdleIsEmpty ==
  ASSUME TypeOK, RotationInv, Idle
  PROVE  /\ order = <<>> /\ DOMAIN queues = {} /\ order' = <<>> /\ queues' = <<>> /\ DOMAIN queues' = {}
         /\ Queued = {} /\ Queued' = {}
         /\ \A x \in Streams : Queue(x)' = Queue(x)
  <1>1. order \in Seq(Streams) /\ Ready = 1 .. Len(order) /\ Ready = {}
    BY AllReady, Zenon DEF TypeOK, Idle
  <1>2. order = <<>>
    BY <1>1
  <1>3. DOMAIN queues = {}
    <2>1. DOMAIN order = {}
      BY <1>2
    <2> QED
      BY <2>1, Zenon DEF RotationInv, Range
  <1>4. queues' = [x \in {} |-> queues[x]]
    BY <1>3 DEF Idle
  <1>5. queues' = <<>> /\ DOMAIN queues' = {}
    BY <1>4
  <1>6. order' = <<>>
    BY DEF Idle
  <1>7. Queued = {} /\ Queued' = {}
    BY <1>3, <1>5 DEF Queued
  <1>8. \A x \in Streams : Queue(x)' = Queue(x)
    BY <1>3, <1>5 DEF Queue
  <1> QED
    BY <1>2, <1>3, <1>5, <1>6, <1>7, <1>8

(* A message taken is no longer queued and is being sent. *)
LEMMA NextMessageCounts ==
  ASSUME TypeOK, RotationInv, IsFiniteSet(Queued), NextMessage
  PROVE  /\ IsFiniteSet(Queued') /\ Cardinality(Queued') \in Nat /\ Sending' \in 0 .. 1
         /\ Cardinality(Queued) = Cardinality(Queued') + Sending'
  <1>1. CASE Leave
    <2>1. Queued' = Queued /\ Sending' = 0
      BY <1>1 DEF Leave, Queued, Sending
    <2> QED
      BY <2>1, FS_CardinalityType
  <1>2. CASE Idle
    <2>1. Queued' = {} /\ Queued = {} /\ Sending' = 0
      <3>1. Sending' = 0
        BY <1>2 DEF Idle, Sending
      <3> QED
        BY <1>2, <3>1, IdleIsEmpty
    <2> QED
      BY <2>1, FS_EmptySet
  <1>3. ASSUME NEW i \in Ready, Take(i)
        PROVE  /\ IsFiniteSet(Queued') /\ Cardinality(Queued') \in Nat /\ Sending' = 1
               /\ Cardinality(Queued) = Cardinality(Queued') + 1
    <2>1. Sending' = 1
      BY <1>3 DEF Take, Sending
    <2> QED
      BY <1>3, <2>1, TakeFreesPlace, ZenonT(60)
  <1> QED
    BY <1>1, <1>2, <1>3 DEF NextMessage

(* What is written next is what was accepted next. *)
LEMMA NextMessageInOrder ==
  ASSUME TypeOK, RotationInv, NextMessage, wire' \in [Streams -> Seq(Message)],
         \A x \in Streams : accepted[x] = wire'[x] \o Queue(x)
  PROVE  FifoPerStream'
  <1>1. PICK w \in [Streams -> Seq(Message)] : w = wire'
    OBVIOUS
  <1>2. \A x \in Streams : accepted[x] = w[x] \o Queue(x) /\ w[x] \o <<>> = w[x]
    <2>1. \A x \in Streams : w[x] \in Seq(Message)
      OBVIOUS
    <2> QED
      BY <1>1, <2>1, ConcatEmptySeq
  <1>3. accepted' = accepted
    BY DEF NextMessage
  <1>4. \A x \in Streams : accepted[x] = w[x] \o
           (IF inflight' # NoMessage /\ inflight'.stream = x THEN <<inflight'>> ELSE <<>>) \o Queue(x)'
    <2>1. CASE Leave
      <3>1. inflight' = NoMessage /\ \A x \in Streams : Queue(x)' = Queue(x)
        BY <2>1 DEF Leave, Queue
      <3> QED
        BY <1>2, <3>1, ZenonT(60)
    <2>2. CASE Idle
      <3>1. inflight' = NoMessage /\ \A x \in Streams : Queue(x)' = Queue(x)
        BY <2>2, IdleIsEmpty, Zenon DEF Idle
      <3> QED
        BY <1>2, <3>1, Zenon
    <2>3. ASSUME NEW i \in Ready, Take(i)
          PROVE  \A x \in Streams : accepted[x] = w[x] \o
                   (IF inflight' # NoMessage /\ inflight'.stream = x THEN <<inflight'>> ELSE <<>>) \o Queue(x)'
      BY <1>2, <2>3, TakeInOrder, ZenonT(60)
    <2> QED
      BY <2>1, <2>2, <2>3 DEF NextMessage
  <1> QED
    BY <1>1, <1>3, <1>4 DEF FifoPerStream

(* The rest of what the loop keeps. *)
LEMMA NextMessageKeeps ==
  ASSUME TypeOK, RotationInv, TurnsInv, NextMessage
  PROVE  /\ writer' \in {"waiting", "sending", "done"} /\ wake' \in BOOLEAN
         /\ inflight' \in Message \cup {NoMessage} /\ (writer' = "sending" => inflight' \in Message)
         /\ writer' = "waiting" => inflight' = NoMessage /\ queues' = <<>>
         /\ DOMAIN queues' \subseteq Streams /\ \A x \in DOMAIN queues' : queues'[x] \in Seq(Message)
         /\ order' \in Seq(Streams) /\ RotationInv'
         /\ passed' \in [Streams -> [Streams -> Nat]] /\ TurnsInv'
  <1>1. /\ wake \in BOOLEAN /\ passed \in [Streams -> [Streams -> Nat]] /\ order \in Seq(Streams)
        /\ DOMAIN queues \subseteq Streams /\ \A x \in DOMAIN queues : queues[x] \in Seq(Message)
    BY DEF TypeOK
  <1>2. CASE Leave
    <2>1. /\ writer' = "done" /\ inflight' = NoMessage
          /\ queues' = queues /\ order' = order /\ wake' = wake /\ passed' = passed
      BY <1>2 DEF Leave
    <2>2. RotationInv' /\ TurnsInv'
      BY <2>1 DEF RotationInv, TurnsInv
    <2> QED
      BY <1>1, <2>1, <2>2
  <1>3. CASE Idle
    <2>1. writer' = "waiting" /\ inflight' = NoMessage /\ wake' = FALSE /\ passed' = passed
      BY <1>3 DEF Idle
    <2>2. order' = <<>> /\ queues' = <<>> /\ DOMAIN queues' = {}
      BY <1>3, IdleIsEmpty
    <2>3. order' \in Seq(Streams) /\ Len(order') = 0
      BY <2>2
    <2>4. RotationInv' /\ TurnsInv'
      BY <2>2, <2>3 DEF RotationInv, TurnsInv, Range
    <2> QED
      BY <1>1, <2>1, <2>2, <2>3, <2>4, Zenon
  <1>4. ASSUME NEW i \in Ready, Take(i)
        PROVE  /\ writer' = "sending" /\ wake' \in BOOLEAN /\ inflight' \in Message
               /\ DOMAIN queues' \subseteq Streams /\ \A x \in DOMAIN queues' : queues'[x] \in Seq(Message)
               /\ order' \in Seq(Streams) /\ RotationInv'
               /\ passed' \in [Streams -> [Streams -> Nat]] /\ TurnsInv'
    BY <1>1, <1>4, TakesFirst, TakeRotation, Zenon
  <1> QED
    BY <1>2, <1>3, <1>4 DEF NextMessage

-----------------------------------------------------------------------------
(* The semaphore.                                                          *)

(* A released slot is free, or handed to the first waiter without one. *)
LEMMA ReleaseGives ==
  ASSUME waiters \in Seq(Message), granted \in 0 .. Len(waiters), slots \in Nat,
         waiters # <<>> /\ slots > 0 => granted > 0, Release
  PROVE  /\ waiters' = waiters /\ granted' \in 0 .. Len(waiters') /\ slots' \in Nat
         /\ slots' + granted' = slots + granted + 1
         /\ waiters' # <<>> /\ slots' > 0 => granted' > 0
  <1>1. PICK n \in Nat : n = Len(waiters) /\ (waiters # <<>> => n > 0)
    OBVIOUS
  <1>2. waiters' = waiters
    BY DEF Release
  <1>3. CASE granted < n
    <2>1. granted' = granted + 1 /\ slots' = slots
      BY <1>1, <1>3 DEF Release
    <2> QED
      BY <1>1, <1>2, <1>3, <2>1
  <1>4. CASE ~ (granted < n)
    <2>1. granted' = granted /\ slots' = slots + 1 /\ granted = n
      BY <1>1, <1>4 DEF Release
    <2> QED
      BY <1>1, <1>2, <2>1
  <1> QED
    BY <1>3, <1>4, Zenon

(* The semaphore is in order, and gave away this many slots net of those   *)
(* it got back.                                                            *)
Semaphore(given) ==
  /\ waiters' \in Seq(Message) /\ granted' \in 0 .. Len(waiters') /\ slots' \in Nat
  /\ slots' + granted' + given = slots + granted
  /\ waiters' # <<>> /\ slots' > 0 => granted' > 0

(* What the invariant says of the semaphore. *)
LEMMA SlotsTyped ==
  ASSUME MuxInv
  PROVE  /\ waiters \in Seq(Message) /\ Len(waiters) \in Nat /\ granted \in 0 .. Len(waiters) /\ slots \in Nat
         /\ granted \in Nat /\ MaxQueued \in Nat /\ Sending \in 0 .. 1
         /\ IsFiniteSet(Queued) /\ Cardinality(Queued) \in Nat
         /\ slots + granted + Cardinality(Queued) + Sending = MaxQueued
         /\ waiters # <<>> /\ slots > 0 => granted > 0
  <1>1. waiters \in Seq(Message) /\ Len(waiters) \in Nat /\ granted \in 0 .. Len(waiters) /\ slots \in Nat
    BY MuxAssumption DEF MuxInv, TypeOK
  <1>2. Sending \in 0 .. 1
    BY DEF Sending
  <1>3. IsFiniteSet(Queued) /\ slots + granted + Cardinality(Queued) + Sending = MaxQueued
    BY DEF MuxInv, SlotsInv
  <1>4. waiters # <<>> /\ slots > 0 => granted > 0
    BY DEF MuxInv, NoLostWakeup
  <1> QED
    BY <1>1, <1>2, <1>3, <1>4, FS_CardinalityType, MuxAssumption

(* The slots are accounted for after a step that moves as many as it        *)
(* frees.                                                                   *)
LEMMA SlotsKept ==
  ASSUME MuxInv, NEW given \in Int, Semaphore(given), IsFiniteSet(Queued'), Sending' \in 0 .. 1,
         Cardinality(Queued') + Sending' = Cardinality(Queued) + Sending + given
  PROVE  SlotsInv' /\ slots' \in 0 .. MaxQueued
  <1>1. Cardinality(Queued') \in Nat
    BY FS_CardinalityType
  <1>2. slots' \in Nat /\ granted' \in Nat /\ slots' + granted' + given = slots + granted
    <2>1. Len(waiters') \in Nat
      BY DEF Semaphore
    <2> QED
      BY <2>1 DEF Semaphore
  <1>3. Sending \in Nat /\ Sending' \in Nat
    BY SlotsTyped, Counts, Zenon
  <1>4. /\ slots' + granted' + Cardinality(Queued') + Sending' = MaxQueued
        /\ slots' \in 0 .. MaxQueued
    <2>1. PICK a \in Nat, b \in Nat, n \in Nat : a = slots /\ b = granted /\ n = MaxQueued
      BY SlotsTyped
    <2>2. PICK c \in Nat, e \in Nat : c = Cardinality(Queued) /\ e = Sending
      BY <1>3, SlotsTyped
    <2>3. PICK d \in Nat, f \in Nat : d = Cardinality(Queued') /\ f = Sending'
      BY <1>1, <1>3
    <2>4. PICK x \in Nat, y \in Nat : x = slots' /\ y = granted'
      BY <1>2, Zenon
    <2>5. a + b + c + e = n
      BY <2>1, <2>2, SlotsTyped
    <2>6. x + y + given = a + b
      BY <1>2, <2>1, <2>4, Zenon
    <2>7. d + f = c + e + given
      BY <2>2, <2>3
    <2>8. x + y + d + f = n /\ x \in 0 .. n
      BY <2>5, <2>6, <2>7
    <2> QED
      BY <2>1, <2>3, <2>4, <2>8
  <1> QED
    BY <1>4 DEF SlotsInv

-----------------------------------------------------------------------------
(* The steps, by what they do to the queues.                               *)

(* A message that has its slot joins its queue. *)
LEMMA EnqueueKeeps ==
  ASSUME MuxInv, NEW m \in Message, Enqueue(m), Semaphore(1), calls' \in [Tasks -> 0 .. MaxSends]
  PROVE  MuxInv'
  <1>1. /\ TypeOK /\ TasksInv /\ RotationInv /\ FifoPerStream /\ TurnsInv
    BY Zenon DEF MuxInv
  <1>2. /\ wake' = TRUE /\ closed' = closed /\ writer' = writer /\ cancelled' = cancelled
        /\ inflight' = inflight /\ reader' = reader /\ wire' = wire
    BY DEF Enqueue, SetWake
  <1>3. RotationInv' /\ order' \in Seq(Streams)
    BY <1>1, EnqueueRotation
  <1>4. FifoPerStream' /\ accepted' \in [Streams -> Seq(Message)]
    BY <1>1, EnqueueInOrder, Zenon
  <1>5. TurnsInv' /\ passed' \in [Streams -> [Streams -> Nat]]
    BY <1>1, EnqueueTurns, Zenon
  <1>6. DOMAIN queues' \subseteq Streams /\ \A x \in DOMAIN queues' : queues'[x] \in Seq(Message)
    <2>1. /\ m.stream \in Streams /\ DOMAIN queues' = DOMAIN queues \cup {m.stream}
          /\ \A x \in DOMAIN queues : x # m.stream => queues'[x] = queues[x]
          /\ queues'[m.stream] \in Seq(Message)
      BY <1>1, EnqueueAdds, Zenon
    <2>2. DOMAIN queues \subseteq Streams /\ \A x \in DOMAIN queues : queues[x] \in Seq(Message)
      BY <1>1 DEF TypeOK
    <2>3. ASSUME NEW x \in DOMAIN queues' PROVE queues'[x] \in Seq(Message)
      <3>1. CASE x = m.stream
        BY <2>1, <3>1
      <3>2. CASE x # m.stream
        BY <2>1, <2>2, <3>2
      <3> QED
        BY <3>1, <3>2
    <2> QED
      BY <2>1, <2>2, <2>3, Zenon
  <1>7. SlotsInv' /\ slots' \in 0 .. MaxQueued
    <2>1. /\ IsFiniteSet(Queued') /\ Cardinality(Queued') = Cardinality(Queued) + 1
      BY <1>1, SlotsTyped, EnqueueTakesPlace
    <2>2. Sending' = Sending
      BY <1>2 DEF Sending
    <2>3. PICK c \in Nat, e \in 0 .. 1 : c = Cardinality(Queued) /\ e = Sending
      BY SlotsTyped
    <2>4. (c + 1) + e = c + e + 1
      OBVIOUS
    <2> QED
      BY <2>1, <2>2, <2>3, <2>4, SlotsKept
  <1>8. NoLostWakeup'
    BY <1>2 DEF NoLostWakeup, Semaphore
  <1>9. TasksInv'
    BY <1>1, <1>2, Zenon DEF TasksInv
  <1>10. TypeOK'
    BY <1>1, <1>2, <1>3, <1>4, <1>5, <1>6, <1>7, ZenonT(60) DEF TypeOK, Semaphore
  <1> QED
    BY <1>3, <1>4, <1>5, <1>7, <1>8, <1>9, <1>10, ZenonT(60) DEF MuxInv

(* The writer, with nothing in hand any more, goes round its loop. *)
LEMMA WriterKeeps ==
  ASSUME MuxInv, NextMessage, Semaphore(0 - Sending), writer # "none",
         wire' \in [Streams -> Seq(Message)],
         \A x \in Streams : accepted[x] = wire'[x] \o Queue(x)
  PROVE  MuxInv'
  <1>1. /\ TypeOK /\ TasksInv /\ RotationInv /\ TurnsInv
    BY DEF MuxInv
  <1>2. closed' = closed /\ cancelled' = cancelled /\ reader' = reader /\ calls' = calls /\ accepted' = accepted
    BY DEF NextMessage
  <1>3. /\ writer' \in {"waiting", "sending", "done"} /\ wake' \in BOOLEAN
        /\ inflight' \in Message \cup {NoMessage} /\ (writer' = "sending" => inflight' \in Message)
        /\ writer' = "waiting" => inflight' = NoMessage /\ queues' = <<>>
        /\ DOMAIN queues' \subseteq Streams /\ \A x \in DOMAIN queues' : queues'[x] \in Seq(Message)
        /\ order' \in Seq(Streams) /\ RotationInv'
        /\ passed' \in [Streams -> [Streams -> Nat]] /\ TurnsInv'
    BY <1>1, NextMessageKeeps
  <1>4. FifoPerStream'
    BY <1>1, NextMessageInOrder
  <1>5. SlotsInv' /\ slots' \in 0 .. MaxQueued
    <2>1. /\ IsFiniteSet(Queued') /\ Cardinality(Queued') \in Nat /\ Sending' \in 0 .. 1
          /\ Cardinality(Queued) = Cardinality(Queued') + Sending'
      BY <1>1, SlotsTyped, NextMessageCounts, Zenon
    <2>2. PICK c \in Nat, e \in 0 .. 1, g \in Int : c = Cardinality(Queued) /\ e = Sending /\ g = 0 - e
      BY SlotsTyped
    <2>3. c = c + e + g
      BY <2>2
    <2>4. Semaphore(g)
      BY <2>2
    <2> QED
      BY <2>1, <2>2, <2>3, <2>4, SlotsKept, ZenonT(60)
  <1>6. NoLostWakeup'
    BY <1>3 DEF NoLostWakeup, Semaphore
  <1>7. TasksInv'
    BY <1>1, <1>2, <1>3, ZenonT(60) DEF TasksInv
  <1>8. TypeOK'
    BY <1>1, <1>2, <1>3, <1>5, ZenonT(60) DEF TypeOK, Semaphore
  <1> QED
    BY <1>3, <1>4, <1>5, <1>6, <1>7, <1>8, ZenonT(60) DEF MuxInv

(* Any other step leaves the queues alone. *)
LEMMA QuietKeeps ==
  ASSUME MuxInv, UNCHANGED <<queues, order, inflight, histories>>, TasksInv',
         wake' \in BOOLEAN, wake => wake', closed' \in BOOLEAN, cancelled' \in BOOLEAN,
         writer' \in {"none", "started", "waiting", "sending", "done"},
         writer' \in {"sending", "waiting"} => writer' = writer,
         reader' \in {"unstarted", "recv", "handling", "ended"},
         calls' \in [Tasks -> 0 .. MaxSends], Semaphore(Sending' - Sending)
  PROVE  MuxInv'
  <1>1. /\ TypeOK /\ RotationInv /\ TurnsInv /\ FifoPerStream /\ NoLostWakeup
    BY DEF MuxInv
  <1>2. queues' = queues /\ order' = order /\ inflight' = inflight /\ accepted' = accepted /\ wire' = wire /\ passed' = passed
    BY ZenonT(60) DEF histories
  <1>3. RotationInv' /\ TurnsInv'
    BY <1>1, <1>2 DEF RotationInv, TurnsInv
  <1>4. FifoPerStream'
    BY <1>1, <1>2, ZenonT(60) DEF FifoPerStream, Queue
  <1>5. SlotsInv' /\ slots' \in 0 .. MaxQueued
    <2>1. Queued' = Queued
      BY <1>2, Zenon DEF Queued
    <2>2. Sending' \in 0 .. 1
      BY DEF Sending
    <2>3. PICK c \in Nat, e \in 0 .. 1, f \in 0 .. 1, g \in Int :
            c = Cardinality(Queued) /\ e = Sending /\ f = Sending' /\ g = f - e
      BY <2>2, SlotsTyped
    <2>4. c + f = c + e + g /\ Semaphore(g)
      BY <2>3
    <2> QED
      BY <2>1, <2>2, <2>3, <2>4, SlotsTyped, SlotsKept, ZenonT(60)
  <1>6. NoLostWakeup'
    BY <1>1, <1>2, ZenonT(60) DEF NoLostWakeup, Semaphore
  <1>7. TypeOK'
    BY <1>1, <1>2, <1>5, ZenonT(60) DEF TypeOK, Semaphore
  <1> QED
    BY <1>3, <1>4, <1>5, <1>6, <1>7, ZenonT(60) DEF MuxInv

-----------------------------------------------------------------------------
(* The actions.                                                            *)

(* A call of send() is one more, within the bound. *)
LEMMA CallCounted ==
  ASSUME TypeOK, NEW t \in Tasks, calls[t] < MaxSends, calls' = [calls EXCEPT ![t] = @ + 1]
  PROVE  calls' \in [Tasks -> 0 .. MaxSends] /\ calls[t] + 1 \in 1 .. MaxSends
  <1>1. calls \in [Tasks -> 0 .. MaxSends]
    BY DEF TypeOK
  <1>2. PICK n \in 0 .. MaxSends : n = calls[t] /\ n < MaxSends
    BY <1>1
  <1>3. n + 1 \in 1 .. MaxSends /\ n + 1 \in 0 .. MaxSends
    BY <1>2, MuxAssumption
  <1> QED
    BY <1>1, <1>2, <1>3

(* A step that leaves the semaphore and the writer where they are. *)
LEMMA SameSlots ==
  ASSUME MuxInv, UNCHANGED semaphore, UNCHANGED writer
  PROVE  Semaphore(Sending' - Sending)
  <1>1. Sending' = Sending /\ Sending \in 0 .. 1
    BY SlotsTyped DEF Sending
  <1>2. Sending' - Sending = 0
    BY <1>1
  <1>3. slots' = slots /\ granted' = granted /\ waiters' = waiters
    BY DEF semaphore
  <1>4. slots + granted + 0 = slots + granted
    BY SlotsTyped
  <1>5. Semaphore(0)
    BY <1>3, <1>4, SlotsTyped, Zenon DEF Semaphore
  <1> QED
    BY <1>2, <1>5

(* send() takes a free slot and queues its message, or waits. *)
LEMMA SendKeeps ==
  ASSUME MuxInv, NEW t \in Tasks, NEW s \in Streams, Send(t, s)
  PROVE  MuxInv'
  <1>1. TypeOK /\ TasksInv
    BY DEF MuxInv
  <1>2. calls' \in [Tasks -> 0 .. MaxSends] /\ calls[t] + 1 \in 1 .. MaxSends
    BY <1>1, CallCounted, Zenon DEF Send
  <1>3. PICK m : m = [from |-> t, n |-> calls[t] + 1, stream |-> s]
    BY Zenon
  <1>4. m \in Message
    BY <1>2, <1>3 DEF Message
  <1>5. CASE /\ slots > 0 /\ waiters = <<>> /\ slots' = slots - 1 /\ Enqueue(m) /\ UNCHANGED <<waiters, granted>>
    <2>1. Semaphore(1)
      <3>1. slots' \in Nat /\ slots' + granted' + 1 = slots + granted
        BY <1>5, SlotsTyped
      <3> QED
        BY <1>5, <3>1, SlotsTyped DEF Semaphore
    <2> QED
      BY <1>2, <1>4, <1>5, <2>1, EnqueueKeeps, ZenonT(60)
  <1>6. CASE /\ slots = 0 \/ waiters # <<>>
             /\ waiters' = Append(waiters, m)
             /\ UNCHANGED <<queues, order, wake, slots, granted, closed, writer, cancelled,
                            inflight, reader, histories>>
    <2>1. waiters' \in Seq(Message) /\ Len(waiters') = Len(waiters) + 1
      BY <1>4, <1>6, SlotsTyped
    <2>2. granted' \in 0 .. Len(waiters')
      BY <1>6, <2>1, SlotsTyped
    <2>3. Sending' - Sending = 0
      <3>1. Sending' = Sending /\ Sending \in 0 .. 1
        BY <1>6, SlotsTyped DEF Sending
      <3> QED
        BY <3>1
    <2>4. Semaphore(0)
      <3>1. slots' \in Nat /\ slots' + granted' + 0 = slots + granted
        BY <1>6, SlotsTyped
      <3>2. waiters' # <<>> /\ slots' > 0 => granted' > 0
        BY <1>6, SlotsTyped
      <3> QED
        BY <2>1, <2>2, <3>1, <3>2, ZenonT(60) DEF Semaphore
    <2>5. TasksInv'
      BY <1>1, <1>6, Zenon DEF TasksInv
    <2>6. /\ wake' \in BOOLEAN /\ closed' \in BOOLEAN /\ cancelled' \in BOOLEAN
          /\ writer' \in {"none", "started", "waiting", "sending", "done"}
          /\ reader' \in {"unstarted", "recv", "handling", "ended"}
      BY <1>1, <1>6 DEF TypeOK
    <2> QED
      BY <1>2, <1>6, <2>3, <2>4, <2>5, <2>6, QuietKeeps, ZenonT(60)
  <1> QED
    BY <1>3, <1>5, <1>6, Zenon DEF Send

(* A sender that was handed a slot resumes and may pass on a free one. *)
LEMMA ResumeKeeps ==
  ASSUME MuxInv, Resume
  PROVE  MuxInv'
  <1>1. /\ granted > 0 /\ Enqueue(Head(waiters)) /\ waiters' = Tail(waiters) /\ calls' = calls
        /\ IF slots > 0 /\ granted < Len(waiters)
           THEN slots' = slots - 1 /\ granted' = granted
           ELSE granted' = granted - 1 /\ slots' = slots
    BY DEF Resume
  <1>2. PICK n \in Nat : n = Len(waiters) - 1 /\ Len(waiters) = n + 1
    BY <1>1, SlotsTyped, Counts, Zenon
  <1>3. waiters # <<>>
    BY <1>2
  <1>4. Head(waiters) \in Message /\ waiters' \in Seq(Message) /\ Len(waiters') = n
    BY <1>1, <1>2, <1>3, SlotsTyped
  <1>5. Semaphore(1)
    <2>1. PICK a \in Nat, g \in Nat : a = slots /\ g = granted /\ g > 0 /\ g <= n + 1
      BY <1>1, <1>2, SlotsTyped
    <2>2. waiters' # <<>> => n > 0
      BY <1>4
    <2>3. CASE a > 0 /\ g < n + 1
      <3>1. slots' = a - 1 /\ granted' = g
        BY <1>1, <1>2, <2>1, <2>3, ZenonT(60)
      <3> QED
        BY <1>4, <2>1, <2>3, <3>1 DEF Semaphore
    <2>4. CASE ~ (a > 0 /\ g < n + 1)
      <3>1. granted' = g - 1 /\ slots' = a
        BY <1>1, <1>2, <2>1, <2>4, ZenonT(60)
      <3> QED
        BY <1>4, <2>1, <2>2, <2>4, <3>1 DEF Semaphore
    <2> QED
      BY <2>3, <2>4
  <1>6. calls' \in [Tasks -> 0 .. MaxSends]
    BY <1>1 DEF MuxInv, TypeOK
  <1> QED
    BY <1>1, <1>4, <1>5, <1>6, EnqueueKeeps, ZenonT(60)

(* The writer starts, or is woken up. *)
LEMMA WriterRunsKeeps ==
  ASSUME MuxInv, WriterRuns
  PROVE  MuxInv'
  <1>1. writer \in {"started", "waiting"} /\ NextMessage /\ UNCHANGED semaphore /\ wire' = wire
    BY DEF WriterRuns
  <1>2. inflight = NoMessage /\ wire \in [Streams -> Seq(Message)]
    BY <1>1 DEF MuxInv, TasksInv, TypeOK
  <1>3. Sending = 0
    BY <1>1 DEF Sending
  <1>4. Semaphore(0 - Sending)
    <2>1. slots' = slots /\ granted' = granted /\ waiters' = waiters
      BY <1>1 DEF semaphore
    <2>2. slots + granted + (0 - 0) = slots + granted
      BY SlotsTyped
    <2>3. Semaphore(0 - 0)
      BY <2>1, <2>2, SlotsTyped, Zenon DEF Semaphore
    <2> QED
      BY <1>3, <2>3
  <1>5. ASSUME NEW x \in Streams PROVE accepted[x] = wire'[x] \o Queue(x)
    <2>1. accepted[x] = wire[x] \o <<>> \o Queue(x)
      BY <1>2 DEF MuxInv, FifoPerStream
    <2>2. wire[x] \in Seq(Message)
      BY <1>2
    <2>3. wire[x] \o <<>> = wire[x]
      BY <2>2, ConcatEmptySeq
    <2> QED
      BY <1>1, <2>1, <2>3
  <1> QED
    BY <1>1, <1>2, <1>4, <1>5, WriterKeeps, ZenonT(60)

(* Release() gives back the slot of the message that was being sent. *)
LEMMA SlotBack ==
  ASSUME MuxInv, Release
  PROVE  Semaphore(0 - 1)
  <1>1. /\ waiters' = waiters /\ granted' \in 0 .. Len(waiters') /\ slots' \in Nat
        /\ slots' + granted' = slots + granted + 1
        /\ waiters' # <<>> /\ slots' > 0 => granted' > 0
    BY SlotsTyped, ReleaseGives
  <1>2. waiters' \in Seq(Message) /\ Len(waiters') \in Nat
    BY <1>1, SlotsTyped
  <1>3. slots' + granted' + (0 - 1) = slots + granted
    <2>1. PICK a \in Nat, g \in Nat, b \in Nat, h \in Nat : a = slots /\ g = granted /\ b = slots' /\ h = granted'
      BY <1>1, <1>2, SlotsTyped, Counts, Zenon
    <2>2. b + h = a + g + 1
      BY <1>1, <2>1, Zenon
    <2>3. b + h + (0 - 1) = a + g
      BY <2>2
    <2> QED
      BY <2>1, <2>3, Zenon
  <1> QED
    BY <1>1, <1>2, <1>3 DEF Semaphore

(* A message has been written. *)
LEMMA WriterSentKeeps ==
  ASSUME MuxInv, WriterSent
  PROVE  MuxInv'
  <1>1. /\ writer = "sending" /\ NextMessage /\ Release
        /\ wire' = [wire EXCEPT ![inflight.stream] = Append(@, inflight)]
    BY DEF WriterSent
  <1>2. PICK m \in Message : m = inflight /\ m.stream \in Streams /\ m # NoMessage
    BY <1>1, MuxAssumption, ZenonT(60) DEF MuxInv, TypeOK, Message
  <1>3. wire \in [Streams -> Seq(Message)]
    BY DEF MuxInv, TypeOK
  <1>4. wire' = [wire EXCEPT ![m.stream] = Append(@, m)]
    BY <1>1, <1>2
  <1>5. wire' \in [Streams -> Seq(Message)]
    <2>1. Append(wire[m.stream], m) \in Seq(Message)
      BY <1>2, <1>3
    <2> QED
      BY <1>2, <1>3, <1>4, <2>1
  <1>6. Semaphore(0 - Sending)
    <2>1. Sending = 1
      BY <1>1, Zenon DEF Sending
    <2> QED
      BY <1>1, <2>1, SlotBack, Zenon
  <1>7. ASSUME NEW x \in Streams PROVE accepted[x] = wire'[x] \o Queue(x)
    <2>1. PICK v \in Seq(Message) : v = wire[x]
      BY <1>3, Zenon
    <2>2. CASE m.stream = x
      <3>1. accepted[x] = v \o <<m>> \o Queue(x)
        BY <1>2, <2>1, <2>2, ZenonT(60) DEF MuxInv, FifoPerStream
      <3>2. wire'[x] = Append(v, m)
        BY <1>3, <1>4, <2>1, <2>2, ZenonT(60)
      <3>3. Append(v, m) = v \o <<m>>
        BY AppendIsConcat
      <3> QED
        BY <3>1, <3>2, <3>3, Zenon
    <2>3. CASE m.stream # x
      <3>1. accepted[x] = v \o <<>> \o Queue(x)
        BY <1>2, <2>1, <2>3, ZenonT(60) DEF MuxInv, FifoPerStream
      <3>2. wire'[x] = v
        BY <1>3, <1>4, <2>1, <2>3, ZenonT(60)
      <3>3. v \o <<>> = v
        BY ConcatEmptySeq, Zenon
      <3> QED
        BY <3>1, <3>2, <3>3
    <2> QED
      BY <2>2, <2>3, Zenon
  <1> QED
    BY <1>1, <1>5, <1>6, <1>7, WriterKeeps, ZenonT(60)

(* The writer stops, and gives back the slot if it was sending. *)
LEMMA WriterStopsKeeps ==
  ASSUME MuxInv, writer # "none", writer' = "done", closed' \in BOOLEAN,
         IF writer = "sending" THEN Release ELSE UNCHANGED semaphore,
         UNCHANGED <<queues, order, wake, cancelled, inflight, reader, calls, histories>>
  PROVE  MuxInv'
  <1>1. TypeOK /\ TasksInv
    BY DEF MuxInv
  <1>2. Semaphore(Sending' - Sending)
    <2>1. Sending' = 0
      BY DEF Sending
    <2>2. CASE writer = "sending"
      <3>1. Sending = 1
        BY <2>2 DEF Sending
      <3> QED
        BY <2>1, <2>2, <3>1, SlotBack, ZenonT(60)
    <2>3. CASE writer # "sending"
      <3>1. Sending = 0
        BY <2>3 DEF Sending
      <3>2. slots' = slots /\ granted' = granted /\ waiters' = waiters
        BY <2>3 DEF semaphore
      <3>3. slots + granted + (0 - 0) = slots + granted
        BY SlotsTyped
      <3>4. Semaphore(0 - 0)
        BY <3>2, <3>3, SlotsTyped DEF Semaphore
      <3> QED
        BY <2>1, <3>1, <3>4, Zenon
    <2> QED
      BY <2>2, <2>3, Zenon
  <1>3. TasksInv'
    BY <1>1 DEF TasksInv
  <1>4. /\ wake' \in BOOLEAN /\ cancelled' \in BOOLEAN /\ (wake => wake')
        /\ reader' \in {"unstarted", "recv", "handling", "ended"} /\ calls' \in [Tasks -> 0 .. MaxSends]
    BY <1>1 DEF TypeOK
  <1> QED
    BY <1>2, <1>3, <1>4, QuietKeeps, ZenonT(60)

(* The invariant holds at first ... *)
LEMMA MuxStarts == Init => MuxInv
  <1> SUFFICES ASSUME Init PROVE MuxInv
    OBVIOUS
  <1>1. Nobody \in [Streams -> Nat]
    BY DEF Nobody
  <1>2. DOMAIN queues = {} /\ order = <<>> /\ DOMAIN order = {} /\ Len(order) = 0
    BY DEF Init
  <1>3. Queued = {} /\ IsFiniteSet(Queued) /\ Cardinality(Queued) = 0
    BY <1>2, FS_EmptySet DEF Queued
  <1>4. TypeOK
    <2>1. <<>> \in Seq(Message) /\ <<>> \in Seq(Streams) /\ Len(waiters) = 0
      BY DEF Init
    <2>2. calls \in [Tasks -> 0 .. MaxSends] /\ slots \in 0 .. MaxQueued
      BY MuxAssumption DEF Init
    <2>3. accepted \in [Streams -> Seq(Message)] /\ wire \in [Streams -> Seq(Message)]
      BY <2>1 DEF Init
    <2>4. passed \in [Streams -> [Streams -> Nat]]
      BY <1>1 DEF Init
    <2>5. DOMAIN queues \subseteq Streams /\ \A s \in DOMAIN queues : queues[s] \in Seq(Message)
      BY <1>2
    <2>6. order \in Seq(Streams) /\ waiters \in Seq(Message) /\ granted \in 0 .. Len(waiters)
      BY <2>1 DEF Init
    <2>7. /\ wake \in BOOLEAN /\ closed \in BOOLEAN /\ cancelled \in BOOLEAN
          /\ writer = "none" /\ inflight = NoMessage /\ reader = "unstarted"
      BY Zenon DEF Init
    <2> QED
      BY <2>2, <2>3, <2>4, <2>5, <2>6, <2>7, ZenonT(60) DEF TypeOK
  <1>5. RotationInv /\ TurnsInv
    BY <1>2 DEF RotationInv, TurnsInv, Range
  <1>6. SlotsInv
    <2>1. Sending = 0 /\ slots = MaxQueued /\ granted = 0 /\ MaxQueued \in Nat
      BY MuxAssumption DEF Init, Sending
    <2> QED
      BY <1>3, <2>1 DEF SlotsInv
  <1>7. FifoPerStream
    <2>1. ASSUME NEW x \in Streams
          PROVE  accepted[x] = <<>> /\ wire[x] = <<>> /\ Queue(x) = <<>> /\ inflight = NoMessage
      BY <1>2 DEF Init, Queue
    <2>2. <<>> \o <<>> \o <<>> = <<>>
      OBVIOUS
    <2> QED
      BY <2>1, <2>2, Zenon DEF FifoPerStream
  <1>8. TasksInv /\ NoLostWakeup
    BY DEF Init, TasksInv, NoLostWakeup
  <1> QED
    BY <1>4, <1>5, <1>6, <1>7, <1>8 DEF MuxInv

(* ... and every step keeps it. *)
LEMMA MuxStep == MuxInv /\ [Next]_vars => MuxInv'
  <1> SUFFICES ASSUME MuxInv, [Next]_vars PROVE MuxInv'
    OBVIOUS
  <1>1. TypeOK /\ TasksInv
    BY DEF MuxInv
  <1>2. ASSUME NEW t \in Tasks, SendRefused(t) PROVE MuxInv'
    <2>1. calls' \in [Tasks -> 0 .. MaxSends]
      BY <1>1, <1>2, CallCounted, ZenonT(60) DEF SendRefused
    <2>2. /\ UNCHANGED <<queues, order, inflight, histories>> /\ UNCHANGED semaphore
          /\ wake' = wake /\ closed' = closed /\ cancelled' = cancelled /\ writer' = writer /\ reader' = reader
      BY <1>2 DEF SendRefused
    <2>3. TasksInv'
      BY <1>1, <2>2 DEF TasksInv
    <2>4. Semaphore(Sending' - Sending)
      BY <2>2, SameSlots
    <2> QED
      BY <1>1, <2>1, <2>2, <2>3, <2>4, QuietKeeps, ZenonT(60) DEF TypeOK
  <1>3. ASSUME NEW t \in Tasks, NEW s \in Streams, Send(t, s) PROVE MuxInv'
    BY <1>3, SendKeeps
  <1>4. CASE Resume
    BY <1>4, ResumeKeeps
  <1>5. CASE Writer
    <2>1. CASE WriterRuns
      BY <2>1, WriterRunsKeeps
    <2>2. CASE WriterSent
      BY <2>2, WriterSentKeeps
    <2>3. CASE WriterFails
      BY <2>3, WriterStopsKeeps DEF WriterFails
    <2>4. CASE WriterCancelled
      <3>1. writer # "none"
        BY <1>1, <2>4 DEF WriterCancelled, TasksInv
      <3>2. closed' \in BOOLEAN
        BY <1>1, <2>4, ZenonT(60) DEF WriterCancelled, TypeOK
      <3> QED
        BY <2>4, <3>1, <3>2, WriterStopsKeeps, ZenonT(60) DEF WriterCancelled
    <2> QED
      BY <1>5, <2>1, <2>2, <2>3, <2>4, ZenonT(60) DEF Writer
  <1>6. CASE Run
    <2>1. /\ UNCHANGED <<queues, order, inflight, histories>> /\ UNCHANGED semaphore /\ wake' = wake
          /\ closed' = closed /\ cancelled' = cancelled /\ calls' = calls
          /\ writer = "none" /\ writer' = "started" /\ reader' = "recv"
      BY <1>1, <1>6, Zenon DEF Run, TasksInv
    <2>2. TasksInv'
      BY <1>1, <2>1 DEF TasksInv
    <2>3. Semaphore(Sending' - Sending)
      <3>1. Sending' = 0 /\ Sending = 0
        BY <2>1 DEF Sending
      <3>2. slots' = slots /\ granted' = granted /\ waiters' = waiters
        BY <2>1 DEF semaphore
      <3>3. slots + granted + (0 - 0) = slots + granted
        BY SlotsTyped
      <3>4. Semaphore(0 - 0)
        BY <3>2, <3>3, SlotsTyped DEF Semaphore
      <3> QED
        BY <3>1, <3>4, Zenon
    <2> QED
      BY <1>1, <2>1, <2>2, <2>3, QuietKeeps, ZenonT(60) DEF TypeOK
  <1>7. CASE Receive
    <2>1. /\ UNCHANGED <<queues, order, inflight, histories>> /\ UNCHANGED semaphore
          /\ wake' = wake /\ closed' = closed /\ cancelled' = cancelled /\ writer' = writer /\ calls' = calls
          /\ reader \in {"recv", "handling"} /\ reader' \in {"recv", "handling"}
      BY <1>7 DEF Receive
    <2>2. TasksInv'
      BY <1>1, <2>1 DEF TasksInv
    <2>3. Semaphore(Sending' - Sending)
      BY <2>1, SameSlots, Zenon
    <2> QED
      BY <1>1, <2>1, <2>2, <2>3, QuietKeeps, ZenonT(60) DEF TypeOK
  <1>8. CASE ConnectionLost
    <2>1. /\ UNCHANGED <<queues, order, inflight, histories>> /\ UNCHANGED semaphore
          /\ writer' = writer /\ calls' = calls /\ reader = "recv" /\ reader' = "ended"
          /\ wake' \in BOOLEAN /\ closed' \in BOOLEAN /\ cancelled' \in BOOLEAN
      BY <1>8 DEF ConnectionLost
    <2>2. wake => wake'
      BY <1>8, Zenon DEF ConnectionLost
    <2>3. TasksInv'
      BY <1>1, <2>1 DEF TasksInv
    <2>4. Semaphore(Sending' - Sending)
      BY <2>1, SameSlots, Zenon
    <2> QED
      BY <1>1, <2>1, <2>2, <2>3, <2>4, QuietKeeps, ZenonT(60) DEF TypeOK
  <1>9. CASE UNCHANGED vars
    <2>1. /\ UNCHANGED <<queues, order, inflight, histories>> /\ UNCHANGED semaphore
          /\ wake' = wake /\ closed' = closed /\ cancelled' = cancelled /\ writer' = writer
          /\ reader' = reader /\ calls' = calls
      BY <1>9 DEF vars, semaphore, histories
    <2>2. TasksInv'
      BY <1>1, <2>1 DEF TasksInv
    <2>3. Semaphore(Sending' - Sending)
      BY <2>1, SameSlots
    <2> QED
      BY <1>1, <2>1, <2>2, <2>3, QuietKeeps, ZenonT(60) DEF TypeOK
  <1> QED
    BY <1>2, <1>3, <1>4, <1>5, <1>6, <1>7, <1>8, <1>9, ZenonT(60) DEF Next

-----------------------------------------------------------------------------
(* What is proved of the multiplexer.                                      *)

(* The invariant holds in every behaviour of the multiplexer. *)
THEOREM MuxInvariant == Spec => []MuxInv
  BY MuxStarts, MuxStep, PTL DEF Spec

(* The types hold, for any number of streams, senders and slots. *)
THEOREM MuxTypes == Spec => []TypeOK
  <1>1. MuxInv => TypeOK
    BY ZenonT(60) DEF MuxInv
  <1> QED
    BY <1>1, MuxInvariant, PTL

(* _order and _queues never disagree, and no slot of the semaphore is lost *)
(* or made up by send(), the writer's success, failure or cancellation.    *)
THEOREM QueuesSound == Spec => []QueuesExact
  <1>1. MuxInv => QueuesExact
    BY Zenon DEF MuxInv, RotationInv, SlotsInv, QueuesExact, Sending
  <1> QED
    BY <1>1, MuxInvariant, PTL

(* The writer never sleeps over a message, nor a sender over a free slot. *)
THEOREM WakeupsSound == Spec => []NoLostWakeup
  <1>1. MuxInv => NoLostWakeup
    BY Zenon DEF MuxInv
  <1> QED
    BY <1>1, MuxInvariant, PTL

(* What goes out on a stream is what send() queued, in that order. *)
THEOREM StreamsInOrder == Spec => []FifoPerStream
  <1>1. MuxInv => FifoPerStream
    BY DEF MuxInv
  <1> QED
    BY <1>1, MuxInvariant, PTL

(* _next_message serves no stream twice while another one waits. *)
THEOREM RotationFair == Spec => []RoundRobin
  <1>1. ASSUME MuxInv PROVE RoundRobin
    <2>1. ASSUME NEW s \in DOMAIN queues PROVE \E i \in 1 .. Len(order) : s = order[i]
      <3>1. order \in Seq(Streams) /\ s \in Range(order)
        BY <1>1 DEF MuxInv, TypeOK, RotationInv
      <3> QED
        BY <3>1 DEF Range
    <2> QED
      BY <1>1, <2>1 DEF MuxInv, TurnsInv, RoundRobin
  <1> QED
    BY <1>1, MuxInvariant, PTL

=============================================================================
