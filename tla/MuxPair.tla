------------------------------- MODULE MuxPair -------------------------------
(***************************************************************************)
(* Two nodes that store on and load from each other over one connection:   *)
(* at each end the multiplexer of memnode/mux.py, its read loop, which     *)
(* runs the handlers of memnode/replication.py one after the other, and    *)
(* the coroutines of the requests.  ChannelMux has the steps of one        *)
(* multiplexer and Replication what the messages do; here is who waits for *)
(* whom.  A send that finds a slot does not suspend, so a coroutine sends  *)
(* all it can at once, and one that is handed a slot resumes at once.  The *)
(* message being written counts as queued, as it holds its slot.           *)
(***************************************************************************)
EXTENDS Naturals, Sequences, FiniteSets

CONSTANTS
  Calls,       \* requests of a large block
  Caller,      \* Caller[c]: the node that makes it
  Kind,        \* Kind[c]: "load" or "store"
  Chunks,      \* the number of chunks of a block
  MaxQueued,   \* config.MUX_MAX_QUEUED_MESSAGES
  SocketRoom,  \* what the buffers of the sockets hold, in messages
  Control      \* config.CONTROL_STREAM_ID

Nodes == {"a", "b"}
Other(n) == IF n = "a" THEN "b" ELSE "a"

VARIABLES
  rotation,  \* rotation[n]: _order with _queues: the queues, as they take turns
  waiting,   \* waiting[n]: sends that wait for a slot, oldest first: the task
             \* and what it has to send, for the read loop the task is Reader
  socket,    \* socket[n]: what n has written and the other not read
  state      \* state[c]: "new", "called" or "over"

vars == <<rotation, waiting, socket, state>>

Reader == "reader"
Message(c, part) == [call |-> c, part |-> part]
Stream(m) == IF m.part \in {"request", "reply"} THEN Control ELSE m.call

(* A block on its own stream: the header and the chunks.                   *)
Transfer(c) ==
  <<Message(c, "header")>> \o [i \in 1 .. Chunks |-> Message(c, IF i = Chunks THEN "final" ELSE "chunk")]

-----------------------------------------------------------------------------
(* The multiplexer.                                                        *)

(* Messages of one stream join its queue.                                  *)
Enqueue(rot, ms) ==
  LET at == {i \in 1 .. Len(rot) : Stream(Head(rot[i])) = Stream(Head(ms))}
  IN  IF ms = <<>> THEN rot
      ELSE IF at = {} THEN Append(rot, ms)
      ELSE [i \in 1 .. Len(rot) |-> IF i \in at THEN rot[i] \o ms ELSE rot[i]]

Queued(n) == UNION {{i} \X (1 .. Len(rotation[n][i])) : i \in 1 .. Len(rotation[n])}
Slots(n) == IF waiting[n] # <<>> THEN 0 ELSE MaxQueued - Cardinality(Queued(n))

(* A task of node n sends ms, all on one stream, one after the other.     *)
Send(n, task, ms) ==
  LET k == IF Len(ms) <= Slots(n) THEN Len(ms) ELSE Slots(n)
  IN  /\ rotation' = [rotation EXCEPT ![n] = Enqueue(@, SubSeq(ms, 1, k))]
      /\ waiting' = IF k = Len(ms) THEN waiting
                    ELSE [waiting EXCEPT ![n] =
                            Append(@, [task |-> task, left |-> SubSeq(ms, k + 1, Len(ms))])]

Waits(n, task) == \E i \in 1 .. Len(waiting[n]) : waiting[n][i].task = task

(* The writer writes the next message in turn and releases its slot, which *)
(* goes to the oldest waiter; that one needs another for its next message. *)
Write(n) ==
  LET q == Head(rotation[n])
      rest == Tail(rotation[n]) \o (IF Tail(q) = <<>> THEN <<>> ELSE <<Tail(q)>>)
      w == Head(waiting[n])
      again == IF Tail(w.left) = <<>> THEN <<>> ELSE <<[w EXCEPT !.left = Tail(@)]>>
  IN  /\ rotation[n] # <<>> /\ Len(socket[n]) < SocketRoom
      /\ socket' = [socket EXCEPT ![n] = Append(@, Head(q))]
      /\ IF waiting[n] = <<>>
         THEN rotation' = [rotation EXCEPT ![n] = rest] /\ UNCHANGED waiting
         ELSE /\ rotation' = [rotation EXCEPT ![n] = Enqueue(rest, <<Head(w.left)>>)]
              /\ waiting' = [waiting EXCEPT ![n] = Tail(@) \o again]
      /\ UNCHANGED state

-----------------------------------------------------------------------------
(* store_remote and load_remote, up to the wait for the reply.             *)
Begin(c) ==
  /\ state[c] = "new"
  /\ state' = [state EXCEPT ![c] = "called"]
  /\ Send(Caller[c], c, IF Kind[c] = "load" THEN <<Message(c, "request")>> ELSE Transfer(c))
  /\ UNCHANGED socket

(* Only the wait for the reply has a timeout.                              *)
TimesOut(c) ==
  /\ state[c] = "called" /\ ~ Waits(Caller[c], c)
  /\ state' = [state EXCEPT ![c] = "over"]
  /\ UNCHANGED <<rotation, waiting, socket>>

(* What the handler of a message sends: a block that is asked for, or the  *)
(* reply to one that is complete.                                          *)
Answer(n, m) ==
  CASE m.part = "request" -> Transfer(m.call)
    [] m.part = "final" /\ Caller[m.call] # n -> <<Message(m.call, "reply")>>
    [] OTHER -> <<>>
Completes(n, m) == m.part \in {"reply", "final"} /\ Caller[m.call] = n

(* run(): the next message is read when the handler of the last is done.   *)
Receive(n) ==
  LET m == Head(socket[Other(n)])
  IN  /\ socket[Other(n)] # <<>> /\ ~ Waits(n, Reader)
      /\ socket' = [socket EXCEPT ![Other(n)] = Tail(@)]
      /\ Send(n, Reader, Answer(n, m))
      /\ state' = IF Completes(n, m) THEN [state EXCEPT ![m.call] = "over"] ELSE state

Init ==
  /\ rotation = [n \in Nodes |-> <<>>]
  /\ waiting = [n \in Nodes |-> <<>>]
  /\ socket = [n \in Nodes |-> <<>>]
  /\ state = [c \in Calls |-> "new"]

Next ==
  \/ \E c \in Calls : Begin(c) \/ TimesOut(c)
  \/ \E n \in Nodes : Write(n) \/ Receive(n)

(* Writers and read loops that can go on do.                               *)
FairSpec ==
  /\ Init /\ [][Next]_vars
  /\ \A n \in Nodes : WF_vars(Write(n)) /\ WF_vars(Receive(n))

-----------------------------------------------------------------------------
(* "The writer round-robins across streams so a long transfer cannot       *)
(* starve unrelated messages" (config.py:112): calls are finitely many, so *)
(* whatever they have to send gets through in the end and the connection   *)
(* falls quiet.                                                            *)
NothingStarves == []<>(\A n \in Nodes : rotation[n] = <<>> /\ waiting[n] = <<>>)

=============================================================================
