----------------------------- MODULE ChannelMux -----------------------------
(***************************************************************************)
(* The fair-scheduled multiplexer over one connection to a peer, class     *)
(* ChannelMux of memnode/mux.py, with the tasks that share it: the tasks   *)
(* that send, the writer task and the reader task, which runs the message  *)
(* handler and through it may send as well.                                *)
(*                                                                         *)
(* An action is the code between two suspension points of a task.  The     *)
(* asyncio.Semaphore is modelled from its use: a release hands the slot to *)
(* the longest waiting task, which resumes later, and a task that finds    *)
(* others waiting queues behind them even if there is a free slot.         *)
(***************************************************************************)
EXTENDS Integers, Sequences, FiniteSets, Functions

CONSTANTS
  Streams,    \* logical stream ids
  Senders,    \* tasks that call send()
  Reader,     \* the task in run(), whose message handler calls send()
  MaxQueued,  \* config.MUX_MAX_QUEUED_MESSAGES
  MaxSends,   \* bound: how many times each task calls send()
  NoMessage

Tasks == Senders \cup {Reader}
Message == [from : Tasks, n : 1 .. MaxSends, stream : Streams]

ASSUME MuxAssumption ==
  /\ MaxQueued \in Nat \ {0} /\ MaxSends \in Nat
  /\ IsFiniteSet(Streams) /\ Reader \notin Senders
  /\ NoMessage \notin Message

VARIABLES
  queues,     \* _queues: stream -> messages, for the streams with an entry
  order,      \* _order
  wake,       \* _wake is set
  slots,      \* the value of _slots
  waiters,    \* messages whose send() waits in _slots.acquire(), oldest first
  granted,    \* how many of the oldest waiters were handed a slot
  closed,     \* _closed
  writer,     \* where _writer_loop is suspended
  cancelled,  \* close() has cancelled the writer task
  inflight,   \* the message last taken by the writer and not sent so far
  reader,     \* where run() is
  calls,      \* how often each task has called send()
  accepted,   \* history: the messages each stream's queue was given
  wire,       \* history: the messages each stream had written
  passed      \* history: passed[s][t] messages of t were taken while s queued

vars == <<queues, order, wake, slots, waiters, granted, closed, writer, cancelled,
          inflight, reader, calls, accepted, wire, passed>>
semaphore == <<slots, waiters, granted>>
histories == <<accepted, wire, passed>>

Blocked(t) == \E i \in 1 .. Len(waiters) : waiters[i].from = t
Queue(s) == IF s \in DOMAIN queues THEN queues[s] ELSE <<>>
Nobody == [t \in Streams |-> 0]
Running(t) == ~ Blocked(t) /\ (t = Reader => reader = "handling")

-----------------------------------------------------------------------------
(* The semaphore (asyncio).  Release and a waiter's resumption both pass a *)
(* free slot on to the first waiter that has none.                         *)

MutantRelease == UNCHANGED semaphore
Release ==
  /\ UNCHANGED waiters
  /\ IF granted < Len(waiters)
     THEN granted' = granted + 1 /\ UNCHANGED slots
     ELSE slots' = slots + 1 /\ UNCHANGED granted

(* The queue is served from the left and filled on the right. *)
MutantAddTo(q, m) == <<m>> \o q
AddTo(q, m) == Append(q, m)

(* _wake.set() *)
MutantSetWake == UNCHANGED wake
SetWake == wake' = TRUE

(* send() after the slot is acquired.  A stream without a queue gets one   *)
(* and joins the rotation.                                                 *)
Enqueue(m) ==
  LET s == m.stream
      new == s \notin DOMAIN queues
  IN  /\ queues' = [x \in DOMAIN queues \cup {s} |->
                      IF x # s THEN queues[x] ELSE AddTo(Queue(s), m)]
      /\ order' = IF new THEN Append(order, s) ELSE order
      /\ SetWake
      /\ accepted' = [accepted EXCEPT ![s] = Append(@, m)]
      /\ passed' = [passed EXCEPT ![s] = IF new THEN Nobody ELSE @]
      /\ UNCHANGED <<closed, writer, cancelled, inflight, reader, wire>>

-----------------------------------------------------------------------------
(* send() up to its first suspension, or to its end.                       *)

SendRefused(t) ==
  /\ Running(t) /\ calls[t] < MaxSends
  /\ closed
  /\ calls' = [calls EXCEPT ![t] = @ + 1]
  /\ UNCHANGED <<queues, order, wake, semaphore, closed, writer, cancelled, inflight,
                 reader, histories>>

Send(t, s) ==
  /\ Running(t) /\ calls[t] < MaxSends
  /\ ~ closed
  /\ calls' = [calls EXCEPT ![t] = @ + 1]
  /\ LET m == [from |-> t, n |-> calls[t] + 1, stream |-> s]
     IN  \/ /\ slots > 0 /\ waiters = <<>>
            /\ slots' = slots - 1
            /\ Enqueue(m)
            /\ UNCHANGED <<waiters, granted>>
         \/ /\ slots = 0 \/ waiters # <<>>
            /\ waiters' = Append(waiters, m)
            /\ UNCHANGED <<queues, order, wake, slots, granted, closed, writer, cancelled,
                           inflight, reader, histories>>

(* The oldest waiter resumes with its slot.  _closed is not looked at.     *)
Resume ==
  /\ granted > 0
  /\ Enqueue(Head(waiters))
  /\ waiters' = Tail(waiters)
  /\ IF slots > 0 /\ granted < Len(waiters)
     THEN slots' = slots - 1 /\ UNCHANGED granted
     ELSE granted' = granted - 1 /\ UNCHANGED slots
  /\ UNCHANGED calls

-----------------------------------------------------------------------------
(* The writer task.  NextMessage is the loop from its head to the next     *)
(* suspension: leave if closed, wait for _wake if no stream has a message, *)
(* or take the first message of the first stream in rotation that has one. *)

Ready == {i \in 1 .. Len(order) : Queue(order[i]) # <<>>}

(* A stream with more to send goes to the back of the rotation; the queue  *)
(* of one that has no more is deleted.                                     *)
MutantRequeue(rest, s) == <<s>> \o rest
Requeue(rest, s) == Append(rest, s)
MutantEmptied(s) == {}
Emptied(s) == IF Tail(queues[s]) = <<>> THEN {s} ELSE {}

(* Take the head of the i-th stream in rotation.  Streams before it have   *)
(* nothing to send and lose their queue.                                   *)
Take(i) ==
  LET s == order[i]
      rest == SubSeq(order, i + 1, Len(order))
      gone == {order[j] : j \in 1 .. i - 1} \cup Emptied(s)
  IN  /\ \A j \in Ready : i <= j
      /\ writer' = "sending"
      /\ inflight' = Head(queues[s])
      /\ queues' = [x \in DOMAIN queues \ gone |->
                      IF x = s THEN Tail(queues[x]) ELSE queues[x]]
      /\ order' = IF Tail(queues[s]) = <<>> THEN rest ELSE Requeue(rest, s)
      /\ passed' = [x \in Streams |->
                      IF x = s THEN Nobody ELSE [passed[x] EXCEPT ![s] = @ + 1]]
      /\ UNCHANGED wake

Idle ==
  /\ Ready = {}
  /\ writer' = "waiting"
  /\ wake' = FALSE
  /\ order' = <<>>
  /\ queues' = [x \in DOMAIN queues \ Range(order) |-> queues[x]]
  /\ inflight' = NoMessage
  /\ UNCHANGED passed

Leave ==
  /\ writer' = "done"
  /\ inflight' = NoMessage
  /\ UNCHANGED <<queues, order, wake, passed>>

NextMessage ==
  /\ \/ closed /\ Leave
     \/ ~ closed /\ Idle
     \/ ~ closed /\ \E i \in Ready : Take(i)
  /\ UNCHANGED <<closed, cancelled, reader, calls, accepted>>

WriterRuns ==
  /\ ~ cancelled
  /\ writer = "started" \/ (writer = "waiting" /\ wake)
  /\ NextMessage
  /\ UNCHANGED <<semaphore, wire>>

(* send_msg returned: give the slot back and go round the loop.            *)
WriterSent ==
  /\ ~ cancelled
  /\ writer = "sending"
  /\ wire' = [wire EXCEPT ![inflight.stream] = Append(@, inflight)]
  /\ Release
  /\ NextMessage

(* send_msg raised: give the slot back and stop.                           *)
WriterFails ==
  /\ ~ cancelled
  /\ writer = "sending"
  /\ Release
  /\ closed' = TRUE
  /\ writer' = "done"
  /\ UNCHANGED <<queues, order, wake, cancelled, inflight, reader, calls, histories>>

(* The cancellation reaches the writer where it is suspended.              *)
MutantWriterCancelled ==
  /\ cancelled /\ writer # "done"
  /\ writer' = "done"
  /\ Release
  /\ UNCHANGED <<queues, order, wake, closed, cancelled, inflight, reader, calls, histories>>

WriterCancelled ==
  /\ cancelled /\ writer # "done"
  /\ writer' = "done"
  /\ IF writer = "sending" THEN Release ELSE UNCHANGED semaphore
  /\ UNCHANGED <<queues, order, wake, closed, cancelled, inflight, reader, calls, histories>>

-----------------------------------------------------------------------------
(* The reader task, run().                                                 *)

Run ==
  /\ reader = "unstarted"
  /\ reader' = "recv"
  /\ writer' = "started"
  /\ UNCHANGED <<queues, order, wake, semaphore, closed, cancelled, inflight, calls, histories>>

(* A message arrives and its handler starts; the handler returns.          *)
Receive ==
  /\ \/ reader = "recv" /\ reader' = "handling"
     \/ reader = "handling" /\ ~ Blocked(Reader) /\ reader' = "recv"
  /\ UNCHANGED <<queues, order, wake, semaphore, closed, writer, cancelled, inflight,
                 calls, histories>>

(* recv_msg raised: run() ends through close().                            *)
MutantConnectionLost ==
  /\ reader = "recv"
  /\ reader' = "ended"
  /\ closed' = TRUE
  /\ UNCHANGED <<queues, order, wake, semaphore, writer, cancelled, inflight, calls, histories>>

ConnectionLost ==
  /\ reader = "recv"
  /\ reader' = "ended"
  /\ closed' = TRUE
  /\ wake' = (wake \/ ~ closed)
  /\ cancelled' = (~ closed /\ writer # "done")
  /\ UNCHANGED <<queues, order, semaphore, writer, inflight, calls, histories>>

-----------------------------------------------------------------------------
Init ==
  /\ queues = <<>>
  /\ order = <<>>
  /\ wake = FALSE
  /\ slots = MaxQueued
  /\ waiters = <<>>
  /\ granted = 0
  /\ closed = FALSE
  /\ writer = "none"
  /\ cancelled = FALSE
  /\ inflight = NoMessage
  /\ reader = "unstarted"
  /\ calls = [t \in Tasks |-> 0]
  /\ accepted = [s \in Streams |-> <<>>]
  /\ wire = [s \in Streams |-> <<>>]
  /\ passed = [s \in Streams |-> Nobody]

Writer == WriterRuns \/ WriterSent \/ WriterFails \/ WriterCancelled

Next ==
  \/ \E t \in Tasks : SendRefused(t) \/ \E s \in Streams : Send(t, s)
  \/ Resume
  \/ Writer
  \/ Run \/ Receive \/ ConnectionLost

Spec == Init /\ [][Next]_vars

(***************************************************************************)
(* The tasks of the event loop run: the writer, a woken sender, run().     *)
(* Fairness of Writer also says that a write to the socket returns or      *)
(* fails; nothing is assumed of the senders or of the peer.                *)
(***************************************************************************)
FairSpec == Spec /\ WF_vars(Writer) /\ WF_vars(Resume) /\ WF_vars(Run)

-----------------------------------------------------------------------------
(* Properties.                                                             *)

(* The shape of the state. *)
TypeOK ==
  /\ DOMAIN queues \subseteq Streams /\ \A s \in DOMAIN queues : queues[s] \in Seq(Message)
  /\ order \in Seq(Streams)
  /\ wake \in BOOLEAN /\ closed \in BOOLEAN /\ cancelled \in BOOLEAN
  /\ slots \in 0 .. MaxQueued
  /\ waiters \in Seq(Message) /\ granted \in 0 .. Len(waiters)
  /\ writer \in {"none", "started", "waiting", "sending", "done"}
  /\ inflight \in Message \cup {NoMessage}
  /\ writer = "sending" => inflight \in Message
  /\ reader \in {"unstarted", "recv", "handling", "ended"}
  /\ calls \in [Tasks -> 0 .. MaxSends]
  /\ accepted \in [Streams -> Seq(Message)] /\ wire \in [Streams -> Seq(Message)]
  /\ passed \in [Streams -> [Streams -> Nat]]

(* The rotation and the queues agree: a stream is in _order exactly once   *)
(* while it has messages and not at all otherwise, and no empty queue is   *)
(* kept.  A stream with messages outside the rotation would never be       *)
(* served again, since send() adds only streams that have no queue.  And   *)
(* every slot of the semaphore is accounted for: it is free, or handed to  *)
(* a sender that has not resumed, or held by a message that is queued or   *)
(* being written.  So at most MaxQueued messages are ever held, and none   *)
(* of the ways a message leaves (sent, failed, cancelled) leaks a slot.    *)
Queued == UNION {{s} \X (1 .. Len(queues[s])) : s \in DOMAIN queues}
QueuesExact ==
  /\ Range(order) = DOMAIN queues
  /\ \A i, j \in 1 .. Len(order) : order[i] = order[j] => i = j
  /\ \A s \in DOMAIN queues : queues[s] # <<>>
  /\ slots + granted + Cardinality(Queued) + (IF writer = "sending" THEN 1 ELSE 0) = MaxQueued

(* No wakeup is lost: the writer does not sleep over a queued message, and *)
(* no sender waits for a slot while one is free unless an earlier waiter,  *)
(* which passes the slot on, is about to resume.                           *)
NoLostWakeup ==
  /\ writer = "waiting" /\ ~ wake => queues = <<>>
  /\ waiters # <<>> /\ slots > 0 => granted > 0

(* The messages of a stream are written in the order send() queued them,   *)
(* none twice and none skipped: what was accepted is what was written, the *)
(* message being written (or given up when the writer stopped), and what   *)
(* is still queued.                                                        *)
FifoPerStream ==
  \A s \in Streams :
    LET pending == IF inflight # NoMessage /\ inflight.stream = s THEN <<inflight>> ELSE <<>>
    IN  accepted[s] = wire[s] \o pending \o Queue(s)

(* "takes one message from each non-empty stream in rotation" (mux.py:21): *)
(* while a stream has a message queued, no other stream is served twice    *)
(* before it.                                                              *)
RoundRobin ==
  \A s \in DOMAIN queues, t \in Streams : passed[s][t] <= 1

(* While the connection lasts every send() goes through: a message that it *)
(* accepted is written, and one that waits for a slot gets it ("a producer *)
(* that outruns the socket is slowed", mux.py:34, not stopped for good).   *)
(* The sends are bounded, so a stream that is behind catches up exactly if *)
(* each of its messages is written.                                        *)
SendsGoThrough ==
  /\ \A s \in Streams : (accepted[s] # wire[s]) ~> (closed \/ accepted[s] = wire[s])
  /\ \A t \in Tasks : Blocked(t) ~> (closed \/ ~ Blocked(t))

(* "Starts (and always cleans up) the writer task" (mux.py:130).           *)
WriterStops == closed ~> (writer = "done")

(* send() comes back to its caller, also when the connection goes away:    *)
(* PeerManager.send_to promises False when "peer went away"                *)
(* (peers.py:485), which needs the send to return or raise.                *)
SendReturns ==
  \A t \in Tasks : Blocked(t) ~> ~ Blocked(t)

=============================================================================
