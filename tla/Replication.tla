----------------------------- MODULE Replication -----------------------------
(***************************************************************************)
(* Storing, loading and freeing blocks on a peer: ReplicationCoordinator   *)
(* of memnode/replication.py.  One node, the client, makes the requests    *)
(* and another, the server, answers them, over the connections that        *)
(* PeerManager registers between the two.                                  *)
(*                                                                         *)
(* A payload is a sequence of units, and a chunk carries one unit.  A      *)
(* request id is the request itself, and the id of a block is the store    *)
(* request that created it.  Time is abstract: a wait may time out, and a  *)
(* reassembly buffer may have become older than INBOUND_STREAM_TIMEOUT.    *)
(*                                                                         *)
(* Messages of one stream of one connection stay in order (ChannelMux);    *)
(* those of different streams or connections do not.  A send may wait for  *)
(* a slot of the multiplexer, and for ever: its message is in the channel  *)
(* from when it begins, since slots are given out in that order, and the   *)
(* coroutine goes on when it returns (SendChunk, Sent), if it does.        *)
(***************************************************************************)
EXTENDS Integers, Sequences, FiniteSets

CONSTANTS
  Stores, Loads, Frees,  \* the requests the client makes
  Size,                  \* Size[r]: length of the payload of store r, in units
  Target,                \* Target[r]: the block that load or free r asks for
  Threshold,             \* chunk_threshold, in units
  MaxBlockSize,          \* config.MAX_BLOCK_SIZE, in units
  MaxInbound,            \* config.MAX_INBOUND_STREAMS
  MaxConns,              \* bound: how many connections are ever made
  Scenarios              \* [reqs, conns, frail]: the requests made, how many
                         \* connections, and the nodes where a writer fails;
                         \* other requests are over before they began

Reqs == Stores \cup Loads \cup Frees
Conns == 1 .. MaxConns

ASSUME ReplicationAssumption ==
  /\ Stores \cap Loads = {} /\ Stores \cap Frees = {} /\ Loads \cap Frees = {}
  /\ "control" \notin Reqs
  /\ Size \in [Stores -> Nat] /\ Target \in [Loads \cup Frees -> Stores]
  /\ Threshold \in Nat /\ MaxBlockSize \in Nat /\ MaxInbound \in Nat /\ MaxConns \in Nat
  /\ Scenarios \subseteq [reqs : SUBSET Reqs, conns : Conns, frail : SUBSET {"client", "server"}]

VARIABLES
  \* the connections
  opened,   \* connections made so far
  spare,    \* bound: how many more are made
  frail,    \* bound: the nodes where a writer may fail, which one does once
  alive,    \* those that still carry messages
  route,    \* route[n]: the connection in n's PeerManager.peers, 0 if none
  ended,    \* <<n, c>>: n's read loop on c has ended
  broken,   \* <<n, c>>: n's writer on c has failed and closed the multiplexer
  chan,     \* chan[c][n][s]: messages n sent on stream s of connection c
  \* the client
  phase,    \* where each request's coroutine is
  pos,      \* units of a chunked store sent
  pending,  \* the keys of _pending
  reply,    \* the state of each request's future
  pulls,    \* the client's _buffers: load -> buffer
  pulled,   \* _pull_futures: the state of each load's collector
  result,   \* what each finished request returned
  \* the server
  held,     \* the blocks of its BlockManager: id -> payload
  pushes,   \* its _buffers: store -> buffer
  serving,  \* streamed replies in progress: load -> connection, payload, position
  committed \* history: the stores whose block the server has created

links == <<opened, spare, frail, alive, route, ended, broken>>
client == <<phase, pos, pending, reply, pulls, pulled, result>>
server == <<held, pushes, serving, committed>>
vars == <<links, chan, client, server>>

Nodes == {"client", "server"}
Streams == Reqs \cup {"control"}

(* The payload of store r, and what may be asked of a payload. *)
Payload(r) == [i \in 1 .. Size[r] |-> i]
Chunked(d) == Len(d) > Threshold
Without(f, S) == [x \in DOMAIN f \ S |-> f[x]]
With(f, x, v) == [y \in DOMAIN f \cup {x} |-> IF y = x THEN v ELSE f[y]]

Msg(type, r, d, n, final) == [type |-> type, req |-> r, data |-> d, total |-> n, final |-> final]
Plain(type, r) == Msg(type, r, <<>>, 0, FALSE)
Header(type, r, d) == Msg(type, r, <<>>, Len(d), FALSE)
MutantChunk(r, d, i) == Msg("chunk", r, <<d[i]>>, 0, i + 1 >= Len(d))
Chunk(r, d, i) == Msg("chunk", r, <<d[i]>>, 0, i >= Len(d))

(* How a future, or a request, came out. *)
Value(out, d) == [out |-> out, data |-> d]
Failed(out) == Value(out, <<>>)

(* _ChunkBuffer, and _gc_buffers on one node's table of them. *)
Buffer(total) == [got |-> <<>>, total |-> total, old |-> FALSE]
Stale(bufs) == {r \in DOMAIN bufs : bufs[r].old}
Add(buf, m) == [buf EXCEPT !.got = @ \o m.data]
Overrun(buf) == Len(buf.got) > buf.total

-----------------------------------------------------------------------------
(* Connections.  send_to answers whether there is a registered connection  *)
(* with an open multiplexer; what is queued on one that is dead already is *)
(* lost.                                                                   *)

Sendable(n) == route[n] # 0 /\ <<n, route[n]>> \notin broken
Put(ch, n, s, m) ==
  IF Sendable(n) /\ route[n] \in alive THEN [ch EXCEPT ![route[n]][n][s] = Append(@, m)] ELSE ch

(* Both nodes dial and accept, so a second connection may be registered    *)
(* over a working one, which goes on being read.                           *)
Connect ==
  /\ spare > 0
  /\ opened' = opened + 1 /\ spare' = spare - 1
  /\ alive' = alive \cup {opened'}
  /\ route' = [n \in Nodes |-> opened']
  /\ UNCHANGED <<frail, ended, broken, chan, client, server>>

Drop(c) ==
  /\ c \in alive
  /\ alive' = alive \ {c}
  /\ chan' = [chan EXCEPT ![c] = [n \in Nodes |-> [s \in Streams |-> <<>>]]]
  /\ UNCHANGED <<opened, spare, frail, route, ended, broken, client, server>>

Busy(n, c) == n = "server" /\ \E r \in DOMAIN serving : serving[r].conn = c

(* _read_loop ends and removes the node's entry, whichever it is by now.   *)
ReadLoopEnds(n, c) ==
  /\ c \in 1 .. opened \ alive /\ <<n, c>> \notin ended
  /\ ~ Busy(n, c)
  /\ ended' = ended \cup {<<n, c>>}
  /\ route' = [route EXCEPT ![n] = 0]
  /\ UNCHANGED <<opened, spare, frail, alive, broken, chan, client, server>>

(* A writer fails, on a connection that is dead or in encoding a message.  *)
(* The entry stays while the read loop goes on.  What the node had queued  *)
(* and not written is lost.                                                *)
WriterFails(n, c) ==
  /\ c \in 1 .. opened /\ <<n, c>> \notin ended \cup broken
  /\ n \in frail /\ frail' = frail \ {n}
  /\ broken' = broken \cup {<<n, c>>}
  /\ UNCHANGED <<opened, spare, alive, route, ended, chan, client, server>>

Unwritten(n, c) ==
  /\ <<n, c>> \in broken /\ \E s \in Streams : chan[c][n][s] # <<>>
  /\ chan' = [chan EXCEPT ![c][n] = [s \in Streams |-> <<>>]]
  /\ UNCHANGED <<links, client, server>>

-----------------------------------------------------------------------------
(* The requests at the client.                                             *)

Finish(r, v) ==
  /\ phase' = [phase EXCEPT ![r] = "done"]
  /\ result' = [result EXCEPT ![r] = v]

(* The finally clauses. *)
MutantForget(r) == pending' = pending \ {r} /\ UNCHANGED <<pulls, pulled>>
Forget(r) ==
  /\ pending' = pending \ {r}
  /\ pulls' = Without(pulls, {r})
  /\ pulled' = Without(pulled, {r})

Request(r) ==
  CASE r \in Stores ->
         IF Chunked(Payload(r)) THEN Header("store_chunked", r, Payload(r))
         ELSE Msg("store", r, Payload(r), 0, FALSE)
    [] r \in Loads -> Plain("load", r)
    [] r \in Frees -> Plain("free", r)
InChunks(r) == r \in Stores /\ Chunked(Payload(r))

(* store_remote, load_remote, free_remote: register the future and begin   *)
(* to send.                                                                *)
Begin(r) ==
  /\ phase[r] = "idle"
  /\ \/ /\ ~ Sendable("client")
        /\ Finish(r, Failed("failed"))
        /\ UNCHANGED <<chan, pending>>
     \/ /\ Sendable("client")
        /\ pending' = pending \cup {r}
        /\ chan' = Put(chan, "client", IF InChunks(r) THEN r ELSE "control", Request(r))
        /\ phase' = [phase EXCEPT ![r] = "sending"]
        /\ UNCHANGED result
  /\ UNCHANGED <<links, pos, reply, pulls, pulled, server>>

(* One turn of _send_chunks in store_remote, once the last send returned.  *)
SendChunk(r) ==
  /\ phase[r] = "sending" /\ InChunks(r) /\ pos[r] < Size[r]
  /\ \/ /\ ~ Sendable("client")
        /\ Finish(r, Failed("failed"))
        /\ pending' = pending \ {r}
        /\ UNCHANGED <<chan, pos>>
     \/ /\ Sendable("client")
        /\ pos' = [pos EXCEPT ![r] = @ + 1]
        /\ chan' = Put(chan, "client", r, Chunk(r, Payload(r), pos[r] + 1))
        /\ UNCHANGED <<phase, pending, result>>
  /\ UNCHANGED <<links, reply, pulls, pulled, server>>

(* The last send of a request returns, and its reply is waited for.        *)
Sent(r) ==
  /\ phase[r] = "sending" /\ (InChunks(r) => pos[r] = Size[r])
  /\ phase' = [phase EXCEPT ![r] = "awaiting"]
  /\ UNCHANGED <<links, chan, pos, pending, reply, pulls, pulled, result, server>>

(* The future is resolved and the coroutine resumes.                       *)
Replied(r) ==
  /\ phase[r] = "awaiting"
  /\ reply[r].type \notin {"open", "cancelled"}
  /\ IF reply[r].type = "data_chunked"
     THEN /\ phase' = [phase EXCEPT ![r] = "collecting"]
          /\ UNCHANGED <<pending, pulls, pulled, result>>
     ELSE /\ Finish(r, Value(reply[r].type, reply[r].data))
          /\ Forget(r)
  /\ UNCHANGED <<links, chan, pos, reply, server>>

(* The collector of a streamed load is resolved.                           *)
Collected(r) ==
  /\ phase[r] = "collecting"
  /\ pulled[r].out \notin {"open", "cancelled"}
  /\ Finish(r, pulled[r])
  /\ Forget(r)
  /\ UNCHANGED <<links, chan, pos, reply, server>>

MutantTimesOut(r) ==
  /\ phase[r] = "collecting" /\ pulled[r].out = "open"
  /\ pulled' = [pulled EXCEPT ![r] = Failed("cancelled")]
  /\ phase' = [phase EXCEPT ![r] = "expired"]
  /\ UNCHANGED <<links, chan, pos, pending, reply, pulls, result, server>>

(* wait_for gives up: the future is cancelled, the coroutine resumes later *)
(* and only then clears up.                                                *)
TimesOut(r) ==
  /\ \/ /\ phase[r] = "awaiting" /\ reply[r].type = "open"
        /\ reply' = [reply EXCEPT ![r] = Plain("cancelled", r)]
        /\ UNCHANGED pulled
     \/ /\ phase[r] = "collecting" /\ pulled[r].out = "open"
        /\ pulled' = [pulled EXCEPT ![r] = Failed("cancelled")]
        /\ UNCHANGED reply
  /\ phase' = [phase EXCEPT ![r] = "expired"]
  /\ UNCHANGED <<links, chan, pos, pending, pulls, result, server>>

ClearsUp(r) ==
  /\ phase[r] = "expired"
  /\ Finish(r, Failed("failed"))
  /\ Forget(r)
  /\ UNCHANGED <<links, chan, pos, reply, server>>

-----------------------------------------------------------------------------
(* handle_message at the client.  m is the message and ch the channels     *)
(* without it.  A chunk goes to the buffer of its load, if there is one.   *)

PullChunk(m, ch) ==
  LET r == m.req
      buf == Add(pulls[r], m)
      settle(v) == pulled' = [pulled EXCEPT ![r] = IF @.out = "open" THEN v ELSE @]
  IN  /\ m.type = "chunk"
      /\ chan' = ch
      /\ IF r \notin DOMAIN pulls THEN UNCHANGED <<pulls, pulled>>
         ELSE IF Overrun(buf) THEN pulls' = Without(pulls, {r}) /\ settle(Failed("failed"))
         ELSE IF m.final THEN pulls' = Without(pulls, {r}) /\ settle(Value("data", buf.got))
         ELSE pulls' = With(pulls, r, buf) /\ UNCHANGED pulled
      /\ UNCHANGED <<links, phase, pos, pending, reply, result, server>>

(* _open_pull_buffer, after _gc_buffers: a stale load's collector fails.   *)
OpenPull(r, total) ==
  LET stale == Stale(pulls)
      swept == [x \in DOMAIN pulled |->
                  IF x \in stale /\ pulled[x].out = "open" THEN Failed("failed") ELSE pulled[x]]
  IN  /\ pulls' = With(Without(pulls, stale), r, Buffer(total))
      /\ pulled' = With(swept, r, Failed("open"))

(* The answer to a request that is waited for resolves its future; any     *)
(* other is dropped.                                                       *)
TakeReply(m, ch) ==
  LET r == m.req
  IN  /\ m.type # "chunk"
      /\ chan' = ch
      /\ IF r \notin pending THEN UNCHANGED <<pending, reply, pulls, pulled>>
         ELSE /\ IF m.type = "data_chunked" THEN OpenPull(r, m.total)
                 ELSE UNCHANGED <<pulls, pulled>>
              /\ pending' = pending \ {r}
              /\ reply' = [reply EXCEPT ![r] = IF @.type = "open" THEN m ELSE @]
      /\ UNCHANGED <<links, phase, pos, result, server>>

-----------------------------------------------------------------------------
(* handle_message at the server.                                           *)

Answer(ch, m) == chan' = Put(ch, "server", "control", m)

MutantReject(r, ch) == Answer(ch, Plain("stored", r)) /\ UNCHANGED <<held, committed>>
Reject(r, ch) == Answer(ch, Plain("nack", r)) /\ UNCHANGED <<held, committed>>

(* block_manager.store() takes the block, or refuses it for its size or    *)
(* for want of memory.                                                     *)
Commit(r, d, ch) ==
  \/ /\ Len(d) <= MaxBlockSize
     /\ held' = With(held, r, d)
     /\ committed' = committed \cup {r}
     /\ Answer(ch, Plain("stored", r))
  \/ Reject(r, ch)

ServeStore(m, ch) ==
  /\ m.type = "store"
  /\ Commit(m.req, m.data, ch)
  /\ UNCHANGED <<links, client, pushes, serving>>

MutantRefuse(m, kept, ch) ==
  Reject(m.req, ch) /\ pushes' = With(kept, m.req, Buffer(m.total))
Refuse(m, kept, ch) == Reject(m.req, ch) /\ pushes' = kept

(* A chunked store opens a buffer, unless its size is not acceptable or    *)
(* the table is full once stale transfers are dropped.                     *)
OpenPush(m, ch) ==
  LET kept == Without(pushes, Stale(pushes))
  IN  /\ m.type = "store_chunked"
      /\ IF m.total <= 0 \/ m.total > MaxBlockSize
         THEN Refuse(m, pushes, ch)
         ELSE IF Cardinality(DOMAIN kept) >= MaxInbound
         THEN Refuse(m, kept, ch)
         ELSE /\ chan' = ch
              /\ pushes' = With(kept, m.req, Buffer(m.total))
              /\ UNCHANGED <<held, committed>>
      /\ UNCHANGED <<links, client, serving>>

PushChunk(m, ch) ==
  LET r == m.req
      buf == Add(pushes[r], m)
  IN  /\ m.type = "chunk"
      /\ IF r \notin DOMAIN pushes
         THEN chan' = ch /\ UNCHANGED <<held, pushes, committed>>
         ELSE IF Overrun(buf)
         THEN pushes' = Without(pushes, {r}) /\ Reject(r, ch)
         ELSE IF m.final
         THEN pushes' = Without(pushes, {r}) /\ Commit(r, buf.got, ch)
         ELSE chan' = ch /\ pushes' = With(pushes, r, buf) /\ UNCHANGED <<held, committed>>
      /\ UNCHANGED <<links, client, serving>>

(* A small block is one message.  A large one is announced and streamed by *)
(* the handler, which keeps the read loop of connection c busy.            *)
ServeLoad(m, ch, c) ==
  LET r == m.req
      b == Target[r]
      stream == [conn |-> c, data |-> held[b], pos |-> 0]
  IN  /\ m.type = "load"
      /\ IF b \notin DOMAIN held
         THEN Answer(ch, Plain("not_found", r)) /\ UNCHANGED serving
         ELSE IF ~ Chunked(held[b])
         THEN Answer(ch, Msg("data", r, held[b], 0, FALSE)) /\ UNCHANGED serving
         ELSE /\ chan' = Put(ch, "server", r, Header("data_chunked", r, held[b]))
              /\ serving' = IF Sendable("server") THEN With(serving, r, stream) ELSE serving
      /\ UNCHANGED <<links, client, held, pushes, committed>>

(* One turn of _send_chunks in a streamed reply.                           *)
StreamChunk(r) ==
  /\ r \in DOMAIN serving
  /\ LET at == serving[r].pos + 1
     IN  /\ chan' = Put(chan, "server", r, Chunk(r, serving[r].data, at))
         /\ serving' = IF Sendable("server") /\ at < Len(serving[r].data)
                       THEN [serving EXCEPT ![r].pos = at] ELSE Without(serving, {r})
  /\ UNCHANGED <<links, client, held, pushes, committed>>

MutantServeFree(m, ch) ==
  /\ m.type = "free"
  /\ held' = Without(held, {Target[m.req]})
  /\ Answer(ch, Plain("freed", m.req))
  /\ UNCHANGED <<links, client, pushes, serving, committed>>
ServeFree(m, ch) ==
  /\ m.type = "free"
  /\ held' = Without(held, {Target[m.req]})
  /\ Answer(ch, Plain(IF Target[m.req] \in DOMAIN held THEN "freed" ELSE "not_freed", m.req))
  /\ UNCHANGED <<links, client, pushes, serving, committed>>

(* The server's own users store blocks too, which may evict any of these.  *)
Evict(b) ==
  /\ b \in DOMAIN held
  /\ held' = Without(held, {b})
  /\ UNCHANGED <<links, chan, client, pushes, serving, committed>>

(* A buffer outlives INBOUND_STREAM_TIMEOUT.                               *)
Ages(r) ==
  /\ \/ r \in DOMAIN pushes \ Stale(pushes) /\ pushes' = [pushes EXCEPT ![r].old = TRUE]
        /\ UNCHANGED pulls
     \/ r \in DOMAIN pulls \ Stale(pulls) /\ pulls' = [pulls EXCEPT ![r].old = TRUE]
        /\ UNCHANGED pushes
  /\ UNCHANGED <<links, chan, phase, pos, pending, reply, pulled, result, held, serving, committed>>

-----------------------------------------------------------------------------
Init ==
  /\ opened = 0 /\ alive = {} /\ ended = {} /\ broken = {}
  /\ route = [n \in Nodes |-> 0]
  /\ chan = [c \in Conns |-> [n \in Nodes |-> [s \in Streams |-> <<>>]]]
  /\ \E sc \in Scenarios :
       /\ spare = sc.conns /\ frail = sc.frail
       /\ phase = [r \in Reqs |-> IF r \in sc.reqs THEN "idle" ELSE "done"]
  /\ pos = [r \in Stores |-> 0]
  /\ pending = {}
  /\ reply = [r \in Reqs |-> Plain("open", r)]
  /\ pulls = <<>> /\ pulled = <<>>
  /\ result = [r \in Reqs |-> Failed("none")]
  /\ held = <<>> /\ pushes = <<>> /\ serving = <<>>
  /\ committed = {}

(* A node's read loop on a connection takes the next message of a stream   *)
(* and handles it to the end; a streamed reply keeps it from the next one. *)
Deliver(c, s) ==
  \/ /\ chan[c]["server"][s] # <<>>
     /\ LET m == Head(chan[c]["server"][s])
            ch == [chan EXCEPT ![c]["server"][s] = Tail(@)]
        IN  PullChunk(m, ch) \/ TakeReply(m, ch)
  \/ /\ chan[c]["client"][s] # <<>>
     /\ ~ Busy("server", c)
     /\ LET m == Head(chan[c]["client"][s])
            ch == [chan EXCEPT ![c]["client"][s] = Tail(@)]
        IN  \/ ServeStore(m, ch) \/ OpenPush(m, ch) \/ PushChunk(m, ch)
            \/ ServeLoad(m, ch, c) \/ ServeFree(m, ch)

(* What a coroutine does when a wait is over, and when a send returns too. *)
Resumes(r) == Replied(r) \/ Collected(r) \/ TimesOut(r) \/ ClearsUp(r)
Coroutine(r) == SendChunk(r) \/ Sent(r) \/ Resumes(r)

(* What befalls a node's end of a connection.                              *)
EndFails(n, c) == ReadLoopEnds(n, c) \/ WriterFails(n, c) \/ Unwritten(n, c)

Next ==
  \/ \E r \in Reqs : Begin(r) \/ Coroutine(r) \/ StreamChunk(r) \/ Ages(r) \/ Evict(r)
  \/ \E c \in Conns, s \in Streams : Deliver(c, s)
  \/ \E c \in Conns : Drop(c)
  \/ \E c \in Conns, n \in Nodes : EndFails(n, c)
  \/ Connect

Spec == Init /\ [][Next]_vars

(***************************************************************************)
(* The event loop resumes a coroutine whose future is resolved or whose    *)
(* timeout is over, and there are finitely many such steps, so none waits  *)
(* for ever.  Nothing else is certain to happen: a send may wait for ever, *)
(* and with it a handler and the read loop that runs it, at either node.   *)
(***************************************************************************)
FairSpec == Spec /\ WF_vars(\E r \in Reqs : Resumes(r))

-----------------------------------------------------------------------------
(* Properties.                                                             *)

(* The shape of the state. *)
TypeOK ==
  /\ opened + spare \in 0 .. MaxConns /\ alive \subseteq 1 .. opened
  /\ frail \subseteq Nodes
  /\ route \in [Nodes -> 0 .. opened]
  /\ ended \subseteq Nodes \X Conns /\ broken \subseteq Nodes \X Conns
  /\ phase \in [Reqs -> {"idle", "sending", "awaiting", "collecting", "expired", "done"}]
  /\ pending \subseteq Reqs /\ committed \subseteq Stores
  /\ DOMAIN pulls \subseteq DOMAIN pulled /\ DOMAIN pulled \subseteq Loads
  /\ DOMAIN held \subseteq committed /\ DOMAIN pushes \subseteq Stores
  /\ DOMAIN serving \subseteq Loads
  /\ Cardinality(DOMAIN pushes) <= MaxInbound

(* A transfer hands over the payload it was given, or fails: every block   *)
(* the server created holds what store_remote was called with, and what a  *)
(* load_remote returned is the payload of the block it asked for.          *)
TransfersIntact ==
  /\ \A b \in DOMAIN held : held[b] = Payload(b)
  /\ \A r \in Loads : result[r].out = "data" => result[r].data = Payload(Target[r])

(* So it is as long as the nodes have had a single connection, whatever is *)
(* lost, late, refused or freed on it.                                     *)
IntactOnOneConnection == opened <= 1 => TransfersIntact

(* What store_remote reports agrees with what happened at the server: a    *)
(* block id is returned only for a block that was created, and OutOfMemory *)
(* (a Nack) only when none was created, nor is later by a chunk that comes *)
(* after the refusal.                                                      *)
StoreReportsTruth ==
  \A r \in Stores :
    /\ result[r].out = "stored" => r \in committed
    /\ result[r].out = "nack" => r \notin committed

(* A free that reports success has freed a block that was there, and the   *)
(* block does not come back, whatever loads of it are in progress.         *)
FreedIsGone ==
  \A r \in Frees : result[r].out = "freed" => Target[r] \in committed \ DOMAIN held

(* When a request is over, however it ended, the client keeps nothing of   *)
(* it: no waiter, no reassembly buffer and no collector, even if the reply *)
(* came between the timeout and the clean-up.                              *)
NothingLeftBehind ==
  \A r \in Reqs : phase[r] = "done" =>
    r \notin pending /\ r \notin DOMAIN pulls /\ r \notin DOMAIN pulled

(* Every request made ends, with an answer or a failure, unless it is for  *)
(* ever in a send: time and again no other is in progress, though messages *)
(* are lost that send_to took, and though the server, its read loop and    *)
(* the client's own may stop for good.  (Each request is made once, so     *)
(* this is the same as a leads-to for each of them, and cheaper to check.) *)
(* That a send may wait for ever is ChannelMux's SendReturns and MuxPair's *)
(* NothingStarves.                                                         *)
RequestsEnd == []<>(\A r \in Reqs : phase[r] \in {"idle", "sending", "done"})

=============================================================================
