# memnode, specified in TLA+

memnode (`src/memnode/`) pools the RAM of machines on a local network. Every
node runs one asyncio daemon. The daemon keeps blocks of bytes for local
clients and for its peers, and places blocks on peers when its own quota is
full. This directory specifies its stateful parts in TLA+, model-checks them
with TLC on small instances, and proves some results with TLAPS for every
instance.

## The system

| Part | Source | State | Operations that change it |
|---|---|---|---|
| Block store | `blocks.py` | striped tables of blocks, byte counters, key index | store, free, free_by_key; eviction inside store |
| Multiplexer | `mux.py` | a queue per stream, the rotation, a semaphore of slots, the writer task | send, the writer's loop, run, close |
| Replication | `replication.py` | pending replies, reassembly buffers, collectors | store_remote, load_remote, free_remote, handle_message |
| Peer registry | `peers.py` | connected peers, one read loop per connection | handle_incoming, connect_to, the read loop |
| Trust | `peers.py` | trusted identities and the file behind them | consent, verify, revoke, load and save |
| Handshake admission | `ratelimit.py` | attempts and running handshakes by address | acquire, release |
| Secure channel | `security.py` | transcript and keys; sequence numbers, key epochs, replay window | perform_handshake, send, recv |
| Local RPC | `rpc.py`, `rpcauth.py` | a session per client | authentication, codec, dispatch over store, peers and replication |
| Clients | `cli.py`, `demo/demo_client.py` | a session; the manifest of a transfer | a call; upload, cleanup |
| Discovery, wire format, TLS, start-up | the rest | none that matters to the others | |

A message takes this way: a request coroutine (replication) calls `send_to`
(registry), which queues it on the connection's multiplexer; the writer task
seals it (secure channel) and writes it. At the other node the read loop opens
it and runs `handle_message` to its end before it reads the next one. A client
asks its own node over the local RPC; the dispatcher uses the block store, or
replication when the block is, or has to go, elsewhere.

Everything runs on one event loop. A coroutine can be interrupted only where
it really waits, and acquiring a free `asyncio.Lock` is no such place. So the
block store, the trust store and the registry change in atomic steps, and what
lies between two waits is one action in all modules.

What makes this code hard to test: senders that wait for a slot while the
connection goes away; a second connection that replaces the first, because
both nodes dial each other; replies that race timeouts; consent given while
the identity is revoked; eviction from several stripes; writes that fail after
a nonce was used; eviction from the admission table while handshakes run; two
ends of an RPC session that take the same bytes for different messages; one key
stored on several nodes; ids that mean a different block on every node.

## Modules

**BlockManager** has one action per operation and outcome: `StoreOk`,
`StoreTooLarge`, `StoreOutOfMemory`, `Free`, `FreeByKey`, `Load`, `LoadByKey`.
A store that evicts and then fails is `StoreOutOfMemory`, with its evictions
in effect. `Evicts` is the set of blocks that `_evict_to_free` may drop, for
each order of stripes and of candidates that `random.shuffle` may produce, and
it follows the code's arithmetic. Sizes are sets of cells, so that sums of
sizes are cardinalities. **BlockStore** is what the store promises: blocks
with their owners' keys, a quota, no trace of stripes, counters or index.

**ChannelMux** is one multiplexer, the tasks that send on it (the reader is
one: a message handler sends replies), its writer and the loss of its
connection. Tasks wait in the order of asyncio's semaphore; a released slot is
handed to the first of them, who runs later. `wire` and `accepted` are
histories of each stream.

**Replication** is a client and a server node and the connections between
them. A message is a record, a payload the sequence of its chunks' contents.
Every stream of every connection is a queue of its own, since the multiplexer
keeps the order only within a stream. A send waits for a slot without a
timeout, so a request is in phase `sending` until its last send has returned,
which need never happen. `TimesOut` and `ClearsUp` are two steps: `wait_for`
cancels the future, and the coroutine resumes later. Connections are replaced
and forgotten as in PeerManager. A writer may fail (`WriterFails`): `send_to`
then answers False for a peer that is registered and read, and what was queued
behind the failure is lost (`Unwritten`), also what a send queued that had
tested `_closed` before.

**PeerManager** follows each connection from the socket to the end of its read
loop, with the registry, the trust store and its file. An outgoing connection
starts its read loop in a task of its own, which looks the peer up again. A
multiplexer ends in two ways: `ReadLoopEnds` closes it and removes the peer's
entry, `WriterFails` closes it for sending only and leaves the entry, so that
`send_to` answers False for a registered peer (`broken`). `Restart` may come at any point; the daemon then loads the file, which may be
of the old format, and may be started with or without required verification.

**HandshakeGuard** is the admission table with its clock. **Listener** composes
it with PeerManager as `handle_incoming` does: a slot is taken before the pinned
certificate is looked at and given back when the handshake is over, before the
identity is. Strangers are inbound connections that never complete a handshake;
a restart empties the table.

**MuxPair** is two nodes that store on and load from each other over one
connection: two multiplexers, their read loops, the coroutines of the requests
and a socket that holds a bounded number of messages. The multiplexer's steps
are coarser than in ChannelMux, which has its interleavings; what is kept is who
waits for whom: sends for slots, writers for the socket, a read loop for the
handler it runs.

**Handshake** is `perform_handshake` at both ends of a connection, each with
the timeout around it: the two Hellos, their checks in the code's order, the
signed transcript, the keys. Cryptography is symbolic: an end's nonce and
ephemeral key are the end, a signature is its signer and what was signed, a
key is what it is derived from. `line` says who is at the ends: two nodes, a
node and itself, a node of another version, one that sends malformed fields,
one that presents an identity key other than the one it signs with, or a
service that echoes. **SecureChannel** extends it with one direction of
the connection; a key is the handshake's key and the number of ratchet steps
behind it, a frame decrypts with the key it was sealed with. Frames may be
read in any order and more than once; `inOrder` records whether they were read
as TCP delivers them.

**RpcPool** is the dispatcher: `Store`, `Load`, `FreeLocal` and `Remote` do
what `_dispatch` does up to its answer or its first request to a peer. `Ask`,
`Reply` and `TimesOut` are the rest of the handler, with the fan-out of a
lookup by key over the peers that were connected when it began; `Serve` is the
peer. Each node's block store is what BlockStore promises, except that its
quota is shared with users who are not in the model: a store may find no room
and cached blocks may be evicted at any time. A request to a peer is
handled in one step after it was sent, at once or long after the requester gave
up. Of the steps in between, which are Replication's, RpcPool has what can come
of them. The handler is `sending` until its send returns, which need never
happen. A store over `Threshold` is `chunking` first: the peer may refuse it but
not yet commit it, and if the connection is lost or replaced meanwhile it is
`torn`, and the peer may commit and acknowledge a part of it
(`replication_truncates`); a streamed answer may be cut short by `Replace` too.
After `WriterFails` the peer is `mute`: registered, but `send_to` fails. The
answer goes over the connection there is when it is sent, as `send_to` looks the
peer up again.

**RpcServer** puts a session before it: the client's `_authenticate` and
`_call` (`ClientStep`) and the handler's `_authenticate` and `_handle_client`
(`ServerStep`). The client speaks first when it has no token or its probe for
the challenge has timed out, so a frame is whatever its reader takes it for:
the magic read as the length of a JSON frame, a request read as an answer to
the challenge, a challenge read as a response. **DemoClient** adds a user of
that RPC, `upload` and `cleanup` of the demo, which can be interrupted and run
again. The demo client knows no token: a listener that asks for one turns it
away (`docs/PHASE2_LATENCY.md:180` says it still works; it does where
`--no-rpc-auth` is given).

The `MC*` modules give the constants values; the `.cfg` files choose the
instance and the properties. `Mutant*` definitions are faulty variants of the
definition that follows them. No specification uses them; each breaks the
property it was written against when it takes the definition's place.

## Model checking

| Run | Module, configuration | Result |
|---|---|---|
| block_manager | MCBlockManager, MCBlockManager.cfg | holds |
| eviction_stops_early | MCBlockManager, MCBlockManagerEarlyStop.cfg | violated |
| mux | MCChannelMux, MCChannelMux.cfg | holds |
| mux_sender_hangs | MCChannelMux, MCChannelMuxHang.cfg | violated |
| read_loops_block | MCMuxPair, MCMuxPair.cfg | violated |
| replication | MCReplication, MCReplication.cfg | holds |
| replication_truncates | MCReplication, MCReplicationTruncates.cfg | violated |
| secure_channel | MCSecureChannel, MCSecureChannel.cfg | holds |
| listener | MCListener, MCListener.cfg | holds |
| registry_forgets | MCPeerManager, MCPeerManagerForgets.cfg | violated |
| rpc | MCRpc, MCRpc.cfg | holds |
| rpc_stale_read | MCRpc, MCRpcStale.cfg | violated |

**block_manager.** Two stripes, a quota of four bytes, two keys, three blocks
of length zero, one, two, four or too large: room for an overwrite that needs
an eviction, a store that fails after evicting, and a key rebound by a store
that evicts its previous block. `QuotaExact`: the counters are the bytes
stored and within the quota. `KeyIndexExact`: the index and the blocks' keys
determine each other. `PinnedStays`: only a free, or a store under its key,
removes a pinned block. `EvictsNoMoreThanNeeded`: no block is evicted once the
rest makes room. `ImplementsBlockStore`: refinement of BlockStore. The keys
are interchangeable, hence the symmetry.

**eviction_stops_early.** `OutOfMemoryOnlyIfPinned` is the docstring of
`_evict_to_free`. It fails with two stripes: the inner loop subtracts bytes
that were released from the counter already, stops early, and the store is
refused with evictable blocks left.

**mux.** Two streams, a sender and the reader with three messages each, three
slots: enough for a full queue with a task waiting and a stream with two
messages beside another. `QueuesExact`: the rotation holds exactly the streams
with messages, and no slot is lost or invented. `NoLostWakeup`: the writer
never sleeps over a message with the event unset. `FifoPerStream`: messages
leave in the order of each stream. `RoundRobin`: no stream is served twice
while another waits. `SendsGoThrough`: as long as the connection lasts, what is
queued is written and a waiting sender gets in. `WriterStops`: when it ends, so
does the writer. Fairness is weak fairness of the writer, of tasks
that have been handed a slot, and of the start of the read loop: the event
loop runs every ready task. Fairness of the writer includes that a write to the
socket returns or fails, which the peer's TCP decides; where a peer stops
reading it does not hold, and `read_loops_block` is about that. Nothing is
assumed of the senders, nor that the connection ends.

**mux_sender_hangs.** `SendReturns`: a `send()` ends. It fails: closing wakes
no one who waits for a slot.

**read_loops_block.** `NothingStarves`: whatever finitely many requests have to
send gets through in the end. Each node loads two blocks from the other. A block
(a header and two chunks) fits the queue of four and two do not, and the socket
holds one message; in the code, that is more than 512 messages and the buffers
of the sockets in each direction. It fails: the handler in each read loop waits
for a slot, each writer for the other node to read, and neither reads. Timeouts
end the requests but not the handlers, and the connection stays up. On instances
of this size the property holds when only one node makes requests, and when both
only store: what a handler then has to send is one reply for each block.
Fairness is that of writers and read loops that can go on.

**replication.** Seven scenarios, one of which the initial state chooses: two
chunked stores that compete for one reassembly buffer; a store and a load on a
connection that is replaced in mid-transfer; the two on one connection with a
failing writer at either node or both; a store with a failing writer and a
second connection; requests of one message; a block over the size limit beside
another; a free while its block is streamed.
Connections may be lost, timeouts come at any moment and stale buffers are
swept. `IntactOnOneConnection`: blocks and loaded data are what was given, as
long as there is one connection. `StoreReportsTruth`: a returned id means a
block was created, an OutOfMemory that none was or will be.
`NothingLeftBehind`: no waiter, buffer or collector outlives its request.
`FreedIsGone`: a successful free removed a block that was there, for good.
`RequestsEnd`: every request ends unless it is for ever in a send, though the
server or any read loop may stop for good and messages are lost that `send_to`
took. The only fairness is that of coroutines whose future is resolved or whose
timeout is over; there are finitely many such steps in every behaviour, so
fairness of all of them as a whole says as much as fairness of each. That a send
may never return is shown by `mux_sender_hangs` and `read_loops_block`.
The chunks of a large block are two, the fewest that can be
separated.

**replication_truncates.** With two connections `TransfersIntact` fails: the
chunks overtake each other, the receiver looks neither at their numbers nor at
the announced size, and a truncated block is stored and acknowledged.

**secure_channel.** A window of two, epochs of three, seven messages: frames
repeated within the window and behind it in one epoch, and numbers beyond its
end, counted and timed rekeys, a failed write; ends as `Handshake` describes them. `HandshakeAgrees`: an end that
completes the handshake did so with the node whose identity it reports, both
have one transcript and opposite keys, two proper nodes never turn each other
away, an identity without its signature is refused, and a node that reaches itself does not connect (by the identity check;
the comment at `security.py:398` expects the reflected nonce to show it, but a
node that dials itself sends two different ones). `WindowExact`: the bitmap is an exact memory. `DeliveredOnce`:
no message twice. `NonceUnique`: no nonce twice under one key. `Lockstep`:
while frames arrive in order the receiver delivers each and never raises.

**listener.** Three scenarios. *Registry*: three connections to one peer, two of
them dialled, and one of another peer that the trust file knows, with the user's
decisions and restarts in any order. *Crowd*: two peers connect while a stranger
does from the address of one of them. *Flood*: strangers from four addresses.
The table has three entries, two handshakes may run at once and the window is
one tick of at most two. One stranger holds a slot at a time: with the two peers
that makes one connection more than the guard admits.
`TrustEarned`: trusted and verified are exactly those approved and confirmed and
not revoked since, across restarts. `OnlyApprovedRegister`: nobody else is
registered. `RegistryAttended`: a registered connection is the peer's own, no
read loop has ended on it, and its own runs or is about to; its multiplexer may
have been closed by its writer. `VerifiedMarkRight`: the mark shown is the trust store's.
`AdmissionExact`: a connection holds a slot exactly while its handshake runs,
and the counters are the handshakes that run (`InflightExact`), also when
entries are evicted meanwhile. `TableBounded`: the table keeps its limit, given
that fewer handshakes may run than entries are kept (`TableAssumption`; the
configuration has 128 and 8192). `WindowLimit`: the sliding window, for
addresses whose entry was not evicted.

**registry_forgets.** `ConnectedIsRegistered`: a peer with an open connection
that is being read is in the registry. It fails when an older connection to
the same peer ends.

**rpc.** Five families of scenarios over one node and two peers. *Sessions*:
every kind of client (no token, the right one, a wrong one; JSON or binary)
against a listener that asks for a token or does not, storing or loading beside
a second client whose block fits a message in binary only. *Keys*: a key is
stored twice and loaded, in sequence or not, while a peer goes or a writer
fails.
*ByName*: blocks stored on, loaded from and freed on a named peer, beside
operations on the same id here. *Large*: a chunked store and a load of it while
the connection is lost and made again, or replaced while a writer fails.
*Transfer*: two chunks uploaded and cleaned up,
interrupted and cleaned up again, beside another client's block.
`CallReportsTruth`: what a client reports is what happened to its request, and
a call that was not admitted did nothing. `AckedIsHeld`: an acknowledged pinned
block is where the answer says, with its key, until it is freed there or another
store of its key reaches that node, which may be one that this node has given up
and the peer has not. Its payload is whole unless the connection was lost or
replaced between its chunks, when the code may acknowledge a part.
`NotFoundIsTrue`: a lookup that finds nothing missed no node that answered and
held the key all along. `CleanupReleases`: cleanup frees all blocks of the
upload and no other, and removes the manifest only then. `CallsEnd`: every call
ends, though the response is awaited without a timeout, unless its handler is
for ever in a send to a peer; such a client waits for ever too. Fairness is that
of clients and handlers that can go on, including the timeouts of the probe, of
authentication and of requests to peers; sends need not return, peers need not
answer and users need not call. Again there are finitely many such steps.
`churn` is what still happens to connections, each kind of event once. There are
at most three clients at a time, since a later one that overtakes an earlier one
is all that the properties tell apart, and the demo client makes five calls: two
chunks, and a cleanup that is interrupted and then run again to its end.

**rpc_stale_read.** `LocationTransparent`: a load by key does not return what
an acknowledged later store has replaced. It fails: a store that overflows to a
peer leaves the older block under its key, and the load finds that one first.

Deadlock is not checked for the multiplexers, replication, the channel and the
RPC: a connection that is over, or a bounded number of messages or calls made,
is a proper end.

## Proofs

`BlockManagerProofs` proves, for every set of payloads and keys, every quota
and every number of stripes:

- `TypeCorrect`: `Spec => []TypeOK`.
- `QuotaIsExact`: `Spec => []QuotaExact`.
- `KeyIndexIsExact`: `Spec => []KeyIndexExact`.
- `PinnedBlocksStay`: `Spec => PinnedStays`.
- `EvictionStopsInTime`: `Spec => EvictsNoMoreThanNeeded`.
- `BlockManagerImplements`: `Spec => ImplementsBlockStore`.

The assumptions are the module's: lengths, quota and block limit are natural
numbers, there is at least one stripe. `TypeOK` is inductive by itself;
`QuotaExact` and `KeyIndexExact` are each inductive together with it. The first
lemmas are about sums as cardinalities of cells: removing blocks from a finite
table removes exactly their bytes, so that `Release`, which cuts off at zero,
never does. A store that succeeds evicts, inserts and frees the key's previous
block in one action; `QuotaInsert` treats the three together, and rests on the
victims and the previous block being disjoint sets of live blocks.
`PinnedBlocksStay` needs that a victim is a cached block (`VictimsAreCached`)
and, for an overwrite, `KeyIndexExact`: the block freed is one stored under
that key. `EvictionStopsInTime` looks at the last stripe that gives something
up and at the block popped last there (`LastVictim`): without that block the
new one would not have fitted, although the loop counts the bytes of earlier
stripes twice, because it stops too early for that and never too late. The
refinement maps blocks to themselves and forgets the rest; it
needs `KeyIndexExact`, since the abstract store finds a key's block without an
index, and `QuotaExact`, since it states its quota without a counter.

`PeerManagerProofs` proves, for every set of identities and connections and
every trust file that the first start finds:

- `PeersTypeCorrect`: `Spec => []TypeOK`.
- `TrustIsEarned`: `Spec => []TrustEarned`.
- `RegistryIsAttended`: `Spec => []RegistryAttended`.
- `VerifiedMarksAreRight`: `Spec => []VerifiedMarkRight`.
- `OnlyApprovedAreRegistered`: `Spec => OnlyApprovedRegister`.

The only assumption is that every connection has a peer. None of these is
inductive by itself. `TrustEarned` needs that the file holds what the memory
holds (`FileAgrees`), or a restart could bring back something else, and that a
confirmed identity is an approved one (`ConfirmedApproved`), or a new consent
could find an old confirmation. `RegistryAttended` needs `LoopsOwnPeer`: a read
loop runs a multiplexer of its own peer, so that no entry that is left when it
ends has the multiplexer it closes (it may remove the entry of another
connection of that peer, see `registry_forgets`); and a connection that is
still in its handshake has no multiplexer that is closed. Failing writers do not
matter to it: it says that an entry is read, not that it can be sent to. The conjunction is `IInv`,
which TLC confirms on the instance of *Registry*.

`ChannelMuxProofs` proves, for every set of streams and senders and every
number of slots:

- `MuxTypes`: `Spec => []TypeOK`.
- `QueuesSound`: `Spec => []QueuesExact`.
- `WakeupsSound`: `Spec => []NoLostWakeup`.
- `StreamsInOrder`: `Spec => []FifoPerStream`.
- `RotationFair`: `Spec => []RoundRobin`.

The assumptions are that there is at least one slot and that the reader is not
one of the senders. The invariant is `MuxInv`. What it adds: a queue
holds messages of its own stream only; before `run()` there is no writer, and a
writer that has not stopped has a message in hand exactly while it sends it, so
that no message is overwritten when the next is taken (`TasksInv`); and a
stream that was served while another waits is behind that one in the rotation,
or not in it (`TurnsInv`), without which `RoundRobin` says nothing about the
next step. The rotation being exactly the nonempty queues, the writer's search
for a stream with a message always ends at the first one (`TakesFirst`). The
steps are three kinds: a message joins its queue (`EnqueueKeeps`), the writer
goes round its loop (`WriterKeeps`), and the queues stay as they are
(`QuietKeeps`).

`SecureChannelProofs` proves, for all kinds of ends, every window size, rekey
interval and number of messages:

- `ChannelTypes`: `Spec => []TypeOK`.
- `HandshakeSound`: `Spec => []HandshakeAgrees`.
- `WindowSound`: `Spec => []WindowExact`.
- `NoReplay`: `Spec => []DeliveredOnce`.
- `NoNonceReused`: `Spec => []NonceUnique`.
- `RekeysInLockstep`: `Spec => []Lockstep`.

The assumptions: window, interval and the epochs that may be skipped are at
least one. A skip of zero would not do, since the sender moves on by one epoch
at a time; the configuration has 64. The handshake's invariant says for each end
what is in its outgoing mail and what it knows, by the places of both ends. Two
nodes can sign only one transcript, `Common`; an initiator behind an echo never
gets past its own Hello. The invariant of the channel has three more parts.
`SenderInv`: every number used so far is behind `_send_seq`, or at it after a
write that failed, and was used with the key of its epoch. `WireInv`: numbers
grow from frame to frame, and epochs by one at most; this is why a receiver
that reads in order is never more than one epoch behind. `ReceiverInv`: the
window is exact, what was delivered was accepted, and in order both are the
frames read.

`ListenerProofs` proves, for every number of addresses and connections and all
limits:

- `GuardTypes`: `ListenerSpec => []GuardTypeOK`.
- `AdmissionSound`: `ListenerSpec => []AdmissionExact`.
- `TableSound`: `ListenerSpec => []TableBounded`.
- `RateSound`: `ListenerSpec => WindowLimit`.
- `ListenerImplements`: `ListenerSpec => Spec`, with PeerManager's `Spec`: what
  is proved there holds behind the admission of handshakes.

The assumptions are those of the modules; `TableSound` needs `TableAssumption`,
as each running handshake keeps its entry. `AdmissionSound` rests on eviction
removing idle entries only, so that a release always finds its entry.
`TableSound` needs that a full table has an idle entry and that eviction then
removes at least one: of a finite nonempty set of idle entries, one comes first
in the order of `(last_seen, ip)`. `RateSound` needs that an entry's attempts
are the last ones admitted and that those it no longer has are out of the window
(`WindowInv`); `Expired` counts the attempts that the loop over `popleft()`
drops, and `ExpiredCount` shows that it drops only such.

`ReplicationProofs` proves, for every set of requests, all payload sizes,
thresholds and limits, and any number of connections:

- `ReplicationTypes`: `Spec => []TypeOK`, with the limit on open uploads.
- `StoresReportTruth`: `Spec => []StoreReportsTruth`.
- `FreedStaysGone`: `Spec => []FreedIsGone`.
- `NothingIsLeftBehind`: `Spec => []NothingLeftBehind`.

The assumptions are that stores, loads and frees are different requests, that
sizes and limits are natural numbers, that a load or a free is of a block some
store may create, and that no request has the id `control`, the name of the
stream for short messages. None of the properties is inductive: an outcome is
reported long after the server decided it, and what lies between is in the
channels. The invariant has five parts. `ShapeInv`: types, a dropped connection
carries nothing, and a streamed reply that has not ended has a chunk left to
send. `KindInv`: what is under way from the client asks, what is
under way from the server answers a request of that kind, and a future holds an
answer to its own request. `WaitInv`: what the client keeps belongs to a request
in progress. `TokenInv` is the heart: a request's first message exists in one
place at most, a store is asked for or being received or decided, and an answer
that is on its way, in the future or reported says what was decided. It excludes
that a chunk which arrives after a refusal, or a second handling of a request
after a reconnect, creates the block after all. `SlotInv`: no more uploads are
open than `MAX_INBOUND_STREAMS`, which is compared only when one begins.
`ReplicationLemmas` has the invariant, what `Put`, `Take` and a drop do to the
channels, and the ways in which any step changes them (`Moves`);
`ReplicationSteps` the first three parts of the invariant; `ReplicationProofs`
the last two and the theorems.

TLC confirms each of these invariants on the instance of the corresponding run.

Only model-checked: `IntactOnOneConnection`, for which the invariant would also
have to say, for each place a chunk can be in, which part of the payload has
been sent, received and put together; MuxPair, a finite search for a state in
which everyone waits; the RPC modules and DemoClient, whose properties relate
the state of sessions, handlers, requests to peers and all block stores at once
(their invariant is several times that of Replication); and all liveness
properties, which need fairness.

## Not modelled

- The RPC operations that report (stats, peers, trusted, pair) and the parsing
  of requests; `connect`, `verify_peer` and `revoke_peer` are in PeerManager as
  the registry's own operations. The token file, which is read once.
- Aborts and pings, which no code sends, and malformed replication messages.
- The short authentication string, which is a function of the transcript.
- Names, addresses and times in the trust store, and the warnings made of
  them; two daemons that share one trust file.
- That a restarted daemon has a new identity: to its peers it is another node.
- Whether sockets are closed: the read loop leaves that to the transport.
- Statistics and logging; discovery, whose effect is that any node may dial
  any other; wire format, TLS contexts, configuration, command-line parsing.
  These keep no state between calls, and what they compute is data that no
  property tells apart.

## Plan

1. Proofs of `IntactOnOneConnection` for Replication and of the pool's
   `AckedIsHeld`.
2. Two daemons over one trust file.
