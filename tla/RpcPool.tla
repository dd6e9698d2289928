------------------------------- MODULE RpcPool -------------------------------
(***************************************************************************)
(* The pool as one daemon's RPC clients see it: what RpcServer._dispatch   *)
(* of memnode/rpc.py does for a request, over this node's BlockManager and *)
(* the blocks it places on or fetches from connected peers.                *)
(*                                                                         *)
(* A block store is what BlockStore promises; how much of its quota others *)
(* use is not known here and so a store may find no room.  A request to a  *)
(* peer is a message that the peer handles in one step.  Of the steps in   *)
(* between, which Replication has, there is what can come of them: a send  *)
(* may never return; a large block takes several, and if its connection is *)
(* replaced between two of them the peer may store a part of it.  Messages *)
(* are not ordered, since each large block has its own stream.             *)
(*                                                                         *)
(* The ops that only report (stats, peers, trusted, pair) are left out,    *)
(* and connect, verify_peer and revoke_peer are in PeerManager.  A block   *)
(* is never too large for a node (BlockTooLarge): MAX_RPC_MESSAGE_SIZE is  *)
(* below MAX_BLOCK_SIZE.                                                   *)
(***************************************************************************)
EXTENDS Naturals, Sequences, FiniteSets, SequencesExt

CONSTANTS
  Calls,       \* the calls clients make, one request each
  Peers,       \* the other nodes of the pool
  Self,        \* this node
  None,        \* no key, no id or no peer
  Size,        \* Size[c]: the length of the payload of call c, in units
  Threshold,   \* config.PEER_CHUNK_THRESHOLD, in units
  Advertised   \* Advertised[p]: the ram_quota p gave in its handshake

ASSUME PoolAssumption ==
  /\ Self \notin Peers
  /\ Threshold \in Nat /\ Size \in [Calls -> Nat] /\ Advertised \in [Peers -> Nat]

VARIABLES
  blocks,     \* blocks[n]: the live blocks of node n, id -> [val, key, dur]
  issued,     \* issued[n]: the last id that node gave out
  connected,  \* the keys of peer_manager.peers, in the dict's order
  mute,       \* those of them whose multiplexer a failed writer has closed
  churn,      \* bound: what still happens to connections
  op,         \* op[c]: the request of call c
  work,       \* work[c]: where the handler of c is, and the peers it has to ask
  flight,     \* requests to peers: [call, peer, up]
  replies,    \* answers of peers that a handler waits for: [call, peer, ans]
  answer,     \* answer[c]: what the handler of c returned
  torn,       \* history: stores sent in part when a connection was lost
  failed,     \* history: failed[c]: the peers that did not answer c in time
  steady,     \* history: nodes in reach that have held c's key since c began
  before      \* history: before[c]: the calls answered when c began

store == <<blocks, issued>>
conns == <<connected, mute, churn>>
pool == <<store, conns, op, work, flight, replies, answer, torn, failed, steady, before>>

Nodes == Peers \cup {Self}
Without(f, S) == [x \in DOMAIN f \ S |-> f[x]]
With(f, x, v) == [y \in DOMAIN f \cup {x} |-> IF y = x THEN v ELSE f[y]]

Request(name, key, id, peer, dur, remote) ==
  [op |-> name, key |-> key, id |-> id, peer |-> peer, dur |-> dur, remote |-> remote]
(* A payload: whose it is, its length, and whether it is all there.        *)
Payload(c, n, whole) == [of |-> c, len |-> n, whole |-> whole]
Whole(c) == Payload(c, Size[c], TRUE)
Damaged(c) == {Payload(c, n, FALSE) : n \in 1 .. Size[c]}
InChunks(c) == op[c].op \in {"store", "remote_store"} /\ Size[c] > Threshold

NoRequest == Request("none", None, None, None, "cache", FALSE)

Result(out, node, id, val) == [out |-> out, node |-> node, id |-> id, val |-> val]
Plain(out) == Result(out, None, None, None)
Pending == Plain("pending")

-----------------------------------------------------------------------------
(* The block store of a node.                                              *)

Named(n, k) == {b \in DOMAIN blocks[n] : k # None /\ blocks[n][b].key = k}
MutantEvictable(n) == DOMAIN blocks[n]
Evictable(n) == {b \in DOMAIN blocks[n] : blocks[n][b].dur = "cache"}
Find(n, q) == IF q.id # None THEN DOMAIN blocks[n] \cap {q.id} ELSE Named(n, q.key)

Block(c, v) == [val |-> v, key |-> op[c].key, dur |-> op[c].dur]
MutantPut(n, c, v) ==
  /\ issued' = [issued EXCEPT ![n] = @ + 1]
  /\ blocks' = [blocks EXCEPT ![n] = With(@, issued'[n], Block(c, v))]
(* The block of call c is added, and replaces the one of its key.          *)
Put(n, c, v) ==
  \E V \in SUBSET Evictable(n) :
    /\ issued' = [issued EXCEPT ![n] = @ + 1]
    /\ blocks' = [blocks EXCEPT ![n] =
         With(Without(@, V \cup Named(n, op[c].key)), issued'[n], Block(c, v))]

(* OutOfMemory: what was evicted on the way stays evicted.                 *)
NoRoom(n) ==
  /\ \E V \in SUBSET Evictable(n) : blocks' = [blocks EXCEPT ![n] = Without(@, V)]
  /\ UNCHANGED issued

Free(n, id) ==
  /\ blocks' = [blocks EXCEPT ![n] = Without(@, {id})]
  /\ UNCHANGED issued

(* Others who use the node store blocks, which may evict one of these.     *)
Evict(n) ==
  /\ \E b \in Evictable(n) : blocks' = [blocks EXCEPT ![n] = Without(@, {b})]
  /\ UNCHANGED <<issued, conns, op, work, flight, replies, answer, torn, failed, before>>

-----------------------------------------------------------------------------
(* Asking peers.                                                           *)

(* best_peer_for_store: the first of those that advertise the most.        *)
Best(c) ==
  LET room == {p \in Range(connected) : Advertised[p] >= Size[c]}
      most == {p \in room : \A q \in room : Advertised[p] >= Advertised[q]}
  IN  {connected[i] : i \in {j \in 1 .. Len(connected) :
         connected[j] \in most /\ \A h \in 1 .. j - 1 : connected[h] \notin most}}

(* send_to fails at once for a peer that is gone or whose multiplexer is   *)
(* closed, and the fan-out goes on to the next.                            *)
Sendable == Range(connected) \ mute
Reachable(ps) ==
  LET I == {i \in 1 .. Len(ps) : ps[i] \in Sendable}
  IN  IF I = {} THEN <<>> ELSE SubSeq(ps, CHOOSE i \in I : \A j \in I : i <= j, Len(ps))

Handler(c, place, ps) == work' = [work EXCEPT ![c] = [at |-> place, todo |-> ps]]

(* The peer that the handler of c sends to or waits for.                   *)
AskedOf(c) == IF work[c].at \in {"chunking", "sending", "asking"} THEN Head(work[c].todo) ELSE None

Answer(c, a) ==
  /\ Handler(c, "done", <<>>)
  /\ answer' = [answer EXCEPT ![c] = a]
  /\ UNCHANGED flight

(* The request begins to be sent. *)
Ask(c, ps) ==
  IF Reachable(ps) = <<>>
  THEN Answer(c, Plain(IF op[c].op = "load" THEN "not_found" ELSE "failed"))
  ELSE /\ Handler(c, IF InChunks(c) THEN "chunking" ELSE "sending", Reachable(ps))
       /\ flight' = flight \cup {[call |-> c, peer |-> Head(Reachable(ps)), up |-> TRUE]}
       /\ UNCHANGED answer

(* What a node returns for a load or a free of call c.                     *)
Loaded(n, c) ==
  LET B == Find(n, op[c])
  IN  IF B = {} THEN Plain("not_found")
      ELSE Result("data", n, None, blocks[n][CHOOSE b \in B : TRUE].val)
Freed(n, c) == Plain(IF op[c].id \in DOMAIN blocks[n] THEN "freed" ELSE "failed")
Stored(n, c) == Result("stored", n, issued'[n], None)

-----------------------------------------------------------------------------
(* _dispatch, up to the answer or to the first request to a peer.          *)

Store(c) ==
  /\ op[c].op = "store"
  /\ \/ Put(Self, c, Whole(c)) /\ Answer(c, Stored(Self, c))
     \/ /\ NoRoom(Self)
        /\ IF op[c].remote /\ Best(c) # {} THEN \E p \in Best(c) : Ask(c, <<p>>)
           ELSE Answer(c, Plain("failed"))

Load(c) ==
  /\ op[c].op = "load"
  /\ IF Find(Self, op[c]) = {} /\ op[c].id = None /\ op[c].remote THEN Ask(c, connected)
     ELSE Answer(c, Loaded(Self, c))
  /\ UNCHANGED store

FreeLocal(c) ==
  /\ op[c].op = "free"
  /\ Free(Self, op[c].id)
  /\ Answer(c, Freed(Self, c))

(* remote_store, remote_load, remote_free: on a peer that is named.        *)
Remote(c) ==
  /\ op[c].op \in {"remote_store", "remote_load", "remote_free"}
  /\ Ask(c, <<op[c].peer>>)
  /\ UNCHANGED store

Dispatch(c) ==
  /\ work[c].at = "idle"
  /\ Store(c) \/ Load(c) \/ FreeLocal(c) \/ Remote(c)
  /\ before' = [before EXCEPT ![c] = {d \in Calls : work[d].at = "done"}]
  /\ UNCHANGED <<conns, op, replies, torn, failed>>

-----------------------------------------------------------------------------
(* Sends return, if they do: nothing bounds the wait for a slot.  The last *)
(* chunk of a large store begins to be sent, unless the peer is gone; what *)
(* the peer has of the store it then drops.                                *)
SendChunks(c) ==
  /\ work[c].at = "chunking"
  /\ \/ /\ AskedOf(c) \in Sendable
        /\ Handler(c, "sending", work[c].todo)
        /\ UNCHANGED <<flight, replies, answer>>
     \/ /\ AskedOf(c) \notin Sendable
        /\ Handler(c, "done", <<>>)
        /\ answer' = [answer EXCEPT ![c] = Plain("failed")]
        /\ flight' = {m \in flight : m.call # c}
        /\ replies' = {r \in replies : r.call # c}
  /\ UNCHANGED <<store, conns, op, torn, failed, before>>

Sent(c) ==
  /\ work[c].at = "sending"
  /\ Handler(c, "asking", work[c].todo)
  /\ UNCHANGED <<store, conns, op, flight, replies, answer, torn, failed, before>>

(* A peer handles a request.  Its answer is sent over the connection there *)
(* is by then, and counts if someone still waits for it.  A large store    *)
(* may be refused when it begins, and is committed on its last chunk.      *)
Serve(m) ==
  LET c == m.call
      reply(a) == \E heard \in {m.peer \in Range(connected), m.up} :
        replies' = IF heard /\ AskedOf(c) = m.peer
                   THEN replies \cup {[call |-> c, peer |-> m.peer, ans |-> a]}
                   ELSE replies
  IN  /\ m \in flight
      /\ flight' = flight \ {m}
      /\ \/ /\ op[c].op \in {"store", "remote_store"}
            /\ \/ /\ work[c].at # "chunking"
                  /\ \E v \in {Whole(c)} \cup (IF c \in torn THEN Damaged(c) ELSE {}) : Put(m.peer, c, v)
                  /\ reply(Stored(m.peer, c))
               \/ /\ IF work[c].at = "chunking" THEN UNCHANGED store ELSE NoRoom(m.peer)
                  /\ reply(Plain("failed"))
         \/ /\ op[c].op \in {"load", "remote_load"}
            /\ reply(Loaded(m.peer, c))
            /\ UNCHANGED store
         \/ /\ op[c].op = "remote_free"
            /\ Free(m.peer, op[c].id)
            /\ reply(Freed(m.peer, c))
      /\ UNCHANGED <<conns, op, work, answer, torn, failed, before>>

(* The handler resumes: a load by key goes on to the next peer if this one *)
(* does not have it.                                                       *)
Reply(c) ==
  \E r \in replies :
    /\ r.call = c /\ work[c].at = "asking"
    /\ replies' = replies \ {r}
    /\ IF op[c].op = "load" /\ r.ans.out = "not_found" THEN Ask(c, Tail(work[c].todo))
       ELSE Answer(c, r.ans)
    /\ UNCHANGED <<store, conns, op, torn, failed, before>>

(* RemoteOperationFailed: the fan-out continues, any other op fails.       *)
MutantTimeout(c) == Answer(c, Plain(IF op[c].op = "load" THEN "not_found" ELSE "failed"))
Timeout(c) ==
  IF op[c].op = "load" THEN Ask(c, Tail(work[c].todo)) ELSE Answer(c, Plain("failed"))

MutantTimesOut(c) == work[c].at = "asking" /\ FALSE /\ UNCHANGED pool
TimesOut(c) ==
  /\ work[c].at = "asking"
  /\ \A r \in replies : r.call # c
  /\ Timeout(c)
  /\ failed' = [failed EXCEPT ![c] = @ \cup {AskedOf(c)}]
  /\ UNCHANGED <<store, conns, op, replies, torn, before>>

-----------------------------------------------------------------------------
(* Peers come and go.  What was sent to one that goes may have arrived,    *)
(* but an answer on its way is lost.                                       *)

Happens(e) == e \in churn /\ churn' = churn \ {e}
Unsure(p) == {IF m.peer = p THEN [m EXCEPT !.up = FALSE] ELSE m : m \in flight}
Tear(p) == torn' = torn \cup {c \in Calls : work[c].at = "chunking" /\ AskedOf(c) = p}

Connect(p) ==
  /\ p \notin Range(connected) /\ Happens("connect")
  /\ connected' = Append(connected, p)
  /\ UNCHANGED <<store, mute, op, work, flight, replies, answer, torn, failed, before>>

Disconnect(p) ==
  /\ p \in Range(connected) /\ Happens("disconnect")
  /\ connected' = SelectSeq(connected, LAMBDA q : q # p)
  /\ mute' = mute \ {p}
  /\ flight' = Unsure(p) /\ Tear(p)
  /\ replies' = {r \in replies : r.peer # p}
  /\ UNCHANGED <<store, op, work, answer, failed, before>>

(* Another connection to p takes the place of the one there is.  What is   *)
(* on its way on the old one may be lost, all of it or a part.             *)
Parts(a) ==
  {a} \cup IF a.out = "data" /\ a.val.len > Threshold
          THEN {[a EXCEPT !.val = v] : v \in Damaged(a.val.of)} ELSE {}
Replace(p) ==
  /\ p \in Range(connected) /\ Happens("replace")
  /\ mute' = mute \ {p}
  /\ flight' = Unsure(p) /\ Tear(p)
  /\ LET late == {r \in replies : r.peer = p}
     IN  \/ replies' = replies \ late
         \/ \E f \in [late -> UNION {Parts(r.ans) : r \in late}] :
              /\ \A r \in late : f[r] \in Parts(r.ans)
              /\ replies' = (replies \ late) \cup {[r EXCEPT !.ans = f[r]] : r \in late}
  /\ UNCHANGED <<store, connected, op, work, answer, failed, before>>

(* The writer to p fails: the multiplexer is closed, what it has queued is *)
(* lost, and the peer stays registered while its answers are read.         *)
WriterFails(p) ==
  /\ p \in Sendable /\ Happens("writer fails")
  /\ mute' = mute \cup {p}
  /\ flight' = Unsure(p)
  /\ UNCHANGED <<store, connected, op, work, replies, answer, torn, failed, before>>

Lose(m) ==
  /\ m \in flight /\ ~ m.up
  /\ flight' = flight \ {m}
  /\ UNCHANGED <<store, conns, op, work, replies, answer, torn, failed, before>>

(* The nodes that c can reach and that hold its key, watched while a load  *)
(* by key looks for it.                                                    *)
Holders(c) == {n \in Sendable \cup {Self} : Named(n, op[c].key) # {}}
ByKey(c) == op[c].op = "load" /\ op[c].id = None /\ op[c].remote
Watch ==
  steady' = [c \in Calls |->
    IF ~ ByKey(c) \/ answer'[c].out \notin {"pending", "not_found"} THEN {}
    ELSE IF work[c].at = "idle" THEN Holders(c) ELSE steady[c] \cap Holders(c)']

PoolInit ==
  /\ blocks = [n \in Nodes |-> <<>>] /\ issued = [n \in Nodes |-> 0]
  /\ work = [c \in Calls |-> [at |-> "idle", todo |-> <<>>]]
  /\ mute = {} /\ flight = {} /\ replies = {} /\ torn = {}
  /\ answer = [c \in Calls |-> Pending]
  /\ failed = [c \in Calls |-> {}]
  /\ steady = [c \in Calls |-> {}] /\ before = [c \in Calls |-> {}]

(* Everything but Dispatch. *)
PoolStep ==
  \/ \E c \in Calls : SendChunks(c) \/ Sent(c) \/ Reply(c) \/ TimesOut(c)
  \/ \E m \in flight : Serve(m) \/ Lose(m)
  \/ \E p \in Peers : Connect(p) \/ Disconnect(p) \/ Replace(p) \/ WriterFails(p)
  \/ \E n \in Nodes : Evict(n)

=============================================================================
