----------------------------- MODULE PeerManager -----------------------------
(***************************************************************************)
(* The connections of one node, from the socket to the end of the read     *)
(* loop, its registry of connected peers and its TrustStore with the file  *)
(* behind it (memnode/peers.py).                                           *)
(*                                                                         *)
(* A coroutine gives up control in the handshake, while the consent        *)
(* callback is awaited, when connect_to leaves the read loop to a new      *)
(* task, and while the multiplexer runs; _lock is never held across any of *)
(* these.  What lies between two of them is one action.  Names, addresses  *)
(* and times are left out: they decide nothing.                            *)
(***************************************************************************)
EXTENDS Naturals

CONSTANTS
  Peers,       \* identities, by public key
  Conns,       \* connections, each made once
  Outgoing,    \* the ones made by connect_to
  PeerOf,      \* PeerOf[c]: the identity at the other end
  Known        \* identities in the trust file that the first start finds

ASSUME PeersAssumption ==
  /\ Outgoing \subseteq Conns /\ PeerOf \in [Conns -> Peers]
  /\ Known \subseteq Peers

VARIABLES
  requireSas, \* require_sas_verification, chosen at each start
  pc,         \* where the coroutine of each connection is
  runs,       \* runs[c]: the connection whose multiplexer c's read loop runs
  closed,     \* connections on whose multiplexer run() has ended
  broken,     \* connections whose multiplexer its writer has closed
  peers,      \* peers: identity -> [conn, verified] of its PeerInfo
  trusted,    \* trust_store._peers: identity -> [verified, method]
  disk,       \* the trust file: [format, peers]
  approved,   \* history: identities consented to and not revoked since
  confirmed   \* history: the ones confirmed out of band since then

connections == <<requireSas, pc, runs, closed, broken>>
trust == <<trusted, disk, approved, confirmed>>
vars == <<connections, peers, trust>>

Without(f, S) == [x \in DOMAIN f \ S |-> f[x]]
With(f, x, v) == [y \in DOMAIN f \cup {x} |-> IF y = x THEN v ELSE f[y]]

-----------------------------------------------------------------------------
(* TrustStore.  A v1 file has names only, an unreadable one is ignored.    *)

Tofu == [verified |-> FALSE, method |-> "tofu"]
Load(file) ==
  CASE file.format = "v2" -> file.peers
    [] file.format = "v1" -> [p \in DOMAIN file.peers |-> Tofu]
    [] OTHER -> <<>>

(* The file is replaced as a whole. *)
Save(t) == [format |-> "v2", peers |-> t]
MutantMigrated(file) == file
Migrated(file) == IF file.format = "v1" THEN Save(Load(file)) ELSE file

IsVerified(t, p) == p \in DOMAIN t /\ t[p].verified

(* Verification is sticky, and so is the method unless this call verifies. *)
Trust(p, verified, method) ==
  With(trusted, p,
       [verified |-> IsVerified(trusted, p) \/ verified,
        method |-> IF verified \/ p \notin DOMAIN trusted THEN method ELSE trusted[p].method])

(* Changes the store and writes it out. *)
Store(t) == trusted' = t /\ disk' = Save(t)

-----------------------------------------------------------------------------
(* A connection.                                                           *)

At(c, place) == pc' = [pc EXCEPT ![c] = place]

(* Up to the handshake: admission by HandshakeGuard, and the pinned        *)
(* certificate, may turn the connection away.                              *)
Begin(c) ==
  /\ pc[c] = "new"
  /\ At(c, "handshake") \/ At(c, "over")
  /\ UNCHANGED <<requireSas, runs, closed, broken, peers, trust>>

HandshakeFails(c) ==
  /\ pc[c] = "handshake"
  /\ At(c, "over")
  /\ UNCHANGED <<requireSas, runs, closed, broken, peers, trust>>

(* _register, and _read_loop of an incoming connection up to the           *)
(* multiplexer.  connect_to creates a task for the read loop.              *)
MutantRegister(c) == With(peers, PeerOf[c], [conn |-> c, verified |-> IsVerified(trusted, PeerOf[c])])
Register(c) == With(peers, PeerOf[c], [conn |-> c, verified |-> IsVerified(trusted', PeerOf[c])])
Admit(c) ==
  /\ peers' = Register(c)
  /\ At(c, IF c \in Outgoing THEN "registered" ELSE "reading")
  /\ runs' = IF c \in Outgoing THEN runs ELSE With(runs, c, c)
  /\ UNCHANGED <<requireSas, closed, broken>>

(* _check_consent: a known identity is let in, unless verification is      *)
(* required and lacking, and everyone else is asked about.                 *)
MutantWelcome(p) == p \in DOMAIN trusted
Welcome(p) == p \in DOMAIN trusted /\ (requireSas => trusted[p].verified)

KnownPeer(c) ==
  /\ pc[c] = "handshake"
  /\ Welcome(PeerOf[c])
  /\ Store(Trust(PeerOf[c], FALSE, "tofu"))
  /\ Admit(c)
  /\ UNCHANGED <<approved, confirmed>>

AskConsent(c) ==
  /\ pc[c] = "handshake"
  /\ ~ Welcome(PeerOf[c])
  /\ At(c, "consent")
  /\ UNCHANGED <<requireSas, runs, closed, broken, peers, trust>>

(* The callback returns true.                                              *)
Approved(c) ==
  LET p == PeerOf[c]
  IN  /\ pc[c] = "consent"
      /\ Store(Trust(p, requireSas, IF requireSas THEN "sas" ELSE "tofu"))
      /\ Admit(c)
      /\ approved' = approved \cup {p}
      /\ confirmed' = IF requireSas THEN confirmed \cup {p} ELSE confirmed

(* The callback returns false or raises.                                   *)
Denied(c) ==
  /\ pc[c] = "consent"
  /\ At(c, "over")
  /\ UNCHANGED <<requireSas, runs, closed, broken, peers, trust>>

(* The task of an outgoing connection looks the peer up again: it runs the *)
(* multiplexer of whichever connection is registered by now, or none.      *)
ReadLoopStarts(c) ==
  LET p == PeerOf[c]
  IN  /\ pc[c] = "registered"
      /\ IF p \in DOMAIN peers
         THEN At(c, "reading") /\ runs' = With(runs, c, peers[p].conn)
         ELSE At(c, "over") /\ UNCHANGED runs
      /\ UNCHANGED <<requireSas, closed, broken, peers, trust>>

(* run() raises: the connection is lost, a frame is refused, or two loops  *)
(* read from one channel.  The peer's entry goes, whichever it is.         *)
MutantForget(c) == peers
Forget(c) == Without(peers, {PeerOf[c]})
ReadLoopEnds(c) ==
  /\ pc[c] = "reading"
  /\ At(c, "over")
  /\ closed' = closed \cup {runs[c]}
  /\ peers' = Forget(c)
  /\ UNCHANGED <<requireSas, runs, broken, trust>>

(* The writer task of a multiplexer fails, in a write or in encoding a     *)
(* message, and closes it.  Its read loop goes on and its entry stays, but *)
(* send() is refused.                                                      *)
WriterFails(c) ==
  /\ \E d \in Conns : pc[d] = "reading" /\ runs[d] = c
  /\ c \notin closed \cup broken
  /\ broken' = broken \cup {c}
  /\ UNCHANGED <<requireSas, pc, runs, closed, peers, trust>>

-----------------------------------------------------------------------------
(* The operator, through the local RPC.                                    *)

(* verify_peer, for a connected peer; false if it is not trusted.          *)
Verify(p, method) ==
  /\ p \in DOMAIN peers /\ p \in DOMAIN trusted
  /\ Store([trusted EXCEPT ![p] = [verified |-> TRUE, method |-> method]])
  /\ peers' = [peers EXCEPT ![p].verified = TRUE]
  /\ confirmed' = confirmed \cup {p}
  /\ UNCHANGED <<connections, approved>>

(* revoke_peer: connections are left alone.                                *)
MutantRevoke(p) ==
  /\ p \in DOMAIN trusted
  /\ trusted' = Without(trusted, {p})
  /\ approved' = approved \ {p} /\ confirmed' = confirmed \ {p}
  /\ UNCHANGED <<connections, peers, disk>>
Revoke(p) ==
  /\ p \in DOMAIN trusted
  /\ Store(Without(trusted, {p}))
  /\ approved' = approved \ {p} /\ confirmed' = confirmed \ {p}
  /\ UNCHANGED <<connections, peers>>

(* The daemon stops at any point and is started again.                     *)
Restart ==
  /\ pc' = [c \in Conns |-> IF pc[c] = "new" THEN "new" ELSE "over"]
  /\ peers' = <<>> /\ runs' = <<>> /\ closed' = {} /\ broken' = {}
  /\ trusted' = Load(disk) /\ disk' = Migrated(disk)
  /\ requireSas' \in BOOLEAN
  /\ UNCHANGED <<approved, confirmed>>

Init ==
  /\ requireSas \in BOOLEAN
  /\ pc = [c \in Conns |-> "new"]
  /\ runs = <<>> /\ closed = {} /\ broken = {} /\ peers = <<>>
  /\ \E file \in {[format |-> f, peers |-> [p \in Known |-> Tofu]] : f \in {"v2", "v1", "unreadable"}} :
       /\ trusted = Load(file) /\ disk = Migrated(file)
  /\ approved = DOMAIN trusted /\ confirmed = {}

Connection(c) ==
  \/ Begin(c) \/ HandshakeFails(c) \/ KnownPeer(c) \/ AskConsent(c)
  \/ Approved(c) \/ Denied(c) \/ ReadLoopStarts(c) \/ ReadLoopEnds(c)
  \/ WriterFails(c)

Next ==
  \/ \E c \in Conns : Connection(c)
  \/ \E p \in Peers : Revoke(p) \/ \E method \in {"sas", "qr"} : Verify(p, method)
  \/ Restart

Spec == Init /\ [][Next]_vars

-----------------------------------------------------------------------------
(* Properties.                                                             *)

(* The shape of the state. *)
Record == [verified : BOOLEAN, method : {"tofu", "sas", "qr"}]
TypeOK ==
  /\ requireSas \in BOOLEAN
  /\ pc \in [Conns -> {"new", "handshake", "consent", "registered", "reading", "over"}]
  /\ DOMAIN runs \subseteq Conns /\ \A c \in DOMAIN runs : runs[c] \in Conns
  /\ \A c \in Conns : pc[c] = "reading" => c \in DOMAIN runs
  /\ closed \subseteq Conns /\ broken \subseteq Conns
  /\ DOMAIN peers \subseteq Peers
  /\ \A p \in DOMAIN peers : peers[p] \in [conn : Conns, verified : BOOLEAN]
  /\ DOMAIN trusted \subseteq Peers /\ \A p \in DOMAIN trusted : trusted[p] \in Record
  /\ disk.format \in {"v2", "unreadable"}
  /\ approved \subseteq Peers /\ confirmed \subseteq Peers

(* Trust is what the user decided, and a restart changes nothing about it: *)
(* an identity is trusted exactly if it was consented to and not revoked   *)
(* since, and verified exactly if it was confirmed since then ("a later    *)
(* plain-TOFU reconnect must not silently downgrade it", peers.py:228).    *)
TrustEarned ==
  /\ DOMAIN trusted = approved
  /\ \A p \in approved :
       /\ trusted[p].verified <=> p \in confirmed
       /\ trusted[p].method # "tofu" <=> p \in confirmed

(* No connection is registered for an identity that is not approved, or    *)
(* not confirmed where that is required, at that moment, whatever was      *)
(* revoked while its handshake or the question was pending.                *)
OnlyApprovedRegister ==
  [][\A p \in DOMAIN peers' :
       (p \in DOMAIN peers => peers[p].conn # peers'[p].conn) =>
         p \in approved' /\ (requireSas' => p \in confirmed')]_vars

(* What is registered is attended to: the entry is the peer's own, no read *)
(* loop has ended on its multiplexer, and its own runs or is about to, so  *)
(* that what the peer sends is handled and the entry goes when the         *)
(* connection does, although connections to one peer come and go in any    *)
(* order and a read loop may run another connection's multiplexer.  The    *)
(* multiplexer need not be open: its writer may have closed it.            *)
RegistryAttended ==
  \A p \in DOMAIN peers :
    LET c == peers[p].conn
    IN  /\ PeerOf[c] = p /\ c \notin closed
        /\ pc[c] = "registered" \/ (pc[c] = "reading" /\ runs[c] = c)

(* The verified mark that list_peers and pair show is the trust store's,   *)
(* as long as the identity is trusted at all.                              *)
VerifiedMarkRight ==
  \A p \in DOMAIN peers \cap DOMAIN trusted : peers[p].verified <=> trusted[p].verified

(* "the registry of currently-connected peers" (peers.py:1): a peer whose  *)
(* connection is open and being read is in the registry.                   *)
ConnectedIsRegistered ==
  \A c \in Conns :
    pc[c] = "reading" /\ runs[c] = c /\ c \notin closed \cup broken => PeerOf[c] \in DOMAIN peers

=============================================================================
