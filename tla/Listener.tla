------------------------------- MODULE Listener ------------------------------
(***************************************************************************)
(* The peer listener: PeerManager.handle_incoming of memnode/peers.py over *)
(* the connections and the registry (PeerManager) and the admission of     *)
(* handshakes (HandshakeGuard).  Every step is one of PeerManager's or     *)
(* leaves its variables alone.  Strangers are inbound connections that     *)
(* never complete a handshake.                                             *)
(***************************************************************************)
EXTENDS PeerManager, HandshakeGuard

CONSTANTS
  AddressOf,   \* AddressOf[c]: where an inbound connection comes from
  Scenarios    \* [made, crowd, since, files]: the connections that are made,
               \* the addresses strangers come from, when it all begins, and
               \* the trust files it may begin with

Accepted == Conns \ Outgoing
Strangers == Inbound \ Conns

ASSUME ListenerAssumption ==
  /\ Accepted \subseteq Inbound /\ AddressOf \in [Accepted -> IPs]
  /\ \A s \in Scenarios : s.made \subseteq Conns /\ s.crowd \subseteq IPs /\ s.since \in 0 .. MaxTime

VARIABLE scene

listener == <<vars, guard, scene>>

-----------------------------------------------------------------------------
(* handle_incoming up to the handshake: acquire() comes first, and then    *)
(* the pinned certificate.                                                 *)
Arrive(c) ==
  LET ip == AddressOf[c]
  IN  /\ c \in Accepted
      /\ Begin(c)
      /\ IF pc'[c] = "handshake" THEN Acquire(c, ip) ELSE PinRefused(ip) \/ Rejected(ip)

(* However the handshake ends, the slot is released before the identity is *)
(* looked at.                                                              *)
MutantHandshakeEnds(c) ==
  /\ c \in Accepted
  /\ \/ HandshakeFails(c) /\ Release(c)
     \/ (KnownPeer(c) \/ AskConsent(c)) /\ UNCHANGED guard
HandshakeEnds(c) ==
  /\ c \in Accepted
  /\ HandshakeFails(c) \/ KnownPeer(c) \/ AskConsent(c)
  /\ Release(c)

(* connect_to does not go through the guard.                               *)
Dial(c) ==
  /\ c \in Outgoing
  /\ Begin(c) \/ HandshakeFails(c) \/ KnownPeer(c) \/ AskConsent(c)
  /\ UNCHANGED guard

Later(c) ==
  /\ Approved(c) \/ Denied(c) \/ ReadLoopStarts(c) \/ ReadLoopEnds(c) \/ WriterFails(c)
  /\ UNCHANGED guard

Stranger ==
  /\ \E ip \in scene.crowd : Rejected(ip) \/ PinRefused(ip) \/ \E c \in Strangers : Acquire(c, ip)
  /\ UNCHANGED vars
StrangerLeaves == (\E c \in Strangers : Release(c)) /\ UNCHANGED vars

(* The operator, and a restart, which begins with an empty table.          *)
Operator ==
  /\ \E p \in Peers : Revoke(p) \/ \E method \in {"sas", "qr"} : Verify(p, method)
  /\ UNCHANGED guard
StartAgain ==
  /\ Restart
  /\ ips' = <<>> /\ total' = 0
  /\ holder' = [c \in Inbound |-> NoIp] /\ admitted' = [ip \in IPs |-> <<>>]
  /\ UNCHANGED now

ListenerInit ==
  /\ Init /\ NobodyIn
  /\ scene \in Scenarios
  /\ now = scene.since /\ disk.format \in scene.files
  /\ scene.made = {} => ~ requireSas

ListenerNext ==
  /\ \/ \E c \in scene.made : Arrive(c) \/ HandshakeEnds(c) \/ Dial(c) \/ Later(c)
     \/ Stranger \/ StrangerLeaves
     \/ scene.made # {} /\ (Operator \/ StartAgain)
     \/ Tick /\ UNCHANGED vars
  /\ UNCHANGED scene

ListenerSpec == ListenerInit /\ [][ListenerNext]_listener

-----------------------------------------------------------------------------
(* An inbound connection holds a slot exactly while its handshake runs: it *)
(* gives it back on every path, and does not keep it while the user is     *)
(* asked or the peer is connected ("finally", peers.py:326).  And the      *)
(* guard counts what is held (InflightExact), across restarts too.         *)
AdmissionExact ==
  /\ InflightExact
  /\ \A c \in Accepted : holder[c] # NoIp <=> pc[c] = "handshake"

=============================================================================
