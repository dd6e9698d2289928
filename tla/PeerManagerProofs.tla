-------------------------- MODULE PeerManagerProofs --------------------------
(***************************************************************************)
(* Theorems about PeerManager for every set of identities and connections  *)
(* and every trust file the first start finds.                             *)
(***************************************************************************)
EXTENDS PeerManager, TLAPS

(* The part of the type invariant that is about connections. *)
ConnectionsTyped ==
  /\ requireSas \in BOOLEAN
  /\ pc \in [Conns -> {"new", "handshake", "consent", "registered", "reading", "over"}]
  /\ DOMAIN runs \subseteq Conns /\ \A c \in DOMAIN runs : runs[c] \in Conns
  /\ \A c \in Conns : pc[c] = "reading" => c \in DOMAIN runs
  /\ closed \subseteq Conns /\ broken \subseteq Conns

(* The part that is about the registry. *)
PeersTyped ==
  /\ DOMAIN peers \subseteq Peers
  /\ \A p \in DOMAIN peers : peers[p] \in [conn : Conns, verified : BOOLEAN]

(* The part that is about trust, with what makes it inductive: the file    *)
(* holds what the memory holds, so that a restart reads it back.           *)
TrustTyped ==
  /\ DOMAIN trusted \subseteq Peers /\ \A p \in DOMAIN trusted : trusted[p] \in Record
  /\ approved \subseteq Peers /\ confirmed \subseteq Peers
FileAgrees == disk.format \in {"v2", "unreadable"} /\ Load(disk) = trusted

(* Only a connection past its handshake has its multiplexer run or ended,  *)
(* and a read loop runs a multiplexer of its own peer.                     *)
LoopsOwnPeer ==
  /\ \A c \in DOMAIN runs :
       /\ PeerOf[runs[c]] = PeerOf[c]
       /\ pc[runs[c]] \in {"registered", "reading", "over"}
  /\ \A c \in closed : pc[c] \in {"registered", "reading", "over"}

(* A confirmed identity is an approved one. *)
ConfirmedApproved == confirmed \subseteq approved

-----------------------------------------------------------------------------
(* Writing the store out makes the file agree. *)
LEMMA StoreAgrees ==
  ASSUME NEW t, Store(t)
  PROVE  trusted' = t /\ FileAgrees'
BY DEF Store, Save, FileAgrees, Load

(* What trust() records: the entry of p, and no other. *)
LEMMA TrustRecords ==
  ASSUME TrustTyped, NEW p \in Peers, NEW v \in BOOLEAN, NEW m \in {"tofu", "sas"},
         trusted' = Trust(p, v, m)
  PROVE  /\ DOMAIN trusted' = DOMAIN trusted \cup {p}
         /\ \A q \in DOMAIN trusted \ {p} : trusted'[q] = trusted[q]
         /\ trusted'[p] \in Record
         /\ trusted'[p].verified <=> (IsVerified(trusted, p) \/ v)
         /\ trusted'[p].method = IF v \/ p \notin DOMAIN trusted THEN m ELSE trusted[p].method
BY DEF Trust, With, IsVerified, TrustTyped, Record

TrustInv == TrustTyped /\ FileAgrees /\ ConfirmedApproved /\ TrustEarned

(* The file is read as it was written, at the first start too. *)
LEMMA TrustInit == Init => TrustInv
<1> SUFFICES ASSUME Init PROVE TrustInv
  OBVIOUS
<1>1. PICK f \in {"v2", "v1", "unreadable"} :
        LET file == [format |-> f, peers |-> [p \in Known |-> Tofu]]
        IN  trusted = Load(file) /\ disk = Migrated(file)
  BY DEF Init
<1>2. FileAgrees
  BY <1>1 DEF FileAgrees, Load, Migrated, Save
<1>3. DOMAIN trusted \subseteq Known /\ \A p \in DOMAIN trusted : trusted[p] = Tofu
  BY <1>1 DEF Load
<1>4. Tofu \in Record /\ Tofu.verified = FALSE /\ Tofu.method = "tofu"
  BY DEF Tofu, Record
<1>5. approved = DOMAIN trusted /\ confirmed = {} /\ Known \subseteq Peers
  BY PeersAssumption DEF Init
<1> QED
  BY <1>2, <1>3, <1>4, <1>5 DEF TrustInv, TrustTyped, ConfirmedApproved, TrustEarned

(* Trust stays what the user decided under every step. *)
LEMMA TrustStep ==
  TrustInv /\ requireSas \in BOOLEAN /\ [Next]_vars => TrustInv'
<1> SUFFICES ASSUME TrustInv, requireSas \in BOOLEAN, [Next]_vars PROVE TrustInv'
  OBVIOUS
<1>1. ASSUME UNCHANGED trust PROVE TrustInv'
  BY <1>1 DEF trust, TrustInv, TrustTyped, FileAgrees, ConfirmedApproved, TrustEarned
<1>2. ASSUME NEW c \in Conns, KnownPeer(c) PROVE TrustInv'
  <2> DEFINE p == PeerOf[c]
  <2>1. p \in Peers /\ p \in DOMAIN trusted
    BY <1>2, PeersAssumption DEF KnownPeer, Welcome
  <2>2. trusted' = Trust(p, FALSE, "tofu") /\ FileAgrees' /\ UNCHANGED <<approved, confirmed>>
    BY <1>2, StoreAgrees, Zenon DEF KnownPeer
  <2> HIDE DEF p
  <2>3. /\ DOMAIN trusted' = DOMAIN trusted
        /\ \A q \in DOMAIN trusted \ {p} : trusted'[q] = trusted[q]
        /\ trusted'[p] \in Record
        /\ trusted'[p].verified <=> IsVerified(trusted, p)
        /\ trusted'[p].method = trusted[p].method
    BY <2>1, <2>2, TrustRecords, Zenon DEF TrustInv
  <2> QED
    BY <2>1, <2>2, <2>3, ZenonT(60)
       DEF TrustInv, TrustTyped, ConfirmedApproved, TrustEarned, IsVerified
<1>3. ASSUME NEW c \in Conns, Approved(c) PROVE TrustInv'
  <2> DEFINE p == PeerOf[c]
             m == IF requireSas THEN "sas" ELSE "tofu"
  <2>1. p \in Peers /\ m \in {"tofu", "sas"}
    BY PeersAssumption
  <2>2. /\ trusted' = Trust(p, requireSas, m) /\ FileAgrees'
        /\ approved' = approved \cup {p}
        /\ confirmed' = IF requireSas THEN confirmed \cup {p} ELSE confirmed
    BY <1>3, StoreAgrees DEF Approved
  <2> HIDE DEF p
  <2>3. /\ DOMAIN trusted' = DOMAIN trusted \cup {p}
        /\ \A q \in DOMAIN trusted \ {p} : trusted'[q] = trusted[q]
        /\ trusted'[p] \in Record
        /\ trusted'[p].verified <=> (IsVerified(trusted, p) \/ requireSas)
        /\ trusted'[p].method = IF requireSas \/ p \notin DOMAIN trusted
                                THEN m ELSE trusted[p].method
    BY <2>1, <2>2, TrustRecords, Zenon DEF TrustInv
  <2> QED
    BY <2>1, <2>2, <2>3
       DEF TrustInv, TrustTyped, ConfirmedApproved, TrustEarned, IsVerified
<1>4. ASSUME NEW p \in Peers, NEW method \in {"sas", "qr"}, Verify(p, method)
      PROVE  TrustInv'
  <2>1. /\ p \in DOMAIN trusted /\ FileAgrees'
        /\ trusted' = [trusted EXCEPT ![p] = [verified |-> TRUE, method |-> method]]
        /\ approved' = approved /\ confirmed' = confirmed \cup {p}
    BY <1>4, StoreAgrees DEF Verify
  <2> QED
    BY <2>1 DEF TrustInv, TrustTyped, ConfirmedApproved, TrustEarned, Record
<1>5. ASSUME NEW p \in Peers, Revoke(p) PROVE TrustInv'
  <2>1. /\ trusted' = Without(trusted, {p}) /\ FileAgrees'
        /\ approved' = approved \ {p} /\ confirmed' = confirmed \ {p}
    BY <1>5, StoreAgrees DEF Revoke
  <2> QED
    BY <2>1 DEF TrustInv, TrustTyped, ConfirmedApproved, TrustEarned, Without
<1>6. ASSUME Restart PROVE UNCHANGED trust
  BY <1>6 DEF Restart, TrustInv, FileAgrees, Migrated, trust
<1>7. ASSUME NEW c \in Conns, Connection(c) PROVE TrustInv'
  BY <1>1, <1>2, <1>3, <1>7
     DEF Connection, Begin, HandshakeFails, AskConsent, Denied, ReadLoopStarts, ReadLoopEnds,
         WriterFails
<1> QED
  BY <1>1, <1>4, <1>5, <1>6, <1>7 DEF Next, vars

-----------------------------------------------------------------------------
ConnInv == ConnectionsTyped /\ PeersTyped /\ LoopsOwnPeer /\ RegistryAttended

(* _register leaves the other entries alone and starts from a multiplexer  *)
(* that nothing has run.                                                   *)
LEMMA AdmitKeeps ==
  ASSUME ConnInv, NEW c \in Conns, pc[c] \in {"handshake", "consent"}, Admit(c)
  PROVE  ConnInv'
<1> DEFINE p == PeerOf[c]
<1>1. p \in Peers /\ c \notin closed /\ \A d \in DOMAIN runs : runs[d] # c
  BY PeersAssumption DEF ConnInv, LoopsOwnPeer
<1>2. /\ DOMAIN peers' = DOMAIN peers \cup {p}
      /\ peers'[p].conn = c /\ peers'[p] \in [conn : Conns, verified : BOOLEAN]
      /\ \A q \in DOMAIN peers \ {p} : peers'[q] = peers[q]
  BY DEF Admit, Register, With, IsVerified
<1>3. /\ pc' = [pc EXCEPT ![c] = IF c \in Outgoing THEN "registered" ELSE "reading"]
      /\ runs' = IF c \in Outgoing THEN runs ELSE With(runs, c, c)
      /\ UNCHANGED <<requireSas, closed, broken>>
  BY DEF Admit, At
<1>4. /\ DOMAIN runs' \subseteq DOMAIN runs \cup {c}
      /\ DOMAIN runs \subseteq DOMAIN runs'
      /\ \A d \in DOMAIN runs' \ {c} : runs'[d] = runs[d]
      /\ c \in Outgoing \/ (c \in DOMAIN runs' /\ runs'[c] = c)
      /\ c \in Outgoing => runs' = runs
  BY <1>3 DEF With
<1> HIDE DEF p
<1>5. ConnectionsTyped'
  BY <1>3, <1>4 DEF ConnInv, ConnectionsTyped
<1>6. PeersTyped'
  BY <1>1, <1>2 DEF ConnInv, PeersTyped
<1>7. LoopsOwnPeer'
  BY <1>1, <1>3, <1>4 DEF ConnInv, LoopsOwnPeer, ConnectionsTyped
<1>8. RegistryAttended'
  <2> SUFFICES ASSUME NEW q \in DOMAIN peers'
               PROVE  LET d == peers'[q].conn
                      IN  /\ PeerOf[d] = q /\ d \notin closed'
                          /\ pc'[d] = "registered" \/ (pc'[d] = "reading" /\ runs'[d] = d)
    BY DEF RegistryAttended
  <2>1. CASE q = p
    BY <1>1, <1>2, <1>3, <1>4, <2>1 DEF p, ConnInv, ConnectionsTyped
  <2>2. CASE q # p
    <3> DEFINE d == peers[q].conn
    <3>1. q \in DOMAIN peers /\ peers'[q].conn = d /\ d \in Conns
      BY <1>2, <2>2 DEF ConnInv, PeersTyped
    <3>2. /\ PeerOf[d] = q /\ d \notin closed
          /\ pc[d] = "registered" \/ (pc[d] = "reading" /\ runs[d] = d)
      BY <3>1 DEF ConnInv, RegistryAttended
    <3> HIDE DEF d
    <3>3. d # c
      BY <3>2
    <3>4. pc[d] = "reading" => d \in DOMAIN runs
      BY <3>1 DEF ConnInv, ConnectionsTyped
    <3>5. pc'[d] = pc[d] /\ closed' = closed /\ (pc[d] = "reading" => runs'[d] = runs[d])
      BY <1>3, <1>4, <3>1, <3>3, <3>4 DEF ConnInv, ConnectionsTyped
    <3> QED
      BY <3>1, <3>2, <3>5
  <2> QED
    BY <2>1, <2>2
<1> QED
  BY <1>5, <1>6, <1>7, <1>8 DEF ConnInv

(* A step that only moves one unregistered connection along. *)
LEMMA MovesKeep ==
  ASSUME ConnInv, NEW c \in Conns, pc[c] \in {"new", "handshake", "consent"},
         NEW place \in {"handshake", "consent", "over"}, At(c, place),
         UNCHANGED <<requireSas, runs, closed, broken, peers>>
  PROVE  ConnInv'
<1>1. \A d \in Conns : pc'[d] = IF d = c THEN place ELSE pc[d]
  BY DEF At, ConnInv, ConnectionsTyped
<1>2. ConnectionsTyped' /\ PeersTyped'
  BY DEF At, ConnInv, ConnectionsTyped, PeersTyped
<1>3. LoopsOwnPeer'
  BY <1>1 DEF ConnInv, LoopsOwnPeer, ConnectionsTyped
<1>4. RegistryAttended'
  BY <1>1 DEF ConnInv, RegistryAttended, PeersTyped
<1> QED
  BY <1>2, <1>3, <1>4 DEF ConnInv

(* The registry stays attended to under every step. *)
LEMMA ConnStep == ConnInv /\ [Next]_vars => ConnInv'
<1> SUFFICES ASSUME ConnInv, [Next]_vars PROVE ConnInv'
  OBVIOUS
<1>1. ASSUME UNCHANGED <<connections, peers>> PROVE ConnInv'
  BY <1>1 DEF connections, ConnInv, ConnectionsTyped, PeersTyped, LoopsOwnPeer, RegistryAttended
<1>2. ASSUME NEW c \in Conns, Begin(c) \/ HandshakeFails(c) \/ AskConsent(c) \/ Denied(c)
      PROVE  ConnInv'
  BY <1>2, MovesKeep DEF Begin, HandshakeFails, AskConsent, Denied
<1>3. ASSUME NEW c \in Conns, KnownPeer(c) \/ Approved(c) PROVE ConnInv'
  BY <1>3, AdmitKeeps, Zenon DEF KnownPeer, Approved
<1>4. ASSUME NEW c \in Conns, ReadLoopStarts(c) PROVE ConnInv'
  <2>1. pc[c] = "registered" /\ UNCHANGED <<requireSas, closed, broken, peers>> /\ PeerOf[c] \in Peers
    BY <1>4, PeersAssumption DEF ReadLoopStarts
  <2>2. CASE PeerOf[c] \in DOMAIN peers
    <3> DEFINE e == peers[PeerOf[c]].conn
    <3>1. pc' = [pc EXCEPT ![c] = "reading"] /\ runs' = With(runs, c, e)
      BY <1>4, <2>2 DEF ReadLoopStarts, At
    <3>2. /\ e \in Conns /\ PeerOf[e] = PeerOf[c]
          /\ pc[e] \in {"registered", "reading"}
      BY <2>2 DEF ConnInv, PeersTyped, RegistryAttended
    <3>3. \A q \in DOMAIN peers : peers[q].conn = c => e = c
      BY DEF ConnInv, RegistryAttended
    <3> HIDE DEF e
    <3>4. /\ DOMAIN runs' = DOMAIN runs \cup {c} /\ runs'[c] = e
          /\ \A d \in DOMAIN runs \ {c} : runs'[d] = runs[d]
      BY <3>1 DEF With
    <3>5. \A d \in Conns : pc'[d] = IF d = c THEN "reading" ELSE pc[d]
      BY <3>1 DEF ConnInv, ConnectionsTyped
    <3>6. ConnectionsTyped' /\ PeersTyped'
      BY <2>1, <3>1, <3>2, <3>4 DEF ConnInv, ConnectionsTyped, PeersTyped
    <3>7. LoopsOwnPeer'
      BY <2>1, <3>2, <3>4, <3>5 DEF ConnInv, LoopsOwnPeer, ConnectionsTyped
    <3>8. RegistryAttended'
      BY <2>1, <3>3, <3>4, <3>5 DEF ConnInv, RegistryAttended, PeersTyped, ConnectionsTyped
    <3> QED
      BY <3>6, <3>7, <3>8 DEF ConnInv
  <2>3. CASE PeerOf[c] \notin DOMAIN peers
    <3>1. pc' = [pc EXCEPT ![c] = "over"] /\ runs' = runs
      BY <1>4, <2>3 DEF ReadLoopStarts, At
    <3>2. \A q \in DOMAIN peers : peers[q].conn # c
      BY <2>3 DEF ConnInv, RegistryAttended
    <3> QED
      BY <2>1, <3>1, <3>2
         DEF ConnInv, ConnectionsTyped, PeersTyped, LoopsOwnPeer, RegistryAttended
  <2> QED
    BY <2>2, <2>3
<1>5. ASSUME NEW c \in Conns, ReadLoopEnds(c) PROVE ConnInv'
  <2>1. /\ pc[c] = "reading" /\ pc' = [pc EXCEPT ![c] = "over"]
        /\ closed' = closed \cup {runs[c]} /\ runs' = runs /\ UNCHANGED <<requireSas, broken>>
        /\ DOMAIN peers' = DOMAIN peers \ {PeerOf[c]}
        /\ \A q \in DOMAIN peers' : peers'[q] = peers[q]
    BY <1>5 DEF ReadLoopEnds, At, Forget, Without
  <2>2. /\ c \in DOMAIN runs /\ runs[c] \in Conns /\ PeerOf[runs[c]] = PeerOf[c]
        /\ pc[runs[c]] \in {"registered", "reading", "over"}
    BY <2>1 DEF ConnInv, ConnectionsTyped, LoopsOwnPeer
  <2>3. ConnectionsTyped' /\ PeersTyped'
    BY <2>1, <2>2 DEF ConnInv, ConnectionsTyped, PeersTyped
  <2>4. LoopsOwnPeer'
    BY <2>1, <2>2 DEF ConnInv, ConnectionsTyped, LoopsOwnPeer
  <2>5. \A q \in DOMAIN peers' : peers'[q].conn # c /\ peers'[q].conn # runs[c]
    BY <2>1, <2>2 DEF ConnInv, RegistryAttended
  <2>6. RegistryAttended'
    BY <2>1, <2>5 DEF ConnInv, ConnectionsTyped, PeersTyped, RegistryAttended
  <2> QED
    BY <2>3, <2>4, <2>6 DEF ConnInv
<1>6. ASSUME NEW p \in Peers, NEW method \in {"sas", "qr"}, Verify(p, method)
      PROVE  ConnInv'
  <2>1. /\ UNCHANGED connections /\ DOMAIN peers' = DOMAIN peers
        /\ \A q \in DOMAIN peers : /\ peers'[q].conn = peers[q].conn
                                   /\ peers'[q] \in [conn : Conns, verified : BOOLEAN]
    BY <1>6, Zenon DEF Verify, ConnInv, PeersTyped
  <2> QED
    BY <2>1 DEF connections, ConnInv, ConnectionsTyped, PeersTyped, LoopsOwnPeer, RegistryAttended
<1>7. ASSUME Restart PROVE ConnInv'
  <2>1. DOMAIN peers' = {}
    BY <1>7 DEF Restart
  <2>2. ConnectionsTyped'
    BY <1>7 DEF Restart, ConnInv, ConnectionsTyped
  <2>3. LoopsOwnPeer'
    BY <1>7 DEF Restart, ConnInv, ConnectionsTyped, LoopsOwnPeer
  <2> QED
    BY <2>1, <2>2, <2>3 DEF ConnInv, PeersTyped, RegistryAttended
<1>8. ASSUME NEW p \in Peers, Revoke(p) PROVE ConnInv'
  BY <1>1, <1>8 DEF Revoke
<1>9. ASSUME NEW c \in Conns, WriterFails(c) PROVE ConnInv'
  BY <1>9 DEF WriterFails, ConnInv, ConnectionsTyped, PeersTyped, LoopsOwnPeer, RegistryAttended
<1>10. ASSUME NEW c \in Conns, Connection(c) PROVE ConnInv'
  BY <1>2, <1>3, <1>4, <1>5, <1>9, <1>10 DEF Connection
<1> QED
  BY <1>1, <1>6, <1>7, <1>8, <1>10 DEF Next, vars

-----------------------------------------------------------------------------
(* The verified mark stays right under every step: what is registered is   *)
(* read from the store that was just written, and verify_peer sets both.   *)
LEMMA MarkStep ==
  TrustTyped /\ FileAgrees /\ ConnInv /\ VerifiedMarkRight /\ [Next]_vars
    => VerifiedMarkRight'
<1> SUFFICES ASSUME TrustTyped, FileAgrees, ConnInv, VerifiedMarkRight, [Next]_vars
             PROVE  VerifiedMarkRight'
  OBVIOUS
<1>1. ASSUME UNCHANGED <<peers, trusted>> PROVE VerifiedMarkRight'
  BY <1>1 DEF VerifiedMarkRight
<1>2. ASSUME NEW c \in Conns, Admit(c), NEW v \in BOOLEAN, NEW m \in {"tofu", "sas"},
             trusted' = Trust(PeerOf[c], v, m)
      PROVE  VerifiedMarkRight'
  <2> DEFINE p == PeerOf[c]
  <2>1. p \in Peers
    BY PeersAssumption
  <2>2. /\ DOMAIN peers' = DOMAIN peers \cup {p}
        /\ peers'[p].verified = IsVerified(trusted', p)
        /\ \A q \in DOMAIN peers \ {p} : peers'[q] = peers[q]
    BY <1>2 DEF Admit, Register, With
  <2>3. /\ DOMAIN trusted' = DOMAIN trusted \cup {p}
        /\ \A q \in DOMAIN trusted \ {p} : trusted'[q] = trusted[q]
    BY <1>2, <2>1, TrustRecords, Zenon
  <2> HIDE DEF p
  <2> QED
    BY <2>2, <2>3, Zenon DEF VerifiedMarkRight, IsVerified
<1>3. ASSUME NEW c \in Conns, KnownPeer(c) PROVE VerifiedMarkRight'
  BY <1>2, <1>3, Zenon DEF KnownPeer, Store
<1>4. ASSUME NEW c \in Conns, Approved(c) PROVE VerifiedMarkRight'
  BY <1>2, <1>4 DEF Approved, Store, ConnInv, ConnectionsTyped
<1>5. ASSUME NEW c \in Conns, ReadLoopEnds(c) PROVE VerifiedMarkRight'
  BY <1>5 DEF ReadLoopEnds, Forget, Without, trust, VerifiedMarkRight
<1>6. ASSUME NEW p \in Peers, NEW method \in {"sas", "qr"}, Verify(p, method)
      PROVE  VerifiedMarkRight'
  BY <1>6 DEF Verify, Store, VerifiedMarkRight, ConnInv, PeersTyped
<1>7. ASSUME NEW p \in Peers, Revoke(p) PROVE VerifiedMarkRight'
  BY <1>7 DEF Revoke, Store, Without, VerifiedMarkRight
<1>8. ASSUME Restart PROVE VerifiedMarkRight'
  BY <1>8 DEF Restart, VerifiedMarkRight
<1>9. ASSUME NEW c \in Conns, Connection(c) PROVE VerifiedMarkRight'
  BY <1>1, <1>3, <1>4, <1>5, <1>9
     DEF Connection, Begin, HandshakeFails, AskConsent, Denied, ReadLoopStarts, WriterFails, trust
<1> QED
  BY <1>1, <1>6, <1>7, <1>8, <1>9 DEF Next, vars, trust

IInv == TrustInv /\ ConnInv /\ VerifiedMarkRight

(* All of it together is an inductive invariant of the node's connections, *)
(* its registry and its trust store.                                       *)
THEOREM Inductive == Spec => []IInv
<1>1. Init => IInv
  <2> SUFFICES ASSUME Init PROVE ConnInv /\ VerifiedMarkRight
    BY TrustInit DEF IInv
  <2>1. DOMAIN peers = {} /\ DOMAIN runs = {} /\ closed = {} /\ broken = {}
    BY DEF Init
  <2>2. ConnectionsTyped
    BY <2>1 DEF Init, ConnectionsTyped
  <2> QED
    BY <2>1, <2>2 DEF ConnInv, PeersTyped, LoopsOwnPeer, RegistryAttended, VerifiedMarkRight
<1>2. IInv /\ [Next]_vars => IInv'
  <2> SUFFICES ASSUME IInv, [Next]_vars PROVE IInv'
    OBVIOUS
  <2>1. requireSas \in BOOLEAN /\ TrustTyped /\ FileAgrees
    BY DEF IInv, ConnInv, ConnectionsTyped, TrustInv
  <2> QED
    BY <2>1, TrustStep, ConnStep, MarkStep DEF IInv
<1> QED
  BY <1>1, <1>2, PTL DEF Spec

(* The variables of PeerManager keep their types, although a restart takes *)
(* the trust store from the file.                                          *)
THEOREM PeersTypeCorrect == Spec => []TypeOK
<1>1. IInv => TypeOK
  BY DEF IInv, ConnInv, TrustInv, ConnectionsTyped, PeersTyped, TrustTyped, FileAgrees, TypeOK
<1> QED
  BY <1>1, Inductive, PTL

(* Whom a node trusts, and whom it takes for verified, is what its user    *)
(* decided, after any sequence of connections, consents, verifications,    *)
(* revocations and restarts.                                               *)
THEOREM TrustIsEarned == Spec => []TrustEarned
<1>1. IInv => TrustEarned
  BY DEF IInv, TrustInv
<1> QED
  BY <1>1, Inductive, PTL

(* Every entry of the registry leads to a connection of its peer that is   *)
(* read, in whatever order the connections come and go, and whether or not *)
(* the writers of their multiplexers fail.                                 *)
THEOREM RegistryIsAttended == Spec => []RegistryAttended
<1>1. IInv => RegistryAttended
  BY DEF IInv, ConnInv
<1> QED
  BY <1>1, Inductive, PTL

(* The registry's verified marks are those of the trust store. *)
THEOREM VerifiedMarksAreRight == Spec => []VerifiedMarkRight
<1>1. IInv => VerifiedMarkRight
  BY DEF IInv
<1> QED
  BY <1>1, Inductive, PTL

(* Nobody is registered whom the user has not approved, or confirmed where *)
(* verification is required, at that moment.                               *)
THEOREM OnlyApprovedAreRegistered == Spec => OnlyApprovedRegister
<1> DEFINE New(p) == p \in DOMAIN peers => peers[p].conn # peers'[p].conn
           Entitled(p) == p \in approved' /\ (requireSas' => p \in confirmed')
           Kept == \A p \in DOMAIN peers' : New(p) => Entitled(p)
<1>1. ASSUME IInv, [Next]_vars, IInv' PROVE Kept
  <2>1. ASSUME DOMAIN peers' \subseteq DOMAIN peers,
               \A p \in DOMAIN peers' : peers'[p].conn = peers[p].conn
        PROVE  Kept
    BY <2>1
  <2>2. ASSUME NEW c \in Conns, Admit(c), Entitled(PeerOf[c]) PROVE Kept
    BY <2>2 DEF Admit, Register, With
  <2>3. ASSUME NEW c \in Conns, KnownPeer(c) PROVE Kept
    <3>1. PeerOf[c] \in approved /\ (requireSas => PeerOf[c] \in confirmed)
      BY <1>1, <2>3 DEF KnownPeer, Welcome, IInv, TrustInv, TrustEarned
    <3> QED
      BY <2>2, <2>3, <3>1 DEF KnownPeer, Admit
  <2>4. ASSUME NEW c \in Conns, Approved(c) PROVE Kept
    BY <2>2, <2>4 DEF Approved, Admit
  <2>5. ASSUME NEW c \in Conns, ReadLoopEnds(c) PROVE Kept
    BY <2>1, <2>5 DEF ReadLoopEnds, Forget, Without
  <2>6. ASSUME NEW p \in Peers, NEW method \in {"sas", "qr"}, Verify(p, method) PROVE Kept
    BY <1>1, <2>1, <2>6 DEF Verify, IInv, ConnInv, PeersTyped
  <2>7. ASSUME Restart PROVE Kept
    BY <2>7 DEF Restart
  <2>8. ASSUME peers' = peers PROVE Kept
    BY <2>1, <2>8, Zenon
  <2>9. ASSUME NEW c \in Conns, Connection(c) PROVE Kept
    BY <2>3, <2>4, <2>5, <2>8, <2>9
       DEF Connection, Begin, HandshakeFails, AskConsent, Denied, ReadLoopStarts, WriterFails
  <2> HIDE DEF Kept
  <2> QED
    BY <1>1, <2>6, <2>7, <2>8, <2>9, Zenon DEF Next, Revoke, vars
<1> HIDE DEF Kept
<1>2. Spec => [][Kept]_vars
  BY <1>1, Inductive, PTL DEF Spec
<1> QED
  BY <1>2 DEF OnlyApprovedRegister, Kept, New, Entitled

=============================================================================
