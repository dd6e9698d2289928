------------------------------ MODULE Handshake ------------------------------
(***************************************************************************)
(* perform_handshake of memnode/security.py at the two ends of a           *)
(* connection, with the timeout that PeerManager puts around it: each end  *)
(* sends a Hello, checks the other's, signs the transcript of both and     *)
(* derives its keys once the other's signature is good.                    *)
(*                                                                         *)
(* An end's nonce and ephemeral key are fresh, and stand for the end.  A   *)
(* transcript is the pair of Hellos, a key what it is derived from, and a  *)
(* signature its signer and what was signed.                               *)
(***************************************************************************)
EXTENDS Integers, Sequences, FiniteSets

CONSTANT Lines   \* who may be at the ends: [node, claim, version, formed, echo]

Ends == {"initiator", "responder"}
ASSUME LinesAssumption ==
  \A l \in Lines : l.formed \in [Ends -> BOOLEAN] /\ l.echo \in BOOLEAN

Other(e) == IF e = "initiator" THEN "responder" ELSE "initiator"

VARIABLES
  line,    \* node[e], version[e]: the identity and the PROTOCOL_VERSION of e;
           \* claim[e]: the identity key it presents, a node's own;
           \* formed[e]: it sends well-formed fields;
           \* echo: the responder is no node but sends back what it is sent
  place,   \* where e is: "new", "hello" or "auth" (it awaits the other's),
           \* "open", or why it gave up
  mail,    \* mail[e]: frames that e wrote and the other has not read
  agreed,  \* agreed[e]: the transcript e has signed, <<>> before
  keys     \* keys[e]: [peer, send, recv], the identity and the keys that the
           \* caller of e was given

handshake == <<line, place, mail, agreed, keys>>

Hello(e) == [nonce |-> e, eph |-> e, version |-> line.version[e], formed |-> line.formed[e]]
Auth(e, t) == [identity |-> line.claim[e], signature |-> <<line.node[e], t>>, formed |-> line.formed[e]]

Write(e, frame) == mail' = [mail EXCEPT ![e] = Append(@, frame)]
GoesTo(e, where) == place' = [place EXCEPT ![e] = where]
Begun(e) == place[e] \in {"hello", "auth"}

Greet(e) ==
  /\ place[e] = "new" /\ ~ (line.echo /\ e = "responder")
  /\ GoesTo(e, "hello")
  /\ Write(e, Hello(e))
  /\ UNCHANGED <<line, agreed, keys>>

(* The checks of the other's Hello, in order. *)
HelloFault(e, m) ==
  CASE m.version # line.version[e] -> "version"
    [] ~ m.formed -> "malformed"
    [] m.nonce = e \/ m.eph = e -> "reflected"
    [] OTHER -> "none"

(* "Deterministic ordering regardless of who spoke first". *)
Transcript(e, m) == IF e = "initiator" THEN <<Hello(e), m>> ELSE <<m, Hello(e)>>

Meet(e) ==
  /\ place[e] = "hello" /\ mail[Other(e)] # <<>>
  /\ LET m == Head(mail[Other(e)])
         read == [mail EXCEPT ![Other(e)] = Tail(@)]
         t == Transcript(e, m)
     IN  IF HelloFault(e, m) # "none"
         THEN GoesTo(e, HelloFault(e, m)) /\ mail' = read /\ UNCHANGED agreed
         ELSE /\ GoesTo(e, "auth")
              /\ mail' = [read EXCEPT ![e] = Append(@, Auth(e, t))]
              /\ agreed' = [agreed EXCEPT ![e] = t]
  /\ UNCHANGED <<line, keys>>

MutantAuthFault(e, m) ==
  CASE ~ m.formed -> "malformed"
    [] m.identity = line.node[e] -> "myself"
    [] OTHER -> "none"
AuthFault(e, m) ==
  CASE ~ m.formed -> "malformed"
    [] m.identity = line.node[e] -> "myself"
    [] m.signature # <<m.identity, agreed[e]>> -> "signature"
    [] OTHER -> "none"

(* _derive_traffic_keys, from the shared secret and the transcript. *)
Secret(e) == {e, agreed[e][IF e = "initiator" THEN 2 ELSE 1].eph}
TrafficKey(e, half) == [secret |-> Secret(e), salt |-> agreed[e], half |-> half]
Keyed(peer, send, recv) == [peer |-> peer, send |-> send, recv |-> recv]
KeysOf(e, peer) ==
  IF e = "initiator" THEN Keyed(peer, TrafficKey(e, "a"), TrafficKey(e, "b"))
  ELSE Keyed(peer, TrafficKey(e, "b"), TrafficKey(e, "a"))

Settle(e) ==
  /\ place[e] = "auth" /\ mail[Other(e)] # <<>>
  /\ LET m == Head(mail[Other(e)])
     IN  IF AuthFault(e, m) # "none"
         THEN GoesTo(e, AuthFault(e, m)) /\ UNCHANGED keys
         ELSE /\ GoesTo(e, "open")
              /\ keys' = [keys EXCEPT ![e] = KeysOf(e, m.identity)]
  /\ mail' = [mail EXCEPT ![Other(e)] = Tail(@)]
  /\ UNCHANGED <<line, agreed>>

(* The connection is lost or the time is up; what was written may arrive. *)
GivesUp(e) ==
  /\ Begun(e)
  /\ GoesTo(e, "gone")
  /\ UNCHANGED <<line, mail, agreed, keys>>

Echo ==
  /\ line.echo /\ mail["initiator"] # <<>>
  /\ mail' = [mail EXCEPT !["responder"] = Append(@, Head(mail["initiator"])),
                          !["initiator"] = Tail(@)]
  /\ UNCHANGED <<line, place, agreed, keys>>

HandshakeInit ==
  /\ line \in Lines
  /\ place = [e \in Ends |-> "new"]
  /\ mail = [e \in Ends |-> <<>>]
  /\ agreed = [e \in Ends |-> <<>>]
  /\ keys = [e \in Ends |-> <<>>]

HandshakeStep ==
  \/ \E e \in Ends : Greet(e) \/ Meet(e) \/ Settle(e) \/ GivesUp(e)
  \/ Echo

-----------------------------------------------------------------------------
(* An end that completes the handshake has done so with another node, the  *)
(* one whose identity it reports (presenting that identity without its key *)
(* is not enough), and that node signed the same transcript (so both read  *)
(* the same short authentication string); what one encrypts with the other *)
(* decrypts with, and the two directions have keys of their own.  Two      *)
(* proper nodes never turn each other away, whoever spoke first and        *)
(* whichever end gave up; a node that reaches itself does not connect.     *)
HandshakeAgrees ==
  /\ \A e \in Ends : place[e] = "open" =>
       /\ keys[e].peer = line.node[Other(e)] /\ keys[e].peer # line.node[e]
       /\ agreed[Other(e)] = agreed[e]
       /\ keys[e].send # keys[e].recv
       /\ place[Other(e)] = "open" => keys[e].send = keys[Other(e)].recv
  /\ \A e \in Ends :
       ~ line.echo /\ line.node[e] # line.node[Other(e)] /\ line.version[e] = line.version[Other(e)]
       /\ line.formed[Other(e)] /\ line.claim[Other(e)] = line.node[Other(e)] =>
       place[e] \in {"new", "hello", "auth", "open", "gone"}

=============================================================================
