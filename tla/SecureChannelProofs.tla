------------------------- MODULE SecureChannelProofs -------------------------
(***************************************************************************)
(* What SecureChannel promises, for every window, rekey interval, epoch    *)
(* skip and number of messages: agreement of the handshake under it, no    *)
(* nonce used twice, no message delivered twice, and a receiver that       *)
(* follows the sender's rekeying.                                          *)
(***************************************************************************)
EXTENDS SecureChannel, SequenceTheorems, TLAPS

-----------------------------------------------------------------------------
(* The handshake agrees, whoever is at the two ends.                       *)

(* The one transcript that two nodes can sign. *)
Common == <<Hello("initiator"), Hello("responder")>>

Proper == {"new", "hello", "auth", "open", "gone"}
Places == Proper \cup {"version", "malformed", "reflected", "myself", "signature"}

(* What e has written and the other has not read: its Hello is read first, *)
(* and it signs nothing but the common transcript.                         *)
MailInv(e) ==
  /\ \/ mail[e] \in {<<>>, <<Hello(e)>>}
     \/ agreed[e] = Common /\ mail[e] \in {<<Hello(e), Auth(e, Common)>>, <<Auth(e, Common)>>}
  /\ place[e] = "new" => mail[e] = <<>>
  /\ place[Other(e)] \in {"new", "hello"} /\ place[e] # "new" =>
       mail[e] \in {<<Hello(e)>>, <<Hello(e), Auth(e, Common)>>}
  /\ place[Other(e)] = "auth" => place[e] # "new" /\ mail[e] \in {<<>>, <<Auth(e, Common)>>}

(* How far e is, and what it knows by then. *)
EndInv(e) ==
  /\ agreed[e] \in {<<>>, Common}
  /\ place[e] \in {"new", "hello"} => agreed[e] = <<>>
  /\ place[e] \in {"auth", "open"} => agreed[e] = Common
  /\ place[e] = "open" =>
       /\ agreed[Other(e)] = Common
       /\ line.node[Other(e)] # line.node[e]
       /\ keys[e] = KeysOf(e, line.node[Other(e)])
  /\ line.node[e] # line.node[Other(e)] /\ line.version[e] = line.version[Other(e)]
       /\ line.formed[Other(e)] /\ line.claim[Other(e)] = line.node[Other(e)] => place[e] \in Proper

(* Behind an echo the initiator meets its own Hello and goes no further.   *)
EchoInv ==
  /\ place["responder"] = "new" /\ place["initiator"] \notin {"auth", "open"}
  /\ mail["initiator"] \in {<<>>, <<Hello("initiator")>>}
  /\ mail["responder"] \in {<<>>, <<Hello("initiator")>>}
  /\ place["initiator"] = "new" => mail["initiator"] = <<>> /\ mail["responder"] = <<>>
  /\ mail["initiator"] = <<>> \/ mail["responder"] = <<>>

(* Everything is known of both ends. *)
Shape ==
  /\ place \in [Ends -> Places]
  /\ DOMAIN mail = Ends /\ DOMAIN agreed = Ends /\ DOMAIN keys = Ends

HandshakeInv ==
  /\ line \in Lines /\ Shape
  /\ IF line.echo THEN EchoInv ELSE \A e \in Ends : MailInv(e) /\ EndInv(e)

-----------------------------------------------------------------------------
(* Short sequences. *)
LEMMA AppendToOne ==
  ASSUME NEW x, NEW y
  PROVE  Append(<<x>>, y) = <<x, y>>
<1> DEFINE S == {x, y}
<1>1. <<x>> \in Seq(S) /\ <<x, y>> \in Seq(S)
  OBVIOUS
<1>2. Append(<<x>>, y) \in Seq(S) /\ Len(Append(<<x>>, y)) = 2
  BY <1>1
<1>3. \A i \in 1 .. 2 : Append(<<x>>, y)[i] = <<x, y>>[i]
  BY <1>1, AppendProperties
<1> QED
  BY <1>1, <1>2, <1>3, SeqEqual, Zenon

(* No end ever has more than two frames on the way. *)
LEMMA ShortSequences ==
  \A x, y :
    /\ Append(<<>>, x) = <<x>> /\ Append(<<x>>, y) = <<x, y>>
    /\ Head(<<x>>) = x /\ Tail(<<x>>) = <<>>
    /\ Head(<<x, y>>) = x /\ Tail(<<x, y>>) = <<y>>
    /\ <<x>> # <<>> /\ <<x, y>> # <<>> /\ <<x>> # <<x, y>>
<1>1. \A x, y : Append(<<x>>, y) = <<x, y>>
  BY AppendToOne, Zenon
<1>2. \A x, y :
        /\ Append(<<>>, x) = <<x>>
        /\ Head(<<x>>) = x /\ Tail(<<x>>) = <<>>
        /\ Head(<<x, y>>) = x /\ Tail(<<x, y>>) = <<y>>
        /\ <<x>> # <<>> /\ <<x, y>> # <<>> /\ <<x>> # <<x, y>>
  OBVIOUS
<1> QED
  BY <1>1, <1>2, Zenon

(* There are two ends. *)
LEMMA TwoEnds ==
  ASSUME NEW e \in Ends
  PROVE  /\ Other(e) \in Ends /\ Other(e) # e /\ Other(Other(e)) = e
         /\ Ends = {e, Other(e)}
BY DEF Ends, Other

(* The other's Hello is accepted if the versions agree and it is formed,   *)
(* and the transcript is then the common one.                              *)
LEMMA MeetsOther ==
  ASSUME NEW e \in Ends
  PROVE  /\ HelloFault(e, Hello(Other(e))) \in {"version", "malformed", "none"}
         /\ line.version[e] = line.version[Other(e)] /\ line.formed[Other(e)] =>
              HelloFault(e, Hello(Other(e))) = "none"
         /\ Transcript(e, Hello(Other(e))) = Common
<1>1. /\ Hello(Other(e)).version = line.version[Other(e)] /\ Hello(Other(e)).formed = line.formed[Other(e)]
      /\ Hello(Other(e)).nonce # e /\ Hello(Other(e)).eph # e
  BY TwoEnds DEF Hello
<1>2. Transcript(e, Hello(Other(e))) = Common
  BY DEF Transcript, Common, Ends, Other
<1> QED
  BY <1>1, <1>2 DEF HelloFault

(* The other's signature of the common transcript is good if the identity  *)
(* it presents is its own, and only then.                                  *)
LEMMA SettlesWithOther ==
  ASSUME NEW e \in Ends, agreed[e] = Common
  PROVE  LET m == Auth(Other(e), Common)
         IN  /\ AuthFault(e, m) \in {"malformed", "myself", "signature", "none"}
             /\ AuthFault(e, m) = "none" =>
                  line.node[Other(e)] # line.node[e] /\ m.identity = line.node[Other(e)]
             /\ line.node[e] # line.node[Other(e)] /\ line.formed[Other(e)]
                /\ line.claim[Other(e)] = line.node[Other(e)] => AuthFault(e, m) = "none"
<1> DEFINE m == Auth(Other(e), Common)
<1>1. /\ m.identity = line.claim[Other(e)] /\ m.formed = line.formed[Other(e)]
      /\ m.signature = <<line.node[Other(e)], agreed[e]>>
  BY DEF Auth
<1> HIDE DEF m
<1>2. /\ AuthFault(e, m) \in {"malformed", "myself", "signature", "none"}
      /\ AuthFault(e, m) = "none" =>
           line.node[Other(e)] # line.node[e] /\ m.identity = line.node[Other(e)]
      /\ line.node[e] # line.node[Other(e)] /\ line.formed[Other(e)]
         /\ line.claim[Other(e)] = line.node[Other(e)] => AuthFault(e, m) = "none"
  BY <1>1 DEF AuthFault
<1> QED
  BY <1>1, <1>2 DEF m

-----------------------------------------------------------------------------
(* The kinds of frames are told apart. *)
LEMMA HelloIsNoAuth ==
  ASSUME NEW e, NEW t
  PROVE  Hello(e) # Auth(e, t) /\ Common # <<>>
BY DEF Hello, Auth, Common

(* To keep the invariant between two nodes is to keep it at both ends.     *)
LEMMA BothEnds ==
  ASSUME HandshakeInv, ~ line.echo, UNCHANGED line, NEW e \in Ends,
         Shape', MailInv(e)', EndInv(e)', MailInv(Other(e))', EndInv(Other(e))'
  PROVE  HandshakeInv'
<1>1. \A x \in Ends : MailInv(x)' /\ EndInv(x)'
  <2> TAKE x \in Ends
  <2>1. x = e \/ x = Other(e)
    BY TwoEnds
  <2> QED
    BY <2>1
<1> QED
  BY <1>1 DEF HandshakeInv

(* A step of e between two nodes. *)
LEMMA GreetKeeps ==
  ASSUME HandshakeInv, ~ line.echo, NEW e \in Ends, Greet(e)
  PROVE  HandshakeInv'
<1> DEFINE o == Other(e)
<1>1. o \in Ends /\ o # e /\ Other(o) = e /\ Ends = {e, o}
  BY TwoEnds
<1>2. MailInv(e) /\ EndInv(e) /\ MailInv(o) /\ EndInv(o) /\ Shape
  BY <1>1 DEF HandshakeInv
<1>3. /\ place[e] = "new" /\ place' = [place EXCEPT ![e] = "hello"]
      /\ mail' = [mail EXCEPT ![e] = Append(@, Hello(e))] /\ UNCHANGED <<line, agreed, keys>>
  BY DEF Greet, GoesTo, Write
<1>4. UNCHANGED <<Hello(e), Hello(o), Common, Auth(e, Common), Auth(o, Common)>>
  BY <1>3 DEF Hello, Auth, Common
<1>5. mail'[e] = <<Hello(e)>> /\ mail'[o] = mail[o] /\ place'[e] = "hello" /\ place'[o] = place[o]
  BY <1>1, <1>2, <1>3, ShortSequences, Zenon DEF Shape, Places, Proper, MailInv
<1>6. MailInv(e)' /\ MailInv(o)'
  BY <1>1, <1>2, <1>3, <1>4, <1>5, HelloIsNoAuth, ShortSequences DEF MailInv
<1>7. UNCHANGED <<KeysOf(e, line.node[o]), KeysOf(o, line.node[e])>>
  BY <1>3, Zenon DEF KeysOf, TrafficKey, Secret
<1>8. EndInv(e)' /\ EndInv(o)'
  BY <1>1, <1>2, <1>3, <1>4, <1>5, <1>7, Zenon DEF EndInv, Proper
<1>9. Shape'
  BY <1>2, <1>3 DEF Shape, Places, Proper
<1> QED
  BY <1>3, <1>6, <1>8, <1>9, BothEnds

(* An end gives up; what it wrote stays. *)
LEMMA GivesUpKeeps ==
  ASSUME HandshakeInv, ~ line.echo, NEW e \in Ends, GivesUp(e)
  PROVE  HandshakeInv'
<1> DEFINE o == Other(e)
<1>1. o \in Ends /\ o # e /\ Other(o) = e
  BY TwoEnds
<1>2. MailInv(e) /\ EndInv(e) /\ MailInv(o) /\ EndInv(o) /\ Shape
  BY <1>1 DEF HandshakeInv
<1>3. /\ place[e] # "new" /\ place' = [place EXCEPT ![e] = "gone"]
      /\ UNCHANGED <<line, mail, agreed, keys>>
  BY DEF GivesUp, GoesTo, Begun
<1>4. UNCHANGED <<Hello(e), Hello(o), Common, Auth(e, Common), Auth(o, Common)>>
  BY <1>3 DEF Hello, Auth, Common
<1>5. place'[e] = "gone" /\ place'[o] = place[o]
  BY <1>1, <1>2, <1>3, Zenon DEF Shape, Places, Proper
<1>6. MailInv(e)' /\ MailInv(o)'
  BY <1>1, <1>2, <1>3, <1>4, <1>5 DEF MailInv
<1>7. UNCHANGED <<KeysOf(e, line.node[o]), KeysOf(o, line.node[e])>>
  BY <1>3, Zenon DEF KeysOf, TrafficKey, Secret
<1>8. EndInv(e)' /\ EndInv(o)'
  BY <1>1, <1>2, <1>3, <1>4, <1>5, <1>7 DEF EndInv, Proper
<1>9. Shape'
  BY <1>2, <1>3 DEF Shape, Places, Proper
<1> QED
  BY <1>3, <1>6, <1>8, <1>9, BothEnds

(* The other's Hello is the frame that e reads, since it awaits it. *)
LEMMA MeetKeeps ==
  ASSUME HandshakeInv, ~ line.echo, NEW e \in Ends, Meet(e)
  PROVE  HandshakeInv'
<1> DEFINE o == Other(e)
           fault == HelloFault(e, Hello(o))
<1>1. o \in Ends /\ o # e /\ Other(o) = e
  BY TwoEnds
<1>2. MailInv(e) /\ EndInv(e) /\ MailInv(o) /\ EndInv(o) /\ Shape
  BY <1>1 DEF HandshakeInv
<1>3. place[e] = "hello" /\ mail[o] # <<>> /\ UNCHANGED <<line, keys>>
  BY DEF Meet
<1>4. mail[o] \in {<<Hello(o)>>, <<Hello(o), Auth(o, Common)>>} /\ place[o] # "new"
  BY <1>1, <1>2, <1>3 DEF MailInv
<1>5. /\ Head(mail[o]) = Hello(o)
      /\ Tail(mail[o]) = <<>> \/ (agreed[o] = Common /\ Tail(mail[o]) = <<Auth(o, Common)>>)
  <2>1. CASE mail[o] = <<Hello(o)>>
    BY <2>1, ShortSequences
  <2>2. CASE mail[o] = <<Hello(o), Auth(o, Common)>>
    <3>1. agreed[o] = Common
      BY <1>2, <2>2, ShortSequences DEF MailInv
    <3> QED
      BY <2>2, <3>1, ShortSequences
  <2> QED
    BY <1>4, <2>1, <2>2
<1>6. /\ fault \in {"version", "malformed", "none"}
      /\ line.version[e] = line.version[o] /\ line.formed[o] => fault = "none"
      /\ Transcript(e, Hello(o)) = Common
  BY MeetsOther
<1>7. UNCHANGED <<Hello(e), Hello(o), Common, Auth(e, Common), Auth(o, Common)>>
  BY <1>3 DEF Hello, Auth, Common
<1> HIDE DEF fault
<1>8. CASE fault # "none"
  <2>1. /\ place' = [place EXCEPT ![e] = fault] /\ mail' = [mail EXCEPT ![o] = Tail(@)]
        /\ UNCHANGED agreed
    BY <1>5, <1>8 DEF Meet, GoesTo, fault
  <2>2. Shape' /\ place'[e] = fault /\ place'[o] = place[o] /\ mail'[o] = Tail(mail[o]) /\ mail'[e] = mail[e]
    <3>1. fault \in Places
      BY <1>6, <1>8, Zenon DEF Places, Proper
    <3> QED
      BY <1>1, <1>2, <1>3, <2>1, <3>1 DEF Shape
  <2>3. MailInv(e)' /\ MailInv(o)'
    BY <1>1, <1>2, <1>3, <1>4, <1>5, <1>6, <1>7, <1>8, <2>1, <2>2, Zenon DEF MailInv
  <2>4. UNCHANGED <<KeysOf(e, line.node[o]), KeysOf(o, line.node[e])>>
    BY <1>3, <2>1, Zenon DEF KeysOf, TrafficKey, Secret
  <2>5. EndInv(e)' /\ EndInv(o)'
    BY <1>1, <1>2, <1>3, <1>6, <1>7, <1>8, <2>1, <2>2, <2>4, Zenon DEF EndInv, Proper
  <2> QED
    BY <1>3, <2>2, <2>3, <2>5, BothEnds
<1>9. CASE fault = "none"
  <2>1. /\ place' = [place EXCEPT ![e] = "auth"]
        /\ mail' = [[mail EXCEPT ![o] = Tail(@)] EXCEPT ![e] = Append(@, Auth(e, Common))]
        /\ agreed' = [agreed EXCEPT ![e] = Common]
    BY <1>5, <1>6, <1>9 DEF Meet, GoesTo, fault
  <2>2. /\ Shape' /\ place'[e] = "auth" /\ place'[o] = place[o]
        /\ mail'[o] = Tail(mail[o]) /\ mail'[e] = Append(mail[e], Auth(e, Common))
        /\ agreed'[e] = Common /\ agreed'[o] = agreed[o]
    BY <1>1, <1>2, <1>3, <2>1 DEF Shape, Places, Proper
  <2>3. mail'[e] \in {<<Hello(e), Auth(e, Common)>>, <<Auth(e, Common)>>}
    <3>1. mail[e] = <<>> \/ mail[e] = <<Hello(e)>>
      BY <1>2, <1>3, HelloIsNoAuth, Zenon DEF MailInv, EndInv
    <3> QED
      BY <2>2, <3>1, ShortSequences, ZenonT(60)
  <2>4. MailInv(e)'
    BY <1>1, <1>2, <1>3, <1>4, <1>7, <2>2, <2>3, ShortSequences, HelloIsNoAuth, SMTT(60) DEF MailInv
  <2>5. MailInv(o)'
    BY <1>1, <1>2, <1>3, <1>4, <1>5, <1>7, <2>2 DEF MailInv
  <2>6. UNCHANGED KeysOf(o, line.node[e])
    BY <1>1, <1>3, <2>2, Zenon DEF KeysOf, TrafficKey, Secret
  <2>7. EndInv(e)' /\ EndInv(o)'
    BY <1>1, <1>2, <1>3, <1>6, <1>7, <1>9, <2>2, <2>6, Zenon DEF EndInv, Proper
  <2> QED
    BY <1>3, <2>2, <2>4, <2>5, <2>7, BothEnds, Zenon
<1> QED
  BY <1>8, <1>9

(* The other's signature is the frame that e reads. *)
LEMMA SettleKeeps ==
  ASSUME HandshakeInv, ~ line.echo, NEW e \in Ends, Settle(e)
  PROVE  HandshakeInv'
<1> DEFINE o == Other(e)
           m == Auth(o, Common)
           fault == AuthFault(e, m)
<1>1. o \in Ends /\ o # e /\ Other(o) = e
  BY TwoEnds
<1>2. MailInv(e) /\ EndInv(e) /\ MailInv(o) /\ EndInv(o) /\ Shape
  BY <1>1 DEF HandshakeInv
<1>3. /\ place[e] = "auth" /\ mail[o] # <<>> /\ UNCHANGED <<line, agreed>>
      /\ mail' = [mail EXCEPT ![o] = Tail(@)]
  BY Zenon DEF Settle
<1>4. mail[o] = <<m>> /\ place[o] # "new" /\ agreed[e] = Common /\ agreed[o] = Common
  BY <1>1, <1>2, <1>3, ShortSequences, HelloIsNoAuth, SMTT(60) DEF MailInv, EndInv
<1>5. Head(mail[o]) = m /\ mail'[o] = <<>> /\ mail'[e] = mail[e]
  BY <1>1, <1>2, <1>3, <1>4, ShortSequences, Zenon DEF Shape
<1>6. /\ fault \in {"malformed", "myself", "signature", "none"}
      /\ fault = "none" => line.node[o] # line.node[e] /\ m.identity = line.node[o]
      /\ line.node[e] # line.node[o] /\ line.formed[o] /\ line.claim[o] = line.node[o] => fault = "none"
  BY <1>4, SettlesWithOther
<1>7. UNCHANGED <<Hello(e), Hello(o), Common, Auth(e, Common), Auth(o, Common)>>
  BY <1>3, Zenon DEF Hello, Auth, Common
<1>8. UNCHANGED <<KeysOf(e, line.node[o]), KeysOf(o, line.node[e])>>
  BY <1>3 DEF KeysOf, TrafficKey, Secret
<1> HIDE DEF fault, m
<1>9. CASE fault # "none"
  <2>1. place' = [place EXCEPT ![e] = fault] /\ UNCHANGED keys
    BY <1>5, <1>9 DEF Settle, GoesTo, fault
  <2>2. Shape' /\ place'[e] = fault /\ place'[o] = place[o]
    <3>1. fault \in Places
      BY <1>6, <1>9, Zenon DEF Places, Proper
    <3> QED
      BY <1>1, <1>2, <1>3, <2>1, <3>1 DEF Shape
  <2>3. MailInv(e)' /\ MailInv(o)'
    BY <1>1, <1>2, <1>3, <1>4, <1>5, <1>6, <1>7, <1>9, <2>2, Zenon DEF MailInv
  <2>4. EndInv(e)' /\ EndInv(o)'
    BY <1>1, <1>2, <1>3, <1>6, <1>7, <1>8, <1>9, <2>1, <2>2, Zenon DEF EndInv, Proper
  <2> QED
    BY <1>3, <2>2, <2>3, <2>4, BothEnds
<1>10. CASE fault = "none"
  <2>1. place' = [place EXCEPT ![e] = "open"] /\ keys' = [keys EXCEPT ![e] = KeysOf(e, line.node[o])]
    BY <1>5, <1>6, <1>10 DEF Settle, GoesTo, fault
  <2>2. /\ Shape' /\ place'[e] = "open" /\ place'[o] = place[o]
        /\ keys'[e] = KeysOf(e, line.node[o]) /\ keys'[o] = keys[o]
    BY <1>1, <1>2, <1>3, <2>1, Zenon DEF Shape, Places, Proper
  <2>3. MailInv(e)' /\ MailInv(o)'
    BY <1>1, <1>2, <1>3, <1>4, <1>5, <1>7, <2>2, Zenon DEF MailInv
  <2>4. EndInv(e)' /\ EndInv(o)'
    BY <1>1, <1>2, <1>3, <1>4, <1>6, <1>7, <1>8, <1>10, <2>2, Zenon DEF EndInv, Proper
  <2> QED
    BY <1>3, <2>2, <2>3, <2>4, BothEnds, Zenon
<1> QED
  BY <1>9, <1>10

(* Behind an echo nothing but the initiator's Hello goes round. *)
LEMMA EchoKeeps ==
  ASSUME HandshakeInv, line.echo, HandshakeStep
  PROVE  HandshakeInv'
<1> DEFINE i == "initiator"
           r == "responder"
           h == Hello(i)
<1>1. EchoInv /\ Shape /\ line \in Lines
  BY DEF HandshakeInv
<1>2. i \in Ends /\ r \in Ends /\ i # r /\ Other(i) = r /\ Other(r) = i
  BY DEF Ends, Other
<1>3. SUFFICES UNCHANGED line /\ Shape' /\ EchoInv'
  BY <1>1 DEF HandshakeInv
<1>4. \A e \in Ends : Greet(e) \/ Meet(e) \/ Settle(e) \/ GivesUp(e) => e = i
  BY <1>1, <1>2, Zenon DEF EchoInv, Greet, Meet, Settle, GivesUp, Begun, Ends
<1>5. UNCHANGED line /\ h' = h
  BY Zenon DEF HandshakeStep, Greet, Meet, Settle, GivesUp, Echo, Hello
<1> HIDE DEF h
<1>6. CASE Greet(i)
  <2>1. /\ place[i] = "new" /\ place' = [place EXCEPT ![i] = "hello"]
        /\ mail' = [mail EXCEPT ![i] = Append(@, h)] /\ UNCHANGED <<agreed, keys>>
    BY <1>6 DEF Greet, GoesTo, Write, h
  <2> QED
    BY <1>1, <1>2, <1>5, <2>1, ShortSequences, Zenon DEF EchoInv, Shape, Places, Proper, h
<1>7. CASE Meet(i)
  <2>1. HelloFault(i, h) \in {"malformed", "reflected"} /\ mail[r] = <<h>> /\ Head(mail[r]) = h
    <3>1. mail[r] = <<h>> /\ Head(mail[r]) = h
      BY <1>1, <1>2, <1>7, ShortSequences DEF EchoInv, Meet, h
    <3>2. h.version = line.version[i] /\ h.nonce = i
      BY DEF h, Hello
    <3> QED
      BY <3>1, <3>2, Zenon DEF HelloFault
  <2>2. /\ place' = [place EXCEPT ![i] = HelloFault(i, h)]
        /\ mail' = [mail EXCEPT ![r] = Tail(@)] /\ UNCHANGED <<agreed, keys>>
    BY <1>2, <1>7, <2>1, Zenon DEF Meet, GoesTo
  <2> QED
    BY <1>1, <1>2, <1>5, <2>1, <2>2, ShortSequences DEF EchoInv, Shape, Places, Proper, h
<1>8. CASE Settle(i)
  BY <1>1, <1>8 DEF EchoInv, Settle
<1>9. CASE GivesUp(i)
  <2>1. place[i] # "new" /\ place' = [place EXCEPT ![i] = "gone"] /\ UNCHANGED <<mail, agreed, keys>>
    BY <1>9 DEF GivesUp, GoesTo, Begun
  <2> QED
    BY <1>1, <1>2, <1>5, <2>1 DEF EchoInv, Shape, Places, Proper, h
<1>10. CASE Echo
  <2>1. /\ mail[i] = <<h>> /\ mail[r] = <<>> /\ UNCHANGED <<place, agreed, keys>>
        /\ mail' = [mail EXCEPT ![r] = Append(@, Head(mail[i])), ![i] = Tail(@)]
    BY <1>1, <1>10 DEF EchoInv, Echo, h
  <2>2. mail'[i] = <<>> /\ mail'[r] = <<h>> /\ DOMAIN mail' = Ends
    BY <1>1, <1>2, <2>1, ShortSequences DEF Shape
  <2> QED
    BY <1>1, <1>2, <1>5, <2>1, <2>2, ShortSequences DEF EchoInv, Shape, h
<1> QED
  BY <1>4, <1>6, <1>7, <1>8, <1>9, <1>10 DEF HandshakeStep

-----------------------------------------------------------------------------
(* Nothing has happened. *)
LEMMA HandshakeStarts == HandshakeInit => HandshakeInv
<1> SUFFICES ASSUME HandshakeInit PROVE HandshakeInv
  OBVIOUS
<1>1. line \in Lines /\ Shape
  BY DEF HandshakeInit, Shape, Places, Proper
<1>2. \A e \in Ends : /\ place[e] = "new" /\ place[Other(e)] = "new"
                      /\ mail[e] = <<>> /\ agreed[e] = <<>>
  BY TwoEnds DEF HandshakeInit
<1>3. EchoInv
  BY <1>2, ShortSequences, Zenon DEF EchoInv, Ends
<1>4. \A e \in Ends : MailInv(e) /\ EndInv(e)
  BY <1>2 DEF MailInv, EndInv, Proper
<1> QED
  BY <1>1, <1>3, <1>4 DEF HandshakeInv

(* Every step of the handshake keeps the invariant. *)
LEMMA HandshakeKeeps == HandshakeInv /\ [HandshakeStep]_handshake => HandshakeInv'
<1> SUFFICES ASSUME HandshakeInv, [HandshakeStep]_handshake PROVE HandshakeInv'
  OBVIOUS
<1>1. CASE line.echo /\ HandshakeStep
  BY <1>1, EchoKeeps
<1>2. CASE ~ line.echo /\ HandshakeStep
  <2>1. \E e \in Ends : Greet(e) \/ Meet(e) \/ Settle(e) \/ GivesUp(e)
    BY <1>2 DEF HandshakeStep, Echo
  <2> QED
    BY <1>2, <2>1, GreetKeeps, MeetKeeps, SettleKeeps, GivesUpKeeps
<1>3. CASE UNCHANGED handshake
  <2>1. UNCHANGED <<line, place, mail, agreed, keys>>
    BY <1>3 DEF handshake
  <2>2. \A e : UNCHANGED Hello(e)
    BY <2>1 DEF Hello
  <2>3. UNCHANGED Common
    BY <2>2 DEF Common
  <2>4. \A e : UNCHANGED Auth(e, Common)
    BY <2>1, <2>3 DEF Auth
  <2>5. \A e : UNCHANGED KeysOf(e, line.node[Other(e)])
    BY <2>1 DEF KeysOf, TrafficKey, Secret, Keyed
  <2>6. UNCHANGED <<Shape, EchoInv>>
    BY <2>1, <2>2, Zenon DEF Shape, EchoInv
  <2>7. \A e : UNCHANGED MailInv(e)
    BY <2>1, <2>2, <2>3, <2>4 DEF MailInv
  <2>8. \A e : UNCHANGED EndInv(e)
    BY <2>1, <2>3, <2>5 DEF EndInv
  <2> QED
    BY <2>1, <2>6, <2>7, <2>8 DEF HandshakeInv
<1> QED
  BY <1>1, <1>2, <1>3

(* What the invariant says of the ends that have completed. *)
LEMMA HandshakeConcludes == HandshakeInv => HandshakeAgrees
<1> SUFFICES ASSUME HandshakeInv PROVE HandshakeAgrees
  OBVIOUS
<1>1. CASE line.echo
  BY <1>1, TwoEnds, Zenon DEF HandshakeInv, EchoInv, HandshakeAgrees, Ends
<1>2. CASE ~ line.echo
  <2> SUFFICES ASSUME NEW e \in Ends
               PROVE  /\ place[e] = "open" =>
                           /\ keys[e].peer = line.node[Other(e)] /\ keys[e].peer # line.node[e]
                           /\ agreed[Other(e)] = agreed[e]
                           /\ keys[e].send # keys[e].recv
                           /\ place[Other(e)] = "open" => keys[e].send = keys[Other(e)].recv
                      /\ line.node[e] # line.node[Other(e)] /\ line.version[e] = line.version[Other(e)]
                           /\ line.formed[Other(e)] /\ line.claim[Other(e)] = line.node[Other(e)] =>
                           place[e] \in Proper
    BY <1>2 DEF HandshakeAgrees, Proper
  <2>1. EndInv(e) /\ EndInv(Other(e)) /\ Other(Other(e)) = e
    BY <1>2, TwoEnds DEF HandshakeInv
  <2>2. ASSUME place[e] = "open"
        PROVE  /\ keys[e].peer = line.node[Other(e)] /\ keys[e].peer # line.node[e]
               /\ agreed[Other(e)] = agreed[e]
               /\ keys[e].send # keys[e].recv
    <3>1. keys[e] = KeysOf(e, line.node[Other(e)]) /\ agreed[e] = Common /\ agreed[Other(e)] = Common
          /\ line.node[Other(e)] # line.node[e]
      BY <2>1, <2>2 DEF EndInv
    <3>2. TrafficKey(e, "a") # TrafficKey(e, "b")
      BY DEF TrafficKey
    <3> QED
      BY <3>1, <3>2 DEF KeysOf, Keyed
  <2>3. ASSUME place[e] = "open", place[Other(e)] = "open"
        PROVE  keys[e].send = keys[Other(e)].recv
    <3> DEFINE o == Other(e)
    <3>1. /\ keys[e] = KeysOf(e, line.node[o]) /\ agreed[e] = Common
          /\ keys[o] = KeysOf(o, line.node[e]) /\ agreed[o] = Common
      BY <2>1, <2>3, Zenon DEF EndInv
    <3>2. Common[1].eph = "initiator" /\ Common[2].eph = "responder"
      BY DEF Common, Hello
    <3>3. Secret(e) = {"initiator", "responder"} /\ Secret(o) = {"initiator", "responder"}
      BY <3>1, <3>2 DEF Secret, Ends, Other
    <3>4. TrafficKey(e, "a") = TrafficKey(o, "a") /\ TrafficKey(e, "b") = TrafficKey(o, "b")
      BY <3>1, <3>3 DEF TrafficKey
    <3> QED
      BY <3>1, <3>4, SMTT(60) DEF KeysOf, Keyed, Ends, Other
  <2> QED
    BY <2>1, <2>2, <2>3, Zenon DEF EndInv
<1> QED
  BY <1>1, <1>2

-----------------------------------------------------------------------------
(* The channel that it opens.                                              *)

(* The sender: its number stays within its epoch or at the end of it, and  *)
(* every encryption used the key of the epoch of its number, a number that *)
(* is behind _send_seq unless the write of it failed.                      *)
SenderType ==
  /\ from \in Ends /\ sent \in 0 .. MaxMessages /\ sendSeq \in Nat /\ sendEpoch \in Nat
  /\ due \in BOOLEAN /\ stopped \in BOOLEAN
Sealing == [seq : Nat, key : Nat, base : {keys[from].send}, msg : 1 .. sent]
Used(x) ==
  /\ x \in Sealing
  /\ x.key = EpochFor(x.seq)
  /\ x.seq < sendSeq \/ (stopped /\ x.seq = sendSeq)
SenderInv ==
  /\ SenderType
  /\ sendEpoch * RekeyMessages <= sendSeq /\ sendSeq <= (sendEpoch + 1) * RekeyMessages
  /\ nonces # {} => place[from] = "open"
  /\ \A x \in nonces : Used(x)
  /\ \A x, y \in nonces : x.seq = y.seq \/ x.msg = y.msg => x = y

(* The wire: numbers grow and epochs by at most one from frame to frame,   *)
(* the first from epoch 0.                                                 *)
EpochAt(i) == IF i = 0 THEN 0 ELSE EpochFor(wire[i].seq)
WireInv ==
  /\ wire \in Seq(nonces)
  /\ \A i, j \in 1 .. Len(wire) : i < j => wire[i].seq < wire[j].seq
  /\ \A i \in 1 .. Len(wire) : EpochAt(i) \in {EpochAt(i - 1), EpochAt(i - 1) + 1}
  /\ ~ stopped => sendEpoch = EpochAt(Len(wire))

(* The receiver: the window is exact, what was delivered was accepted, and *)
(* in order it has accepted what it read and is in the epoch of that.      *)
Exact(w, acc) ==
  /\ w \in [seenAny : BOOLEAN, highest : Nat, bits : SUBSET (0 .. WindowSize - 1)]
  /\ acc \subseteq Nat
  /\ w.seenAny <=> acc # {}
  /\ \A s \in acc : s <= w.highest
  /\ w.seenAny => w.highest \in acc
  /\ w.bits = {b \in 0 .. WindowSize - 1 : w.highest - b \in acc /\ w.seenAny}
ReceiverInv ==
  /\ arrived \in Nat /\ inOrder \in BOOLEAN /\ recvEpoch \in Nat
  /\ delivered \in Seq(Nat) /\ failure \in {"none", "replay", "decryption"}
  /\ Exact(window, accepted)
  /\ \A k \in 1 .. Len(delivered) : \E x \in nonces : x.msg = delivered[k] /\ x.seq \in accepted
  /\ DeliveredOnce
  /\ inOrder =>
       /\ arrived <= Len(wire) /\ failure = "none" /\ recvEpoch = EpochAt(arrived)
       /\ accepted = {wire[i].seq : i \in 1 .. arrived}
       /\ delivered = [i \in 1 .. arrived |-> wire[i].msg]

ChannelInv == HandshakeInv /\ SenderInv /\ WireInv /\ ReceiverInv

-----------------------------------------------------------------------------
(* Operators of the model. *)

(* _epoch_for: the numbers of an epoch are those from its first on. *)
LEMMA EpochOf ==
  ASSUME NEW s \in Nat
  PROVE  /\ EpochFor(s) \in Nat
         /\ EpochFor(s) * RekeyMessages <= s /\ s < (EpochFor(s) + 1) * RekeyMessages
BY ChannelAssumption DEF EpochFor

(* What is on the wire was sealed by the sender. *)
LEMMA FrameOf ==
  ASSUME SenderInv, WireInv, NEW i \in 1 .. Len(wire)
  PROVE  /\ wire[i] \in nonces /\ Used(wire[i]) /\ wire[i].seq \in Nat /\ wire[i].msg \in Nat
         /\ ~ stopped => wire[i].seq < sendSeq
<1>1. wire[i] \in nonces /\ Used(wire[i])
  BY DEF WireInv, SenderInv
<1> QED
  BY <1>1 DEF Used, Sealing, SenderInv, SenderType

(* The number after the last one of an epoch begins the next. *)
LEMMA EpochIs ==
  ASSUME NEW s \in Nat, NEW q \in Nat, q * RekeyMessages <= s, s <= (q + 1) * RekeyMessages
  PROVE  EpochFor(s) = q \/ (EpochFor(s) = q + 1 /\ s = (q + 1) * RekeyMessages)
<1>1. RekeyMessages \in Nat \ {0}
  BY ChannelAssumption
<1>2. CASE s < (q + 1) * RekeyMessages
  BY <1>1, <1>2 DEF EpochFor
<1>3. CASE s = (q + 1) * RekeyMessages
  BY <1>1, <1>3 DEF EpochFor
<1> QED
  BY <1>1, <1>2, <1>3

(* The window lets no number through that it has let through before. *)
LEMMA FreshIsNew ==
  ASSUME NEW w, NEW acc, Exact(w, acc), NEW s \in Nat, Fresh(w, s)
  PROVE  s \notin acc
<1> SUFFICES ASSUME s \in acc PROVE FALSE
  OBVIOUS
<1>1. w.seenAny /\ s <= w.highest /\ w.highest \in Nat
  BY DEF Exact
<1>2. w.highest - s < WindowSize /\ w.highest - s \notin w.bits
  BY <1>1 DEF Fresh
<1>3. w.highest - s \in 0 .. WindowSize - 1 /\ w.highest - (w.highest - s) = s
  BY <1>1, <1>2, ChannelAssumption
<1> QED
  BY <1>1, <1>2, <1>3 DEF Exact

(* _mark_seen and the shift keep the window exact. *)
LEMMA UpdatedIsExact ==
  ASSUME NEW w, NEW acc, Exact(w, acc), NEW s \in Nat, Fresh(w, s)
  PROVE  Exact(Updated(w, s), acc \cup {s})
<1> DEFINE u == Updated(w, s)
           W == [seenAny : BOOLEAN, highest : Nat, bits : SUBSET (0 .. WindowSize - 1)]
<1>1. WindowSize \in Nat \ {0} /\ w \in W /\ w.highest \in Nat /\ acc \subseteq Nat
  BY ChannelAssumption DEF Exact
<1>2. CASE ~ w.seenAny
  <2>1. u = [seenAny |-> TRUE, highest |-> s, bits |-> {0}] /\ acc = {}
    BY <1>2 DEF Updated, Exact
  <2>2. {0} = {b \in 0 .. WindowSize - 1 : s - b \in {s}}
    BY <1>1
  <2>3. u \in W /\ u.seenAny /\ u.highest = s /\ u.bits = {0}
    BY <1>1, <2>1
  <2> QED
    BY <2>1, <2>2, <2>3 DEF Exact
<1>3. CASE w.seenAny /\ s > w.highest
  <2> DEFINE d == s - w.highest
  <2>1. /\ u = [w EXCEPT !.highest = s, !.bits = Slide(w.bits, d)] /\ d \in Nat \ {0}
        /\ \A a \in acc : a <= w.highest
    BY <1>1, <1>3 DEF Updated, Exact
  <2>2. Slide(w.bits, d) = {b \in 0 .. WindowSize - 1 : s - b \in acc \cup {s}}
    <3>1. \A b \in 0 .. WindowSize - 1 : b \in w.bits <=> w.highest - b \in acc
      BY <1>3 DEF Exact
    <3>2. ASSUME NEW b \in 0 .. WindowSize - 1, b # 0
          PROVE  b \in Slide(w.bits, d) <=> s - b \in acc
      <4>1. CASE d > b
        <5>1. s - b > w.highest
          BY <1>1, <2>1, <4>1
        <5>2. s - b \notin acc
          BY <1>1, <2>1, <5>1
        <5>3. b \notin {x + d : x \in w.bits}
          BY <1>1, <2>1, <4>1
        <5> QED
          BY <3>2, <5>2, <5>3 DEF Slide
      <4>2. CASE d <= b
        <5>1. b - d \in 0 .. WindowSize - 1 /\ w.highest - (b - d) = s - b /\ (b - d) + d = b
          BY <1>1, <2>1, <4>2
        <5>2. b \in {x + d : x \in w.bits} <=> b - d \in w.bits
          BY <1>1, <2>1, <5>1
        <5>3. ~ (d >= WindowSize) /\ b < WindowSize
          BY <1>1, <2>1, <4>2
        <5> QED
          BY <3>1, <3>2, <5>1, <5>2, <5>3 DEF Slide
      <4> QED
        BY <2>1, <4>1, <4>2
    <3>3. 0 \in Slide(w.bits, d) /\ s - 0 = s
      BY DEF Slide
    <3>4. Slide(w.bits, d) \subseteq 0 .. WindowSize - 1
      BY <1>1, <2>1 DEF Slide
    <3>5. \A b \in 0 .. WindowSize - 1 : b # 0 => s - b # s
      BY <1>1
    <3>6. 0 \in 0 .. WindowSize - 1
      BY <1>1
    <3> HIDE DEF d
    <3> QED
      BY <3>2, <3>3, <3>4, <3>5, <3>6
  <2>3. u \in W /\ u.seenAny /\ u.highest = s /\ u.bits = Slide(w.bits, d)
    BY <1>1, <1>3, <2>1, <2>2, Zenon
  <2>4. \A a \in acc \cup {s} : a <= s
    BY <1>1, <1>3, <2>1
  <2> QED
    BY <1>1, <2>2, <2>3, <2>4 DEF Exact
<1>4. CASE w.seenAny /\ ~ (s > w.highest)
  <2> DEFINE d == w.highest - s
  <2>1. u = [w EXCEPT !.bits = @ \cup {d}]
    BY <1>4 DEF Updated
  <2>2. d \in 0 .. WindowSize - 1
    BY <1>1, <1>4 DEF Fresh
  <2>3. \A b \in 0 .. WindowSize - 1 : w.highest - b = s <=> b = d
    BY <1>1
  <2>4. w.bits = {b \in 0 .. WindowSize - 1 : w.highest - b \in acc}
    BY <1>4 DEF Exact
  <2>5. w.bits \cup {d} = {b \in 0 .. WindowSize - 1 : w.highest - b \in acc \cup {s}}
    BY <2>2, <2>3, <2>4
  <2>6. u \in W /\ u.seenAny /\ u.highest = w.highest /\ u.bits = w.bits \cup {d}
    BY <1>1, <1>4, <2>1, <2>2
  <2>7. (\A a \in acc \cup {s} : a <= w.highest) /\ w.highest \in acc
    BY <1>1, <1>4 DEF Exact
  <2> QED
    BY <1>1, <2>5, <2>6, <2>7 DEF Exact
<1> QED
  BY <1>1, <1>2, <1>3, <1>4

-----------------------------------------------------------------------------
(* The sender. *)

(* The caller of an end that has opened keeps what it was given. *)
LEMMA OpenStays ==
  ASSUME Shape, HandshakeStep, NEW e \in Ends, place[e] = "open"
  PROVE  place'[e] = "open" /\ keys'[e] = keys[e]
<1>1. CASE Echo
  BY <1>1, Zenon DEF Echo
<1>2. ASSUME NEW x \in Ends, Greet(x) \/ Meet(x) \/ Settle(x) \/ GivesUp(x)
      PROVE  place'[e] = "open" /\ keys'[e] = keys[e]
  <2>1. x # e
    BY <1>2 DEF Greet, Meet, Settle, GivesUp, Begun
  <2>2. DOMAIN place = Ends /\ DOMAIN keys = Ends
    BY DEF Shape
  <2>3. CASE Greet(x)
    BY <2>1, <2>2, <2>3 DEF Greet, GoesTo
  <2>4. CASE Meet(x)
    BY <2>1, <2>2, <2>4 DEF Meet, GoesTo
  <2>5. CASE Settle(x)
    BY <2>1, <2>2, <2>5 DEF Settle, GoesTo
  <2>6. CASE GivesUp(x)
    BY <2>1, <2>2, <2>6 DEF GivesUp, GoesTo
  <2> QED
    BY <1>2, <2>3, <2>4, <2>5, <2>6, Zenon
<1> QED
  BY <1>1, <1>2 DEF HandshakeStep

(* The frame that send() makes: its number is not behind _send_seq, and it *)
(* is encrypted with the key of its epoch, which is the current or the     *)
(* next one.                                                               *)
LEMMA FrameMade ==
  ASSUME SenderInv, Encrypt(NextSeq)
  PROVE  /\ NextSeq \in Nat /\ sendSeq <= NextSeq
         /\ EpochFor(NextSeq) \in Nat
         /\ EpochFor(NextSeq) \in {sendEpoch, sendEpoch + 1}
         /\ sendEpoch' = EpochFor(NextSeq)
         /\ sendEpoch' * RekeyMessages <= NextSeq /\ NextSeq < (sendEpoch' + 1) * RekeyMessages
         /\ Sealed(NextSeq) = [seq |-> NextSeq, key |-> EpochFor(NextSeq),
                               base |-> keys[from].send, msg |-> sent + 1]
<1> DEFINE s == NextSeq
           b == (sendEpoch + 1) * RekeyMessages
<1>1. /\ sendSeq \in Nat /\ sendEpoch \in Nat /\ RekeyMessages \in Nat \ {0}
      /\ sendEpoch * RekeyMessages <= sendSeq /\ sendSeq <= b
  BY ChannelAssumption DEF SenderInv, SenderType
<1>2. b \in Nat /\ sendEpoch * RekeyMessages <= b
  BY <1>1
<1>3. s = sendSeq \/ s = b
  BY DEF NextSeq
<1>4. s \in Nat /\ sendSeq <= s /\ s <= b /\ sendEpoch * RekeyMessages <= s
  BY <1>1, <1>2, <1>3
<1> HIDE DEF s, b
<1>5. EpochFor(s) \in Nat /\ EpochFor(s) * RekeyMessages <= s /\ s < (EpochFor(s) + 1) * RekeyMessages
  BY <1>4, EpochOf
<1>6. EpochFor(s) \in {sendEpoch, sendEpoch + 1}
  BY <1>1, <1>4, EpochIs DEF b
<1>7. sendEpoch' = IF EpochFor(s) > sendEpoch THEN EpochFor(s) ELSE sendEpoch
  BY DEF Encrypt, s
<1>8. sendEpoch' = EpochFor(s)
  BY <1>1, <1>5, <1>6, <1>7
<1>9. Sealed(s) = [seq |-> s, key |-> EpochFor(s), base |-> keys[from].send, msg |-> sent + 1]
  BY <1>8 DEF Sealed
<1> QED
  BY <1>4, <1>5, <1>6, <1>8, <1>9 DEF s

(* Encrypting keeps what is known of the sender, whether the write then    *)
(* succeeds and _send_seq moves past the number, or fails and the          *)
(* multiplexer stops.                                                      *)
LEMMA EncryptKeeps ==
  ASSUME SenderInv, Encrypt(NextSeq), UNCHANGED <<handshake, from>>,
         \/ sendSeq' = NextSeq + 1 /\ UNCHANGED stopped
         \/ sendSeq' = NextSeq /\ stopped' = TRUE
  PROVE  SenderInv'
<1> PICK s : s = NextSeq
  OBVIOUS
<1> PICK f : f = Sealed(s)
  OBVIOUS
<1>1. /\ s \in Nat /\ sendSeq <= s /\ EpochFor(s) \in Nat /\ sendEpoch' = EpochFor(s)
      /\ sendEpoch' * RekeyMessages <= s /\ s < (sendEpoch' + 1) * RekeyMessages
      /\ f = [seq |-> s, key |-> EpochFor(s), base |-> keys[from].send, msg |-> sent + 1]
  BY FrameMade
<1>2. /\ place[from] = "open" /\ sent < MaxMessages /\ ~ stopped /\ sent' = sent + 1
      /\ due' = (due /\ EpochFor(s) = sendEpoch) /\ nonces' = nonces \cup {f}
  BY DEF Encrypt
<1>3. UNCHANGED <<place, keys, from>>
  BY DEF handshake
<1>4. SenderType /\ sendSeq \in Nat /\ sent \in Nat /\ MaxMessages \in Nat /\ RekeyMessages \in Nat
  BY ChannelAssumption DEF SenderInv, SenderType
<1>5. sendSeq' = s + 1 \/ (sendSeq' = s /\ stopped')
  BY Zenon
<1>6. SenderType'
  <2>1. sent' \in 0 .. MaxMessages
    BY <1>2, <1>4
  <2>2. stopped' \in BOOLEAN /\ due' \in BOOLEAN
    BY <1>2, <1>4, Zenon DEF SenderType
  <2> QED
    BY <1>1, <1>3, <1>4, <1>5, <2>1, <2>2 DEF SenderType
<1>7. sendEpoch' * RekeyMessages <= sendSeq' /\ sendSeq' <= (sendEpoch' + 1) * RekeyMessages
  <2>1. sendEpoch' * RekeyMessages \in Int /\ (sendEpoch' + 1) * RekeyMessages \in Int
    BY <1>1, <1>4
  <2> QED
    BY <1>1, <1>5, <2>1
<1>8. ASSUME NEW x \in nonces
      PROVE  Used(x)' /\ x.seq < s /\ x.seq # f.seq /\ x.msg # f.msg
  <2>1. Used(x) /\ x.seq \in Nat /\ x.msg \in 1 .. sent /\ x \in Sealing
    BY <1>8, Zenon DEF SenderInv, Used, Sealing
  <2>2. x.seq < s
    BY <1>1, <1>2, <1>4, <2>1 DEF Used
  <2>3. x \in Sealing'
    BY <1>2, <1>3, <1>4, <2>1 DEF Sealing
  <2> QED
    BY <1>1, <1>4, <1>5, <2>1, <2>2, <2>3 DEF Used, EpochFor
<1>9. Used(f)'
  <2>1. f \in Sealing' /\ f.seq = s /\ f.key = EpochFor(s)
    BY <1>1, <1>2, <1>3, <1>4 DEF Sealing
  <2> QED
    BY <1>1, <1>5, <2>1 DEF Used, EpochFor
<1>10. nonces' # {} => place'[from'] = "open"
  BY <1>2, <1>3
<1>11. \A x, y \in nonces' : x.seq = y.seq \/ x.msg = y.msg => x = y
  BY <1>2, <1>8 DEF SenderInv
<1> QED
  BY <1>2, <1>6, <1>7, <1>8, <1>9, <1>10, <1>11 DEF SenderInv

(* The frame goes out behind the others, in the same epoch or the next. *)
LEMMA WriteKeeps ==
  ASSUME SenderInv, WireInv, Encrypt(NextSeq),
         \/ wire' = Append(wire, Sealed(NextSeq))
         \/ wire' = wire /\ stopped'
  PROVE  /\ WireInv'
         /\ Len(wire) <= Len(wire') /\ \A i \in 1 .. Len(wire) : wire'[i] = wire[i]
<1> PICK s : s = NextSeq
  OBVIOUS
<1> PICK f : f = Sealed(s)
  OBVIOUS
<1>1. /\ s \in Nat /\ sendSeq <= s /\ EpochFor(s) \in {sendEpoch, sendEpoch + 1}
      /\ sendEpoch' = EpochFor(s) /\ f.seq = s
  BY FrameMade
<1>2. ~ stopped /\ nonces' = nonces \cup {f}
  BY DEF Encrypt
<1>3. wire \in Seq(nonces) /\ Len(wire) \in Nat
  BY DEF WireInv
<1>4. CASE wire' = wire /\ stopped'
  <2>1. wire' \in Seq(nonces')
    BY <1>2, <1>3, <1>4
  <2> QED
    BY <1>3, <1>4, <2>1 DEF WireInv, EpochAt, EpochFor
<1>5. CASE wire' = Append(wire, f)
  <2> PICK n \in Nat : n = Len(wire)
    BY <1>3
  <2>1. /\ wire' \in Seq(nonces') /\ Len(wire') = n + 1 /\ wire'[n + 1] = f
        /\ \A i \in 1 .. n : wire'[i] = wire[i]
    BY <1>2, <1>3, <1>5
  <2>2. \A i \in 1 .. n : wire[i].seq \in Nat /\ wire[i].seq < s
    <3>1. \A i \in 1 .. n : wire[i].seq \in Nat /\ wire[i].seq < sendSeq
      BY <1>2, FrameOf, Zenon
    <3>2. sendSeq \in Nat
      BY Zenon DEF SenderInv, SenderType
    <3> QED
      BY <1>1, <3>1, <3>2
  <2>3. ASSUME NEW i \in 1 .. n + 1, NEW j \in 1 .. n + 1, i < j
        PROVE  wire'[i].seq < wire'[j].seq
    <3>1. i \in 1 .. n /\ (j = n + 1 \/ j \in 1 .. n)
      BY <2>3
    <3> QED
      BY <1>1, <2>1, <2>2, <2>3, <3>1 DEF WireInv
  <2>4. \A i \in 0 .. n : EpochAt(i)' = EpochAt(i)
    BY <2>1 DEF EpochAt, EpochFor
  <2>5. EpochAt(n + 1)' = EpochFor(s) /\ EpochAt(n) = sendEpoch
    BY <1>1, <1>2, <2>1 DEF EpochAt, EpochFor, WireInv
  <2>6. ASSUME NEW i \in 1 .. n + 1
        PROVE  EpochAt(i)' \in {EpochAt(i - 1)', EpochAt(i - 1)' + 1}
    <3>1. CASE i = n + 1
      <4>1. i - 1 = n /\ n \in 0 .. n
        BY <3>1
      <4> QED
        BY <1>1, <2>4, <2>5, <3>1, <4>1
    <3>2. CASE i \in 1 .. n
      <4>1. i - 1 \in 0 .. n /\ i \in 0 .. n
        BY <3>2
      <4>2. EpochAt(i) \in {EpochAt(i - 1), EpochAt(i - 1) + 1}
        BY <3>2 DEF WireInv
      <4> QED
        BY <2>4, <4>1, <4>2
    <3> QED
      BY <2>6, <3>1, <3>2
  <2>7. sendEpoch' = EpochAt(n + 1)'
    BY <1>1, <2>5, Zenon
  <2>8. WireInv'
    BY <2>1, <2>3, <2>6, <2>7, Zenon DEF WireInv
  <2> QED
    BY <2>1, <2>8
<1> QED
  BY <1>4, <1>5

-----------------------------------------------------------------------------
(* The receiver. *)

(* What the sender does later changes nothing for the receiver. *)
LEMMA ReceiverUndisturbed ==
  ASSUME ReceiverInv, UNCHANGED receiver, WireInv, nonces \subseteq nonces', Len(wire') \in Nat,
         Len(wire) <= Len(wire'), \A i \in 1 .. Len(wire) : wire'[i] = wire[i]
  PROVE  ReceiverInv'
<1>1. UNCHANGED <<arrived, inOrder, window, recvEpoch, delivered, failure, accepted>>
  BY Zenon DEF receiver
<1>2. /\ \A k \in 1 .. Len(delivered') :
           \E x \in nonces' : x.msg = delivered'[k] /\ x.seq \in accepted'
      /\ DeliveredOnce'
  BY <1>1 DEF ReceiverInv, DeliveredOnce
<1>3. Exact(window, accepted)'
  BY <1>1 DEF ReceiverInv, Exact
<1>4. ASSUME inOrder
      PROVE  /\ arrived <= Len(wire') /\ recvEpoch = EpochAt(arrived)'
             /\ accepted = {wire'[i].seq : i \in 1 .. arrived}
             /\ delivered = [i \in 1 .. arrived |-> wire'[i].msg]
  <2>1. arrived \in Nat /\ arrived <= Len(wire) /\ Len(wire) \in Nat
    BY <1>4 DEF ReceiverInv, WireInv
  <2>2. \A i \in 1 .. arrived : wire'[i] = wire[i]
    BY <2>1
  <2>3. EpochAt(arrived)' = EpochAt(arrived)
    BY <1>1, <2>1, <2>2 DEF EpochAt, EpochFor
  <2>4. {wire'[i].seq : i \in 1 .. arrived} = {wire[i].seq : i \in 1 .. arrived}
    BY <2>2
  <2>5. [i \in 1 .. arrived |-> wire'[i].msg] = [i \in 1 .. arrived |-> wire[i].msg]
    BY <2>2
  <2>6. arrived <= Len(wire')
    BY <2>1
  <2> QED
    BY <1>4, <2>3, <2>4, <2>5, <2>6, Zenon DEF ReceiverInv
<1> QED
  BY <1>1, <1>2, <1>3, <1>4, Zenon DEF ReceiverInv

(* A frame read in order has the next number and an epoch that the         *)
(* receiver can reach, and was encrypted with the key it decrypts with.    *)
LEMMA NextInOrder ==
  ASSUME ChannelInv, inOrder, arrived + 1 <= Len(wire), place[Other(from)] = "open"
  PROVE  LET f == wire[arrived + 1]
         IN  /\ Fresh(window, f.seq)
             /\ EpochFor(f.seq) \in {recvEpoch, recvEpoch + 1} /\ recvEpoch \in Nat
             /\ f.key = EpochFor(f.seq) /\ f.base = keys[Other(from)].recv
<1> DEFINE n == arrived + 1
           f == wire[n]
<1>1. n \in 1 .. Len(wire) /\ arrived \in Nat /\ n - 1 = arrived /\ n # 0
  BY DEF ChannelInv, ReceiverInv, WireInv
<1>2. f \in nonces /\ Used(f) /\ f.seq \in Nat
  BY <1>1 DEF ChannelInv, WireInv, SenderInv, Used, Sealing
<1>3. Fresh(window, f.seq)
  <2>1. accepted = {wire[i].seq : i \in 1 .. arrived} /\ Exact(window, accepted)
    BY DEF ChannelInv, ReceiverInv
  <2>2. \A a \in accepted : a < f.seq
    BY <1>1, <2>1 DEF ChannelInv, WireInv
  <2>3. CASE window.seenAny
    <3>1. window.highest \in accepted /\ window.highest \in Nat
      BY <2>1, <2>3 DEF Exact
    <3>2. f.seq > window.highest
      BY <1>2, <2>2, <3>1
    <3> QED
      BY <3>2 DEF Fresh
  <2>4. CASE ~ window.seenAny
    BY <2>4 DEF Fresh
  <2> QED
    BY <2>3, <2>4
<1>4. EpochFor(f.seq) \in {recvEpoch, recvEpoch + 1} /\ recvEpoch \in Nat
  <2>1. recvEpoch = EpochAt(arrived) /\ recvEpoch \in Nat
    BY DEF ChannelInv, ReceiverInv
  <2>2. EpochAt(n) \in {EpochAt(n - 1), EpochAt(n - 1) + 1}
    BY <1>1 DEF ChannelInv, WireInv
  <2>3. EpochAt(n) = EpochFor(f.seq)
    BY <1>1 DEF EpochAt
  <2> QED
    BY <1>1, <2>1, <2>2, <2>3
<1>5. f.base = keys[Other(from)].recv
  <2>1. from \in Ends /\ place[from] = "open"
    BY <1>2, Zenon DEF ChannelInv, SenderInv, SenderType
  <2>2. keys[from].send = keys[Other(from)].recv
    BY <2>1, HandshakeConcludes DEF ChannelInv, HandshakeAgrees
  <2> QED
    BY <1>2, <2>2 DEF Used, Sealing
<1> QED
  BY <1>2, <1>3, <1>4, <1>5, Zenon DEF Used

(* recv() keeps all of it, whichever frame it reads. *)
LEMMA RecvKeeps ==
  ASSUME ChannelInv, Recv
  PROVE  ChannelInv'
<1>1. PICK n \in 1 .. Len(wire) :
        /\ arrived' = IF inOrder THEN arrived + 1 ELSE arrived
        /\ inOrder' = (inOrder /\ n = arrived + 1)
        /\ Receive(wire[n])
  BY DEF Recv
<1> PICK f : f = wire[n]
  OBVIOUS
<1>2. /\ failure = "none" /\ place[Other(from)] = "open"
      /\ UNCHANGED <<line, place, mail, agreed, keys, from, sent, sendSeq, sendEpoch, due, stopped, wire, nonces>>
  BY DEF Recv, handshake, sender
<1>3. f \in nonces /\ Used(f) /\ f.seq \in Nat /\ f.msg \in Nat /\ EpochFor(f.seq) \in Nat
  <2>1. f \in nonces /\ Used(f) /\ f.seq \in Nat /\ f.msg \in Nat
    BY FrameOf, Zenon DEF ChannelInv
  <2> QED
    BY <2>1, EpochOf, Zenon
<1>4. HandshakeInv'
  BY <1>2, HandshakeKeeps DEF ChannelInv, handshake
<1>5. SenderInv' /\ WireInv'
  BY <1>2, Zenon DEF ChannelInv, SenderInv, SenderType, Used, Sealing, WireInv, EpochAt, EpochFor
<1>6. /\ arrived' \in Nat /\ inOrder' \in BOOLEAN /\ arrived \in Nat /\ inOrder \in BOOLEAN
      /\ recvEpoch \in Nat /\ delivered \in Seq(Nat) /\ Exact(window, accepted) /\ DeliveredOnce
      /\ \A k \in 1 .. Len(delivered) : \E x \in nonces : x.msg = delivered[k] /\ x.seq \in accepted
  BY <1>1 DEF ChannelInv, ReceiverInv
<1>7. ASSUME inOrder'
      PROVE  /\ Fresh(window, f.seq) /\ ~ (EpochFor(f.seq) < recvEpoch) /\ ~ (EpochFor(f.seq) - recvEpoch > MaxSkip)
             /\ f.key = EpochFor(f.seq) /\ f.base = keys[Other(from)].recv
             /\ inOrder /\ n = arrived + 1 /\ arrived' = n
  <2>1. inOrder /\ n = arrived + 1 /\ arrived' = n /\ n <= Len(wire)
    <3>1. inOrder /\ n = arrived + 1
      BY <1>1, <1>6, <1>7, Zenon
    <3>2. Len(wire) \in Nat
      BY DEF ChannelInv, WireInv
    <3> QED
      BY <1>1, <3>1, <3>2
  <2>2. /\ Fresh(window, f.seq) /\ EpochFor(f.seq) \in {recvEpoch, recvEpoch + 1}
        /\ f.key = EpochFor(f.seq) /\ f.base = keys[Other(from)].recv
    BY <1>2, <2>1, NextInOrder
  <2> QED
    BY <1>3, <1>6, <2>1, <2>2, ChannelAssumption
<1> DEFINE epoch == EpochFor(f.seq)
<1>8. CASE ~ Fresh(window, f.seq)
  <2>1. ~ inOrder' /\ UNCHANGED <<window, recvEpoch, delivered, failure, accepted>>
    BY <1>1, <1>7, <1>8 DEF Receive
  <2>2. Exact(window, accepted)' /\ DeliveredOnce'
    BY <1>6, <2>1, Zenon DEF Exact, DeliveredOnce
  <2>3. \A k \in 1 .. Len(delivered') : \E x \in nonces' : x.msg = delivered'[k] /\ x.seq \in accepted'
    BY <1>2, <1>6, <2>1, ZenonT(60)
  <2>4. ReceiverInv'
    BY <1>2, <1>6, <2>1, <2>2, <2>3, Zenon DEF ReceiverInv
  <2> QED
    BY <1>4, <1>5, <2>4, Zenon DEF ChannelInv
<1>9. CASE Fresh(window, f.seq)
  <2>1. /\ window' = Updated(window, f.seq) /\ accepted' = accepted \cup {f.seq}
    BY <1>1, <1>9, Zenon DEF Receive
  <2>2. f.seq \notin accepted /\ Exact(Updated(window, f.seq), accepted \cup {f.seq})
    BY <1>3, <1>6, <1>9, FreshIsNew, UpdatedIsExact, Zenon
  <2>3. Exact(window, accepted)'
    BY <2>1, <2>2, Zenon DEF Exact
  <2>4. \/ failure' \in {"replay", "decryption"} /\ delivered' = delivered /\ recvEpoch' \in {recvEpoch, epoch} /\ ~ inOrder'
        \/ failure' = failure /\ delivered' = Append(delivered, f.msg) /\ recvEpoch' = epoch
    BY <1>1, <1>7, <1>9, Zenon DEF Receive
  <2>5. CASE failure' \in {"replay", "decryption"} /\ delivered' = delivered /\ recvEpoch' \in {recvEpoch, epoch} /\ ~ inOrder'
    <3>1. \A k \in 1 .. Len(delivered') : \E x \in nonces' : x.msg = delivered'[k] /\ x.seq \in accepted'
      BY <1>2, <1>6, <2>1, <2>5, Zenon
    <3>2. DeliveredOnce'
      BY <1>6, <2>5, Zenon DEF DeliveredOnce
    <3>3. recvEpoch' \in Nat
      BY <1>3, <1>6, <2>5, Zenon
    <3>4. ReceiverInv'
      BY <1>6, <2>3, <2>5, <3>1, <3>2, <3>3, Zenon DEF ReceiverInv
    <3> QED
      BY <1>4, <1>5, <3>4 DEF ChannelInv
  <2>6. CASE failure' = failure /\ delivered' = Append(delivered, f.msg) /\ recvEpoch' = epoch
    <3> PICK m \in Nat : m = Len(delivered)
      BY <1>6
    <3>1. /\ delivered' \in Seq(Nat) /\ Len(delivered') = m + 1 /\ delivered'[m + 1] = f.msg
          /\ \A k \in 1 .. m : delivered'[k] = delivered[k]
      BY <1>3, <1>6, <2>6
    <3>2. \A k \in 1 .. m : delivered[k] # f.msg
      BY <1>3, <1>6, <2>2, SMTT(60) DEF ChannelInv, SenderInv
    <3>3. DeliveredOnce'
      <4> SUFFICES ASSUME NEW i \in 1 .. m + 1, NEW j \in 1 .. m + 1, delivered'[i] = delivered'[j]
                   PROVE  i = j
        BY <3>1 DEF DeliveredOnce
      <4>1. (i = m + 1 \/ i \in 1 .. m) /\ (j = m + 1 \/ j \in 1 .. m)
        OBVIOUS
      <4> QED
        BY <1>6, <3>1, <3>2, <4>1, Zenon DEF DeliveredOnce
    <3>4. \A k \in 1 .. m + 1 : \E x \in nonces' : x.msg = delivered'[k] /\ x.seq \in accepted'
      <4> SUFFICES ASSUME NEW k \in 1 .. m + 1
                   PROVE  \E x \in nonces' : x.msg = delivered'[k] /\ x.seq \in accepted'
        OBVIOUS
      <4>1. k = m + 1 \/ k \in 1 .. m
        OBVIOUS
      <4> QED
        BY <1>2, <1>3, <1>6, <2>1, <3>1, <4>1, Zenon
    <3>5. ASSUME inOrder'
          PROVE  /\ arrived' <= Len(wire') /\ failure' = "none" /\ recvEpoch' = EpochAt(arrived)'
                 /\ accepted' = {wire'[i].seq : i \in 1 .. arrived'}
                 /\ delivered' = [i \in 1 .. arrived' |-> wire'[i].msg]
      <4>1. /\ inOrder /\ n = arrived + 1 /\ arrived' = n /\ wire' = wire
            /\ accepted = {wire[i].seq : i \in 1 .. arrived}
            /\ delivered = [i \in 1 .. arrived |-> wire[i].msg]
        BY <1>2, <1>7, <3>5, ZenonT(60) DEF ChannelInv, ReceiverInv
      <4>2. 1 .. n = 1 .. arrived \cup {n} /\ arrived \in Nat /\ n # 0 /\ n <= Len(wire)
        BY <1>6, <4>1, SMTT(60) DEF ChannelInv, WireInv
      <4>3. accepted' = {wire[i].seq : i \in 1 .. n}
        BY <2>1, <4>1, <4>2
      <4>4. m = arrived
        BY <4>1, <4>2
      <4>5. delivered' = [i \in 1 .. n |-> wire[i].msg]
        <5>1. DOMAIN delivered' = 1 .. n
          BY <3>1, <4>1, <4>4
        <5>2. \A i \in 1 .. n : delivered'[i] = wire[i].msg
          BY <3>1, <4>1, <4>2, <4>4
        <5>3. delivered' = [i \in DOMAIN delivered' |-> delivered'[i]]
          BY <3>1
        <5> QED
          BY <5>1, <5>2, <5>3
      <4>6. EpochAt(arrived)' = epoch
        BY <4>1, <4>2, Zenon DEF EpochAt, EpochFor
      <4> QED
        BY <1>2, <2>6, <4>1, <4>2, <4>3, <4>5, <4>6
    <3>6. ReceiverInv'
      BY <1>2, <1>3, <1>6, <2>3, <2>6, <3>1, <3>3, <3>4, <3>5, ZenonT(60) DEF ReceiverInv
    <3> QED
      BY <1>4, <1>5, <3>6 DEF ChannelInv
  <2> QED
    BY <2>4, <2>5, <2>6
<1> QED
  BY <1>8, <1>9

-----------------------------------------------------------------------------
(* The whole. *)

(* The invariant holds at first ... *)
LEMMA ChannelStarts == Init => ChannelInv
<1> SUFFICES ASSUME Init PROVE ChannelInv
  OBVIOUS
<1>1. HandshakeInv
  BY HandshakeStarts DEF Init
<1>2. /\ from \in Ends /\ sent = 0 /\ sendSeq = 0 /\ sendEpoch = 0 /\ due = FALSE /\ stopped = FALSE
      /\ wire = <<>> /\ arrived = 0 /\ inOrder = TRUE /\ recvEpoch = 0 /\ delivered = <<>>
      /\ window = [seenAny |-> FALSE, highest |-> 0, bits |-> {}]
      /\ failure = "none" /\ accepted = {} /\ nonces = {}
  BY DEF Init
<1>3. SenderInv
  <2>1. 0 * RekeyMessages <= 0 /\ 0 <= (0 + 1) * RekeyMessages /\ 0 \in 0 .. MaxMessages
    BY ChannelAssumption
  <2> QED
    BY <1>2, <2>1, Zenon DEF SenderInv, SenderType
<1>4. WireInv
  BY <1>2 DEF WireInv, EpochAt
<1>5. Exact(window, accepted)
  BY <1>2 DEF Exact
<1>6. accepted = {wire[i].seq : i \in 1 .. arrived} /\ delivered = [i \in 1 .. arrived |-> wire[i].msg]
  BY <1>2
<1>7. ReceiverInv
  BY <1>2, <1>5, <1>6 DEF ReceiverInv, DeliveredOnce, EpochAt
<1> QED
  BY <1>1, <1>3, <1>4, <1>7 DEF ChannelInv

(* ... and every step keeps it. *)
LEMMA ChannelKeeps == ChannelInv /\ [Next]_vars => ChannelInv'
<1> SUFFICES ASSUME ChannelInv, [Next]_vars PROVE ChannelInv'
  OBVIOUS
<1> USE DEF ChannelInv
<1>1. ASSUME [HandshakeStep]_handshake, UNCHANGED <<from, sent, sendSeq, sendEpoch, stopped, wire, nonces, receiver>>,
             due' \in BOOLEAN
      PROVE  ChannelInv'
  <2>1. HandshakeInv'
    BY <1>1, HandshakeKeeps
  <2>2. from \in Ends /\ Shape
    BY Zenon DEF SenderInv, SenderType, HandshakeInv
  <2>3. nonces # {} => place'[from] = "open" /\ keys'[from] = keys[from]
    BY <1>1, <2>2, OpenStays, ZenonT(60) DEF SenderInv, handshake
  <2>4. \A x \in nonces : Used(x)'
    BY <1>1, <2>3 DEF SenderInv, Used, Sealing, EpochFor
  <2>5. SenderType'
    BY <1>1, Zenon DEF SenderInv, SenderType
  <2>6. SenderInv'
    BY <1>1, <2>3, <2>4, <2>5, Zenon DEF SenderInv
  <2>7. WireInv'
    BY <1>1, ZenonT(60) DEF WireInv, EpochAt, EpochFor
  <2>8. ReceiverInv'
    BY <1>1, ReceiverUndisturbed, SMTT(60) DEF WireInv
  <2> QED
    BY <2>1, <2>6, <2>7, <2>8
<1>2. CASE HandshakeStep /\ UNCHANGED <<from, sender, receiver>>
  BY <1>1, <1>2 DEF sender, SenderInv, SenderType
<1>3. CASE TimePasses
  BY <1>1, <1>3, ZenonT(60) DEF TimePasses
<1>4. CASE UNCHANGED vars
  BY <1>1, <1>4 DEF vars, sender, SenderInv, SenderType
<1>5. ASSUME Encrypt(NextSeq), UNCHANGED <<handshake, from, receiver>>,
             wire' = Append(wire, Sealed(NextSeq)) \/ (wire' = wire /\ stopped'),
             \/ sendSeq' = NextSeq + 1 /\ UNCHANGED stopped
             \/ sendSeq' = NextSeq /\ stopped' = TRUE
      PROVE  ChannelInv'
  <2>1. SenderInv'
    BY <1>5, EncryptKeeps, Zenon
  <2>2. WireInv' /\ Len(wire) <= Len(wire') /\ \A i \in 1 .. Len(wire) : wire'[i] = wire[i]
    BY <1>5, WriteKeeps, Zenon
  <2>3. nonces \subseteq nonces' /\ Len(wire') \in Nat
    BY <1>5, <2>2 DEF Encrypt, WireInv
  <2>4. ReceiverInv'
    BY <1>5, <2>2, <2>3, ReceiverUndisturbed
  <2>5. HandshakeInv'
    BY <1>5, HandshakeKeeps
  <2> QED
    BY <2>1, <2>2, <2>4, <2>5
<1>6. CASE Send
  BY <1>5, <1>6 DEF Send, After
<1>7. CASE SendFails
  BY <1>5, <1>7 DEF SendFails
<1>8. CASE Recv
  BY <1>8, RecvKeeps
<1> QED
  BY <1>2, <1>3, <1>4, <1>6, <1>7, <1>8 DEF Next

(* The invariant holds in every behaviour of the channel. *)
LEMMA ChannelAlways == Spec => []ChannelInv
<1> QED
  BY ChannelStarts, ChannelKeeps, PTL DEF Spec

(* The shape of the channel's state in every behaviour. *)
THEOREM ChannelTypes == Spec => []TypeOK
<1>1. ChannelInv => TypeOK
  <2> SUFFICES ASSUME ChannelInv PROVE TypeOK
    OBVIOUS
  <2>1. \A x \in nonces : x \in Frame
    <3> SUFFICES ASSUME NEW x \in nonces PROVE x \in Frame
      OBVIOUS
    <3>1. from \in Ends /\ place[from] = "open" /\ x \in Sealing /\ sent \in Nat
      BY DEF ChannelInv, SenderInv, SenderType, Used
    <3> QED
      BY <3>1 DEF Sealing, Frame
  <2>2. wire \in Seq(Frame)
    BY <2>1 DEF ChannelInv, WireInv
  <2>3. window \in [seenAny : BOOLEAN, highest : Nat, bits : SUBSET (0 .. WindowSize - 1)] /\ accepted \subseteq Nat
    BY DEF ChannelInv, ReceiverInv, Exact
  <2> QED
    BY <2>1, <2>2, <2>3 DEF ChannelInv, SenderInv, SenderType, ReceiverInv, TypeOK
<1> QED
  BY <1>1, ChannelAlways, PTL

(* perform_handshake: the ends that complete it have met each other, agree *)
(* on the transcript and hold each other's keys; proper nodes never turn   *)
(* each other away.  For every pair of peers in Lines.                     *)
THEOREM HandshakeSound == Spec => []HandshakeAgrees
<1>1. ChannelInv => HandshakeAgrees
  BY HandshakeConcludes, Zenon DEF ChannelInv
<1> QED
  BY <1>1, ChannelAlways, PTL

(* ReplayWindow remembers exactly which of the last WindowSize numbers     *)
(* were accepted, for every size.                                          *)
THEOREM WindowSound == Spec => []WindowExact
<1>1. ChannelInv => WindowExact
  BY DEF ChannelInv, ReceiverInv, Exact, WindowExact
<1> QED
  BY <1>1, ChannelAlways, PTL

(* recv() returns no message twice, however frames are repeated. *)
THEOREM NoReplay == Spec => []DeliveredOnce
<1>1. ChannelInv => DeliveredOnce
  BY DEF ChannelInv, ReceiverInv
<1> QED
  BY <1>1, ChannelAlways, PTL

(* send() uses no nonce twice under one key, through counted and timed     *)
(* rekeys and a failed write.                                              *)
THEOREM NoNonceReused == Spec => []NonceUnique
<1>1. ChannelInv => NonceUnique
  BY DEF ChannelInv, SenderInv, NonceUnique
<1> QED
  BY <1>1, ChannelAlways, PTL

(* Frames that arrive in order never fail and deliver what was sent: the   *)
(* receiver follows every rekey of the sender.                             *)
THEOREM RekeysInLockstep == Spec => []Lockstep
<1>1. ChannelInv => Lockstep
  BY DEF ChannelInv, ReceiverInv, Lockstep
<1> QED
  BY <1>1, ChannelAlways, PTL

=============================================================================
