------------------------------ MODULE RpcServer ------------------------------
(***************************************************************************)
(* A call of the local RPC, from the socket to the answer: the handler of  *)
(* a connection (RpcServer._authenticate and _handle_client of             *)
(* memnode/rpc.py, with rpcauth.py) and the command-line client at its     *)
(* other end (_authenticate and _call of memnode/cli.py), with RpcPool     *)
(* behind the handler.  A client makes one request on its connection.      *)
(*                                                                         *)
(* The two ends see the same bytes but may disagree on what they are: a    *)
(* client that has no token, or that stopped waiting for the challenge,    *)
(* speaks first, and the handler takes that for the answer to its          *)
(* challenge.  A frame is what its reader makes of it.                     *)
(***************************************************************************)
EXTENDS RpcPool

CONSTANT MaxMessage   \* config.MAX_RPC_MESSAGE_SIZE, in units

VARIABLES
  conf,     \* conf[c]: [auth, token, codec, after, hasty]: does the listener ask
            \* for a token, has the client one, which codec does it use, the
            \* call that its user awaits first, and may they interrupt this one
  cli,      \* where the client of c is
  srv,      \* where the handler of c's connection is
  toSrv,    \* frames on their way to the handler
  toCli,    \* frames on their way to the client
  outcome   \* what the client made of it

session == <<conf, cli, srv, toSrv, toCli, outcome>>
rpc == <<pool, session>>

(* A payload is raw in the binary codec and hexadecimal in JSON.           *)
Encoded(codec, n) == IF codec = "binary" THEN n ELSE 2 * n
TooLarge(c, n) == Encoded(conf[c].codec, n) > MaxMessage

ToServer(c, frame) == toSrv' = [toSrv EXCEPT ![c] = Append(@, frame)]
ToClient(c, frame) == toCli' = [toCli EXCEPT ![c] = IF cli[c] = "over" THEN @ ELSE Append(@, frame)]
Take(c) == toSrv[c] # <<>> /\ toSrv' = [toSrv EXCEPT ![c] = Tail(@)]
Read(c) == toCli[c] # <<>> /\ toCli' = [toCli EXCEPT ![c] = Tail(@)]
Client(c, place) == cli' = [cli EXCEPT ![c] = place]

(* A handler that is about to read closes at the end of file, which is     *)
(* where the client is gone and all that it sent has been read.            *)
Reads == {"challenged", "open", "reading"}
Server(c, place) ==
  srv' = [srv EXCEPT ![c] =
    IF place \in Reads /\ cli[c] = "over" /\ toSrv'[c] = <<>> THEN "closed" ELSE place]

-----------------------------------------------------------------------------
(* The client.                                                             *)

(* Once authenticated, or where it is not: the magic or the request.       *)
Speak(c) ==
  IF conf[c].codec = "binary" THEN ToServer(c, "magic") /\ Client(c, "acking")
  ELSE ToServer(c, "request") /\ Client(c, "waiting")

(* The end of a call; its socket is closed and nothing more is read.       *)
Ends(c, out) ==
  /\ Client(c, "over")
  /\ outcome' = [outcome EXCEPT ![c] = out]
  /\ toCli' = [toCli EXCEPT ![c] = <<>>]
  /\ srv' = [srv EXCEPT ![c] = IF @ \in Reads /\ toSrv[c] = <<>> THEN "closed" ELSE @]
  /\ UNCHANGED toSrv

Begin(c) ==
  /\ cli[c] = "new" /\ op[c] # NoRequest
  /\ conf[c].after # None => cli[conf[c].after] = "over"
  /\ IF conf[c].token = "none" THEN Speak(c) ELSE Client(c, "greeting") /\ UNCHANGED toSrv
  /\ Server(c, IF conf[c].auth THEN "accepting" ELSE "open")
  /\ UNCHANGED <<pool, conf, toCli, outcome>>

(* The challenge comes, or AUTH_PROBE_TIMEOUT is over first.               *)
Greeted(c) ==
  /\ cli[c] = "greeting"
  /\ Read(c)
  /\ ToServer(c, "proof") /\ Client(c, "proving")
  /\ UNCHANGED <<pool, conf, srv, outcome>>

ProbeTimesOut(c) ==
  /\ cli[c] = "greeting"
  /\ Speak(c)
  /\ UNCHANGED <<pool, conf, srv, toCli, outcome>>

Admitted(c) ==
  /\ cli[c] = "proving"
  /\ toCli[c] # <<>>
  /\ IF Head(toCli[c]) = "welcome" THEN Read(c) /\ Speak(c) /\ UNCHANGED <<srv, outcome>>
     ELSE Ends(c, Plain("denied"))
  /\ UNCHANGED <<pool, conf>>

(* A JSON frame is no msgpack.                                             *)
Acked(c) ==
  /\ cli[c] = "acking"
  /\ toCli[c] # <<>>
  /\ IF Head(toCli[c]) = "ack"
     THEN Read(c) /\ ToServer(c, "request") /\ Client(c, "waiting") /\ UNCHANGED <<srv, outcome>>
     ELSE Ends(c, Plain("garbled"))
  /\ UNCHANGED <<pool, conf>>

(* The first frame after the request is taken for the response, be it what *)
(* it may; one without "ok" is a failure.                                  *)
Understood(c, frame) ==
  CASE frame = "response" ->
         IF answer[c].out = "data" /\ TooLarge(c, answer[c].val.len) THEN Plain("oversized") ELSE answer[c]
    [] frame = "ack" -> Plain("ok")
    [] frame = "challenge" -> Plain("unasked")
    [] OTHER -> Plain("failed")

Answered(c) ==
  /\ cli[c] = "waiting"
  /\ toCli[c] # <<>>
  /\ Ends(c, Understood(c, Head(toCli[c])))
  /\ UNCHANGED <<pool, conf>>

(* The connection ends under the client; what it had not read may be lost. *)
CutOff(c) ==
  /\ cli[c] \in {"greeting", "proving", "acking", "waiting"} /\ srv[c] = "closed"
  /\ Ends(c, Plain("closed"))
  /\ UNCHANGED <<pool, conf>>

Interrupted(c) ==
  /\ conf[c].hasty /\ cli[c] \in {"greeting", "proving", "acking", "waiting"}
  /\ Ends(c, Plain("interrupted"))
  /\ UNCHANGED <<pool, conf>>

-----------------------------------------------------------------------------
(* The handler of a connection.  writer.close() also drops what it has not *)
(* read.                                                                   *)

Close(c) == srv' = [srv EXCEPT ![c] = "closed"] /\ toSrv' = [toSrv EXCEPT ![c] = <<>>]

Challenge(c) ==
  /\ srv[c] = "accepting"
  /\ UNCHANGED <<pool, conf, cli, toSrv, outcome>>
  /\ ToClient(c, "challenge") /\ Server(c, "challenged")

(* verify_response, for what was read as the answer to the challenge.      *)
MutantVerified(c) == Head(toSrv[c]) = "proof"
Verified(c) == Head(toSrv[c]) = "proof" /\ conf[c].token = "right"

(* The magic, read as the length of a frame, is beyond every limit.        *)
Authenticate(c) ==
  /\ srv[c] = "challenged" /\ toSrv[c] # <<>>
  /\ CASE Verified(c) -> Take(c) /\ ToClient(c, "welcome") /\ Server(c, "open")
       [] Head(toSrv[c]) = "magic" -> Close(c) /\ UNCHANGED toCli
       [] OTHER -> ToClient(c, "denied") /\ Close(c)
  /\ UNCHANGED <<pool, conf, cli, outcome>>

(* RPC_AUTH_TIMEOUT_SECONDS are over. *)
AuthTimesOut(c) ==
  /\ srv[c] = "challenged"
  /\ Close(c)
  /\ UNCHANGED <<pool, conf, cli, toCli, outcome>>

(* The magic selects the binary codec, and is acknowledged in it.          *)
Negotiate(c) ==
  /\ srv[c] = "open" /\ toSrv[c] # <<>>
  /\ IF Head(toSrv[c]) = "magic" THEN Take(c) /\ ToClient(c, "ack")
     ELSE UNCHANGED <<toSrv, toCli>>
  /\ Server(c, "reading")
  /\ UNCHANGED <<pool, conf, cli, outcome>>

(* A request is read and dispatched.  One that is too large is refused and *)
(* the connection closed.                                                  *)
Handle(c) ==
  /\ srv[c] = "reading" /\ toSrv[c] # <<>>
  /\ IF op[c].op \in {"store", "remote_store"} /\ TooLarge(c, Size[c])
     THEN /\ ToClient(c, "refusal") /\ Close(c)
          /\ UNCHANGED pool
     ELSE /\ Take(c)
          /\ Dispatch(c) /\ Watch
          /\ Server(c, "handling")
          /\ UNCHANGED toCli
  /\ UNCHANGED <<conf, cli, outcome>>

Respond(c) ==
  /\ srv[c] = "handling" /\ work[c].at = "done"
  /\ UNCHANGED <<pool, conf, cli, toSrv, outcome>>
  /\ ToClient(c, "response") /\ Server(c, "reading")

-----------------------------------------------------------------------------
RpcInit ==
  /\ PoolInit
  /\ cli = [c \in Calls |-> "new"] /\ srv = [c \in Calls |-> "none"]
  /\ toSrv = [c \in Calls |-> <<>>] /\ toCli = [c \in Calls |-> <<>>]
  /\ outcome = [c \in Calls |-> Pending]

ClientStep(c) ==
  \/ Greeted(c) \/ ProbeTimesOut(c) \/ Admitted(c) \/ Acked(c) \/ Answered(c) \/ CutOff(c)
ServerStep(c) ==
  \/ Challenge(c) \/ Authenticate(c) \/ AuthTimesOut(c) \/ Negotiate(c)
  \/ Handle(c) \/ Respond(c)

RpcStep ==
  \/ \E c \in Calls : ClientStep(c) \/ ServerStep(c) \/ Interrupted(c)
  \/ PoolStep /\ Watch /\ UNCHANGED session

=============================================================================
