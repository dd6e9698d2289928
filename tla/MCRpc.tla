-------------------------------- MODULE MCRpc --------------------------------
(* Instances of DemoClient, RpcServer and RpcPool for TLC. *)
EXTENDS DemoClient

(* One block is too large for JSON. *)
MCSize == [c \in Calls |-> IF c = "big" THEN 2 ELSE 1]
MCAdvertised == [p \in Peers |-> IF p = "p" THEN 2 ELSE 1]
MCDemoCalls == <<"d1", "d2", "d3", "d4", "d5">>

Conf(auth, token, codec, after, hasty) ==
  [auth |-> auth, token |-> token, codec |-> codec, after |-> after, hasty |-> hasty]
Json(after) == Conf(FALSE, "none", "json", after, FALSE)

StoreOf(k, dur) == Request("store", k, None, None, dur, TRUE)
LoadOf(k) == Request("load", k, None, None, "cache", TRUE)
At(name, k, id) == Request(name, k, id, "p", "pinned", FALSE)

(* A scenario: the peers connected, what happens to connections, and what  *)
(* is called and in which way, if it is.                                   *)
Users(ps, es, cs, qs, st) ==
  [connected |-> ps, churn |-> es,
   conf |-> [c \in Calls |-> IF c \in DOMAIN cs THEN cs[c] ELSE Json(None)],
   op |-> [c \in Calls |-> IF c \in DOMAIN qs THEN qs[c] ELSE NoRequest],
   stage |-> st]
Three(a, b, c) == [x \in {"c1", "c2", "c3"} |->
                     IF x = "c1" THEN a ELSE IF x = "c2" THEN b ELSE c]

(* Every kind of client, while another stores.                             *)
Sessions ==
  {Users(<<>>, {}, [c \in {"c1", "big"} |-> IF c = "c1" THEN cf ELSE [Json(None) EXCEPT !.codec = codec]],
                  [c \in {"c1", "big"} |-> IF c = "c1" THEN q ELSE StoreOf("k", "pinned")], "idle") :
     cf \in [auth : BOOLEAN, token : {"none", "right", "wrong"}, codec : {"json", "binary"},
             after : {None}, hasty : {TRUE}],
     codec \in {"json", "binary"}, q \in {StoreOf("k", "pinned"), LoadOf("k")}}

(* A key is stored twice and loaded, one after the other or not.           *)
Keys == {Users(<<"q", "p">>, n[1], Three(Json(None), Json("c1"), Json(n[3])),
               Three(StoreOf("k", n[2]), StoreOf("k", "pinned"), LoadOf("k")), "idle") :
           n \in {<<{"writer fails"}, "cache", "c1">>, <<{"disconnect"}, "pinned", "c2">>}}

(* Named blocks and peers.                                                 *)
ByName == {Users(<<"p">>, {"disconnect", "connect"}, Three(Json(None), Json("c1"), Json("c1")),
                 Three(At("remote_store", "k", None), At(q, None, 1), r), "idle") :
             q \in {"remote_free", "free"},
             r \in {At("remote_load", "k", None), At("remote_load", None, 1), At("load", None, 1)}}

(* A large block, while its peer's connection is replaced or its writer    *)
(* fails.                                                                  *)
Large == {Users(<<"p">>, es, [c \in {"big", "c1"} |-> Conf(FALSE, "none", "binary", IF c = "c1" THEN "big" ELSE None, FALSE)],
                [c \in {"big", "c1"} |-> IF c = "big" THEN q ELSE At("remote_load", "k", None)], "idle") :
            es \in {{"disconnect", "connect"}, {"replace", "writer fails"}},
            q \in {StoreOf("k", "pinned"), At("remote_store", "k", None)}}

(* A transfer, after another client has stored here.                       *)
Transfer == {Users(<<"p">>, n[1], [c \in {"d1", "d3"} |-> [n[2] EXCEPT !.hasty = (c = "d3")]],
                   [c \in {"c1"} |-> Request("store", "k", None, None, "pinned", FALSE)], "upload") :
               n \in {<<{"disconnect"}, Json("c1")>>, <<{}, Conf(TRUE, "none", "json", None, FALSE)>>}}

MCStale == {s \in Keys : s.conf["c3"].after = "c2"}
MCScenarios == Sessions \cup Keys \cup ByName \cup Large \cup Transfer

=============================================================================
