----------------------------- MODULE DemoClient ------------------------------
(***************************************************************************)
(* Transfers of demo/demo_client.py beside the calls of the command line:  *)
(* upload stores a file chunk by chunk, pinned, and keeps a manifest of    *)
(* where each went; cleanup frees what the manifest lists and then removes *)
(* it.  Each chunk is one call of RpcServer, made by a JSON client that    *)
(* has no token.  The program may be interrupted.                          *)
(***************************************************************************)
EXTENDS RpcServer

CONSTANTS
  Scenarios,  \* what there is to begin with, and what users do: the peers that
              \* are connected and how many come and go, a client and a request
              \* for each call, and whether there is a transfer
  DemoCalls,  \* the calls of the transfer, in the order they are made
  Chunks      \* the number of chunks of the file

ASSUME DemoAssumption == Range(DemoCalls) \subseteq Calls /\ Chunks \in Nat

VARIABLES
  stage,     \* what the user runs: "upload", "cleanup" or, between them, "idle"
  made,      \* the number of demo calls made
  calling,   \* the result of the last one is awaited
  chunks,    \* the list cmd_upload builds, of the chunks' nodes and ids
  manifest,  \* the manifest file: such a list, or None
  left,      \* the chunks cmd_cleanup has still to free
  failures   \* the number of them that failed

demo == <<stage, made, calling, chunks, manifest, left, failures>>
vars == <<rpc, demo>>

Current == DemoCalls[made]
Uploads == {c \in Range(DemoCalls) : op[c].op = "store"}

(* _call: the next call is given its request.                              *)
Call(q) ==
  /\ ~ calling /\ made < Len(DemoCalls)
  /\ made' = made + 1 /\ calling' = TRUE
  /\ op' = [op EXCEPT ![DemoCalls[made']] = q]
  /\ UNCHANGED <<store, conns, work, flight, replies, answer, torn, failed, steady, before>>
  /\ UNCHANGED <<session, stage, chunks, manifest, failures>>

(* The call is over.  Without any response _call raises, and the program   *)
(* ends.                                                                   *)
Returned == calling /\ cli[Current] = "over" /\ calling' = FALSE
Raised == outcome[Current].out \in {"closed", "interrupted"}

UploadChunk ==
  /\ stage = "upload" /\ Len(chunks) < Chunks
  /\ Call(Request("store", None, None, None, "pinned", TRUE))
  /\ UNCHANGED left

(* A chunk that is not stored ends the program, and no manifest is written. *)
ChunkStored ==
  /\ stage = "upload" /\ Returned
  /\ IF outcome[Current].out = "stored"
     THEN /\ chunks' = Append(chunks, [node |-> outcome[Current].node, id |-> outcome[Current].id])
          /\ UNCHANGED stage
     ELSE stage' = "idle" /\ UNCHANGED chunks
  /\ UNCHANGED <<rpc, made, manifest, left, failures>>

WriteManifest ==
  /\ stage = "upload" /\ ~ calling /\ Len(chunks) = Chunks
  /\ manifest' = chunks
  /\ stage' = "idle"
  /\ UNCHANGED <<rpc, made, calling, chunks, left, failures>>

Cleanup ==
  /\ stage = "idle" /\ manifest # None
  /\ stage' = "cleanup"
  /\ left' = manifest /\ failures' = 0
  /\ UNCHANGED <<rpc, made, calling, chunks, manifest>>

(* A chunk on a peer is freed there, by its id there.                      *)
MutantRelease(ch) == Request("free", None, ch.id, None, "cache", FALSE)
Release(ch) ==
  IF ch.node = Self THEN Request("free", None, ch.id, None, "cache", FALSE)
  ELSE Request("remote_free", None, ch.id, ch.node, "cache", FALSE)

FreeChunk ==
  /\ stage = "cleanup" /\ left # <<>>
  /\ Call(Release(Head(left)))
  /\ left' = Tail(left)

Counted == IF outcome[Current].out = "freed" THEN 0 ELSE 1
ChunkFreed ==
  /\ stage = "cleanup" /\ Returned
  /\ stage' = IF Raised THEN "idle" ELSE stage
  /\ failures' = failures + Counted
  /\ UNCHANGED <<rpc, made, chunks, manifest, left>>

(* The manifest goes when everything it lists has been freed.              *)
CleanupEnds ==
  /\ stage = "cleanup" /\ ~ calling /\ left = <<>>
  /\ manifest' = IF failures = 0 THEN None ELSE manifest
  /\ stage' = "idle"
  /\ UNCHANGED <<rpc, made, calling, chunks, left, failures>>

Stopped ==
  /\ stage # "idle" /\ ~ calling
  /\ stage' = "idle"
  /\ UNCHANGED <<rpc, made, calling, chunks, manifest, left, failures>>

-----------------------------------------------------------------------------
Init ==
  /\ RpcInit
  /\ \E s \in Scenarios :
       /\ connected = s.connected /\ churn = s.churn
       /\ conf = s.conf /\ op = s.op /\ stage = s.stage
  /\ made = 0 /\ calling = FALSE
  /\ chunks = <<>> /\ manifest = None /\ left = <<>> /\ failures = 0

DemoStep ==
  \/ UploadChunk \/ ChunkStored \/ WriteManifest
  \/ Cleanup \/ FreeChunk \/ ChunkFreed \/ CleanupEnds \/ Stopped

Next ==
  \/ (\E c \in Calls : Begin(c)) /\ UNCHANGED demo
  \/ RpcStep /\ UNCHANGED demo
  \/ DemoStep

Spec == Init /\ [][Next]_vars

(* Every handler and client goes on when it can, and every wait that has a *)
(* timeout ends.  The response is awaited without one, and so is a slot to *)
(* send on: nothing makes a send return, a peer answer, or anyone begin.   *)
(* There are finitely many steps of the others, so none waits for ever.    *)
FairSpec ==
  /\ Spec
  /\ WF_vars((\E c \in Calls : ClientStep(c)) /\ UNCHANGED demo)
  /\ WF_vars((\E c \in Calls : ServerStep(c)) /\ UNCHANGED demo)
  /\ WF_vars((\E c \in Calls : Reply(c) \/ TimesOut(c)) /\ Watch /\ UNCHANGED <<session, demo>>)

-----------------------------------------------------------------------------
(* Properties.                                                             *)

(* The shape of the state. *)
TypeOK ==
  /\ \A n \in Nodes : DOMAIN blocks[n] \subseteq 1 .. issued[n]
  /\ \A n \in Nodes : \A b, d \in DOMAIN blocks[n] :
       blocks[n][b].key = blocks[n][d].key /\ blocks[n][b].key # None => b = d
  /\ Range(connected) \subseteq Peers /\ mute \subseteq Range(connected)
  /\ Len(connected) = Cardinality(Range(connected))
  /\ \A r \in replies : AskedOf(r.call) = r.peer /\ r.peer \in Range(connected)
  /\ \A m \in flight : m.call \in Calls /\ m.peer \in Peers
  /\ \A c \in Calls : cli[c] = "over" <=> outcome[c] # Pending
  /\ made \in 0 .. Len(DemoCalls) /\ Len(chunks) <= Chunks

(* What a client reports is what happened to its own request, whichever    *)
(* side timed out first and whatever each took the other's bytes for: it   *)
(* reports success only if the handler did the op and with the result of   *)
(* the op, a call that was not admitted has done nothing ("before any op   *)
(* is dispatched", rpc.py:23), only a client that the listener trusts is   *)
(* served, and no answer is too large for a client of the codec in which   *)
(* its block was stored.                                                   *)
CallReportsTruth ==
  \A c \in Calls :
    /\ outcome[c].out \in {"ok", "stored", "data", "freed"} => outcome[c] = answer[c]
    /\ outcome[c].out \in {"denied", "unasked", "garbled"} => work[c].at = "idle"
    /\ work[c].at # "idle" /\ conf[c].auth => conf[c].token = "right"
    /\ outcome[c].out = "oversized" => conf[c].codec # conf[answer[c].val.of].codec

(* A pinned block whose store was acknowledged is on the node the answer   *)
(* names, under its id and with its key, and with its payload unless a     *)
(* connection was lost or replaced while its chunks were being sent.  Only *)
(* a free of that id there, or another store of its key that was made      *)
(* there, is under way to it or was given up by this node and not by the   *)
(* peer, takes it away: evictions, refused stores and connections that     *)
(* come and go do not.                                                     *)
Unpins(d, c) ==
  LET n == answer[c].node
  IN  /\ work[d].at # "idle" /\ d # c
      /\ \/ op[d].op = "free" /\ n = Self /\ op[d].id = answer[c].id
         \/ op[d].op = "remote_free" /\ n = op[d].peer /\ op[d].id = answer[c].id
         \/ /\ op[d].op \in {"store", "remote_store"} /\ op[d].key = op[c].key /\ op[c].key # None
            /\ (answer[d].out = "stored" /\ answer[d].node = n) \/ AskedOf(d) = n \/ n \in failed[d]
AckedIsHeld ==
  \A c \in Calls : answer[c].out = "stored" /\ op[c].dur = "pinned" =>
    \/ /\ answer[c].id \in DOMAIN blocks[answer[c].node]
       /\ \E v \in {Whole(c)} \cup (IF c \in torn THEN Damaged(c) ELSE {}) :
            blocks[answer[c].node][answer[c].id] = Block(c, v)
    \/ \E d \in Calls : Unpins(d, c)

(* A load by key that finds nothing was right: no node that answered, and  *)
(* was connected all along, held the key all along, so a peer that fails   *)
(* does not hide the ones after it.                                        *)
NotFoundIsTrue ==
  \A c \in Calls : ByKey(c) /\ answer[c].out = "not_found" => steady[c] \subseteq failed[c]

(* When cleanup removes the manifest no block of the upload is left on any *)
(* node, and cleanup asks only for blocks of the upload: an id is good on  *)
(* one node only, and another client's block may have it elsewhere.        *)
CleanupReleases ==
  /\ stage = "idle" /\ manifest = None /\ Len(chunks) = Chunks /\ left = <<>> /\ failures = 0
     /\ made > Chunks =>
       \A n \in Nodes : \A b \in DOMAIN blocks[n] : blocks[n][b].val.of \notin Uploads
  /\ \A c \in Range(DemoCalls) \ Uploads : op[c] # NoRequest =>
       \E u \in Uploads : answer[u].id = op[c].id /\
         answer[u].node = IF op[c].op = "free" THEN Self ELSE op[c].peer

(* Every call ends, unless its handler is for ever in a send to a peer:    *)
(* the client awaits the response without a timeout, so the handler must   *)
(* answer or close on every other path, with peers that never answer       *)
(* included.  (Whether sends return is SendReturns and NothingStarves.)    *)
CallsEnd ==
  []<>(\A c \in Calls : cli[c] \in {"new", "over"} \/ work[c].at \in {"chunking", "sending"})

(* Where a key is stored does not matter to those who ask for it ("this is *)
(* what makes storage location transparent to the caller", rpc.py:284): a  *)
(* load does not return what an acknowledged store of the key, made after  *)
(* that one had ended, has replaced.                                       *)
LocationTransparent ==
  \A c \in Calls : ByKey(c) /\ answer[c].out = "data" =>
    ~ \E s \in before[c] : /\ answer[s].out = "stored" /\ op[s].key = op[c].key
                           /\ answer[c].val.of \in before[s]

=============================================================================
