---------------------------- MODULE SecureChannel ----------------------------
(***************************************************************************)
(* One direction of an encrypted connection, once Handshake has given its  *)
(* ends their keys: the sender's and the receiver's half of SecureChannel  *)
(* and the receiver's ReplayWindow (memnode/security.py), driven by the    *)
(* multiplexer, which stops sending after the first write that fails.      *)
(*                                                                         *)
(* The n-th message is n.  A key is a first key and the number of ratchet  *)
(* steps that led to it from there, and a frame decrypts with the key it   *)
(* was encrypted with.  The bitmap is the set of its one bits.             *)
(* Over TCP the frames arrive in order, each once.  The class also         *)
(* promises something for frames that arrive late or more than once, so    *)
(* the receiver may read any frame written so far; inOrder tells the two   *)
(* cases apart.                                                            *)
(***************************************************************************)
EXTENDS Handshake

CONSTANTS
  WindowSize,     \* replay_window_size
  RekeyMessages,  \* rekey_interval_messages
  MaxSkip,        \* max_epoch_skip
  TimedRekey,     \* rekey_interval_seconds > 0
  MaxMessages     \* bound on the messages sent

ASSUME ChannelAssumption ==
  /\ WindowSize \in Nat \ {0} /\ RekeyMessages \in Nat \ {0} /\ MaxSkip \in Nat \ {0}
  /\ TimedRekey \in BOOLEAN /\ MaxMessages \in Nat

VARIABLES
  from,       \* the end that sends in this direction
  sent,       \* messages given to send()
  sendSeq,    \* _send_seq
  sendEpoch,  \* _send_epoch, and the ratchet steps of _send_key
  due,        \* rekey_interval_seconds have passed since the last rekey
  stopped,    \* a write failed, and the multiplexer sends no more
  wire,       \* the frames written, in order
  arrived,    \* how many frames the receiver has read while inOrder holds
  inOrder,    \* history: they were the first ones written, in order
  window,     \* _replay
  recvEpoch,  \* _recv_epoch, and the ratchet steps of _recv_key
  delivered,  \* messages recv() returned
  failure,    \* the exception that ended the receiving side, or "none"
  accepted,   \* history: sequence numbers the window has let through
  nonces      \* history: what each encryption used, [key, seq, msg]

sender == <<sent, sendSeq, sendEpoch, due, stopped, wire, nonces>>
receiver == <<arrived, inOrder, window, recvEpoch, delivered, failure, accepted>>
vars == <<handshake, from, sender, receiver>>

EpochFor(seq) == seq \div RekeyMessages

-----------------------------------------------------------------------------
(* ReplayWindow.check_and_update.                                          *)

MutantSlideForgets(bits, shift) == {0}
MutantSlide(bits, shift) == {b + shift : b \in bits} \cup {0}
Slide(bits, shift) ==
  IF shift >= WindowSize THEN {0}
  ELSE {b \in {x + shift : x \in bits} : b < WindowSize} \cup {0}

MutantFresh(w, seq) == ~ w.seenAny \/ seq > w.highest \/ w.highest - seq \notin w.bits
Fresh(w, seq) ==
  \/ ~ w.seenAny
  \/ seq > w.highest
  \/ w.highest - seq < WindowSize /\ w.highest - seq \notin w.bits

Updated(w, seq) ==
  IF ~ w.seenAny THEN [seenAny |-> TRUE, highest |-> seq, bits |-> {0}]
  ELSE IF seq > w.highest
  THEN [w EXCEPT !.highest = seq, !.bits = Slide(w.bits, seq - w.highest)]
  ELSE [w EXCEPT !.bits = @ \cup {w.highest - seq}]

-----------------------------------------------------------------------------
(* send(), under _send_lock.                                               *)

(* _maybe_time_rekey: skip to the first number of the next epoch. *)
NextSeq ==
  LET boundary == (sendEpoch + 1) * RekeyMessages
  IN  IF due /\ sendSeq < boundary THEN boundary ELSE sendSeq

(* The key has been advanced to the frame's epoch when it is encrypted. *)
MutantSealed(seq) == [seq |-> seq, key |-> sendEpoch, base |-> keys[from].send, msg |-> sent + 1]
Sealed(seq) == [seq |-> seq, key |-> sendEpoch', base |-> keys[from].send, msg |-> sent + 1]

Encrypt(seq) ==
  LET epoch == EpochFor(seq)
  IN  /\ place[from] = "open" /\ sent < MaxMessages /\ ~ stopped
      /\ sent' = sent + 1
      /\ sendEpoch' = IF epoch > sendEpoch THEN epoch ELSE sendEpoch
      /\ due' = (due /\ epoch = sendEpoch)
      /\ nonces' = nonces \cup {Sealed(seq)}

MutantAfter(seq) == sendSeq + 1
After(seq) == seq + 1

Send ==
  /\ Encrypt(NextSeq)
  /\ wire' = Append(wire, Sealed(NextSeq))
  /\ sendSeq' = After(NextSeq)
  /\ UNCHANGED <<handshake, from, stopped, receiver>>

(* The write raises or is cancelled: the frame may be out, and _send_seq   *)
(* is not advanced past it.                                                *)
SendFails ==
  /\ Encrypt(NextSeq)
  /\ wire' \in {wire, Append(wire, Sealed(NextSeq))}
  /\ sendSeq' = NextSeq
  /\ stopped' = TRUE
  /\ UNCHANGED <<handshake, from, receiver>>

TimePasses ==
  /\ TimedRekey /\ ~ due /\ place[from] = "open"
  /\ due' = TRUE
  /\ UNCHANGED <<handshake, from, sent, sendSeq, sendEpoch, stopped, wire, nonces, receiver>>

-----------------------------------------------------------------------------
(* recv(), for one frame.  The window is updated before the epoch and the  *)
(* tag are looked at.                                                      *)

Receive(f) ==
  LET epoch == EpochFor(f.seq)
  IN  IF ~ Fresh(window, f.seq)
      THEN UNCHANGED <<window, recvEpoch, delivered, failure, accepted>>
      ELSE /\ window' = Updated(window, f.seq)
           /\ accepted' = accepted \cup {f.seq}
           /\ IF epoch < recvEpoch \/ epoch - recvEpoch > MaxSkip
              THEN failure' = "replay" /\ UNCHANGED <<recvEpoch, delivered>>
              ELSE /\ recvEpoch' = epoch
                   /\ IF f.key = epoch /\ f.base = keys[Other(from)].recv
                      THEN delivered' = Append(delivered, f.msg) /\ UNCHANGED failure
                      ELSE failure' = "decryption" /\ UNCHANGED delivered

Recv ==
  /\ failure = "none" /\ place[Other(from)] = "open"
  /\ \E i \in 1 .. Len(wire) :
       /\ arrived' = IF inOrder THEN arrived + 1 ELSE arrived
       /\ inOrder' = (inOrder /\ i = arrived + 1)
       /\ Receive(wire[i])
  /\ UNCHANGED <<handshake, from, sender>>

Init ==
  /\ HandshakeInit
  /\ from \in Ends
  /\ sent = 0 /\ sendSeq = 0 /\ sendEpoch = 0
  /\ due = FALSE /\ stopped = FALSE
  /\ wire = <<>> /\ arrived = 0 /\ inOrder = TRUE
  /\ window = [seenAny |-> FALSE, highest |-> 0, bits |-> {}]
  /\ recvEpoch = 0
  /\ delivered = <<>>
  /\ failure = "none"
  /\ accepted = {} /\ nonces = {}

Next ==
  \/ HandshakeStep /\ UNCHANGED <<from, sender, receiver>>
  \/ Send \/ SendFails \/ TimePasses \/ Recv

Spec == Init /\ [][Next]_vars

-----------------------------------------------------------------------------
(* Properties.                                                             *)

(* The shape of the state. *)
Frame == [seq : Nat, key : Nat, base : {keys[e].send : e \in {x \in Ends : place[x] = "open"}}, msg : Nat]
TypeOK ==
  /\ sent \in 0 .. MaxMessages /\ sendSeq \in Nat /\ sendEpoch \in Nat
  /\ due \in BOOLEAN /\ stopped \in BOOLEAN
  /\ wire \in Seq(Frame) /\ arrived \in Nat /\ inOrder \in BOOLEAN
  /\ window \in [seenAny : BOOLEAN, highest : Nat, bits : SUBSET (0 .. WindowSize - 1)]
  /\ recvEpoch \in Nat
  /\ delivered \in Seq(Nat)
  /\ failure \in {"none", "replay", "decryption"}
  /\ accepted \subseteq Nat /\ nonces \subseteq Frame

(* The window is an exact memory: it knows the highest number accepted and *)
(* which of the WindowSize numbers up to it were, through any sequence of  *)
(* shifts past its end.                                                    *)
WindowExact ==
  /\ window.seenAny <=> accepted # {}
  /\ \A s \in accepted : s <= window.highest
  /\ window.seenAny => window.highest \in accepted
  /\ window.bits = {b \in 0 .. WindowSize - 1 : window.highest - b \in accepted /\ window.seenAny}

(* However frames are repeated or reordered, no message is delivered twice *)
(* ("making a replayed frame ... a hard reject", security.py:95).          *)
DeliveredOnce ==
  \A i, j \in 1 .. Len(delivered) : delivered[i] = delivered[j] => i = j

(* "a nonce is never reused under one key" (security.py:203): not by the   *)
(* jump of a timed rekey, nor after a failed write that leaves _send_seq   *)
(* where it was, because the multiplexer then stops.                       *)
NonceUnique ==
  \A x, y \in nonces : x.key = y.key /\ x.seq = y.seq => x.msg = y.msg

(* "both ends rekey in lockstep without any signalling message"            *)
(* (security.py:206): as long as frames arrive in order the receiver never *)
(* raises, whatever mix of counted and timed rekeys the sender makes, and  *)
(* delivers every message it reads, in order.                              *)
Lockstep ==
  inOrder => failure = "none" /\ delivered = [i \in 1 .. arrived |-> wire[i].msg]

=============================================================================
