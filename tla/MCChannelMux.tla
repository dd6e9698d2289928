---------------------------- MODULE MCChannelMux ----------------------------
(* Instances of ChannelMux for TLC. *)
EXTENDS ChannelMux, TLC

=============================================================================
