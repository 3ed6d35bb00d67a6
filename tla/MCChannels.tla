------------------------------ MODULE MCChannels -----------------------------
(* Instances of Channels for TLC.  The creator is the second peer, so that  *)
(* versions of one stamp are ordered either way about its own.              *)
EXTENDS Channels
=============================================================================
