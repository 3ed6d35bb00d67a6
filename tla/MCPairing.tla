------------------------------ MODULE MCPairing ------------------------------
(* Pairing by itself: a pair whose path and addresses never change.         *)
EXTENDS Pairing
=============================================================================
