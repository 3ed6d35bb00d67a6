------------------------------ MODULE MCTunnel ------------------------------
(* Tunnel by itself: a removal against a name that is just being resolved.  *)
EXTENDS Tunnel
=============================================================================
