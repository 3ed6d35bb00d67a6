----------------------------- MODULE MCBlockFold -----------------------------
(* An instance of BlockFold for TLC: two peers and one block, with a creator *)
(* or with a well-known ID.                                                  *)
EXTENDS BlockFold

TwoNodes == {1, 2}
OneBid == {"block"}
OneType == {"text"}
TwoTypes == {"text", "todo"}
OnePlace == {1}

\* Which of two frames with one stamp has the larger hash.  The creator is any
\* of the peers, so either order is tried.
Ascending == [n \in TwoNodes |-> n]
=============================================================================
