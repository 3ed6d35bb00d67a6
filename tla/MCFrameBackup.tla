---------------------------- MODULE MCFrameBackup ----------------------------
(* An instance of FrameBackup for TLC: two peers, one scope open to both. *)
EXTENDS FrameBackup

TwoNodes == {1, 2}
OpenScope == {"open"}
OpenAcl == [s \in OpenScope |-> TwoNodes]
=============================================================================
