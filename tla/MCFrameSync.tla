----------------------------- MODULE MCFrameSync -----------------------------
(* Instances of FrameSync for TLC. *)
EXTENDS FrameSync

\* Two peers and one scope open to both.
TwoNodes == {1, 2}
OpenScope == {"open"}
OpenAcl == [s \in OpenScope |-> TwoNodes]

\* Two scopes, one of them closed to the second peer.
TwoScopes == {"open", "channel"}
MixedAcl == [s \in TwoScopes |-> IF s = "open" THEN TwoNodes ELSE {1}]
=============================================================================
