\* Two scopes, one closed to the second peer, who may write to it all the same;
\* a failed request or a restart on the way.
CONSTANTS
  Node <- TwoNodes
  Scope <- TwoScopes
  Acl <- MixedAcl
  MaxFrames = 2
  MaxFaults = 1
SPECIFICATION FairSpec
INVARIANTS
  ServedToMembersOnly
PROPERTIES
  EventuallyReplicated
