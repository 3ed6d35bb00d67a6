\* Two peers, one open scope: every interleaving of pushes, pulls and restarts.
CONSTANTS
  Node <- TwoNodes
  Scope <- OpenScope
  Acl <- OpenAcl
  MaxFrames = 3
  MaxFaults = 1
SPECIFICATION Spec
INVARIANTS
  TypeOK
  PrefixOfAuthor
  ChainLinked
PROPERTIES
  CommitStampsAbove
  ImplementsReplicatedLog
