\* A database is lost and imported again, while replication goes on.
CONSTANTS
  Node <- TwoNodes
  Scope <- OpenScope
  Acl <- OpenAcl
  MaxFrames = 2
  MaxFaults = 1
SPECIFICATION BackupSpec
INVARIANTS
  HealthyAuthorsDoNotFork
PROPERTIES
  ChainsOnlyGrow
