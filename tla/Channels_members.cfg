\* Two members the creator adds and removes, who change the channel as well.
CONSTANTS
  PeerCount = 3
  Creator = 2
  MaxVersions = 4
  MaxSkew = 0
  MaxRequests = 1
SPECIFICATION FairSpec
INVARIANTS
  TypeOK
  OnlyEverMembersHold
  OwnerSettles
  NoConflictWhenSerial
PROPERTIES
  MembersLearn
CHECK_DEADLOCK FALSE
