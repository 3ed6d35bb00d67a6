\* The creator deletes a channel that the other peer has.
CONSTANTS
  PeerCount = 2
  Creator = 2
  MaxVersions = 3
  MaxSkew = 0
  MaxRequests = 1
SPECIFICATION FairSpec
PROPERTIES
  DeletionSpreads
CHECK_DEADLOCK FALSE
