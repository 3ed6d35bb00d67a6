\* A retype and an older concurrent update that arrives after it.
CONSTANTS
  Node <- TwoNodes
  Bid <- OneBid
  NoOwner = NoOwner
  Rank <- Ascending
  BlockType <- TwoTypes
  Pos <- OnePlace
  MaxFrames = 3
  MaxStamp = 3
  MaxEdits = 1
SPECIFICATION Spec
INVARIANTS
  DeterministicFold
CHECK_DEADLOCK FALSE
