\* One block, with a creator or without: edits, moves, tombstones, a restart.
CONSTANTS
  Node <- TwoNodes
  Bid <- OneBid
  NoOwner = NoOwner
  Rank <- Ascending
  BlockType <- OneType
  Pos <- OnePlace
  MaxFrames = 3
  MaxStamp = 3
  MaxEdits = 1
SPECIFICATION Spec
INVARIANTS
  TypeOK
  CacheIsFold
  OnlyOwnerDeletes
CHECK_DEADLOCK FALSE
