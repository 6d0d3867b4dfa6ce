SPECIFICATION Spec
CONSTANTS
  MaxBlocks = 4
  MaxPacketsInBlock = 10
  MaxDataPackets = 5
  Stretch = 2
  Schemes <- MCSchemes
  FrameSizes = {1, 10, 11}
  RetrIds = {1}
  MaxBlockNumber = 4
  MaxFrames = 3
INVARIANTS
  TypeOK
  SlotsNumbered
  BlocksWhole
  FrameEndsBlock
  RecentBlocksAvailable
  FrameRestAvailable
PROPERTIES
  OriginalsInOrder
  ResendsWhatIsAsked
