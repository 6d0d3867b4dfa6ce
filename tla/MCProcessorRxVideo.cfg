SPECIFICATION FairSpec
CONSTANTS
  MaxBlocks = 4
  MaxPacketsInBlock = 3
  Blocks <- MCBlocks
  SchemesOf <- SchemeOfEach
  RestartGap = 2
  RequestCap = 2
  MaxRequests = 0
INVARIANTS
  TypeOK
  BufferConsistent
  CountersAgree
  OutputPosition
PROPERTIES
  OutputInOrder
  SkippingHoldsNothingBack
  OutputLoopEnds
