SPECIFICATION FairSpec
CONSTANTS
  QueueSize = 3
  MaxArrivals = 6
INVARIANTS
  TypeOK
  TokensCoverPackets
PROPERTIES
  InOrderUntilOverflow
  RingDrains
CHECK_DEADLOCK FALSE
