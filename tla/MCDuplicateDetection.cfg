SPECIFICATION Spec
CONSTANTS
  Vehicles = {v1, v2}
  Streams = {s1}
  MaxDelta <- SmallDelta
  PauseDelta = 0
  HashSize = 2
  TableSize = 1
  Interfaces = {i1, i2}
  Pings = {FALSE}
  MaxLag = 2
  MaxQueue = 1
  MaxIndex = 4
  MaxLives = 1
SYMMETRY Alike
INVARIANTS
  TypeOK
PROPERTIES
  NoFalseRestart
  TakenOnce
  DroppedWasTaken
CHECK_DEADLOCK FALSE
