SPECIFICATION OnAirSpec
CONSTANTS
  Vehicles = {v1}
  Streams = {s1}
  MaxDelta <- SmallDelta
  PauseDelta = 1
  HashSize = 4
  TableSize = 1
  Interfaces = {i1, i2}
  Pings = {FALSE}
  MaxLag = 2
  MaxQueue = 2
  MaxIndex = 3
  MaxLives = 2
PROPERTIES
  DuplicatesDropped
CHECK_DEADLOCK FALSE
