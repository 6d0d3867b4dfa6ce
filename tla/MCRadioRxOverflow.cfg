SPECIFICATION Spec
CONSTANTS
  QueueSize = 3
  MaxArrivals = 6
PROPERTIES
  TakenPacketsAreReady
CHECK_DEADLOCK FALSE
