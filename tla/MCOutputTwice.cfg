SPECIFICATION Spec
CONSTANTS
  MaxBlocks = 4
  MaxPacketsInBlock = 3
  Blocks <- ThreeBlocks
  SchemesOf <- PlainScheme
  RestartGap = 2
  RequestCap = 3
  MaxRequests = 1
PROPERTIES
  RetransmissionsTakenAreNew
