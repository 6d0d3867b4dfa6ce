SPECIFICATION Spec
CONSTANTS
  MaxBlocks = 5
  MaxPacketsInBlock = 3
  Blocks <- ThreeBlocks
  SchemesOf <- MixedSchemes
  RestartGap = 1
  RequestCap = 3
  MaxRequests = 1
PROPERTIES
  OutputInOrder
  RequestsNameMissing
  RequestsSuffice
