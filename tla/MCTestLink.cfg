SPECIFICATION FairSpec
CONSTANTS
  old = old
  new = new
  Params <- TwoParams
  FirstParams = old
  TestNumbers = 4
  OtherLinks = FALSE
  MaxTests = 2
  MaxPings = 2
  MaxInFlight = 1
INVARIANTS
  TypeOK
  NothingLeftBehind
  SameTest
  SuccessIsProved
PROPERTIES
  TestEnds
CHECK_DEADLOCK FALSE
