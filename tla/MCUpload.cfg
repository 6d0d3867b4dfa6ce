SPECIFICATION FairSpec
CONSTANTS
  Total = 4
  AckFrequency = 2
  MaxResends = 2
  MaxRejections = 1
  MaxUploads = 2
  MaxUp = 1
  MaxDown = 2
INVARIANTS
  TypeOK
  ConfirmedIsHeld
PROPERTIES
  UploadEnds
CHECK_DEADLOCK FALSE
