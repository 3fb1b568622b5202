CONSTANTS
  MaxID = 11
  MaxSnaps = 2
  FirstID = 8
  LegacyDisk = FALSE
SPECIFICATION FairSpec
INVARIANTS
  TypeOK
  ActiveIsComplete
  OldActiveIsPassive
  RetentionBound
  BootMenuMatchesDisk
PROPERTIES
  BootedKept
  CallsReturn
  ImplementsStore
