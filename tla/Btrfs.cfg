CONSTANTS
  IDs = {1, 2, 3, 8, 9, 10, 11}
  MaxSnaps = 2
  FirstIDs = {0, 8}
SPECIFICATION Spec
INVARIANTS
  DefaultIsWhole
  OldActiveIsPassive
  RetentionBound
  BootMenuMatchesDisk
  NothingLeft
PROPERTIES
  BootedKept
  ImplementsStore
