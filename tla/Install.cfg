CONSTANTS
  MaxID = 2
  MaxSnaps = 2
  FirstID = 0
  LegacyDisk = FALSE
SPECIFICATION Spec
INVARIANTS
  SuccessIsFresh
PROPERTIES
  RunningKept
