CONSTANTS
  MaxID = 11
  MaxSnaps = 2
  FirstID = 8
  LegacyDisk = FALSE
SPECIFICATION Spec
INVARIANT ClosedIsActive
