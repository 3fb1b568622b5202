CONSTANTS
  MaxID = 3
  MaxSnaps = 2
  FirstID = 0
  LegacyDisk = TRUE
SPECIFICATION Spec
PROPERTIES
  LegacyBootedKept
