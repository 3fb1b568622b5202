CONSTANTS
  MaxID = 2
  MaxSnaps = 2
  MaxBreaks = 1
  Strict = TRUE
SPECIFICATION Spec
INVARIANT NewActiveAssessed
