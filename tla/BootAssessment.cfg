CONSTANTS
  MaxID = 3
  MaxSnaps = 3
  MaxBreaks = 2
  Strict = FALSE
SPECIFICATION FairSpec
INVARIANTS
  PassiveKeepsRequest
  HealthyNotSkipped
PROPERTY
  RoundFindsHealthy
