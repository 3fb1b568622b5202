CONSTANTS
  MaxID = 2
  MaxSnaps = 1
  FirstID = 1
  LegacyDisk = FALSE
  RecoveryUpgrades = {FALSE}
SPECIFICATION Spec
INVARIANT FailedUpgradeBoots
