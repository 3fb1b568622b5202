SPECIFICATION Spec
CONSTANTS
  MaxID = 3
  MaxSnaps = 2
  FirstID = 1
  LegacyDisk = FALSE
  RecoveryUpgrades = {TRUE, FALSE}
INVARIANTS SnapshotterOnMounted SuccessRecorded
PROPERTIES RunningKept CompletedIsFinal
