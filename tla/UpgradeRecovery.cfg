CONSTANT Versions = {v1, v2}
SPECIFICATION RecoveryFairSpec
INVARIANTS
  BootNeverTorn
  RunKeepsRecovery
  SuccessBoots
PROPERTY RunReturns
