\* One failing file operation, no crash and no damage.
SPECIFICATION Spec
CONSTANTS
  MaxTrees = 2
  MaxFaults = 1
  MaxCrashes = 0
  MaxDamage = 0
  PathOf <- MCPathOf
INVARIANTS
  RecoveryNeverRefuses
CHECK_DEADLOCK FALSE
