\* Four installations, the last one of the first one's version; a failing file
\* operation, a crash and a damaged directory, wherever they come.
SPECIFICATION FairSpec
CONSTANTS
  MaxTrees = 4
  MaxFaults = 1
  MaxCrashes = 1
  MaxDamage = 1
  PathOf <- MCPathOf
INVARIANTS
  ServedIsVerified
  ReadyIsKept
  OutcomeIsTrue
  CrashesAreRecovered
PROPERTIES
  InstallSettles
CHECK_DEADLOCK FALSE
