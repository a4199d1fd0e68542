SPECIFICATION Spec
CONSTANTS
    MaxGeneration = 2
    MaxFailures = 1 ForceAfter = 1
INVARIANT StaleRetriesChangeNothing
CHECK_DEADLOCK FALSE
