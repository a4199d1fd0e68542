SPECIFICATION Spec
CONSTANTS
    Client = {c1}
    MaxTurns = 2
    MaxGenerations = 1
INVARIANT TurnsAreNotCrossed
CHECK_DEADLOCK FALSE
