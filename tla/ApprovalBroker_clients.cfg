\* Three requests, one of them for a file, two places, two contexts of a session; two sessions.
SPECIFICATION MCSpec
CONSTANTS
    t1 = t1
    Request = {r1, r2, r3}
    FileRequest = {r3}
    Turn = {t1}
    TurnOf <- MCTurnOf
    Session = {s1, s2}
    MaxPending = 2
    MaxClients = 1
    MaxGenerations = 1
    MaxRevision = 2
    MaxScope = 1
SYMMETRY MCSymmetry
INVARIANTS
    CapacityRespected
    LeasesAccounted
    DisposalDrains
    CardsAreOwned
PROPERTY AcceptanceIsCurrent
CHECK_DEADLOCK FALSE
