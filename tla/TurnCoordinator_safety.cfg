SPECIFICATION Spec
CONSTANTS
    Client = {c1}
    MaxTurns = 2
    MaxGenerations = 2
INVARIANTS
    TurnIsServed
    TurnLeasesAccounted
    RecoveryIsAlone
    UncertainIsRecovered
    BoundariesInOrder
    ResultsAgree
CHECK_DEADLOCK FALSE
