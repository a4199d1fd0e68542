SPECIFICATION PartSpec
CONSTANTS
    Lease = {client, approver}
    ApprovalLease = {approver}
    MaxGenerations = 3
    IdleOutlastsWork = FALSE
    ClientsUseTasks = FALSE
    Caller = {c1, c2}
    MaxKnownLogins = 1
    MaxEvents = 2
    Key = {k1, k2}
    Name = {1, 2}
    MaxEdits = 2
    MaxTurn = 2
    MaxDeltas = 2
    MaxItemEvents = 2
    MaxText = 1
    MaxRetained = 1
    MaxQueued = 6
CHECK_DEADLOCK FALSE
INVARIANTS
    ChildAuthority
    UnsafeCountExact
    ReadyMeansServing
    WaitsAreAnswered
    DisposalIsFinal
    SessionIsTrue
PROPERTIES
    EmptyCircuitNeedsRetry
    ImplementsSoleProcess
