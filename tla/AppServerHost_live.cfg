SPECIFICATION FairSpec
CONSTANTS
    Lease = {client}
    ApprovalLease = {}
    MaxGenerations = 2
    IdleOutlastsWork = TRUE
    ClientsUseTasks = TRUE
PROPERTIES
    OperationsSettle
    IdleProcessStops
    BrokenClientIsReplaced
CHECK_DEADLOCK FALSE
