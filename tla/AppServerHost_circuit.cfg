SPECIFICATION Spec
CONSTANTS
    Lease = {client, approver}
    ApprovalLease = {approver}
    MaxGenerations = 2
    IdleOutlastsWork = FALSE
    ClientsUseTasks = FALSE
CHECK_DEADLOCK FALSE
PROPERTY CircuitNeedsRetry
