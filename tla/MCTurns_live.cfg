\* Broker: two places for two requests and a single client.  Coordinator: one turn, two
\* clients and three generations.
SPECIFICATION PartSpec
CONSTANTS
    t1 = t1
    Request = {r1, r2}
    FileRequest = {r2}
    Turn = {t1}
    TurnOf <- MCTurnOf
    Session = {s1}
    MaxPending = 2
    MaxClients = 1
    MaxGenerations = 1
    MaxRevision = 1
    MaxScope = 1
    Client = {c1, c2}
    MaxTurns = 1
    CoordinatorGenerations = 3
PROPERTIES
    RequestsLeave
    CallsSettle
    RecoveryEndsEventually
CHECK_DEADLOCK FALSE
