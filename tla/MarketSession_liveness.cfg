SPECIFICATION FairSpec
CONSTANTS
    LoginBudget = 2
    BudgetWindow = 4
    LoginCooldown = 1
    ReuseTtl = 2
    CircuitFailures = 2
    CircuitCooldown = 2
    MaxTime = 3
    QueueBound = 2
    ServerForgets = TRUE
    WorkerRestarts = TRUE
    ControllerRestarts = 1
INVARIANTS
    OneLiveOperation
    HeldSessionIsNewest
    SessionInv
PROPERTIES
    OperationsEnd
    AbandonedAreWorkedOff
