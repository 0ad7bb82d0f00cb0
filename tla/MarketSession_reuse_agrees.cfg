SPECIFICATION Spec
CONSTANTS
    LoginBudget = 2
    BudgetWindow = 4
    LoginCooldown = 1
    ReuseTtl = 2
    CircuitFailures = 2
    CircuitCooldown = 2
    MaxTime = 5
    QueueBound = 2
    ServerForgets = FALSE
    WorkerRestarts = FALSE
    ControllerRestarts = 0
INVARIANTS
    ReuseSkipsLogin
