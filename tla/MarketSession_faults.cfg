SPECIFICATION Spec
CONSTANTS
    LoginBudget = 2
    BudgetWindow = 4
    LoginCooldown = 2
    ReuseTtl = 3
    CircuitFailures = 2
    CircuitCooldown = 2
    MaxTime = 5
    QueueBound = 2
    ServerForgets = TRUE
    WorkerRestarts = TRUE
    ControllerRestarts = 1
INVARIANTS
    LoginsAreDebited
    BudgetBoundsLogins
    CooldownSpacesLogins
PROPERTIES
    OneProbePerCooldown
