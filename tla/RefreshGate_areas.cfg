SPECIFICATION Spec
CONSTANTS
    StaleSecs = 1
    DaySecs = 3
    FetchCode = {"fineco_timeout"}
    Area = {"portfolio", "orders"}
    Cooldown <- MixedCooldown
    DailyBudget <- MixedBudget
    CircuitCooldown <- MixedCircuit
    CircuitFailures = 2
    Time <- Clock0to3
    ClockStepsBack = TRUE
INVARIANTS
    GateInv
    RunningIsLatest
    AttemptsSpaced
    DailyBudgetHolds
    CacheAgreesWithLedger
    PermitHeldOnlyInFlight
    BreakerNeverDecides
    BreakerSpacesAttempts
PROPERTIES
    LedgerAppendOnly
    ImplementsAttemptGate
