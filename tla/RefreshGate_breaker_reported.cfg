SPECIFICATION Spec
CONSTANTS
    StaleSecs = 3
    DaySecs = 8
    FetchCode = {"fineco_timeout", "auth_required"}
    Area = {"orders"}
    Cooldown <- OrdersCooldown
    DailyBudget <- Four
    CircuitCooldown <- Two
    CircuitFailures = 3
    Time <- Clock0to7
    ClockStepsBack = FALSE
INVARIANT
    BreakerReported
