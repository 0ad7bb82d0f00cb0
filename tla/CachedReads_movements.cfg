SPECIFICATION ReadsSpec
CONSTANTS
    StaleSecs = 1
    DaySecs = 8
    FetchCode = {"auth_required"}
    Area = {"movements"}
    Cooldown <- One
    DailyBudget <- Two
    CircuitCooldown <- One
    CircuitFailures = 2
    Time <- Clock0to2
    ClockStepsBack = TRUE
    MaxAge = 1
INVARIANTS
    MovementsAreOneCapture
