SPECIFICATION ReadsSpec
CONSTANTS
    StaleSecs = 0
    DaySecs = 8
    FetchCode = {"auth_required"}
    Area = {"movements", "portfolio"}
    Cooldown <- One
    DailyBudget <- Two
    CircuitCooldown <- One
    CircuitFailures = 2
    Time <- Clock0to1
    ClockStepsBack = TRUE
    MaxAge = 1
INVARIANTS
    ReadsInv
    SnapshotIsOneCapture
    ReadsSeeCommitted
    UsableDataIsReported
