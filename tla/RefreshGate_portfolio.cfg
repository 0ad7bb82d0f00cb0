SPECIFICATION FairSpec
CONSTANTS
    StaleSecs = 3
    DaySecs = 8
    FetchCode = {"fineco_timeout"}
    Area = {"portfolio"}
    Cooldown <- PortfolioCooldown
    DailyBudget <- Two
    CircuitCooldown <- Two
    CircuitFailures = 3
    Time <- Clock0to7
    ClockStepsBack = FALSE
PROPERTIES
    RequestsAnswered
    DeadRowsReclaimed
