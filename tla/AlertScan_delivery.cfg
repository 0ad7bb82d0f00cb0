SPECIFICATION FairSpec
CONSTANTS
    Kind = {"auth"}
    Counter = {"gateway_egress"}
    Late = {"gateway_egress"}
    Order <- TwoAlerts
    Baselines <- OneCounter
    AtLeast <- Thresholds
    MaxLines = 3
    MaxEvents = 3
    MaxResets = 1
INVARIANTS
    AlertsInv
PROPERTIES
    NothingPassedOver
    AlertsGoOut
