SPECIFICATION Spec
CONSTANTS
    Kind = {"auth"}
    Counter = {"gateway_egress"}
    Late = {"gateway_egress"}
    Order <- TwoAlerts
    Baselines <- OneCounter
    AtLeast <- Thresholds
    MaxLines = 1
    MaxEvents = 2
    MaxResets = 1
PROPERTIES
    DeniesSinceResetAlerted
