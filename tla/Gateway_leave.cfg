SPECIFICATION Spec
CONSTANTS
    MaxStarts = 3
    Versions = {1, 2}
    Policies <- MCPolicies
    KeyIds = {"k1", "k2"}
    MaxRotations = 2
    Tokens <- MCTokens
    CallTools <- MCCallTools
    Asks <- MCAsks
    Assets <- MCAssets
    StockPages <- MCStockPages
    EtfPages <- MCEtfPages
    Environments <- MCEnvironments
    StartsIn <- MCStartsIn
    FirstKeys = {"k1"}
INVARIANTS
    StartsInv
    ServedWithLeave
    AuditTellsAnswer
PROPERTY
    KeysCatchUp
CHECK_DEADLOCK FALSE
