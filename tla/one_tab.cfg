SPECIFICATION FairSpec
CONSTANTS
    Containers = {c1}
    Slots = {r1, r2}
    None = None
    OneTab = TRUE
    MaxFail = 1
    MaxLost = 0
    MaxCrash = 1
    MaxImage = 2
    MaxPolls = 1
INVARIANT ActiveIsReserved
INVARIANT PodsSettle
PROPERTY OperationsEnd
PROPERTY SaveResolves
CHECK_DEADLOCK FALSE
