SPECIFICATION Spec
CONSTANTS
    Terminals = {t1}
    MaxLoads = 2
    MaxEvents = 4
    MaxClicks = 2
    MaxFaults = 1
CHECK_DEADLOCK FALSE
INVARIANT TypeOK
INVARIANT ListTellsTruth
INVARIANT PodHasOwner
PROPERTY CleanupSparesRunning
PROPERTY FailedStartIsCleaned
