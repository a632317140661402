SPECIFICATION Spec
CONSTANTS
    Containers = {c1}
    Slots = {r1, r2}
    None = None
    OneTab = TRUE
    MaxFail = 1
    MaxLost = 0
    MaxCrash = 0
    MaxImage = 2
    MaxPolls = 1
INVARIANT HibernatedHasNoPod
CHECK_DEADLOCK FALSE
