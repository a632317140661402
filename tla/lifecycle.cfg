SPECIFICATION Spec
CONSTANTS
    Containers = {c1}
    Slots = {r1, r2}
    None = None
    OneTab = FALSE
    MaxFail = 1
    MaxLost = 1
    MaxCrash = 1
    MaxImage = 2
    MaxPolls = 1
INVARIANT TypeOK
INVARIANT PodDroppedAfterSnapshot
INVARIANT HibernatedIsRestorable
INVARIANT HibernatedHoldsNothing
INVARIANT NothingStuck
SYMMETRY Symmetry
PROPERTY FollowsLifecycle
