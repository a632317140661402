SPECIFICATION TabSpec
CONSTANTS
    Ttl = 3
    MaxOffers = 1
    MaxReconnects = 1
INVARIANT TabTypeOK
INVARIANT PageKeepsSession
INVARIANT OneAttempt
INVARIANT DialsBounded
INVARIANT HeartbeatFollowsSocket
INVARIANT ProgressIsReal
INVARIANT PaysOnce
PROPERTY CleanedPageDialsNoMore
PROPERTY DeadPageLeaves
PROPERTY SaveSpinnerEnds
