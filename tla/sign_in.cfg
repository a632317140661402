SPECIFICATION Spec
CONSTANTS
    Sessions = {s1, s2}
    Logins = {l1, l2}
    None = None
    Ttl = 3
    CookieLife = 4
    MaxFail = 1
INVARIANT TypeOK
INVARIANT LandsAsStarted
INVARIANT SignedOutIsOver
PROPERTY ImplementsSessionLife
