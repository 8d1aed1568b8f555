SPECIFICATION FairSpec
CONSTANTS
    Client = {k1, k2}
    Attempt = {a1, a2}
    LoginMax = 2
    MaxRefused = 2
    Stream = {e1}
    MaxBoots = 2
    None = None
INVARIANTS
    TypeOK
    FailuresBounded
PROPERTIES
    RefusalsEarned
    ShutdownEnds
CHECK_DEADLOCK FALSE
