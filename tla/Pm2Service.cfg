SPECIFICATION FairSpec
CONSTANTS
    Boot = boot
    Op = {boot, o1, o2, o3}
    Attempt = {a1, a2, a3}
    Bus = {b1, b2, b3}
    None = None
INVARIANTS
    SingleFlight
    NoLostWakeup
PROPERTIES
    AttachedOrTried
    OperationsEnd
    RefinesSharedLink
