SPECIFICATION Spec
CONSTANTS
    Uid = {u1, u2}
    Sid = {s1, s2, s3, s4}
    Req = {r1}
    bob = bob
    Bob = Bob
    alice = alice
    Name = {alice, bob, Bob}
    NoCase <- MCNoCase
    AdminName = alice
    Password = {p1}
    Secret = {t1}
    None = None
SYMMETRY Interchangeable
INVARIANTS
    TypeOK
    SessionIdBoundToPrincipal
    CachedRoleIsCurrent
PROPERTIES
    LastAdminKept
    RevocationIsFinal
    SecondFactorEnforced
    RefinesRegistry
