\* Two administrators' calls and a list of requests at a time, on one user and two roles.
SPECIFICATION FairSpec

CONSTANTS
    None = None
    r1 = r1
    r2 = r2
    u1 = u1
    Role <- MCRole
    User <- MCUser
    Admin = {a1, a2}
    Reader = {q1}
    Granted = {"request:read:own", "request:read:assigned"}
    TTL = 2
    MaxEdits = 3

INVARIANTS
    TypeOK
    CountMatches
    WithdrawnStaysOut
    ListsWhatGuardAllows

PROPERTIES
    CacheCatchesUp

CHECK_DEADLOCK FALSE
