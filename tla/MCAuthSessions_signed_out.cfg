CONSTANTS
    r1 = r1
    r2 = r2
    r3 = r3
    r4 = r4
    u1 = u1
    p1 = p1
    p2 = p2
    Null = Null
    Requests <- ThreeRequests
    Users <- OneUser
    Passwords <- OnePassword
    Ops <- LogoutOps
    RefreshTtl = 1
    AccessTtl = 1
    MaxClock = 1
    RedisMayFail = TRUE
    HashCostMayRise = FALSE
    RequestsMayFail = FALSE
SPECIFICATION Spec
SYMMETRY Symmetry
INVARIANTS
    SignedOutIsRejected
