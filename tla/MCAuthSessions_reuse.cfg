CONSTANTS
    r1 = r1
    r2 = r2
    r3 = r3
    r4 = r4
    u1 = u1
    p1 = p1
    p2 = p2
    Null = Null
    Requests <- FourRequests
    Users <- OneUser
    Passwords <- OnePassword
    Ops <- RefreshOps
    RefreshTtl = 1
    AccessTtl = 1
    MaxClock = 0
    RedisMayFail = FALSE
    HashCostMayRise = FALSE
    RequestsMayFail = FALSE
SPECIFICATION Spec
SYMMETRY Symmetry
INVARIANTS
    ReuseDestroysFamily
