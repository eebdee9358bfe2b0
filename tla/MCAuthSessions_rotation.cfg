CONSTANTS
    r1 = r1
    r2 = r2
    r3 = r3
    r4 = r4
    u1 = u1
    p1 = p1
    p2 = p2
    Null = Null
    Requests <- FourRequests
    Users <- OneUser
    Passwords <- OnePassword
    Ops <- RotationOps
    RefreshTtl = 1
    AccessTtl = 1
    MaxClock = 1
    RedisMayFail = FALSE
    HashCostMayRise = FALSE
    RequestsMayFail = TRUE
SPECIFICATION Spec
SYMMETRY Symmetry
INVARIANTS
    OneLinkPerFamily
    SingleUse
PROPERTIES
    FirstRevocationWins
    ImplementsSessionChain
