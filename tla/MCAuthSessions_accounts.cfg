CONSTANTS
    r1 = r1
    r2 = r2
    r3 = r3
    r4 = r4
    u1 = u1
    p1 = p1
    p2 = p2
    Null = Null
    Requests <- ThreeRequests
    Users <- OneUser
    Passwords <- TwoPasswords
    Ops <- AllOps
    RefreshTtl = 2
    AccessTtl = 2
    MaxClock = 2
    RedisMayFail = TRUE
    HashCostMayRise = TRUE
    RequestsMayFail = FALSE
SPECIFICATION Spec
SYMMETRY Symmetry
INVARIANTS
    TypeOK
PROPERTIES
    ImplementsAccessGrants
    PasswordOnlyByVerifiedChange
    CredentialChangeKillsTokens
    RejectedStaysRejected
    DenylistHonoured
