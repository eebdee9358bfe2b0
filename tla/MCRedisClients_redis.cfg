CONSTANTS
    v1 = v1
    v2 = v2
    v3 = v3
    a1 = a1
    a2 = a2
    login = login
    folders = folders
    c1 = c1
    c2 = c2
    c3 = c3
    p1 = p1
    p2 = p2
    k1 = k1
    u1 = u1
    u2 = u2
    t1 = t1
    None = None
    MaxClock = 4
    RedisMayFail = TRUE
    Visits <- ThreeVisits
    Clients <- OneClient
    Routes <- LoginAndFolders
    KindOf <- Kinded
    Limit <- Limits
    Window = 2
    Calls <- ThreeCalls
    Home <- TwoHomes
    SourceKeys <- OneKey
    Prefixed <- BothKinds
    Slot <- Slots
    Scope = "tenant"
    Identities <- Callers
SPECIFICATION OneUsedSpec
INVARIANTS
    BurstBound
    BlockHolds
    NoLockout
    SingleFlight
    ScopedResponses
    PrefixGone
PROPERTIES
    CallsAnswered
    StaleEntriesGo
CHECK_DEADLOCK FALSE
