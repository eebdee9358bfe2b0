CONSTANTS
    q1 = q1
    q2 = q2
    q3 = q3
    s1 = s1
    s2 = s2
    s3 = s3
    s4 = s4
    s5 = s5
    u1 = u1
    u2 = u2
    default = default
    main = main
    other = other
    slugD = slugD
    slugA = slugA
    slugB = slugB
    v1 = v1
    v2 = v2
    Null = Null
    DefaultName = default
    DefaultSlug = slugD
    SlugOf <- Slugified
    Origins <- AllOrigins
    d1 = d1
    Requests <- OneRequest
    Users <- OneUser
    Names <- ThreeNames
    Slugs <- ThreeSlugs
    Values <- OneValue
    Ops <- OneWorkspace
    StoredTables <- NoTables
    RequestsMayFail = FALSE
    Readers <- OneReader
    ReadOps <- OverviewOnly
    UserIds <- ThreeUsers
    Instants <- TwoInstants
    PageLimit = 1
    Filters <- ActiveOnly
    NoCursor = NoCursor
SPECIFICATION OverviewSpec
INVARIANTS
    OverviewIsComplete
