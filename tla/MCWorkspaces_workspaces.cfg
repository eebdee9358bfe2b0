CONSTANTS
    q1 = q1
    q2 = q2
    q3 = q3
    s1 = s1
    s2 = s2
    s3 = s3
    s4 = s4
    s5 = s5
    u1 = u1
    u2 = u2
    default = default
    main = main
    other = other
    slugD = slugD
    slugA = slugA
    slugB = slugB
    v1 = v1
    v2 = v2
    Null = Null
    DefaultName = default
    DefaultSlug = slugD
    SlugOf <- Slugified
    Origins <- AllOrigins
    Requests <- ThreeRequests
    Users <- TwoUsers
    Names <- ThreeNames
    Slugs <- TwoSlugs
    Values <- OneValue
    Ops <- AllOps
    StoredTables <- BothTables
    RequestsMayFail = TRUE
SPECIFICATION MCWorkspacesSpec
SYMMETRY Symmetry
INVARIANTS
    TypeOK
    NoTwins
    AlwaysADefault
    WholeWorkflows
    FiledInOwnWorkspace
PROPERTIES
    OnlyOwnersWrite
