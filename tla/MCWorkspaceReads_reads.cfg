CONSTANTS
    q1 = q1
    q2 = q2
    q3 = q3
    s1 = s1
    s2 = s2
    s3 = s3
    s4 = s4
    s5 = s5
    u1 = u1
    u2 = u2
    default = default
    main = main
    other = other
    slugD = slugD
    slugA = slugA
    slugB = slugB
    v1 = v1
    v2 = v2
    Null = Null
    DefaultName = default
    DefaultSlug = slugD
    SlugOf <- Slugified
    Origins <- AllOrigins
    d1 = d1
    Requests <- TwoRequests
    Users <- TwoUsers
    Names <- ThreeNames
    Slugs <- ThreeSlugs
    Values <- OneValue
    Ops <- HomeOps
    StoredTables <- HomeTables
    RequestsMayFail = FALSE
    Readers <- OneReader
    ReadOps <- AllReadOps
    UserIds <- ThreeUsers
    Instants <- TwoInstants
    PageLimit = 1
    Filters <- ActiveOnly
    NoCursor = NoCursor
SPECIFICATION ReadsSpec
INVARIANTS
    OnlyOwnRowsShown
    DefaultsAreListed
    NoneSkipped
    NoneTwice
  PROPERTIES
    NothingLeftOut
    EveryRequestAnswered
  
