CONSTANTS
    s1 = s1
    s2 = s2
    main = main
    dev = dev
    base = base
    left = left
    right = right
    None = None
    Sessions <- MCSessions
    Refs <- TwoRefs
    Branches <- TwoRefs
    Rank <- RankTwo
    Commits <- Solo
    Closure <- SoloClosure
    Cloned <- EachBase
    Authored <- Nothing
    V2Remotes <- Fresh
    Encrypted = TRUE
    Conditional = TRUE
    MaxLists = 1
    MaxBatches = 2
    MaxWrites = 3
SPECIFICATION FairSpec
PROPERTY IsRegister
