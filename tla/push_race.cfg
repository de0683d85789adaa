CONSTANTS
    s1 = s1
    s2 = s2
    main = main
    dev = dev
    base = base
    left = left
    right = right
    None = None
    Sessions <- MCSessions
    Refs <- TwoRefs
    Branches <- TwoRefs
    Rank <- RankTwo
    Commits <- Line
    Closure <- LineClosure
    Cloned <- OneAhead
    Authored <- Nothing
    V2Remotes <- FreshOrOld
    Encrypted = TRUE
    Conditional = TRUE
    MaxLists = 1
    MaxBatches = 1
    MaxWrites = 2
SPECIFICATION Spec
INVARIANTS TypeOK Restorable ListedIsFetchable PushIsBuildable ConflictIsFinal
PROPERTY IsRegister
