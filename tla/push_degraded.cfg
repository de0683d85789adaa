CONSTANTS
    s1 = s1
    s2 = s2
    main = main
    dev = dev
    base = base
    left = left
    right = right
    None = None
    Sessions <- MCSessions
    Refs <- TwoRefs
    Branches <- TwoRefs
    Rank <- RankTwo
    Commits <- Roots
    Closure <- RootsClosure
    Cloned <- OnlyFirst
    Authored <- SecondCommits
    V2Remotes <- Ahead
    Encrypted = FALSE
    Conditional = FALSE
    MaxLists = 1
    MaxBatches = 1
    MaxWrites = 2
SPECIFICATION Spec
INVARIANTS Restorable ListedIsFetchable PushIsBuildable
