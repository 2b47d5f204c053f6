CONSTANTS
    r = r
    g = g
    a = a
    main = main
    c1 = c1
    c2 = c2
    None = None
    Name = r
    Groups = {g}
    ProjectNames = {a}
    Branches = {main}
    Commits = {c1, c2}
    PipelineIds = {}
    Statuses = {}
    BranchOf <- MCBranchOf
    CommitTime <- MCCommitTime
    CreatedAt = 3
    ProjectSpecs <- MCProjectSpecs
    NotifierSpecs <- MCNotifierSpecs
    MaxChanges = 2
    MaxFaults = 1
SPECIFICATION FairSpec
CHECK_DEADLOCK FALSE
INVARIANT TypeOK
INVARIANT PartsAreSafe
INVARIANT CommitsAreStaged
PROPERTY DeliversEndToEnd
PROPERTY NewsIsInOrder
PROPERTY EventuallyAnnounced
