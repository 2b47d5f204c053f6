CONSTANTS
    g1 = g1
    g2 = g2
    a = a
    b = b
    main = main
    dev = dev
    c1 = c1
    c2 = c2
    r1 = r1
    None = None
    Groups = {g1}
    Names = {a}
    Branches = {main}
    Commits = {}
    Pipelines = {r1}
    BranchOf <- MCBranchOf
    Specs <- TwoSettings
    MaxChanges = 2
    MaxFaults = 1
SPECIFICATION FairSpec
CHECK_DEADLOCK FALSE
PROPERTY DeletionCompletes
PROPERTY EventuallyInSync
