CONSTANTS
    g1 = g1
    g2 = g2
    a = a
    b = b
    main = main
    dev = dev
    c1 = c1
    c2 = c2
    r1 = r1
    None = None
    Groups = {g1}
    Names = {a, b}
    Branches = {main}
    Commits = {c1}
    Pipelines = {r1}
    BranchOf <- MCBranchOf
    Specs <- TwoNames
    MaxChanges = 2
    MaxFaults = 1
SPECIFICATION Spec
CHECK_DEADLOCK FALSE
INVARIANT TypeOK
INVARIANT NoOrphanedStamp
INVARIANT SuccessIsGuarded
INVARIANT StampsAreClaimed
PROPERTY CustodyIsKept
