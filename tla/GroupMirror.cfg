CONSTANTS
    Ids = {7, 8}
    Secrets = {"s"}
    v1 = v1
    v2 = v2
    Values = {v1, v2}
    None = None
    FirstValue <- MCFirstValue
    MaxChanges = 2
    MaxFaults = 1
SPECIFICATION FairSpec
CHECK_DEADLOCK FALSE
INVARIANT TypeOK
INVARIANT ReportIsGrounded
PROPERTY ObservedGenerationAdvances
PROPERTY EventuallyInSync
