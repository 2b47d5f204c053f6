CONSTANTS
    p2 = p2
    p1 = p1
    old = old
    new = new
    Projects = {p1}
    Shas = {old, new}
    NoSha = NoSha
    NoCur = NoCur
    PipelineIds = {1}
    Statuses = {"running", "success"}
    CommitTime <- MCCommitTime
    CreationTimes = {3}
    Specs <- AnySpec
    MaxChanges = 2
    MaxFaults = 2
SPECIFICATION FairSpec
CHECK_DEADLOCK FALSE
PROPERTY EventuallyNotified
PROPERTY EventuallyConditionCurrent
