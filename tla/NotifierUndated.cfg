CONSTANTS
    p2 = p2
    p1 = p1
    old = old
    new = new
    Projects = {p1}
    Shas = {old, new}
    NoSha = NoSha
    NoCur = NoCur
    PipelineIds = {1}
    Statuses = {"success"}
    CommitTime <- MCCommitTime
    CreationTimes = {3}
    Specs <- OneSpec
    MaxChanges = 2
    MaxFaults = 0
SPECIFICATION FairSpec
CHECK_DEADLOCK FALSE
PROPERTY EventsAreNotified
