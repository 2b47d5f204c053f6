CONSTANTS
    p2 = p2
    p1 = p1
    old = old
    new = new
    Projects = {p1}
    Shas = {old, new}
    NoSha = NoSha
    NoCur = NoCur
    PipelineIds = {1}
    Statuses = {"success"}
    CommitTime <- Between
    CreationTimes = {3, 7}
    Specs <- OneSpec
    MaxChanges = 4
    MaxFaults = 0
SPECIFICATION Spec
CHECK_DEADLOCK FALSE
PROPERTY OldProjectsAreSeeded
