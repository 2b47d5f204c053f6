CONSTANTS
    p1 = p1
    p2 = p2
    old = old
    new = new
    Projects = {p1, p2}
    Shas = {old, new}
    NoSha = NoSha
    NoCur = NoCur
    PipelineIds = {1}
    Statuses = {"success"}
    CommitTime <- MCCommitTime
    CreationTimes = {3}
    Specs <- OneSpec
    MaxChanges = 3
    MaxFaults = 1
SPECIFICATION Spec
CHECK_DEADLOCK FALSE
INVARIANT RecordIsTruthful
INVARIANT RepeatsHaveCauses
SYMMETRY Symmetric
