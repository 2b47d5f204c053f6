CONSTANTS
    p2 = p2
    p1 = p1
    old = old
    new = new
    Projects = {p1}
    Shas = {old, new}
    NoSha = NoSha
    NoCur = NoCur
    PipelineIds = {1}
    Statuses = {"success"}
    CommitTime <- MCCommitTime
    CreationTimes = {3}
    Specs <- OneSpec
    MaxChanges = 4
    MaxFaults = 1
SPECIFICATION Spec
CHECK_DEADLOCK FALSE
INVARIANT TypeOK
INVARIANT NoSilentRecord
INVARIANT SingleWriter
INVARIANT DuplicatesNeedACause
PROPERTY DeliversAsPromised
