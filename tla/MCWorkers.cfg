SPECIFICATION FairSpec
CONSTANTS
    None = None
    Docs = {d1}
    Scenarios = {s1, s2}
    Workers = {w1, w2}
    Operators = {o1}
    Reviewers = {r1}
    v1 = v1
    s1 = s1
    Versions = {v1}
    NumChunks <- MCNumChunks
    Signals <- NoSignal
    SourceMappings <- Mappings
    VerticalOf <- MCVerticalOf
    Disabled = {s2}
    Deleted = {s2}
    ParkUnresolved = TRUE
    DeleteOnVersionChange = TRUE
    ConfigBatchSize = None
    MaxBatchSize = 2
    MaxFaults = 2
    MaxDuplicates = 1
    MaxCalls = 3
INVARIANTS TypeOK ErrorMatchesStatus IndexedIsComplete
PROPERTIES IndexedIsFinal HandoffReached ReceiptIsHonest ImplementsLifecycle AssignmentSurvives PipelineNeverLeavesFailed Settles
CHECK_DEADLOCK FALSE
