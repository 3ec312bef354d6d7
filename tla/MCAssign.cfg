SPECIFICATION Spec
CONSTANTS
    None = None
    Docs = {d1}
    Scenarios = {s1, s2}
    Workers = {w1}
    Operators = {}
    Reviewers = {r1, r2}
    v1 = v1
    s1 = s1
    Versions = {v1}
    NumChunks <- MCNumChunks
    Signals <- NoSignal
    SourceMappings <- Mappings
    VerticalOf <- MCVerticalOf
    Disabled = {s2}
    Deleted = {}
    ParkUnresolved = TRUE
    DeleteOnVersionChange = TRUE
    ConfigBatchSize = 1
    MaxBatchSize = 2
    MaxFaults = 0
    MaxDuplicates = 1
    MaxCalls = 2
PROPERTIES AssignIsDurable
CHECK_DEADLOCK FALSE
