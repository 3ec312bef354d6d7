SPECIFICATION Spec
CONSTANTS
    None = None
    Docs = {d1}
    Scenarios = {s1, s2}
    Workers = {w1, w2}
    Operators = {}
    Reviewers = {}
    v1 = v1
    s1 = s1
    Versions = {v1}
    NumChunks <- MCNumChunks
    Signals <- ByMapping
    SourceMappings <- Mappings
    VerticalOf <- MCVerticalOf
    Disabled = {s2}
    Deleted = {}
    ParkUnresolved = TRUE
    DeleteOnVersionChange = TRUE
    ConfigBatchSize = 1
    MaxBatchSize = 2
    MaxFaults = 0
    MaxDuplicates = 1
    MaxCalls = 0
PROPERTIES LoserSkipsLedgerWrites
CHECK_DEADLOCK FALSE
