SPECIFICATION Spec
CONSTANTS
    None = None
    Docs = {d1}
    Scenarios = {s1, s2}
    Workers = {w1}
    Operators = {o1, o2}
    Reviewers = {r1, r2}
    v1 = v1
    s1 = s1
    Versions = {v1, v2}
    NumChunks <- MCNumChunks
    Signals <- NoSignal
    SourceMappings <- Mappings
    VerticalOf <- MCVerticalOf
    Disabled = {s2}
    Deleted = {}
    ParkUnresolved = TRUE
    DeleteOnVersionChange = TRUE
    ConfigBatchSize = 2
    MaxBatchSize = 3
    MaxFaults = 1
    MaxDuplicates = 2
    MaxCalls = 3
SYMMETRY HumanSymmetry
INVARIANTS NoOrphans
PROPERTIES ReceiptIsHonest ReportedIsDone
CHECK_DEADLOCK FALSE
