SPECIFICATION FairSpec
CONSTANTS
    None = None
    s1 = s1  s2 = s2  s3 = s3  wide = wide  narrow = narrow
    Schemas = {wide, narrow}
    Scenarios = {s1, s2, s3}
    SchemaOf <- MCSchemaOf
    VersionOf <- MCVersionOf
    Callers = {a, b}
    AutoCreate = TRUE
    StaleAfter = 2
    VerifyInterval = 1
    CacheTTL = 1
    WaitTimeout = 1
    MaxFaults = 1
    MaxSlow = 1
    MaxRetires = 1
INVARIANT TypeOK
INVARIANT ReadyIsBacked
PROPERTY FailedIsTerminal
PROPERTY ReadyIsKept
PROPERTY EnsureEnds
PROPERTY ClaimIsDecided
PROPERTY ImplementsRegistry
