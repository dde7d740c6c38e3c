SPECIFICATION ProcessesSpec
CONSTANTS
    Procs = {p1, p2, p3}
    Child = p1
    MaxWrites = 1
    Leader = p1
    Limit = 1
    MaxEmit = 2
    Callers = {g1, g2}
    Closers = {c1, c2}
    MaxCalls = 2
    Formulae = {"libpng", "libtiff", "zlib"}
    Shard <- MCShard
    SigningKeys <- MCSigningKeys
    Taps <- MCTaps
    Policies <- MCPolicies
    Generations = {2, 20}
    Retries = {0, 9}
    DefaultRetry = 3
    MaxRetry = 3
    Published = {0, 2}
    Started = 5
    Deadline = 11
    Refresh = 8
    Lifetime = 4
    Delay = 9
    MaxFaults = 1
    MaxRotations = 1
    MaxNow = 20
    NoValue = NoValue
    a = a
    b = b
    w1 = w1
    w2 = w2
    NoJob = NoJob
    Builders = {b1, b2}
    Keys = {k1}
    Locks = {l1, l2}
    Artifacts = {x, y}
    None = None
INVARIANTS
    ReturnsQuiet
    OutputJudged
    GeneratorExcludes
    StagingAtomic
    CacheSound
    ResolvedIsBound
    RotationServed
PROPERTIES
    PendingServed
    CallsReturn
CHECK_DEADLOCK FALSE
