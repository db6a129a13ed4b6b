CONSTANTS
    w1 = w1  w2 = w2  j1 = j1  j2 = j2  j3 = j3  host = host
    Workers = {w1, w2}
    Names = {host}
    NameOf <- MCNameOf
    Jobs = {j1, j2}
    Resources <- MCResources
    ResourceOf <- MCResourceOf
    Priority <- SamePriority
    MaxAttempts = 2
    LeaseTTL = 2
    Backoff = 1
    MaxFence = 5
    MaxFaults = 1
    NoJob = NoJob
    NoOwner = NoOwner
SPECIFICATION Spec
SYMMETRY Symmetry
INVARIANTS TypeOK HolderOwnsRow FencesNotShared AttemptsBounded
PROPERTIES AttemptEndsOnce ImplementsLifecycle
