CONSTANTS
    w1 = w1  w2 = w2  j1 = j1  j2 = j2  host1 = host1
    Workers = {w1, w2}
    Names = {host1}
    NameOf <- MCNameOf
    Jobs = {j1}
    Resources <- MCResources
    ResourceOf <- MCResourceOf
    Priority <- SamePriority
    MaxAttempts = 1
    LeaseTTL = 1
    Backoff = 0
    MaxFence = 3
    MaxFaults = 0
    MaxAgentCrashes = 0
    NoJob = NoJob
    NoOwner = NoOwner
SPECIFICATION AgentSpec
SYMMETRY Symmetry
PROPERTIES StaleCannotBegin
