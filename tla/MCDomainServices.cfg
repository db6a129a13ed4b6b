CONSTANTS
    Toggles = {t1, t2}
    OwnJobs = 2
    MaxRecords = 2
    MaxOwn = 1
    Requests = {1, 2}
    Lifetime = 3
    Window = 1
    MaxAttempts = 2
    MaxIssued = 3
SPECIFICATION ServiceSpec
SYMMETRY Symmetry
INVARIANTS
    
    OneBackgroundOrder
CHECK_DEADLOCK FALSE
