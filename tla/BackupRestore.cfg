SPECIFICATION Spec
CONSTANTS
    Backups = {"b1", "old"}
    Legacy = {"old"}
    Requests = {"r1", "r2"}
    MaxKeys = 3
    MaxWrites = 1
    MaxRestores = 2
    MaxFaults = 1
INVARIANT OneActiveRestore
PROPERTIES BackupsAreWhole ResumedRestoreIsWhole FinishedRestoreNotRepeated
CHECK_DEADLOCK FALSE
