SPECIFICATION Spec
CONSTANTS
    NumUnits = 2
    Concurrency = 1
    MaxRetries = 0
    MaxListed = 1
INVARIANTS
    FailuresIsolated
CHECK_DEADLOCK FALSE
