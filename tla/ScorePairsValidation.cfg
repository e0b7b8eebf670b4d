SPECIFICATION Spec
CONSTANTS
    NumPairs = 2
    Concurrency = 1
    MaxRetries = 1
INVARIANTS
    ValidationNotRetried
CHECK_DEADLOCK FALSE
