SPECIFICATION FairSpec
CONSTANTS
    NumPairs = 3
    Concurrency = 2
    MaxRetries = 1
INVARIANTS
    TypeOK
    SlotsConserved
    NoOrphans
PROPERTIES
    ImplementsContract
    BatchEnds
CHECK_DEADLOCK FALSE
