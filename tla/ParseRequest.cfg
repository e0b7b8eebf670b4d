SPECIFICATION FairSpec
CONSTANTS
    NumUnits = 3
    Concurrency = 2
    MaxRetries = 1
    MaxListed = 2
INVARIANTS
    TypeOK
    SlotsConserved
    AnswerAccounts
    ServerErrorExplained
    WorkOwned
PROPERTIES
    ImplementsContract
    EverythingEnds
CHECK_DEADLOCK FALSE
