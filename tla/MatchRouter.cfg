SPECIFICATION Spec
CONSTANTS
    Requests = {r1}
    Replicas = {w1, w2}
    NumPairs = 2
    TTL = 1
    MaxClock = 2
    MaxOutages = 1
INVARIANTS
    TypeOK
    StoredWhileFresh
    NotFoundMeansGone
    PolledResultComplete
    UsageAgreesWithAnswer
PROPERTIES
    PollsNeverRegress
    EachBatchKeepsContract
CHECK_DEADLOCK FALSE
