SPECIFICATION Spec
CONSTANTS
    Requests = {r1}
    Replicas = {w1}
    NumPairs = 2
    TTL = 1
    MaxClock = 1
    MaxOutages = 1
INVARIANTS
    OkMeansReturned
CHECK_DEADLOCK FALSE
