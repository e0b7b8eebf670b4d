SPECIFICATION FairSpec
CONSTANTS
    Requests = {r1, r2}
    Replicas = {w1}
    NumPairs = 1
    TTL = 0
    MaxClock = 1
    MaxOutages = 1
PROPERTIES
    AcceptedSettles
    ClientLearnsOutcome
CHECK_DEADLOCK FALSE
