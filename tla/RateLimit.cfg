SPECIFICATION Spec
CONSTANTS
    Keys = {k1, k2}
    Token = 3
    Burst = 2
    Refill = 1
    Second = 2
    MaxNow = 6
    MaxRestarts = 1
INVARIANTS
    TypeOK
    WindowBound
PROPERTIES
    RetryAfterHonest
CHECK_DEADLOCK FALSE
