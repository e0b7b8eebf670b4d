SPECIFICATION FairSpec
CONSTANTS
    Processes = {p1, p2}
    MaxOutages = 2
    MaxKills = 1
INVARIANTS
    TypeOK
    SchemaSound
    GivesUpOnlyOnOutage
PROPERTIES
    ServesEventually
CHECK_DEADLOCK FALSE
