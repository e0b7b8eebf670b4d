SPECIFICATION Spec
CONSTANTS
    acme = acme
    one = one
    Partners <- MCPartners
    NumericNames <- MCNumericNames
    NameAsId <- MCNameAsId
    Commands = {c1, c2, c3}
    Requests = {q1}
    MaxKeys = 3
SYMMETRY CommandSymmetry
INVARIANTS
    TypeOK
    OldKeysRetired
    UnseenKeyExplained
PROPERTIES
    OldKeyLockedOut
    HistoryKept
CHECK_DEADLOCK FALSE
