SPECIFICATION GatesSpec
CONSTANTS
    States = {"killed", "escaped"}
    MaxTotal = 50
    Minimums <- Fifty
    NoMinimum = NoMinimum
    Precision = 13
INVARIANTS
    EqualScorePasses
CHECK_DEADLOCK FALSE
