SPECIFICATION FairSpec
CONSTANTS
    Limit = 2
    Total = 4
    UsesCargo = TRUE
    Verdicts <- MCVerdicts
    Cancelled = "Cancelled"
    NoCandidate = NoCandidate
INVARIANTS
    NoCandidateTwice
    NoSilentLoss
PROPERTIES
    ImplementsContract
CHECK_DEADLOCK FALSE
