SPECIFICATION AreaSpec
CONSTANTS
    Limit = 1
    Total = 4
    UsesCargo = TRUE
    Verdicts <- MCVerdicts
    Cancelled = "Cancelled"
    NoCandidate = NoCandidate
    Sources <- ThreeSources
    Roots <- TwoRoots
    SourceOf <- OfThreeSources
    RootOf <- InTwoRoots
    BelowTarget = {"util"}
    Untested = {}
    Areas = {1, 2, 3, 4, 5}
    MaxFaults = 1
    NoArea = NoArea
    Absent = Absent
    Broken = Broken
    Shared = Shared
INVARIANTS
    MutationsNeverMix
    NoAreaLeft
PROPERTIES
    ImplementsPool
CHECK_DEADLOCK FALSE
