SPECIFICATION AreaSpec
CONSTANTS
    Limit = 2
    Total = 4
    UsesCargo = TRUE
    Verdicts <- MCVerdicts
    Cancelled = "Cancelled"
    NoCandidate = NoCandidate
    Sources <- ThreeSources
    Roots <- TwoRoots
    SourceOf <- OfThreeSources
    RootOf <- InTwoRoots
    BelowTarget = {"util"}
    Untested = {2}
    Areas = {1, 2, 3, 4, 5, 6}
    MaxFaults = 0
    NoArea = NoArea
    Absent = Absent
    Broken = Broken
    Shared = Shared
INVARIANTS
    TestsSeeOneMutant
PROPERTIES
    ImplementsPool
CHECK_DEADLOCK FALSE
