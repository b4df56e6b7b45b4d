SPECIFICATION AreaSpec
CONSTANTS
    Limit = 1
    Total = 2
    UsesCargo = TRUE
    Verdicts <- MCVerdicts
    Cancelled = "Cancelled"
    NoCandidate = NoCandidate
    Sources <- MCSources
    Roots <- OneRoot
    SourceOf <- MCSourceOf
    RootOf <- InOneRoot
    BelowTarget = {"util"}
    Untested = {}
    Areas = {1, 2, 3, 4}
    MaxFaults = 1
    NoArea = NoArea
    Absent = Absent
    Broken = Broken
    Shared = Shared
INVARIANTS
    TestsSeeOneMutant
CHECK_DEADLOCK FALSE
