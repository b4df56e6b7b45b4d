INIT CommandInit
NEXT CommandNext
CONSTANTS
    Mutants = {m1, m2}
    Reports = {r1}
    States = {"killed", "escaped", "notCovered"}
    MaxTotal = 50
    Minimums <- Percentages
    NoMinimum = NoMinimum
    Precision = 13
    Known <- MCKnown
    Patterns <- MCPatterns
    Malformed <- MCMalformed
    Scores = {50, 101}
    Files <- MCFiles
    NoScore = NoScore
    MaxOptions = 3
INVARIANTS
    GatesFollowScores
    OnlyRecordedEscapesPass
    UpdateSettles
    UpdateForgetsKilled
    TornBaselineStops
    AcceptedOptionsTakeEffect
    SelectionFollowsPolicy
CHECK_DEADLOCK FALSE
