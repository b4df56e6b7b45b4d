SPECIFICATION FairSpec
CONSTANTS
    Timeout = 9
    MaxInterval = 4
    Horizon = 11
    MaxFaults = 3
    Never = Never
INVARIANTS
    NothingSurvivesAStop
    NoSignalAfterReap
    NoFalseTimeout
PROPERTIES
    WaitEnds
CHECK_DEADLOCK FALSE
