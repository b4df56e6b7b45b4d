SPECIFICATION FairSpec
CONSTANTS
    Callers = {a, b}
    Modes <- MCModes
INVARIANTS
    RunIsGuarded
    HandlerIsRestored
PROPERTIES
    InterruptIsKept
    EveryRunReturns
CHECK_DEADLOCK FALSE
