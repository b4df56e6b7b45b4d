INIT DiscoveryInit
NEXT DiscoveryNext
CONSTANTS
    Trees <- BelowExamples
    Hidden <- MCHidden
    TestNames <- MCTestNames
    KnownTargets <- MCKnown
    Nowhere = Nowhere
INVARIANTS
    BroadTargetsLeaveTestsOut
CHECK_DEADLOCK FALSE
