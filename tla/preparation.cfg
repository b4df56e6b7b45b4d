INIT PreparationInit
NEXT PreparationNext
CONSTANTS
    Trees <- MCTrees
    Hidden <- MCHidden
    TestNames <- MCTestNames
    KnownTargets <- MCKnown
    Nowhere = Nowhere
    CargoTrees <- MCCargoTrees
    Triples = {"t1", "t2", "t3"}
    NoTarget = NoTarget
    NoConfiguration = NoConfiguration
    Host = Host
    End = 6
    MaxRanges = 3
    LineStarts = {0, 2, 4}
    Shapes <- MCShapes
    GatesOf <- MCGatesOf
    Policies <- MCPolicies
    CommentLists <- MCComments
    Mutators = {"a", "b"}
    Files <- TwoFiles
    LastLine = 4
    Repositories <- TwoRepositories
    Seeds <- ThreeSeeds
    SourceDirectories <- BothSources
    Packages <- MCPackages
    TestsOf <- MCTestsOf
    Doctests = {"doc"}
    Unlisted = {"doc", "gated"}
    Spots <- MCSpots
    Profiled <- MCProfiled
    Order <- OneSource
    Registry <- TwoMutators
    Ranges = {1, 2}
    Texts = {"p", "q"}
    Paths = {"lib"}
    PathOf <- OwnPath
    Lines = {1, 2}
    LineOf <- MCLineOf
    Changes = {"p", "q"}
    ChangeOf <- MCChangeOf
    Viable <- AllViable
    MaxOffers = 4
    NoRange = NoRange
    Threads = {"a1", "a2", "b1"}
    ProcessOf <- MCProcessOf
    NumberOf <- MCNumberOf
    Attempts = 2
    MaxCount = 3
    MaxKills = 1
    MaxFailures = 1
    Worlds <- MCWorlds
    Cloners = {"w1", "w2"}
    Template = "template"
    Crates <- MCCrates
    Foreign <- MCForeign
    Counted <- MCCounted
    Generated = "generated"
    MaxFinished = 2
INVARIANTS
    ProductionIsCollected
    OnlyBuiltModulesAreCollected
    OnlyFaultsAreRefused
    TargetsFollowCargo
    MergeIsExact
    FilterIsExact
    ChangedLinesAreExact
    CoverageLosesNoKill
    IdNamesOneMutant
    FiltersRenameNothing
    PlanIsExact
    AreaHasOneHolder
    LeftoversAreExplained
    CopyIsClosed
    SoundWorkspaceIsCopied
    TestsRunOwnBuild
    OutputIsClean
CHECK_DEADLOCK FALSE
