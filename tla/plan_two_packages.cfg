SPECIFICATION PlainSpec
CONSTANTS
    Order <- TwoSources
    Registry <- TwoMutators
    Ranges = {1, 2}
    Texts = {"p", "q"}
    Paths = {"lib"}
    PathOf <- SamePath
    Lines = {1, 2}
    LineOf <- MCLineOf
    Changes = {"p", "q"}
    ChangeOf <- MCChangeOf
    Viable <- AllViable
    MaxOffers = 3
    NoRange = NoRange
INVARIANTS
    IdNamesOneMutant
CHECK_DEADLOCK FALSE
