CONSTANTS
    here = here
    annex = annex
    depot = depot
    Locations = {here, annex, depot}
    Here = here
    LookAlikes = {here, annex}
    Quantities <- Sample
    Levels <- SampleLevels
    OrderCounts = {0, 5, 6}
    Commitments = {0, 2}
SPECIFICATION Spec
CHECK_DEADLOCK FALSE
INVARIANTS TypeOK WritesAreModerate TransfersFit QuietTransfersRestore
    ShortagesAreMoved RefutationExplained
