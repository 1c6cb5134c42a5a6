CONSTANTS
    here = here
    annex = annex
    depot = depot
    Locations = {here, depot}
    Here = here
    LookAlikes = {here}
    Quantities <- FewSample
    Levels <- FewLevels
    OrderCounts = {0}
    Commitments = {0, 2}
SPECIFICATION Spec
CHECK_DEADLOCK FALSE
INVARIANT QuietWritesNotRefuted
