CONSTANTS
    i1 = i1
    d1 = d1
    h1 = h1
    h2 = h2
    Items = {i1}
    LookAlikes <- Alone
    Levels = {19, 20}
    Commitments = {0, 1}
    Ids = {d1}
    Handlers = {h1, h2}
    Threshold = 5
    MarkerLife = 1
    Interval = 1
    Faults = {"redis", "shopify", "start", "mail", "crash"}
SPECIFICATION FairSpec
CHECK_DEADLOCK FALSE
INVARIANTS TypeOK OneRunPerMark SuppressedReplayable IntakeInv
PROPERTIES ImplementsLedger CorrectionsSettle GapsResurface
