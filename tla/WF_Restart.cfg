CONSTANTS
    r1 = r1
    r2 = r2
    c1 = c1
    c2 = c2
    t1 = t1
    Runs = {r1, r2}
    Clicks = {c1, c2}
    SlackClicks = {c1, c2}
    OnRun <- RunEach
    Targets = {t1}
    TargetOf <- SameTarget
    Modes = {TRUE, FALSE}
    Durable = TRUE
    Patient = TRUE
    Faults = {"crash", "redis", "db"}
SPECIFICATION Spec
CHECK_DEADLOCK FALSE
INVARIANTS Inv RowsAreDecided
PROPERTIES ShadowWritesNothing ProposalsKeep
