CONSTANTS
    r1 = r1
    r2 = r2
    c1 = c1
    c2 = c2
    t1 = t1
    Runs = {r1}
    Clicks = {c1, c2}
    SlackClicks = {c2}
    OnRun <- OneRun
    Targets = {t1}
    TargetOf <- SameTarget
    Modes = {FALSE}
    Durable = TRUE
    Patient = TRUE
    Faults = {}
SPECIFICATION Spec
CHECK_DEADLOCK FALSE
INVARIANT RejectedMeansUntouched
