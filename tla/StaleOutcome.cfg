SPECIFICATION UpdateSpec
CONSTANTS
    Tabs = {b1}
    MaxReleases = 2
    MaxPresses = 2
    MaxChecks = 1
    MaxForced = 0
INVARIANTS
    OutcomeIsThisRun
CHECK_DEADLOCK FALSE
