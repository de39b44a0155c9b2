SPECIFICATION Spec
CONSTANTS
    Callers = {c1, c2}
    NoCaller = nocaller
    MaxLapses = 2
    MaxForgets = 1
    MaxRounds = 1
    Pages = {p1, p2}
    Nodes = {na, nb}
    Nothing = nothing
    MaxChanges = 2
    MaxReads = 2
    Visits = {v1, v2}
    NoVisit = novisit
    Sources = {s1, s2}
    MaxFailures = 2
    MaxTracked = 1
    MaxPasswords = 2
    MaxVisits = 5
    Workers = {w1, dog}
    Watchdog = dog
    Streams = {e1}
    QueueSize = 1
    GracefulTimeout = TRUE
    MaxCrashes = 2
    MaxEvents = 2
    MaxSwitches = 2
    na = na
    nb = nb
    LogNodes <- PolledNodes
    Silent <- SilentNodes
    Pollers = {l1}
    Editors = {d1, d2}
    FetchLimit = 2
    SmallestSize = 1
    LargestSize = 2
    EnvSize = 2
    AskedSizes = {0, 2}
    MaxQueries = 2
    MaxEdits = 2
    MaxStarts = 1
    Passes = {q1, q2}
    Refusals = {r1}
    Corrections = {x1}
    NoFinding = nofinding
    MaxDriftEvents = 1
    MaxReconcileRuns = 2
    MaxFound = 4
    FileLines = 2
    Files = 2
    PageSize = 2
    MaxLines = 8
    RuleTexts = {t1, t2}
    ListKeys = {k1, k2}
    Unfetchable = {k1}
    Sections = {"blocked_services", "safebrowsing", "clients", "rewrites"}
    MaxTouches = 1
    MaxFaults = 1
    Tabs = {b1, b2}
    MaxReleases = 2
    MaxPresses = 2
    MaxChecks = 2
    MaxForced = 1
INVARIANTS
    FailureExplained
    Collapsed
    OneAdmin
    TriesBounded
    KeysMatch
    InForceIsStored
    NeverOvercounted
    StreaksTrue
    PagingMissesNothing
    PushAndLogAgree
    FailuresNamed
    OutcomeNotOld
    OffersTrue
CHECK_DEADLOCK FALSE
