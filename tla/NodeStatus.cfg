SPECIFICATION FairSpec
CONSTANTS
    Kinds = {"rules"}
    Pushers = {p1}
    Handlers = {h1}
    Passes = {c1}
    Faults = {"outage", "error", "refuse", "switch", "manual", "deadline", "crash"}
    MaxEvents = 2
INVARIANT
    TypeOK
PROPERTIES
    StatusSettles
    OutageTold
