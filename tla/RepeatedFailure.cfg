SPECIFICATION Spec
CONSTANTS
    Kinds = {"rules", "settings"}
    Pushers = {p1}
    Handlers = {}
    Passes = {}
    Faults = {"outage"}
    MaxEvents = 1
INVARIANT
    SaysItOnce
