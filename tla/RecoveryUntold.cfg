SPECIFICATION Spec
CONSTANTS
    Kinds = {"rules", "settings"}
    Pushers = {}
    Handlers = {h1}
    Passes = {c1}
    Faults = {"outage", "deadline"}
    MaxEvents = 2
INVARIANT
    RecoveryTold
