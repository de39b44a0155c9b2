SPECIFICATION Spec
CONSTANTS
    Instances = {n1}
    Kinds = {"rules"}
    Syncs = {s1, s2}
    Retries = {r1}
    Passes = {c1}
    None = None
    Faults = {"outage", "error", "tamper", "refuse", "crash", "deadline", "holdback", "overlap", "disable", "manual", "discard"}
    MaxEdits = 3
    MaxEvents = 2
SYMMETRY Symmetry
INVARIANTS
    TypeOK
    LockMatchesHolder
PROPERTIES
    NeverBackwards
    HandsOff
