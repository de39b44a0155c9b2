SPECIFICATION Spec
CONSTANTS
    Instances = {n1}
    Kinds = {"rules", "settings"}
    Syncs = {s1, s2}
    Retries = {r1}
    Passes = {}
    None = None
    Faults = {"outage", "error", "holdback", "manual"}
    MaxEdits = 2
    MaxEvents = 2
SYMMETRY Symmetry
INVARIANT
    NothingForgotten
PROPERTY
    NeverBackwards
CHECK_DEADLOCK FALSE
