SPECIFICATION Spec
CONSTANTS
    Instances = {n1}
    Kinds = {"rules"}
    Syncs = {s1, s2}
    Retries = {r1}
    Passes = {c1}
    None = None
    Faults = {"holdback", "overlap"}
    MaxEdits = 2
    MaxEvents = 1
INVARIANT
    NothingForgotten
