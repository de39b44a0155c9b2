SPECIFICATION FairSpec
CONSTANTS
    Instances = {n1}
    Kinds = {"rules"}
    Syncs = {s1, s2}
    Retries = {r1}
    Passes = {c1}
    None = None
    Faults = {"outage", "refuse", "crash", "deadline", "holdback", "overlap"}
    MaxEdits = 2
    MaxEvents = 2
PROPERTIES
    Convergence
