SPECIFICATION FairSpec
CONSTANTS
    Instances = {n1}
    Kinds = {"rules"}
    Syncs = {s1}
    Retries = {r1}
    Passes = {c1, c2}
    None = None
    Faults = {"outage", "error", "tamper", "refuse", "deadline"}
    MaxEdits = 1
    MaxEvents = 2
PROPERTIES
    Convergence
