CONSTANTS
    t1 = t1
    t2 = t2
    u1 = u1
    k1 = k1
    h1 = h1
    h2 = h2
    Texts = {t1, t2}
    Urls = {u1}
    SectionNames <- MCSectionNames
    Risky = {"tls"}
    Keys = {k1}
    Master <- MCMaster
    Backup <- MCBackup
    Starts <- FreshHub
    Asked <- ExpiryOperations
    Handlers = {h1}
    Sweeper = "sweeper"
    MaxEdits = 2
    MaxVersions = 1
SPECIFICATION Spec
PROPERTIES PermanentAskStands
CHECK_DEADLOCK FALSE
