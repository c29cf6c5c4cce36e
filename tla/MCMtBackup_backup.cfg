CONSTANTS
    k1 = k1
    k2 = k2
    c1 = c1
    c2 = c2
    Hosts = {h1}
    Keys = {k1, k2}
    NoKey = NoKey
    Configs = {c1, c2}
    Fail = Fail
    Mismatch = Mismatch
    Job = Job
    Requests = {r1}
    Settings <- MCSettings
    Routers <- MCRouters
    MaxMishaps = 1
SPECIFICATION FairSpec
INVARIANTS VersionsAreExports OneWarning
PROPERTIES StoredWithinKeep BackupConverges
