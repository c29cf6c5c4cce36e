CONSTANTS
    Hosts = {h1}
    Olts = {o1, o2}
    OltIp <- MCOltIp
    Cooldown = 2
    Faults = TRUE
    MaxRestarts = 2
SPECIFICATION FairSpec
INVARIANTS
    OutageIsRemembered
PROPERTY
    DownIsDetected
