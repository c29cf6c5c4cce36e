CONSTANTS
    Hosts = {h1}
    Olts = {o1, o2}
    OltIp <- MCOltIp
    Cooldown = 2
    Faults = FALSE
    MaxRestarts = 2
SPECIFICATION FairSpec
PROPERTIES
    OutageSurvives
    ImplementsLedger
    RecoveryClosesEvent
    ParentFollowsHost
