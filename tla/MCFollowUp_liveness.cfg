CONSTANTS
    Slots = {1, 2}
    Messages = {"m"}
    JobKinds = {"interface_utilization"}
    Threads = {t1, t2}
    PageLimit = 1
    MaxLost = 1
    Checkers = {job, manual}
    Adders = {a1, a2}
    Targets <- MCTargets
    MaxServices = 2
    MaxRefused = 1
    SslRuns = {job, request}
    Days <- MCDays
    MaxMissed = 1
SPECIFICATION MCSpec
INVARIANTS
    AlertsAreCounted
    MonitorsStayApart
    LevelWasAnnounced
PROPERTIES
    OverdueIsEscalated
    StatusConverges
    LevelFollowsCertificate
CHECK_DEADLOCK FALSE
