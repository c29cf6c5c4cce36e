CONSTANTS
    Hosts = {h1}
    Metrics = {"cpu"}
    OfflineAfter <- MCOfflineAfter
    Window <- MCWindow
    Period <- MCPeriod
    Faults = TRUE
    MaxRestarts = 2
    Ports = {1, 2}
    Handled = {2}
    Pollers = {"job", "thread"}
    MaxMishaps = 1
    MaxUp = 2
    Near = 1
    Fresh = 1
    Temps = {2, 7, 10}
    Hyst = 4
    Limits <- MCLimits
    Sources = {s1}
    TrapCodes = {0, 2, 3}
    Communities = {"c", "d"}
    Quiet = 2
    WireLimit = 2
    MaxFailed = 1
    Limit <- MCLimit
    InRange <- MCInRange
    Defaults <- MCDefaults
    Savers = {r1, r2}
    LastDay = 3
    BackupKeep = 2
    MaxManual = 1
    Devices = {1, 2}
    NamedMost = 1
    Runs = {job, request}
    MaxLapses = 1
    Planned = {h}
    Planners = {r1, r2}
    Times = 4
    Longest = 3
    MaxAge = 1
    NameLists <- MCNameLists
    AnswerLists <- MCAnswerLists
    Numbers <- MCNumbers
    CommunityTexts <- MCTexts
    CommunityMost = 122
    TextMost = 128
    Cuts <- MCCuts
    Recorders = {job, request}
    RawReadings = {2}
    HandIns <- MCHandIns
    Scales = {1}
    GapMax = 1
    Retention = 1
    MaxClock = 2
    MaxReadings = 3
    MaxSlips = 1
SPECIFICATION MCSpec
INVARIANTS
    ComponentsTypeOK
    AgentsAreHeard
    DownAlertsAreLost
    PortsAreConsistent
    HealthAlarmsEarned
    QuietBecauseAnnounced
    LimitsStayOrdered
    LastGoodBackupKept
    RecentBackupsKept
    ToldIsTheList
    ActiveWindowsBounded
    PacketsUnderstood
    EnergyBounded
CHECK_DEADLOCK FALSE
