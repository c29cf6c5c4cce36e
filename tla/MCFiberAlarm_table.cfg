CONSTANTS
    Onts = {o1}
    Olts = {olt}
    OltOf <- MCOltOf
    ParentMin = 2
    Readings = {"nodata", "warning", "critical"}
    Polled = {o1}
    Mutable = {}
    Checkers = {t1}
    Faults = TRUE
    MaxRestarts = 1
SPECIFICATION Spec
INVARIANT
    DowntimeFollowsStatus
