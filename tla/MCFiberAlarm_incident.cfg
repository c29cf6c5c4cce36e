CONSTANTS
    Onts = {o1, o2}
    Olts = {olt}
    OltOf <- MCOltOf
    ParentMin = 2
    Readings = {"warning", "critical"}
    Polled = {}
    Mutable = {o1, o2}
    Checkers = {}
    Faults = FALSE
    MaxRestarts = 1
SPECIFICATION FairSpec
INVARIANT
    AlertedOncePerRow
PROPERTIES
    IncidentsStand
    IncidentClears
