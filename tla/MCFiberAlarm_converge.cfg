CONSTANTS
    Onts = {o1}
    Olts = {olt}
    OltOf <- MCOltOf
    ParentMin = 2
    Readings = {"unknown", "critical"}
    Polled = {o1}
    Mutable = {}
    Checkers = {t1}
    Faults = FALSE
    MaxRestarts = 1
SPECIFICATION FairSpec
PROPERTY
    OntConverges
