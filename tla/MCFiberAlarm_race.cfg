CONSTANTS
    Onts = {o1}
    Olts = {olt}
    OltOf <- MCOltOf
    ParentMin = 2
    Readings = {"normal", "critical"}
    Polled = {}
    Mutable = {}
    Checkers = {t1}
    Faults = FALSE
    MaxRestarts = 0
SPECIFICATION Spec
INVARIANTS
    AlertedOncePerRow
