CONSTANTS
    Hosts = {h1}
    Olts = {o1}
    OltIp <- MCOltIp
    Cooldown = 1
    Faults = FALSE
    MaxRestarts = 0
SPECIFICATION Spec
PROPERTY NoParentBehindPulih
