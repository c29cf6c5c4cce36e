CONSTANTS
    MaxDir = 2
    MaxOnt = 4
    Names <- MCNames
    NoName = ""
    Key <- MCKey
    Sns <- MCSns
    NoSn = ""
    Indices = {1}
    NoIndex = 0
    DiscoveredSn <- MCDiscoveredSn
    Forms <- MCForms
    Files <- MCFiles
    Threads = {t1, t2}
    NoThread = NoThread
    MaxRequests = 4
    Faults = TRUE
SYMMETRY MCSymmetry
SPECIFICATION Spec
PROPERTIES NamesAreFollowed OthersAreKept NewRowHasNoMemory
