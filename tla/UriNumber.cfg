CONSTANTS
    Directories <- MCDirectories
    CycleCounts = {0, 2, 10}
    MAX_URI_LENGTH = 13
    MaxNumber = 11
    MaxUnclaimed = 4
SPECIFICATION Spec
INVARIANTS
    MasterUriShowsCycle
    ChildUriShowsCycle
    UriStopsByLengthOnly
CHECK_DEADLOCK FALSE
