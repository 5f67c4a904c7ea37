SPECIFICATION Spec
CONSTANTS
    Settings <- MCOnInitial
    Counts <- MCOne
    Statuses <- MCOkOnly
    CacheSize = 2
    NoMsg = NoMsg
    MaxSeq = 4
    MaxWire = 3
    MaxTakeovers = 0
    MaxEvents = 0
CHECK_DEADLOCK FALSE
PROPERTIES CacheIsApplied
