SPECIFICATION Spec
CONSTANTS
    Settings <- MCDefaults
    Counts <- MCOne
    Statuses <- MCOkOnly
    CacheSize = 2
    NoMsg = NoMsg
    MaxSeq = 4
    MaxWire = 3
    MaxTakeovers = 0
    MaxEvents = 1
CHECK_DEADLOCK FALSE
PROPERTIES NothingWhileStale
