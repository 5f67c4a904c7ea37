SPECIFICATION Spec
CONSTANTS
    Settings <- MCDefaults
    Counts <- MCOne
    Statuses <- MCBoth
    CacheSize = 2
    NoMsg = NoMsg
    MaxSeq = 3
    MaxWire = 3
    MaxTakeovers = 0
    MaxEvents = 0
CHECK_DEADLOCK FALSE
PROPERTIES StaleMessageAsksNothing
