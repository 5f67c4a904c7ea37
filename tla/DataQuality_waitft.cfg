SPECIFICATION Spec
CONSTANTS
    Settings <- MCWaitFt
    Counts <- MCOne
    Statuses <- MCOkOnly
    CacheSize = 2
    NoMsg = NoMsg
    MaxSeq = 4
    MaxWire = 3
    MaxTakeovers = 1
    MaxEvents = 1
CHECK_DEADLOCK FALSE
INVARIANTS NoGapEver
