SPECIFICATION Spec
CONSTANTS
    Settings <- MCMost
    Counts <- MCTwo
    Statuses <- MCBoth
    CacheSize = 2
    NoMsg = NoMsg
    MaxSeq = 4
    MaxWire = 2
    MaxTakeovers = 1
    MaxEvents = 2
CHECK_DEADLOCK FALSE
INVARIANTS TypeOK NoSilentGap WaitingIsAsked QualityIsTold
PROPERTIES StaleRecovers
