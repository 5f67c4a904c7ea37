SPECIFICATION Spec
CONSTANTS
    A = A
    B = B
    C = C
    Members <- MCThree
    IP <- MCIP
    Pid <- MCPid
    InitialWeight <- MCUnequal
    Weights <- MCNoWeights
    BridgeFt = FALSE
    Heartbeat = 1
    Timeout = 3
    MaxChanges = 5
    MaxLosses = 0
CHECK_DEADLOCK FALSE
INVARIANTS StandbyIsWatching OneIncumbent
PROPERTIES IncumbentStays
