SPECIFICATION Spec
CONSTANTS
    A = A
    B = B
    C = C
    Members <- MCTwo
    IP <- MCIP
    Pid <- MCPid
    InitialWeight <- MCEqual
    Weights <- MCWeights
    BridgeFt = FALSE
    Heartbeat = 1
    Timeout = 3
    MaxChanges = 4
    MaxLosses = 2
CHECK_DEADLOCK FALSE
PROPERTIES HighestWeightWins
