SPECIFICATION Spec
CONSTANTS
    A = A
    B = B
    C = C
    Members <- MCTwo
    IP <- MCIP
    Pid <- MCPid
    InitialWeight <- MCEqual
    Weights <- MCOneWeight
    BridgeFt = FALSE
    Heartbeat = 1
    Timeout = 3
    MaxChanges = 4
    MaxLosses = 0
CHECK_DEADLOCK FALSE
INVARIANTS AtMostOneActive
