SPECIFICATION Spec
CONSTANTS
    a1 = a1
    a2 = a2
    m1 = m1
    m2 = m2
    m3 = m3
    Timer = timer
    NoThread = none
    NoMsg = nomsg
    App <- MCTwoApps
    Msgs <- MCThreeMsgs
    Immediate <- MCOneMsg
    Rates <- MCTight
    InitialRate = 300
    DestroyOverlap = FALSE
CHECK_DEADLOCK FALSE
SYMMETRY Symmetry
INVARIANTS TypeOK FifoOrder BurstWithinQuota StrandedOnlyPastQuota
