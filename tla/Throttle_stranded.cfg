SPECIFICATION Spec
CONSTANTS
    a1 = a1
    a2 = a2
    m1 = m1
    m2 = m2
    m3 = m3
    Timer = timer
    NoThread = none
    NoMsg = nomsg
    App <- MCOneApp
    Msgs <- MCThreeMsgs
    Immediate <- MCNone
    Rates <- MCOnePerTick
    InitialRate = 100
    DestroyOverlap = FALSE
CHECK_DEADLOCK FALSE
PROPERTIES QueuedMessageRuns
