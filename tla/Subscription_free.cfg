SPECIFICATION Spec
CONSTANTS
    a1 = a1
    a2 = a2
    App <- MCOneApp
    Timer = timer
    Bridge = bridge
    NoThread = none
    Configs <- MCMarketAsync
    MaxOpen = 2
CHECK_DEADLOCK FALSE
INVARIANTS NobodyInsideAfterFree
