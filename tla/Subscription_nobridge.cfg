SPECIFICATION Spec
CONSTANTS
    a1 = a1
    a2 = a2
    App <- MCOneApp
    Timer = timer
    Bridge = bridge
    NoThread = none
    Configs <- MCMarketRefused
    MaxOpen = 2
CHECK_DEADLOCK FALSE
PROPERTIES DestroyCompletes
