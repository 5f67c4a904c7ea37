SPECIFICATION Spec
CONSTANTS
    a1 = a1
    a2 = a2
    App <- MCApp
    Timer = timer
    Bridge = bridge
    NoThread = none
    Configs <- MCAllConfigs
    MaxOpen = 2
CHECK_DEADLOCK FALSE
SYMMETRY Symmetry
INVARIANTS TypeOK NoUseAfterFree QuietMeansNothingOutstanding ActionCanBeRemoved OneDestroyNotification QueueCanBeDestroyed
