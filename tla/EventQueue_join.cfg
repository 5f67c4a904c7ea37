SPECIFICATION Spec
CONSTANTS
    Objects <- MCOneObject
    Helpers <- MCNobody
    MaxSize = 2
    ChunkSize = 1
    Low = 1
    High = 2
    Careful = TRUE
    CloseFits = TRUE
    MaxEvents = 3
    MaxRounds = 1
PROPERTIES DispatcherStops
CHECK_DEADLOCK FALSE
