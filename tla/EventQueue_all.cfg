SPECIFICATION Spec
CONSTANTS
    Objects <- MCObjects
    Helpers <- MCHelpers
    MaxSize = 1
    ChunkSize = 1
    Low = 0
    High = 2
    Careful = TRUE
    CloseFits = TRUE
    MaxEvents = 2
    MaxRounds = 1
INVARIANTS TokensMatch MemoryBounded NoUseAfterFree
PROPERTIES InOrder StopIsHeard EventsAreDispatched WaitEnds
CHECK_DEADLOCK FALSE
