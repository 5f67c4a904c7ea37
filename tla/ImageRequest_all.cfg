SPECIFICATION Spec
CONSTANTS
    Requests = {r1, r2}
    NoRequest = NoRequest
    Retries = 2
    Parts = 1
    DeactivateAnywhere = FALSE
    MaxSends = 2
CHECK_DEADLOCK FALSE
INVARIANTS HandleOutlivesCallbacks NoActionAfterFree ElementsOnce
PROPERTIES WaitEnds
