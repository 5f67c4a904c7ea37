SPECIFICATION Spec
CONSTANTS
    Requests = {r1}
    NoRequest = NoRequest
    Retries = 1
    Parts = 1
    DeactivateAnywhere = TRUE
    MaxSends = 3
CHECK_DEADLOCK FALSE
INVARIANTS NoActionAfterFree
