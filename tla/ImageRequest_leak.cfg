SPECIFICATION Spec
CONSTANTS
    Requests = {r1}
    NoRequest = NoRequest
    Retries = 1
    Parts = 1
    DeactivateAnywhere = FALSE
    MaxSends = 3
CHECK_DEADLOCK FALSE
INVARIANTS HandleIsFreed
