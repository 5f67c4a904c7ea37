SPECIFICATION Spec
CONSTANTS
    Requests = {r1}
    NoRequest = NoRequest
    Retries = 1
    Parts = 2
    DeactivateAnywhere = FALSE
    MaxSends = 3
CHECK_DEADLOCK FALSE
INVARIANTS HandleOutlivesAll
