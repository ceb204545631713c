\* An id for each request: the contract, and liveness while the connection lasts.
SPECIFICATION FairSpec
CONSTANTS
    Requests = {r1, r2}
    MaxId = 1
    MaxValues = 1
    None = None
PROPERTIES EveryRequestEnds ImplementsContract
CHECK_DEADLOCK FALSE
