\* A client that is slow to read one answer.
CONSTANTS
    MaxRequests = 1
    MaxBody = 0
    KeepAlive = TRUE
    Envs = {{"slow client"}}
SPECIFICATION Spec
INVARIANT AfterEachResponse
CHECK_DEADLOCK FALSE
