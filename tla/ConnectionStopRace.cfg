\* stop() during a request, and a client that goes on with the next one.
CONSTANTS
    MaxRequests = 2
    MaxBody = 0
    KeepAlive = TRUE
    Envs = {{"stop"}}
SPECIFICATION Spec
PROPERTY CloseSparesRequests
CHECK_DEADLOCK FALSE
