\* Three requests of two clients: one that creates a session, one that finds
\* it in another worker, one of somebody else.
CONSTANTS
    Clients = {alice, bob}
    Workers = {w1, w2}
    MaxRequests = 3
    Envs = {{"raise", "values", "guard", "hook"},
            {"values", "late"},
            {"raise", "hook", "cached"},
            {"overlap", "crash"},
            {"overlap", "cached"},
            {"guard", "cached", "headers"}}
SPECIFICATION Spec
INVARIANTS
    OwnSession
    SessionIsLatest
\* Clients send no more than MaxRequests.
CHECK_DEADLOCK FALSE
