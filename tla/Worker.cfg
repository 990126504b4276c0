\* Two connections: the reaper finds one idle while the other is served, and
\* stop_server waits for one while the other closes.  One turn of the reaper
\* makes the first scan only, the next both.
CONSTANTS
    Connections = {c1, c2}
    KeepAlive = TRUE
    KeepAliveTimeout = 1
    WorkerTimeout = 2
    StopTimeout = 2
    HookMayRaise = TRUE
    HandlerMayBlock = TRUE
SPECIFICATION FairSpec
INVARIANTS
    NobodyIsForgotten
PROPERTIES
    IdleConnectionsEnd
    WorkerExits
\* A killed or exited worker is gone.
CHECK_DEADLOCK FALSE
