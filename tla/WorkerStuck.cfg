\* A handler that blocks the event loop.
CONSTANTS
    Connections = {c1}
    KeepAlive = TRUE
    KeepAliveTimeout = 2
    WorkerTimeout = 1
    StopTimeout = 1
    HookMayRaise = FALSE
    HandlerMayBlock = TRUE
SPECIFICATION FairSpec
PROPERTY StuckWorkerIsKilled
CHECK_DEADLOCK FALSE
