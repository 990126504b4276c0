\* Handlers may hang or answer early, clients may stop sending at any point.
CONSTANTS
    MaxRequests = 2
    MaxBody = 2
    KeepAlive = TRUE
    Envs = {{"stop", "timeout", "hook"},
            {"stop", "timeout", "hook", "early", "cached"},
            {"stop", "timeout", "hook", "streaming"},
            {"early", "timeout", "streaming"}}
SPECIFICATION FairSpec
PROPERTIES
    EveryRequestAnswered
    StopFinishes
    StreamsEnd
\* The behaviour ends when the client has sent its last request.
CHECK_DEADLOCK FALSE
