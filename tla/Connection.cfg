\* Two requests with two chunks each: a second packet for a body, and a
\* request after an answered one.  The first two environments are those in
\* which all properties are claimed; the others break one assumption or more.
CONSTANTS
    MaxRequests = 2
    MaxBody = 2
    KeepAlive = TRUE
    Envs = {{"stop", "timeout", "hook"},
            {"stop", "raise"},
            {"stop", "timeout", "hook", "failing"},
            {"stop", "timeout", "hook", "early", "cached"},
            {"stop", "raise", "early", "cached", "failing"},
            {"stop", "raise", "pipelining"},
            {"stop", "timeout", "malformed"},
            {"timeout", "raise", "hook", "slow client"},
            {"stop", "timeout", "hook", "streaming"},
            {"stop", "raise", "streaming"},
            {"timeout", "slow client", "streaming", "length"}}
SPECIFICATION Spec
INVARIANTS
    IdleIsClean
    OneAnswer
    OwnBody
    SomeoneWillResume
    ReadNeverFails
    StoppedIsNotIdle
PROPERTIES
    StopSparesRequests
    StreamIsUninterrupted
    LifeSpec
\* The behaviour ends when the client has sent its last request.
CHECK_DEADLOCK FALSE
