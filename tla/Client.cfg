CONSTANTS
    Calls = {t1, t2}
    Conns = {c1, c2, c3}
    Hosts = {a, b}
    Home = a
    NoOne = NoOne
    Replies <- MCReplies
    MaxRedirects = 1
    MaxRetries = 1
    MaxTime = 4
    Setups <- MCSetups
    Count = 2
    Period = 2
    Optimistic = FALSE
SPECIFICATION Spec
INVARIANTS ExclusiveUse OpenIsOwned RetriesAreAllowed HostIsRight
           WindowRespected
PROPERTY CallsEnd
CHECK_DEADLOCK FALSE
