CONSTANTS
    Sites <- MCSites
    MaxTime = 3
    Paths <- MCPaths
    MaxCacheSize = 4
    ChunkSize = 2
    Ranges <- MCRanges
    MaxRequests = 3
    MaxRenders = 1
SPECIFICATION Spec
INVARIANTS StaticIsCurrent RendersAreCurrent
 
CHECK_DEADLOCK FALSE
