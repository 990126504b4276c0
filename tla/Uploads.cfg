CONSTANTS
    HeadersLimit = 10
    BodyLimit = 3
    FlushFactor = 3
    MemoryLimit = 4
    Disposition <- MCDisposition
    RouteLimits <- MCRouteLimits
    Symbols <- MCSymbols
    Setups <- MCSetups
    Json <- MCJson
    Truncated <- MCTruncated
    Validators <- MCValidators
    Fields <- MCFields
    Classes <- MCClasses
SPECIFICATION Spec
INVARIANTS RequestsAreAsSent LimitsAreOwn FormIsTheBody LoadsAreChecked
CHECK_DEADLOCK FALSE
