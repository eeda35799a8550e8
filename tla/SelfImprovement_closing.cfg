\* An approval, and a discard of the same request that begins before it has ended.
SPECIFICATION SourceSpec
CONSTANTS
    Free = Free
    MaxWorkers = 2
    MaxCalls = 2
    MaxRequestFaults = 0
PROPERTY ClosingEnds
CHECK_DEADLOCK FALSE
