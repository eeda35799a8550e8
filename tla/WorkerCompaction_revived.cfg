SPECIFICATION CompactionSpec
CONSTANTS
    MaxOps = 2
    ProbeLimit = 3
INVARIANT ActiveIsWatched
CHECK_DEADLOCK FALSE
