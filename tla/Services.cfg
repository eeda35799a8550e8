SPECIFICATION Spec
CONSTANTS
    MaxDeletes = 2
    MaxLeaseFaults = 2
    MemoryEvents = {m1}
    Facts = {f1, f2}
    NoEvent = NoEvent
    MaxVersions = 2
    MaxAttempts = 2
    MaxQueued = 1
    CandidateCap = 2
    ProjectCap = 1
    BatchSize = 2
    MaxCandidates = 3
    MaxMemFaults = 2
    MaxOps = 2
    ProbeLimit = 3
INVARIANTS
    ServicesTypeOK DeletedIsGone
PROPERTIES
    StoppingEnds BootstrapSettles
    ProjectMemoryIsVerdicts NewestReviewSpeaks PendingReviewEnds SynthesisEnds
    WatchedSettles
CHECK_DEADLOCK FALSE
