SPECIFICATION Spec
CONSTANTS
    MaxRuns = 2
    Commands = {c1}
    MaxRestartFaults = 1
    NoOwner = NoOwner
    Sends = {"m1", "m2"}
    MaxSessions = 2
    MaxTurns = 1
    MaxSessFaults = 1
INVARIANTS
    ProcessesTypeOK LockCoversWork AcceptedIsHeard GoneHasNoSession
PROPERTIES
    GatewaySourceKept RunSettles RunReleasesLock
    StoppedStays ActiveComesToRest
CHECK_DEADLOCK FALSE
