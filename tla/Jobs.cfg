\* The job lock on follow-ups, store changes, detached continuations and ordered locks;
\* and the operations on a self-improvement request.
SPECIFICATION JobsSpec
CONSTANTS
  Threads = {"a", "z"}
  None = "none"
  Sections <- JobsSections
  Thread <- JobsThread
  Parent <- JobsParent
  After <- JobsAfter
  Awaited <- JobsAwaited
  Escaped <- JobsEscaped
  Optional <- JobsOptional
  Free = Free
  MaxWorkers = 3
  MaxCalls = 3
  MaxRequestFaults = 1
INVARIANTS JobsTypeOK TurnsExclude HeldHasTurn OneOwnerPerThread
  PairFollowsRequest JobKeepsItsWorker ClosedStays
PROPERTIES WaitersEnter ImplementsFifo
CHECK_DEADLOCK FALSE
