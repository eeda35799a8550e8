\* A handoff that rolls back while a store change locks both of its jobs.
SPECIFICATION LiveSpec
CONSTANTS
  Threads = {"a", "z"}
  None = "none"
  Sections <- HandoffSections
  Thread <- HandoffThread
  Parent <- HandoffParent
  After <- HandoffAfter
  Awaited <- HandoffAwaited
  Escaped <- HandoffEscaped
  Optional <- HandoffOptional
PROPERTY WaitersEnter
CHECK_DEADLOCK FALSE
