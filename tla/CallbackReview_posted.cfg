SPECIFICATION Spec
CONSTANTS
  MaxTime = 4
  ReviewMaxAttempts = 2
  Steers <- PreserveSteers
  Statuses = {"completed"}
  Scenario = {}
INVARIANT PostedMeansMessage
