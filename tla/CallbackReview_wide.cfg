\* Every handler, a follow-up of either kind and restarts at any point; short histories.
SPECIFICATION Spec
CONSTANTS
  MaxTime = 3
  ReviewMaxAttempts = 2
  Steers <- MixedSteers
  Statuses = {"completed"}
  Scenario = {"hold", "retry", "stop", "auth", "end", "close", "crash"}
INVARIANTS TypeOK CompletedCloseoutsWereAccepted ShownIsDurable DeliveredHasMessage OneMessagePerCloseout
PROPERTY CountedFailureDoesNotPost
