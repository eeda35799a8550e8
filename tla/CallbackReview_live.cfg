\* Progress, when a post that is tried again and again goes through.
SPECIFICATION HealthySpec
CONSTANTS
  MaxTime = 3
  ReviewMaxAttempts = 2
  Steers = {}
  Statuses = {"completed", "blocked"}
  Scenario = {"hold"}
PROPERTIES RunningReviewEnds AnsweredIsSettled
