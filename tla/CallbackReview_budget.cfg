\* Posting may fail for ever; a failed attempt still has to end in a pause.
SPECIFICATION LiveSpec
CONSTANTS
  MaxTime = 3
  ReviewMaxAttempts = 2
  Steers = {}
  Statuses = {"completed"}
  Scenario = {}
PROPERTIES AnsweredIsSettled
