SPECIFICATION Spec
CONSTANTS
  MaxTime = 3
  ReviewMaxAttempts = 2
  Steers = {}
  Statuses = {"completed"}
  Scenario = {"stop"}
PROPERTY StoppedStaysStopped
