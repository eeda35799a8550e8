\* Butler's chat with two messages, stopped, steered and cut off; and an automation.
SPECIFICATION Spec
CONSTANTS
  Kinds = {"weekly", "window", "interval"}
  MaxSlot = 2
  DayLength = 2
  MaxLag = 2
  MaxTime = 6
  MaxEdits = 4
  MaxAutoFaults = 1
  MaxMessages = 2
  MaxTroubles = 2
INVARIANTS SessionsTypeOK SlotFiresOnce TurnedAwayStaysOut
PROPERTIES DueRunEnds MessagesSettle
CHECK_DEADLOCK FALSE
