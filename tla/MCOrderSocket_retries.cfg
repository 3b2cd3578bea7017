\* One order, connections that break.
SPECIFICATION Spec
CONSTANTS
  o1 = o1
  o2 = o2
  None = None
  Orders <- OneOrder
  Shapes <- ByMethod
  MaxRetries = 1
  MaxCancels = 1
  MaxPauses = 1
  MaxTrouble = 2
  MaxRepeats = 1
  MaxAnswers = 1
CHECK_DEADLOCK FALSE
PROPERTIES
  RetriesInARow
