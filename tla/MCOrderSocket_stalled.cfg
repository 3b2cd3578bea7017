\* One order, a cancel, a connection that goes silent; fair tasks.
SPECIFICATION FairSpec
CONSTANTS
  o1 = o1
  o2 = o2
  None = None
  Orders <- OneOrder
  Shapes <- ByMethod
  MaxRetries = 1
  MaxCancels = 1
  MaxPauses = 1
  MaxTrouble = 1
  MaxRepeats = 1
  MaxAnswers = 1
CHECK_DEADLOCK FALSE
PROPERTIES
  StaleConnectionReplaced
