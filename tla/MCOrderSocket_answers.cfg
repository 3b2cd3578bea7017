\* Two orders, a cancel each, answers of every kind.
SPECIFICATION FairSpec
CONSTANTS
  o1 = o1
  o2 = o2
  None = None
  Orders <- TwoOrders
  Shapes <- EveryKind
  MaxRetries = 1
  MaxCancels = 1
  MaxPauses = 1
  MaxTrouble = 1
  MaxRepeats = 1
  MaxAnswers = 1
CHECK_DEADLOCK FALSE
INVARIANTS
  TypeOK
  VerdictsTrue
  SubmissionsRemembered
  MarkedMeansPending

  
