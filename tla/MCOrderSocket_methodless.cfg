\* Two requests about one order, answers that name it by their data alone.
SPECIFICATION Spec
CONSTANTS
  o1 = o1
  o2 = o2
  None = None
  Orders <- OneOrder
  Shapes <- NamedByData
  MaxRetries = 1
  MaxCancels = 1
  MaxPauses = 1
  MaxTrouble = 1
  MaxRepeats = 1
  MaxAnswers = 2
CHECK_DEADLOCK FALSE
INVARIANTS
  GuessesRight
