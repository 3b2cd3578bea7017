SPECIFICATION OneSpec
CONSTANTS
  b1 = b1
  s1 = s1
  f1 = f1
  Buys <- TwoBuys
  Sells <- OneSell
  Foreign <- TheForeign
  Levels = 1
  Debounce = 2
  SignalCap = 1
  SnapCap = 1
  AgeLimited = TRUE
  MaxUnheard = 1
INVARIANTS
  TypeOK
  HealthyPollStartsAnew
  BoundWereAccepted
PROPERTIES
  UnseenEndingsFound
