\* One order, one failure of any kind, shutdown at any moment.
SPECIFICATION Spec
CONSTANTS
  NumLevels = 1
  RepriceBps = 1
  MinQty = 1
  MinDollar = 1
  MaxOrderDollar = 1000
  AbsMaxDollar = 1000
  FromStart = FALSE
  BreakerRejections = 1
  NoCap = 1000
  Quotes <- OneQuote
  Position <- ShortTwo
  MaxDollar = 4
  QueueCap = 1
  FaultCap = 1
  EventCap = 1
  MaxOrders = 1
  Failures <- AllFailures
  MaxReconciliations = 1
  MaxTrouble = 1
  MaxAttempts = 2
  MayStop = TRUE
INVARIANTS
  TypeOK
  EveryExposureTracked
  VerifiedMeansClean
  EveryPauseHasWayOut
PROPERTIES
  KeepsLedger
