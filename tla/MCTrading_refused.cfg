\* Orders in turn in one slot and side by side, a channel with room for one.
SPECIFICATION Spec
CONSTANTS
  NumLevels = 1
  RepriceBps = 1
  MinQty = 1
  MinDollar = 1
  MaxOrderDollar = 1000
  AbsMaxDollar = 1000
  FromStart = FALSE
  BreakerRejections = 1
  NoCap = 1000
  Quotes <- OneQuote
  Position = 0
  MaxDollar = 4
  QueueCap = 1
  FaultCap = 1
  EventCap = 1
  MaxOrders = 4
  Failures <- AllFailures
  MaxReconciliations = 2
  MaxTrouble = 1
  MaxAttempts = 2
  MayStop = FALSE
INVARIANTS
  ReconciliationOwned
PROPERTIES
  KeepsLedger
