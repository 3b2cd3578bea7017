\* Long histories at one level a side, or two levels under tight limits.
SPECIFICATION PartSpec
CONSTANTS
  NumLevels = 2
  RepriceBps = 1
  MinQty = 1
  MinDollar = 2
  MaxOrderDollar = 5
  AbsMaxDollar = 9
  FromStart = TRUE
  BreakerRejections = 2
  NoCap = 1000
  Quotes <- AllQuotes
  Positions = {0, 2}
  Limits = {0, 8}
  ClientIds = {1, 2}
  OrderIds = {0, 7}
  MaxOrders = 4
  MaxGen = 7
  MaxRejections = 2
  MaxFails = 3
INVARIANTS
  TypeOK
  ClientIdsUnique
  ExchangeIdsUnique
  PausedOrdersAreOld
  TrackedNotRetired
  FillGateHolds
  BreakerHolds
  StuckCancelFailsClosed
PROPERTIES
  ForgottenOrdersAreRetired
  ExposureBudget
  NeverReplacedInPlace
