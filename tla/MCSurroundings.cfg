\* Two fills against failing polls; a depth outage on each of two connections;
\* one failure of Binance against three changes of its book; an exchange that
\* lists another precision and goes back; three processes after one another.
SPECIFICATION PartSpec
CHECK_DEADLOCK FALSE
CONSTANTS
  MaxFills = 2
  MaxVersion = 6
  MaxReconciled = 1
  Whole = 2
  Strategy <- TheStrategy
  Precisions <- TwoPrecisions
  QuoteInputs <- OneBook
  SignalCap = 1
  DecisionCap = 1
  MaxListings = 2
  MaxDecisions = 1
  Offered <- OfferedConfigs
  StartAttempts = 3
  StopAttempts = 5
  MaxRuns = 3
  MaxFailures = 2
  MaxTime = 5
  MaxSessions = 2
  MaxQueue = 1
  MaxLag = 1
  LoopLag = 2
  TickLag = 1
  MaxGap = 2
  Required = 1
  StepTime = 1
  Interval = 1
  QuoteSamples = 1
  Prices = {p1, p2}
  MaxChanges = 3
  MaxTrouble = 1
  Capacity = 2
  MinSamples = 1
  WarmUpdates = 2
INVARIANTS
  PartTypeOK
  QuotesKnowTheFills
  HistoryContinuous
  TradesOnFreshDepth
  BookFollowsExchange
  AlphaUsedWasEarned
  WrittenAsQuoted
  LiveMeansFed
  NothingLeftBehind
PROPERTIES
  DepthOutageEnds
  ExchangeCaughtUp
