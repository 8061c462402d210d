SPECIFICATION MCSpec
CONSTANTS
  ta = ta
  tb = tb
  pr = pr
  ca = ca
  cb = cb
  Trainers = {ta, tb}
  Predictors = {pr}
  Sharpes = {90, 120}
  FoldSpan = 2
  MaxAge = 1
  LifeFaults = {"saveFails", "readFails", "archiveFails", "promoteFails", "crash"}
  MaxVersion = 2
  MaxClock = 4
  Collectors = {ca, cb}
  Page = 2
  Depth = 3
  Bucket = 3
  Adjoining = TRUE
  CollectFaults = {"requestFails", "badCandle", "readFails", "insertFails", "dies"}
  MaxNow = 3
  Symbols = {"A", "B"}
  Venues = {"kraken", "binance", "htx"}
  Kraken = "kraken"
  Binance = "binance"
  Lists <- MCLists
  Pair <- MCPair
  Perps = {"B"}
  EngineWindows = {"EXPANDING"}
  Combos = 1
  RecordFaults = {"insertFails", "dies", "readFails"}
  MaxRuns = 1
  Capital = 100000
  Notional = 200000
  CommissionBp = 10
  SlippageBp = 20
  Leverage = 5
  DailyLimit = 3000
  FloorLimit = 6000
  Legs = {"single", "pair"}
  TapePrices = {980, 1000, 1010}
  HedgePrices = {500, 510}
  EmptyFolds = TRUE
  MaxFolds = 2
  MaxBars = 3
  AccountSize = 500000
  LegPct = 18
  Target = 45000
  FloorLoss = 15000
  DayLoss = 15000
  StopPct = 3
  SpreadBp = 10
  MaxLeverage = 5
  MaxHold = 2
  Betas = {50, 100}
  PricesA = {100, 120, 140}
  PricesB = {50, 60}
  MaxEvalBars = 4
  TrainMonths = {1, 3, 6}
  TestMonths = {1, 3}
  StepMonths = {1, 2, 4}
  MinTrainMonths = 4
  FirstDates <- MCFirstDates
  MaxMonth = 15
  Spreads <- MCSpreads
  NoPrice = NoPrice
  EntryZ = 4
  ExitZ = 1
  Hedges = {4, 10, 15}
  Flatlines = {TRUE, FALSE}
  MaxSpreadBars = 4
  Workers = {wa, wb}
  Requests = {1}
  Tickets = {ja, jb}
  Types = {"live_cycle", "collect"}
  KeepFor = 1
  Garbled = FALSE
  MaxHour = 2
INVARIANT NoHoles
INVARIANT LabelsAreTrue
INVARIANT RankedIsKraken
INVARIANT BooksReconcile
INVARIANT EntriesRespectLimits
INVARIANT SplitIsClean
INVARIANT TradesSpanTheBands
INVARIANT WorkerRunsOne
INVARIANT ServedHasPassed
PROPERTY OnlyBackfillsStoreForming
PROPERTY ProductionIsKept
VIEW MCView
SYMMETRY MCSymmetry
CHECK_DEADLOCK FALSE
