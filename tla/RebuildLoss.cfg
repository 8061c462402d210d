SPECIFICATION RecordSpec
CONSTANTS
  Symbols = {"A", "B"}
  Venues = {"kraken", "binance", "htx"}
  Kraken = "kraken"
  Binance = "binance"
  Lists <- MCLists
  Pair <- MCPair
  Perps = {"B"}
  EngineWindows = {"EXPANDING"}
  Combos = 2
  RecordFaults = {"insertFails", "dies", "readFails"}
  MaxRuns = 1
INVARIANT NeverWorse
CHECK_DEADLOCK FALSE
