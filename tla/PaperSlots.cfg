SPECIFICATION Spec
CONSTANTS
  p1 = p1
  p2 = p2
  a = a
  b = b
  Commands = {p1}
  Requests = {p2}
  Slots = {a}
  Prices = {1, 2}
  Capital = 6
  StartEquity = {6}
  SoftFloor = 3
  HardFloor = 4
  DailyLoss = 2
  FullSize = 2
  Cost = 1
  MaxTrades = 1
  MaxDay = 2
  MaxEquity = 6
  Faults = {"noBars", "crash", "unknownSlot", "openBar"}
VIEW PaperView
INVARIANT HaltedIsFlat
INVARIANT OpenAboveFloor
INVARIANT JournalMatchesRow
PROPERTY KillHalts
PROPERTY DailyHaltHolds
