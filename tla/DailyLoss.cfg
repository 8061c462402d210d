SPECIFICATION EvalSpec
CONSTANTS
  AccountSize = 500000
  LegPct = 18
  Target = 45000
  FloorLoss = 15000
  DayLoss = 15000
  StopPct = 3
  SpreadBp = 10
  MaxLeverage = 5
  MaxHold = 30
  Betas = {100}
  PricesA = {100, 120}
  PricesB = {50, 60}
  MaxEvalBars = 4
PROPERTY DailyLossEnds
CHECK_DEADLOCK FALSE
