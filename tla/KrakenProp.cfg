SPECIFICATION MCSpec
CONSTANTS
  s1 = s1
  s2 = s2
  a = a
  Scanners = {s1, s2}
  Slots = {a}
  Life = 1
  MaxTime = 1
  MaxGates = 2
  Crashes = TRUE
  t1 = t1
  t2 = t2
  buy = buy
  sell = sell
  crooked = crooked
  Trades = {t1, t2}
  Timing = "clock"
  MaxNow = 13
  Balances <- MCBalances
  Risks = {30, 75, 150}
  Gears = {40, 140}
  Mdd = 30
  Intents = {buy, sell}
  Crooked = {crooked}
  SideOf <- MCSideOf
  MaxRuns = 2
  MaxAttempts = 4
  Interference = {"lost", "late", "overlay", "remembers", "stale"}
INVARIANT RowsAreApproved
INVARIANT OneActivePerKey
INVARIANT FeesAreComplete
INVARIANT VerdictIsMonotone
INVARIANT AdmittedLossKeepsFloors
INVARIANT CleanRunPopulates
PROPERTY MatchedFormIsIntended
SYMMETRY AlikeSymmetry
