SPECIFICATION FairSpec
CONSTANTS
  s1 = s1
  s2 = s2
  r1 = r1
  t1 = t1
  a = a
  Scanners = {s1}
  Reviewers = {r1}
  Traders = {t1}
  Slots = {a}
  Life = 1
  MaxTime = 2
  MaxGates = 1
  Crashes = FALSE
  QueueLimit = 1
  MaxDecisions = 2
INVARIANT SessionsComplete
PROPERTY ImplementsLedger
PROPERTY EveryTakeSettles
