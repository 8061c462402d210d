SPECIFICATION Spec
CONSTANTS
  s1 = s1
  s2 = s2
  r1 = r1
  t1 = t1
  a = a
  Scanners = {s1}
  Reviewers = {r1}
  Traders = {t1}
  Slots = {a}
  Life = 1
  MaxTime = 2
  MaxGates = 2
  Crashes = TRUE
  QueueLimit = 1
  MaxDecisions = 1
INVARIANT TypeOK
INVARIANT TakesAreApproved
INVARIANT IntentsAreApproved
INVARIANT OneIntentPerDecision
