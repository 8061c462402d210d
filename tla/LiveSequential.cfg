SPECIFICATION FairSpec
CONSTANTS
  p1 = p1
  p2 = p2
  o1 = o1
  o2 = o2
  sA = sA
  sB = sB
  BTC = BTC
  ETH = ETH
  Blank = Blank
  NoOrder = NoOrder
  Procs = {p1}
  Orders = {o1}
  Strategies = {sA, sB}
  Symbols = {BTC, ETH}
  Accepted <- MCAccepted
  MaxQty = 2
  MaxHolding = 2
  MaxDay = 1
  Modes = {TRUE, FALSE}
  Faults = {"fetchFails"}
  OperatorChecks = TRUE
INVARIANT NoSilentDrift
INVARIANT NoStacking
PROPERTY ImplementsAccount
PROPERTY BreachFlattens
