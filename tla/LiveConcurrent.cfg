SPECIFICATION Spec
CONSTANTS
  p1 = p1
  p2 = p2
  o1 = o1
  o2 = o2
  sA = sA
  sB = sB
  BTC = BTC
  ETH = ETH
  Blank = Blank
  NoOrder = NoOrder
  Procs = {p1, p2}
  Orders = {o1, o2}
  Strategies = {sA, sB}
  Symbols = {BTC, ETH}
  Accepted <- MCOneSlot
  MaxQty = 1
  MaxHolding = 1
  MaxDay = 0
  Modes = {TRUE}
  Faults = {"fetchFails"}
  OperatorChecks = TRUE
SYMMETRY ConcurrentSymmetry
INVARIANT NoOrphanOrders
PROPERTY KillHalts
