---------------------------- MODULE BacktestEngine ----------------------------
(***************************************************************************)
(* The backtest of one strategy over the test folds of a walk-forward run: *)
(* backtesting/engine.py, backtesting/costs.py and the loop of             *)
(* backtesting/walk_forward.py, which uses one engine for every fold.      *)
(*                                                                         *)
(* Prices, quantities and money are whole numbers, so a quantity is        *)
(* rounded down; commissions and slippage are in basis points.  A single   *)
(* asset is leg A of a pair without a leg B, as in the code.  A price of 0 *)
(* is a missing one (None or NaN).                                         *)
(***************************************************************************)
EXTENDS Integers

CONSTANTS
  Capital, Notional,           \* initial_capital, the target_notional column
  CommissionBp, SlippageBp,    \* costs
  Leverage,                    \* leverage_limit
  DailyLimit, FloorLimit,      \* daily_loss_limit_pct, drawdown_limit_pct, as money
  Legs,                        \* {"single"}, {"pair"} or both
  TapePrices,                  \* of leg A
  HedgePrices,                 \* of leg B
  EmptyFolds,                  \* a strategy may have no signal on a fold
  MaxFolds, MaxBars            \* bounds

ASSUME EngineConstants ==
  /\ {Capital, Notional, Leverage} \subseteq Nat \ {0}
  /\ {CommissionBp, SlippageBp, DailyLimit, FloorLimit} \subseteq Nat
  /\ TapePrices \cup HedgePrices \subseteq Nat /\ EmptyFolds \in BOOLEAN

VARIABLES
  legs,      \* the columns of the data: price, or price_a and price_b
  fold, bar,
  account,   \* what reset() clears: cash, the legs, the day and the flags
  curve,     \* the last point of equity_curve, 0 without one
  result,    \* final_equity of the last fold's result, 0 before one
  booked,    \* sum of the pnl less the commissions of the trade events
  lost,      \* a row of this day stood at the daily limit, or one at the floor
  entered    \* the last row opened a position

engineVars == <<legs, fold, bar, account, curve, result, booked, lost, entered>>

Fresh ==
  [cash |-> Capital, a |-> 0, b |-> 0, entryA |-> 0, entryB |-> 0,
   dayStart |-> Capital, halted |-> FALSE, failed |-> FALSE]

Valid(price) == price # 0
Equity(acc, pa, pb) == acc.cash + acc.a * pa + acc.b * pb
Flat(acc) == acc.a = 0 /\ acc.b = 0
Sign(n) == IF n > 0 THEN 1 ELSE IF n < 0 THEN -1 ELSE 0

\* TransactionCostModel.apply with fixed slippage, for a signed size.
Executed(price, size) ==
  IF size > 0 THEN price + (price * SlippageBp) \div 10000
  ELSE price - (price * SlippageBp) \div 10000
Magnitude(n) == IF n < 0 THEN -n ELSE n
Commission(price, size) == (price * Magnitude(size) * CommissionBp) \div 10000

-----------------------------------------------------------------------------
\* _open_position: a trade is [acc, booked].  The notional is clipped to the
\* leverage limit; a pair splits it.
Clipped(acc, pa, pb) ==
  IF Notional > Leverage * Equity(acc, pa, pb) THEN Leverage * Equity(acc, pa, pb) ELSE Notional
LegCost(price, size) == size * Executed(price, size) + Commission(price, size)
Opened(t, side, pa, pb) ==
  LET size == Clipped(t.acc, pa, pb)
      a == side * ((IF Valid(pb) THEN size \div 2 ELSE size) \div pa)
      b == IF Valid(pb) THEN -side * ((size \div 2) \div pb) ELSE 0
  IN IF Equity(t.acc, pa, pb) <= 0 \/ ~Valid(pa) THEN t
     ELSE [acc |-> [t.acc EXCEPT !.cash = @ - LegCost(pa, a) - LegCost(pb, b),
                      !.a = a, !.b = b, !.entryA = Executed(pa, a), !.entryB = Executed(pb, b)],
           booked |-> t.booked - Commission(pa, a) - Commission(pb, b)]

\* _close_position: a leg without a price is dropped, not sold.  Faulty
\* variant: a short leg is sold as a long one.
ShortSold(price, size) == Magnitude(size) * Executed(price, -size)
Proceeds(price, size) == size * Executed(price, -size)
Closed(t, pa, pb) ==
  LET Of(price, size) == IF Valid(price) THEN Proceeds(price, size) - Commission(price, size) ELSE 0
      Pnl(price, size, entry) ==
        IF Valid(price) THEN size * (Executed(price, -size) - entry) - Commission(price, size) ELSE 0
  IN IF Flat(t.acc) THEN t
     ELSE [acc |-> [t.acc EXCEPT !.cash = @ + Of(pa, t.acc.a) + Of(pb, t.acc.b),
                      !.a = 0, !.b = 0, !.entryA = 0, !.entryB = 0],
           booked |-> t.booked + Pnl(pa, t.acc.a, t.acc.entryA) + Pnl(pb, t.acc.b, t.acc.entryB)]

\* The target of a row against the position: open, flip, close or keep.  A
\* halted day closes and flips out, but opens nothing.  Faulty variant: the
\* flip does not ask.
Differs(t, target) ==
  Sign(t.acc.a) # target \/ (legs = "pair" /\ Sign(t.acc.b) # -target)
OpenUnlessHalted(t, side, pa, pb) == IF t.acc.halted THEN t ELSE Opened(t, side, pa, pb)
FlippedAnyway(t, side, pa, pb) == Opened(Closed(t, pa, pb), side, pa, pb)
Flipped(t, side, pa, pb) == OpenUnlessHalted(Closed(t, pa, pb), side, pa, pb)
Traded(t, target, pa, pb) ==
  IF target = 0 THEN Closed(t, pa, pb)
  ELSE IF Flat(t.acc) THEN OpenUnlessHalted(t, target, pa, pb)
  ELSE IF Differs(t, target) THEN Flipped(t, target, pa, pb)
  ELSE t

\* The day turns with the first row of a date, at that row's prices; then
\* _update_propfirm.
Rolled(acc, newDay, pa, pb) ==
  IF newDay THEN [acc EXCEPT !.dayStart = Equity(acc, pa, pb), !.halted = FALSE] ELSE acc
AtFloor(acc, pa, pb) == Equity(acc, pa, pb) <= Capital - FloorLimit
AtDailyLimit(acc, pa, pb) == Equity(acc, pa, pb) - acc.dayStart <= -DailyLimit
Ruled(acc, pa, pb) ==
  [acc EXCEPT !.failed = @ \/ AtFloor(acc, pa, pb),
              !.halted = @ \/ AtFloor(acc, pa, pb) \/ AtDailyLimit(acc, pa, pb)]

-----------------------------------------------------------------------------
\* engine.run on the next fold.  Without a row it answers before it resets:
\* the result is built from what the fold before left.
Built == IF curve = 0 THEN account.cash ELSE curve
EmptyRun ==
  /\ EmptyFolds /\ bar = 0 /\ fold < MaxFolds
  /\ fold' = fold + 1 /\ result' = Built
  /\ entered' = FALSE
  /\ UNCHANGED <<legs, bar, account, curve, booked, lost>>
BeginFold ==
  /\ bar = 0 /\ fold < MaxFolds
  /\ fold' = fold + 1 /\ bar' = 1
  /\ account' = Fresh
  /\ curve' = 0 /\ result' = 0 /\ booked' = 0 /\ lost' = FALSE /\ entered' = FALSE
  /\ UNCHANGED legs

\* One row.  A failed account closes and ends the run, and its last row is
\* not on the equity curve.
Bar(newDay, pa, pb, target) ==
  LET ruled == Ruled(Rolled(account, newDay, pa, pb), pa, pb)
      before == [acc |-> ruled, booked |-> booked]
      after == IF ruled.failed THEN Closed(before, pa, pb) ELSE Traded(before, target, pa, pb)
  IN /\ bar > 0 /\ bar <= MaxBars
     /\ bar = 1 => ~newDay
     /\ account' = after.acc /\ booked' = after.booked
     /\ lost' = \/ lost /\ ~newDay
                \/ AtFloor(ruled, pa, pb) \/ AtDailyLimit(ruled, pa, pb)
     /\ entered' = (~Flat(after.acc) /\ (Flat(account) \/ Sign(after.acc.a) # Sign(account.a)))
     /\ IF ruled.failed
        THEN bar' = 0 /\ result' = Built /\ UNCHANGED curve
        ELSE bar' = bar + 1 /\ curve' = Equity(after.acc, pa, pb) /\ UNCHANGED result
     /\ UNCHANGED <<legs, fold>>

EndRun ==
  /\ bar > 1 /\ bar' = 0
  /\ result' = Built
  /\ entered' = FALSE
  /\ UNCHANGED <<legs, fold, account, curve, booked, lost>>

LegB == IF legs = "single" THEN {0} ELSE HedgePrices

EngineInit ==
  /\ legs \in Legs /\ fold = 0 /\ bar = 0
  /\ account = Fresh /\ curve = 0 /\ result = 0
  /\ booked = 0 /\ lost = FALSE /\ entered = FALSE

EngineNext ==
  \/ EmptyRun \/ BeginFold \/ EndRun
  \/ \E newDay \in BOOLEAN, pa \in TapePrices, pb \in LegB, target \in {-1, 0, 1} :
       Bar(newDay, pa, pb, target)

EngineSpec == EngineInit /\ [][EngineNext]_engineVars

-----------------------------------------------------------------------------
\* The trade events explain the account: the capital, what they realised and
\* what they paid is the cash and the legs at their entry prices.
BooksReconcile ==
  account.cash + account.a * account.entryA + account.b * account.entryB = Capital + booked

\* No position is opened on a day one of whose rows stood at the daily
\* limit, nor after a row at the floor.
EntriesRespectLimits == entered => ~lost

\* The result of a fold is that of its own rows: without a trade it is the
\* capital.
ResultIsOfItsFold ==
  [][fold' # fold /\ bar' = 0 => result' = Capital]_engineVars

\* A loss of the daily limit since the last row halts the day.
LossHalts ==
  [][\A pa \in TapePrices, pb \in LegB, newDay \in BOOLEAN, target \in {-1, 0, 1} :
       Bar(newDay, pa, pb, target) /\ curve # 0
         /\ Equity(account, pa, pb) <= curve - DailyLimit => account'.halted]_engineVars
=============================================================================
