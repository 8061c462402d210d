---------------------------- MODULE PairEvaluation ----------------------------
(***************************************************************************)
(* The evaluation backtest of a pair against the rules of a challenge:     *)
(* backtesting/engine_eval.py and the tracker of                           *)
(* backtesting/evaluation_rules.py.  Money is in cents, quantities are     *)
(* whole numbers, rounded down; the hedge ratio is in hundredths.  Both    *)
(* steps of the challenge have one target, so the first is never seen.  Of *)
(* the z-score, which threshold it is beyond is what matters.              *)
(***************************************************************************)
EXTENDS Integers

CONSTANTS
  AccountSize,
  LegPct,                   \* leg_allocation_pct of the equity
  Target, FloorLoss, DayLoss,  \* the rules, as money
  StopPct,                  \* stop_loss_spread_pct of the entry equity
  SpreadBp,                 \* commission, in basis points
  MaxLeverage,
  MaxHold,                  \* max_holding_days, in bars
  Betas, PricesA, PricesB,
  MaxEvalBars               \* bound

ASSUME EvaluationConstants ==
  {AccountSize, LegPct, Target, FloorLoss, DayLoss, StopPct, SpreadBp, MaxLeverage,
   MaxHold, MaxEvalBars} \subseteq Nat

VARIABLES
  beta,     \* of the training slice
  row,      \* bars processed
  quote,    \* the prices of the last bar
  purse,    \* cash
  spread,   \* the position, its quantities, entry equity and hold_days of the next bar
  verdict,  \* tracker.status
  logged,   \* the pnl of the last CLOSED trade event
  previous  \* equity after the bar before
evalVars == <<beta, row, quote, purse, spread, verdict, logged, previous>>

NoSpread == [dir |-> 0, qa |-> 0, qb |-> 0, entry |-> 0, age |-> 0]
Worth(cash, s, pa, pb) == cash + s.qa * pa + s.qb * pb
Abs(n) == IF n < 0 THEN -n ELSE n

\* EvaluationTracker.update_intraday: the floor, the day, the target.  A bar
\* is a day, so the day starts at this very equity.
Judged(equity, dayStart) ==
  IF verdict # "IN_PROGRESS" THEN verdict
  ELSE IF equity <= AccountSize - FloorLoss THEN "FAILED_DRAWDOWN"
  ELSE IF equity - dayStart <= -DayLoss THEN "FAILED_DAILY_LOSS"
  ELSE IF equity - AccountSize >= Target THEN "PASSED" ELSE "IN_PROGRESS"

\* _open_spread: only the commission is paid.  Beyond the leverage, or
\* without the cash for it, nothing opens.
NewSpread(dir, equity, pa, pb) ==
  LET leg == (equity * LegPct) \div 100
  IN [dir |-> dir, qa |-> dir * (leg \div pa), qb |-> -dir * ((leg * beta) \div (100 * pb)),
      entry |-> equity, age |-> 1]
Gross(s, pa, pb) == Abs(s.qa) * pa + Abs(s.qb) * pb
OpenCost(s, pa, pb) == (Gross(s, pa, pb) * SpreadBp) \div 10000

\* _close_spread: the value of the legs less the commission, which a short
\* leg is paid.  The event's pnl counts the legs that were just sold.
Sale(qty, price) == (qty * price * (10000 - SpreadBp)) \div 10000
SoldFor(s, pa, pb) == Sale(s.qa, pa) + Sale(s.qb, pb)
CloseSpread(pa, pb) ==
  /\ purse' = purse + SoldFor(spread, pa, pb)
  /\ logged' = Worth(purse', spread, pa, pb) - spread.entry
  /\ spread' = NoSpread
Hold == UNCHANGED <<purse, logged>> /\ spread' = [spread EXCEPT !.age = @ + 1]
Stay == UNCHANGED <<purse, logged, spread>>

Loses(equity) == 100 * (equity - spread.entry) <= -StopPct * spread.entry
Enter(dir, equity, pa, pb) ==
  LET new == NewSpread(dir, equity, pa, pb)
  IN IF equity > 0 /\ Gross(new, pa, pb) <= MaxLeverage * equity /\ purse >= OpenCost(new, pa, pb)
     THEN spread' = new /\ purse' = purse - OpenCost(new, pa, pb) /\ UNCHANGED logged
     ELSE Stay

\* A bar of the loop: a verdict closes and stops; then the stop, the age, the
\* exit and the entry, in this order.
Step(equity, z, pa, pb) ==
  IF spread.dir # 0
  THEN IF Loses(equity) \/ spread.age >= MaxHold \/ z = "reverted" THEN CloseSpread(pa, pb) ELSE Hold
  ELSE CASE z = "low" -> Enter(1, equity, pa, pb)
         [] z = "high" -> Enter(-1, equity, pa, pb)
         [] OTHER -> Stay
Stopped(pa, pb) == IF spread.dir # 0 THEN CloseSpread(pa, pb) ELSE Stay

EvalBar(pa, pb, z) ==
  LET equity == Worth(purse, spread, pa, pb)
  IN /\ verdict = "IN_PROGRESS" /\ row < MaxEvalBars
     /\ row' = row + 1 /\ quote' = <<pa, pb>>
     /\ verdict' = Judged(equity, equity)
     /\ IF verdict' = "IN_PROGRESS" THEN Step(equity, z, pa, pb) ELSE Stopped(pa, pb)
     /\ previous' = Worth(purse', spread', pa, pb)
     /\ UNCHANGED beta

\* The final mark, after the trades of the last bar: no day begins.
FinalMark ==
  /\ verdict = "IN_PROGRESS" /\ row > 0
  /\ LET equity == Worth(purse, spread, quote[1], quote[2])
     IN verdict' = IF Judged(equity, equity) = "IN_PROGRESS" THEN "ENDED" ELSE Judged(equity, equity)
  /\ row' = MaxEvalBars
  /\ UNCHANGED <<beta, quote, purse, spread, logged, previous>>

EvalInit ==
  /\ beta \in Betas /\ row = 0 /\ quote = <<0, 0>>
  /\ purse = AccountSize /\ spread = NoSpread
  /\ verdict = "IN_PROGRESS" /\ logged = 0 /\ previous = AccountSize

EvalNext ==
  \/ \E pa \in PricesA, pb \in PricesB, z \in {"low", "high", "reverted", "between"} : EvalBar(pa, pb, z)
  \/ FinalMark

EvalSpec == EvalInit /\ [][EvalNext]_evalVars

-----------------------------------------------------------------------------
\* A day that costs the daily limit ends the challenge.
DailyLossEnds ==
  [][row' = row + 1 /\ Worth(purse, spread, quote'[1], quote'[2]) <= previous - DayLoss
       => verdict' \in {"FAILED_DAILY_LOSS", "FAILED_DRAWDOWN"}]_evalVars

\* To open a dollar-neutral pair costs its commission and nothing else, so a
\* bar that opens moves the account by no more than the bar's prices did.
OpeningIsNeutral ==
  [][row' = row + 1 /\ spread.dir = 0 /\ spread'.dir # 0
       => previous - previous' <= OpenCost(spread', quote'[1], quote'[2]) + 1
          /\ previous' <= previous]_evalVars
=============================================================================
