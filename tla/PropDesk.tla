------------------------------ MODULE PropDesk ------------------------------
(***************************************************************************)
(* The pre-trade gate over the row `live_kraken': risk/prop_account.py,    *)
(* risk/pretrade_gate.py and _build_payload and current_account_state of   *)
(* signals/pending_signal_detector.py.                                     *)
(*                                                                         *)
(* scan_kraken_signals loads the row that the live cycles of exchange      *)
(* kraken save and judges every candidate by it, with no unrealised profit *)
(* and an empty GateContext.  It neither writes the row nor turns its day, *)
(* and no code books there what a person trades by hand, so here the row   *)
(* is whatever the last cycle saved.  PendingSignals has what a scan does  *)
(* with a verdict.                                                         *)
(***************************************************************************)
EXTENDS KrakenFees

CONSTANTS
  Balances,  \* the amounts a row may hold, in cents
  Risks,     \* pending_signal_risk_pct, in basis points
  Gears,     \* price over stop distance of a setup
  Mdd        \* kraken_prop_mdd_pct, in thousandths

ASSUME DeskConstants ==
  /\ Balances \subseteq Nat /\ Risks \subseteq Nat /\ Gears \subseteq Nat
  /\ Mdd \in Nat \ {0}

VARIABLE account  \* PropAccountState, as current_account_state makes it of the row

Accounts == [balance : Balances, dayStart : Balances, peak : Balances]

-----------------------------------------------------------------------------
(* prop_account.py                                                         *)

MaxOf(a, b) == IF a >= b THEN a ELSE b
Magnitude(x) == MaxOf(x, -x)

DailyLoss(a) == MaxOf(0, a.dayStart - a.balance)
Drawdown(a) == MaxOf(0, a.peak - a.balance)

DailySoft(a) == a.dayStart > 0 /\ 1000 * DailyLoss(a) >= 15 * a.dayStart
DailyHard(a) == a.dayStart > 0 /\ 1000 * DailyLoss(a) >= 20 * a.dayStart
LifetimeHard(a) ==
  /\ Mdd > 0 /\ a.peak > 0 /\ Drawdown(a) > 0
  /\ 10000 * Drawdown(a) >= 7 * Mdd * a.peak

\* mdl_floor and mdd_floor: where Kraken ends the account.
MdlFloor(dayStart) == dayStart - (3 * dayStart) \div 100
MddFloor(peak) == peak - (Mdd * peak) \div 1000

-----------------------------------------------------------------------------
(* pretrade_gate.py                                                        *)

\* _effective_daily_room and _effective_lifetime_room.  Faulty variants: the
\* haircut on the wrong side of the soft floor; the room of the whole balance.
OurDailyRoom(a) == MaxOf(0, a.balance - (a.dayStart - a.dayStart \div 50))
RoomHaircutAbove(a) ==
  IF DailyHard(a) THEN 0
  ELSE IF DailySoft(a) THEN OurDailyRoom(a) ELSE OurDailyRoom(a) \div 2
RoomOfBalance(a) == IF DailyHard(a) THEN 0 ELSE a.balance
DailyRoom(a) ==
  IF DailyHard(a) THEN 0
  ELSE IF DailySoft(a) THEN OurDailyRoom(a) \div 2 ELSE OurDailyRoom(a)

LifetimeRoom(a) ==
  IF LifetimeHard(a) THEN 0
  ELSE MaxOf(0, a.balance - (a.peak - (7 * Mdd * a.peak) \div 10000))

\* GateContext; `net' is the signed notional of its open positions.
DefaultContext == [benched |-> FALSE, losses |-> 0, limit |-> 3, net |-> 0]

\* The rules in the order evaluate() tries them.
Rules(s, a, c) ==
  << <<"strategy_benched", c.benched>>,
     <<"consecutive_loss_breaker", c.losses >= c.limit>>,
     <<"daily_hard_floor", DailyHard(a)>>,
     <<"lifetime_hard_floor", LifetimeHard(a)>>,
     <<"daily_room_insufficient", WorstCaseLoss(s.risk, s.cost) > DailyRoom(a)>>,
     <<"lifetime_room_insufficient", WorstCaseLoss(s.risk, s.cost) > LifetimeRoom(a)>>,
     <<"fee_filter", s.risk > 0 /\ 100 * s.cost > 15 * s.risk>>,
     <<"correlation_cap", Magnitude(c.net + s.side * s.notional) > a.balance>>,
     <<"daily_soft_floor_active", DailySoft(a)>> >>

Tripped(s, a, c) ==
  LET rules == Rules(s, a, c) IN {i \in DOMAIN rules : rules[i][2]}

\* The last rule reduces, the others reject.
Verdict(s, a, c) ==
  LET tripped == Tripped(s, a, c)
  IN IF tripped = {} THEN "APPROVE" ELSE IF tripped = {9} THEN "REDUCE" ELSE "REJECT"

Rank == [REJECT |-> 0, REDUCE |-> 1, APPROVE |-> 2]

-----------------------------------------------------------------------------
(* pending_signal_detector.py: _build_payload.                             *)

ExpectedHold == 24   \* _DEFAULT_EXPECTED_HOLD_HOURS
Long == 1
Short == -1

Setup(equity, riskBp, gear, side) ==
  LET risk == Risk(equity, riskBp)
  IN [side |-> side, risk |-> risk, notional |-> risk * gear,
      cost |-> ExpectedCost(risk * gear, ExpectedHold)]

Setups == {Setup(account.balance, riskBp, gear, side) :
             riskBp \in Risks, gear \in Gears, side \in {Long, Short}}

-----------------------------------------------------------------------------
\* A live cycle saved the row, with any result and day start.
RowSaved == account' \in Accounts

DeskInit == account \in Accounts
DeskNext == RowSaved
DeskSpec == DeskInit /\ [][DeskNext]_account

-----------------------------------------------------------------------------
(* Properties, of every row a scan may meet.                               *)

\* A poorer row, a longer losing streak or more exposure on the setup's own
\* side never turns a refusal into an admission, nor a reduction into an
\* approval: no order of the rules and no haircut may favour the account that
\* is worse off.
VerdictIsMonotone ==
  \A s \in Setups :
    LET RankOf(a, c) == Rank[Verdict(s, a, c)]
        own == RankOf(account, DefaultContext)
    IN /\ \A b \in Balances :
            b <= account.balance => RankOf([account EXCEPT !.balance = b], DefaultContext) <= own
       /\ \A c \in {[DefaultContext EXCEPT !.losses = 3],
                    [DefaultContext EXCEPT !.net = s.side * s.notional]} :
            RankOf(account, c) <= own

\* "Our own code is always what stops us, never the exchange" (prop_account), as
\* far as one verdict reaches: what the gate admits, lost with all its costs,
\* leaves the row above the daily and the lifetime floor of Kraken.
AdmittedLossKeepsFloors ==
  \A s \in Setups : Verdict(s, account, DefaultContext) # "REJECT" =>
    LET left == account.balance - WorstCaseLoss(s.risk, s.cost)
    IN left >= MdlFloor(account.dayStart) /\ left >= MddFloor(account.peak)
=============================================================================
