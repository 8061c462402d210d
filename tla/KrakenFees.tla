----------------------------- MODULE KrakenFees -----------------------------
(***************************************************************************)
(* The fee schedule and the fee ledger of risk/kraken_fees.py, and the     *)
(* cost formulas of risk/cost_model.py and strategies/setup.py that a      *)
(* setup is priced with.                                                   *)
(*                                                                         *)
(* Time is counted in hours since a midnight, money in cents; fractions of *)
(* a cent are dropped.  A charge is the notional times a rate, so a trade's *)
(* funding is modelled by how many charges it paid.  Nothing in the        *)
(* repository but its tests drives the tracker yet: whoever does may open, *)
(* accrue and close when he likes.                                         *)
(***************************************************************************)
EXTENDS Integers

CONSTANTS
  Trades,   \* ids a caller gives its trades; each is used once
  Timing,   \* ChargeTiming: "clock" or "blocks"
  MaxNow    \* bound on the clock

ASSUME FeeConstants ==
  /\ Timing \in {"clock", "blocks"}
  /\ MaxNow \in Nat

VARIABLES
  now,     \* the latest instant anybody has seen
  open,    \* _open: what the tracker knows of each trade
  ledger   \* events: per trade, the commissions and the funding charges

feeVars == <<now, open, ledger>>

Interval == 4   \* funding_interval_hours

\* KrakenPropFeeSchedule: 4 basis points a side, 3.3 a day in six charges.
Funding(notional, charges) == (charges * 11 * notional) \div 200000

CeilDiv(a, b) == (a + b - 1) \div b

\* funding_charge_count.  CLOCK counts the four-hour marks of (from, until],
\* BLOCKS the blocks that were started.  Faulty variant: a mark at the very
\* opening counts as well.
MarksFrom(from, until) == until \div Interval - CeilDiv(from, Interval) + 1
Marks(from, until) == until \div Interval - from \div Interval
ChargeCount(from, until, timing) ==
  IF until <= from THEN 0
  ELSE IF timing = "blocks" THEN CeilDiv(until - from, Interval)
  ELSE Marks(from, until)

\* _fund: a block that was started is never charged again.
Due(t, until) ==
  IF until <= t.funded THEN 0
  ELSE IF Timing = "blocks"
       THEN ChargeCount(t.opened, until, "blocks") - ChargeCount(t.opened, t.funded, "blocks")
       ELSE ChargeCount(t.funded, until, "clock")

Funded(t, until) == IF Due(t, until) > 0 THEN [t EXCEPT !.funded = until] ELSE t

-----------------------------------------------------------------------------
(* cost_model.py and setup.py: what a setup is expected to cost, and what  *)
(* it loses at its stop.                                                   *)

\* The blocks funding_cost prices a hold with, a started one as a whole one.
Blocks(hold) == CeilDiv(hold, Interval)

RoundTripCommission(notional) == (8 * notional) \div 10000
ExpectedCost(notional, hold) ==
  RoundTripCommission(notional) + Funding(notional, Blocks(hold))

\* derive_size times the distance to the stop is the risk; the notional is
\* the risk times gear, the price over that distance.
Risk(equity, riskBp) == (equity * riskBp) \div 10000

WorstCaseLoss(risk, cost) == risk + cost

-----------------------------------------------------------------------------
(* KrakenFeeTracker.                                                       *)

Unused == [state |-> "unused", opened |-> 0, funded |-> 0]
Closed == [state |-> "closed", opened |-> 0, funded |-> 0]
NoFees == [opens |-> 0, closes |-> 0, charges |-> 0, due |-> 0, held |-> 0]

OpenTrades == {t \in Trades : open[t].state = "open"}

\* open(): the id must not be open already.
TrackerOpens(t) ==
  /\ open[t].state = "unused"
  /\ open' = [open EXCEPT ![t] = [state |-> "open", opened |-> now, funded |-> now]]
  /\ ledger' = [ledger EXCEPT ![t].opens = @ + 1]
  /\ UNCHANGED now

\* accrue(): funding of every open trade up to an instant, which may be one
\* that was passed already.
TrackerAccrues(until) ==
  /\ open' = [t \in Trades |->
                IF t \in OpenTrades THEN Funded(open[t], until) ELSE open[t]]
  /\ ledger' = [t \in Trades |->
                  IF t \in OpenTrades
                  THEN [ledger[t] EXCEPT !.charges = @ + Due(open[t], until)]
                  ELSE ledger[t]]
  /\ UNCHANGED now

\* close(): outstanding funding, then the commission.  `due` and `held` are
\* auxiliary: the charges of the whole hold counted at once, and its hours.
TrackerCloses(t) ==
  /\ open[t].state = "open"
  /\ open' = [open EXCEPT ![t] = Closed]
  /\ ledger' = [ledger EXCEPT
       ![t].charges = @ + Due(open[t], now),
       ![t].closes = @ + 1,
       ![t].due = ChargeCount(open[t].opened, now, Timing),
       ![t].held = now - open[t].opened]
  /\ UNCHANGED now

FeeTick ==
  /\ now < MaxNow
  /\ now' = now + 1
  /\ UNCHANGED <<open, ledger>>

FeeInit ==
  /\ now = 0
  /\ open = [t \in Trades |-> Unused]
  /\ ledger = [t \in Trades |-> NoFees]

FeeNext ==
  \/ \E t \in Trades : TrackerOpens(t) \/ TrackerCloses(t)
  \/ \E until \in 0..now : TrackerAccrues(until)
  \/ FeeTick

FeeSpec == FeeInit /\ [][FeeNext]_feeVars

-----------------------------------------------------------------------------
\* However often and whenever the funding was accrued, and however the trades
\* overlapped, a closed trade paid two commissions and exactly the charges of
\* its hold: none twice, none skipped.
FeesAreComplete ==
  \A t \in Trades : open[t].state = "closed" =>
    /\ ledger[t].opens = 1 /\ ledger[t].closes = 1
    /\ ledger[t].charges = ledger[t].due

\* The gate judges a setup by cost_model.funding_cost, which counts blocks; the
\* tracker charges at the clock's marks, or for started blocks.  Whenever a
\* trade opens and closes, and however its funding was accrued on the way, it
\* pays no more charges than a setup of that hold is priced with.
PricedFundingCovers ==
  \A t \in Trades : open[t].state = "closed" =>
    ledger[t].charges <= Blocks(ledger[t].held)
=============================================================================
