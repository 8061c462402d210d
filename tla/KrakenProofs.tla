----------------------------- MODULE KrakenProofs -----------------------------
(***************************************************************************)
(* For any trades, rows, clocks and bounds: the fees of a Kraken Prop      *)
(* account (KrakenFees), the verdict of the pre-trade gate (PropDesk) and  *)
(* the order form (OrderForm).                                             *)
(***************************************************************************)
EXTENDS PropDesk, OrderForm, TLAPS

-----------------------------------------------------------------------------
(* KrakenFees: a closed trade paid exactly what its hold costs, and that   *)
(* is no more than it was priced with.                                     *)

\* What the tracker and the ledger say of one trade at an instant: an open
\* trade was charged up to `funded', as if all of it had been counted at once.
TradeFees(t, fees, at) ==
  /\ t.state \in {"unused", "open", "closed"}
  /\ t.state = "unused" => fees = NoFees
  /\ t.state = "open" =>
       /\ t.opened \in Int /\ t.funded \in Int
       /\ t.opened <= t.funded /\ t.funded <= at
       /\ t = [state |-> "open", opened |-> t.opened, funded |-> t.funded]
       /\ fees = [opens |-> 1, closes |-> 0, due |-> 0, held |-> 0,
                  charges |-> ChargeCount(t.opened, t.funded, Timing)]
  /\ t.state = "closed" =>
       /\ fees.opens = 1 /\ fees.closes = 1
       /\ fees.charges = fees.due /\ fees.due <= Blocks(fees.held)

FeeInv ==
  /\ now \in Nat
  /\ DOMAIN open = Trades /\ DOMAIN ledger = Trades
  /\ \A t \in Trades : TradeFees(open[t], ledger[t], now)

LEMMA MarksAreInts ==
  ASSUME NEW a \in Int
  PROVE  a \div Interval \in Int /\ CeilDiv(a, Interval) \in Int
  BY DEF Interval, CeilDiv

\* A hold that is charged in two parts costs what it costs in one, and a part is
\* never negative.
LEMMA ChargesAddUp ==
  ASSUME NEW from \in Int, NEW mid \in Int, NEW until \in Int, from <= mid, mid <= until,
         NEW t, t.opened = from, t.funded = mid
  PROVE  /\ ChargeCount(from, mid, Timing) \in Int /\ Due(t, until) \in Nat
         /\ ChargeCount(from, mid, Timing) + Due(t, until) = ChargeCount(from, until, Timing)
<1>1. CASE Timing = "blocks"
  <2>1. \A x \in Int, y \in Int : x <= y => CeilDiv(x, Interval) <= CeilDiv(y, Interval)
    BY DEF CeilDiv, Interval
  <2>2. CeilDiv(0, Interval) = 0
    BY DEF CeilDiv, Interval
  <2>3. \A x \in Int : CeilDiv(x, Interval) \in Int
    BY MarksAreInts
  <2> DEFINE m == CeilDiv(mid - from, Interval)
             u == CeilDiv(until - from, Interval)
  <2>4. /\ ChargeCount(from, mid, Timing) = m /\ ChargeCount(from, until, Timing) = u
        /\ ChargeCount(from, mid, "blocks") = m /\ ChargeCount(from, until, "blocks") = u
    <3>1. \A x \in Int : x <= from /\ from <= x => CeilDiv(x - from, Interval) = 0
      BY <2>2
    <3> QED BY <1>1, <3>1 DEF ChargeCount
  <2>5. m \in Int /\ u \in Int /\ m <= u
    <3>1. mid - from \in Int /\ until - from \in Int /\ mid - from <= until - from
      OBVIOUS
    <3> QED BY <2>1, <2>3, <3>1
  <2>6. Due(t, until) = u - m
    BY <1>1, <2>4, <2>5 DEF Due
  <2> QED BY <2>4, <2>5, <2>6
<1>2. CASE Timing = "clock"
  <2>1. /\ from \div Interval \in Int /\ mid \div Interval \in Int /\ until \div Interval \in Int
        /\ from \div Interval <= mid \div Interval /\ mid \div Interval <= until \div Interval
    BY DEF Interval
  <2>2. /\ ChargeCount(from, mid, Timing) = mid \div Interval - from \div Interval
        /\ ChargeCount(from, until, Timing) = until \div Interval - from \div Interval
    BY <1>2, <2>1 DEF ChargeCount, Marks
  <2>3. Due(t, until) = until \div Interval - mid \div Interval
    BY <1>2, <2>1 DEF Due, ChargeCount, Marks
  <2> QED BY <2>1, <2>2, <2>3
<1> QED BY <1>1, <1>2, FeeConstants

\* However the marks of the clock fall, a hold meets no more of them than it starts
\* blocks.
LEMMA PricedIsNoLess ==
  ASSUME NEW from \in Int, NEW until \in Int, from <= until
  PROVE  ChargeCount(from, until, Timing) <= Blocks(until - from)
<1>1. CeilDiv(0, Interval) = 0 /\ Blocks(until - from) = CeilDiv(until - from, Interval)
  BY DEF CeilDiv, Interval, Blocks
<1>2. /\ until \div Interval - from \div Interval <= CeilDiv(until - from, Interval)
      /\ 0 <= CeilDiv(until - from, Interval) /\ CeilDiv(until - from, Interval) \in Int
  BY DEF CeilDiv, Interval
<1> QED BY <1>1, <1>2 DEF ChargeCount, Marks

LEMMA OpensKeepsFees ==
  ASSUME FeeInv, NEW p \in Trades, TrackerOpens(p)
  PROVE  FeeInv'
<1>1. /\ open' = [open EXCEPT ![p] = [state |-> "open", opened |-> now, funded |-> now]]
      /\ ledger' = [ledger EXCEPT ![p] = [opens |-> 1, closes |-> 0, charges |-> 0, due |-> 0, held |-> 0]]
  <2>1. open[p].state = "unused" /\ ledger[p] = NoFees
    BY DEF TrackerOpens, FeeInv, TradeFees
  <2>2. [ledger[p] EXCEPT !.opens = @ + 1] = [opens |-> 1, closes |-> 0, charges |-> 0, due |-> 0, held |-> 0]
    BY <2>1 DEF NoFees
  <2> QED BY <2>2 DEF TrackerOpens, FeeInv
<1>2. ChargeCount(now, now, Timing) = 0
  BY DEF ChargeCount, FeeInv
<1>3. ASSUME NEW q \in Trades PROVE TradeFees(open'[q], ledger'[q], now)
  <2>1. CASE q = p
    BY <1>1, <1>2, <2>1 DEF FeeInv, TradeFees
  <2>2. CASE q # p
    <3>1. open'[q] = open[q] /\ ledger'[q] = ledger[q]
      BY <1>1, <2>2 DEF FeeInv
    <3> QED BY <3>1 DEF FeeInv
  <2> QED BY <2>1, <2>2
<1>4. now' = now /\ now' \in Nat /\ DOMAIN open' = Trades /\ DOMAIN ledger' = Trades
  BY <1>1 DEF FeeInv, TrackerOpens
<1> QED BY <1>3, <1>4 DEF FeeInv, TradeFees

LEMMA AccruesKeepsFees ==
  ASSUME FeeInv, NEW until \in Int, until <= now, TrackerAccrues(until)
  PROVE  FeeInv'
<1>1. ASSUME NEW q \in Trades PROVE TradeFees(open'[q], ledger'[q], now)
  <2>1. CASE q \notin OpenTrades
    <3>1. open'[q] = open[q] /\ ledger'[q] = ledger[q]
      BY <2>1 DEF TrackerAccrues
    <3> QED BY <3>1 DEF FeeInv
  <2>2. CASE q \in OpenTrades
    <3>1. PICK t, fees : t = open[q] /\ fees = ledger[q]
      OBVIOUS
    <3>2. t.state = "open" /\ TradeFees(t, fees, now)
      BY <2>2, <3>1 DEF OpenTrades, FeeInv
    <3>3. /\ open'[q] = Funded(t, until)
          /\ ledger'[q] = [fees EXCEPT !.charges = @ + Due(t, until)]
      BY <2>2, <3>1 DEF TrackerAccrues
    <3>4. CASE until <= t.funded
      <4>1. Due(t, until) = 0 /\ Funded(t, until) = t
        BY <3>4 DEF Due, Funded
      <4>2. fees.charges \in Int
        BY <3>2, ChargesAddUp DEF TradeFees
      <4>3. [fees EXCEPT !.charges = @ + Due(t, until)] = fees
        BY <3>2, <4>1, <4>2 DEF TradeFees
      <4> QED BY <3>2, <3>3, <4>1, <4>3
    <3>5. CASE until > t.funded
      <4>1. /\ fees.charges \in Int /\ Due(t, until) \in Nat
            /\ fees.charges + Due(t, until) = ChargeCount(t.opened, until, Timing)
        BY <3>2, <3>5, ChargesAddUp DEF TradeFees
      <4>2. CASE Due(t, until) = 0
        <5>1. [fees EXCEPT !.charges = @ + Due(t, until)] = fees
          BY <3>2, <4>1, <4>2 DEF TradeFees
        <5>2. Funded(t, until) = t
          BY <4>2 DEF Funded
        <5> QED BY <3>2, <3>3, <5>1, <5>2
      <4>3. CASE Due(t, until) > 0
        <5>1. Funded(t, until)
              = [state |-> "open", opened |-> t.opened, funded |-> until]
          BY <3>2, <4>3 DEF Funded, TradeFees
        <5>2. [fees EXCEPT !.charges = @ + Due(t, until)]
              = [opens |-> 1, closes |-> 0, due |-> 0, held |-> 0,
                 charges |-> ChargeCount(t.opened, until, Timing)]
          BY <3>2, <4>1 DEF TradeFees
        <5> QED BY <3>2, <3>3, <3>5, <5>1, <5>2 DEF TradeFees
      <4> QED BY <4>1, <4>2, <4>3
    <3>6. t.funded \in Int
      BY <3>2 DEF TradeFees
    <3> QED BY <3>4, <3>5, <3>6
  <2> QED BY <2>1, <2>2
<1>2. now' = now /\ now' \in Nat /\ DOMAIN open' = Trades /\ DOMAIN ledger' = Trades
  BY DEF FeeInv, TrackerAccrues
<1> QED BY <1>1, <1>2 DEF FeeInv, TradeFees

LEMMA ClosesKeepsFees ==
  ASSUME FeeInv, NEW p \in Trades, TrackerCloses(p)
  PROVE  FeeInv'
<1>1. PICK t, fees : t = open[p] /\ fees = ledger[p]
  OBVIOUS
<1>2. t.state = "open" /\ TradeFees(t, fees, now) /\ now \in Int
  BY <1>1 DEF TrackerCloses, FeeInv
<1>3. fees.charges + Due(t, now) = ChargeCount(t.opened, now, Timing)
  BY <1>2, ChargesAddUp DEF TradeFees
<1>4. open'[p] = Closed /\ ledger'[p].opens = 1 /\ ledger'[p].closes = 1
      /\ ledger'[p].charges = ledger'[p].due /\ ledger'[p].due <= Blocks(ledger'[p].held)
  <2>1. open'[p] = Closed
    BY DEF TrackerCloses, FeeInv
  <2>2. ledger'[p] = [fees EXCEPT !.charges = @ + Due(t, now), !.closes = @ + 1,
                                  !.due = ChargeCount(t.opened, now, Timing),
                                  !.held = now - t.opened]
    BY <1>1 DEF TrackerCloses, FeeInv
  <2>3. ChargeCount(t.opened, now, Timing) <= Blocks(now - t.opened)
    BY <1>2, PricedIsNoLess DEF TradeFees
  <2> QED BY <1>2, <1>3, <2>1, <2>2, <2>3 DEF TradeFees
<1>5. ASSUME NEW q \in Trades PROVE TradeFees(open'[q], ledger'[q], now)
  <2>1. CASE q = p
    BY <1>4, <2>1 DEF TradeFees, Closed
  <2>2. CASE q # p
    <3>1. open'[q] = open[q] /\ ledger'[q] = ledger[q]
      BY <2>2 DEF FeeInv, TrackerCloses
    <3> QED BY <3>1 DEF FeeInv
  <2> QED BY <2>1, <2>2
<1>6. now' = now /\ now' \in Nat /\ DOMAIN open' = Trades /\ DOMAIN ledger' = Trades
  BY DEF FeeInv, TrackerCloses
<1> QED BY <1>5, <1>6 DEF FeeInv, TradeFees
LEMMA FeesBegin ==
  FeeInit => FeeInv
  BY DEF FeeInit, FeeInv, TradeFees, Unused

LEMMA FeeStep ==
  FeeInv /\ [FeeNext]_feeVars => FeeInv'
<1> SUFFICES ASSUME FeeInv, [FeeNext]_feeVars PROVE FeeInv'
  OBVIOUS
<1>1. ASSUME NEW t \in Trades, TrackerOpens(t) PROVE FeeInv'
  BY <1>1, OpensKeepsFees
<1>2. ASSUME NEW t \in Trades, TrackerCloses(t) PROVE FeeInv'
  BY <1>2, ClosesKeepsFees
<1>3. ASSUME NEW until \in 0..now, TrackerAccrues(until) PROVE FeeInv'
  <2>1. until \in Int /\ until <= now
    BY DEF FeeInv
  <2> QED BY <1>3, <2>1, AccruesKeepsFees
<1>4. CASE FeeTick
  <2>1. now' \in Nat /\ now <= now' /\ now \in Nat /\ open' = open /\ ledger' = ledger
    BY <1>4 DEF FeeTick, FeeInv
  <2>2. ASSUME NEW q \in Trades PROVE TradeFees(open[q], ledger[q], now')
    BY <2>1 DEF FeeInv, TradeFees
  <2> QED BY <2>1, <2>2 DEF FeeInv, TradeFees
<1>5. CASE UNCHANGED feeVars
  BY <1>5 DEF feeVars, FeeInv, TradeFees
<1> QED BY <1>1, <1>2, <1>3, <1>4, <1>5 DEF FeeNext

\* However often and whenever the funding is accrued, and however the trades
\* overlap: a closed trade paid two commissions and the charges of its hold, none
\* twice and none skipped, for both ways of counting them.
THEOREM FeesComplete == FeeSpec => []FeesAreComplete
<1>1. FeeInv => FeesAreComplete
  BY DEF FeeInv, TradeFees, FeesAreComplete
<1> QED BY <1>1, FeesBegin, FeeStep, PTL DEF FeeSpec

\* For both ways of counting, too: a closed trade paid no more charges than the
\* price of its hold has, so the cost the gate judged a setup by covers the
\* funding of every hold that is no longer than the one assumed.
THEOREM PricedCovers == FeeSpec => []PricedFundingCovers
<1>1. FeeInv => PricedFundingCovers
  BY DEF FeeInv, TradeFees, PricedFundingCovers
<1> QED BY <1>1, FeesBegin, FeeStep, PTL DEF FeeSpec
-----------------------------------------------------------------------------
(* PropDesk: the gate never favours the account that is worse off, and     *)
(* what it admits leaves the account above Kraken's floors.                *)

Rows == [balance : Int, dayStart : Int, peak : Int]
Priced == [side : {Long, Short}, risk : Nat, notional : Nat, cost : Nat]
Contexts == [benched : BOOLEAN, losses : Int, limit : Int, net : Int]

\* The first row is the poorer of two that agree otherwise.
WorseOff(a, b) ==
  /\ a \in Rows /\ b \in Rows
  /\ a.balance <= b.balance /\ a.dayStart = b.dayStart /\ a.peak = b.peak

\* The first context is the less favourable one for a setup: what is open leans
\* to the setup's own side, and further in the first.
Harsher(c, d, s) ==
  /\ c \in Contexts /\ d \in Contexts
  /\ d.benched => c.benched
  /\ d.losses <= c.losses /\ d.limit = c.limit
  /\ 0 <= s.side * d.net /\ s.side * d.net <= s.side * c.net

\* Every rule of evaluate() by its place in the order.
LEMMA NineRules ==
  ASSUME NEW s, NEW a, NEW c
  PROVE  /\ Tripped(s, a, c) \subseteq 1..9
         /\ 1 \in Tripped(s, a, c) <=> c.benched
         /\ 2 \in Tripped(s, a, c) <=> c.losses >= c.limit
         /\ 3 \in Tripped(s, a, c) <=> DailyHard(a)
         /\ 4 \in Tripped(s, a, c) <=> LifetimeHard(a)
         /\ 5 \in Tripped(s, a, c) <=> WorstCaseLoss(s.risk, s.cost) > DailyRoom(a)
         /\ 6 \in Tripped(s, a, c) <=> WorstCaseLoss(s.risk, s.cost) > LifetimeRoom(a)
         /\ 7 \in Tripped(s, a, c) <=> s.risk > 0 /\ 100 * s.cost > 15 * s.risk
         /\ 8 \in Tripped(s, a, c) <=> Magnitude(c.net + s.side * s.notional) > a.balance
         /\ 9 \in Tripped(s, a, c) <=> DailySoft(a)
<1>1. PICK rules : rules = Rules(s, a, c)
  OBVIOUS
<1>2. DOMAIN rules = 1..9
  BY <1>1 DEF Rules
<1>3. /\ rules[1][2] = c.benched
      /\ rules[2][2] = (c.losses >= c.limit)
      /\ rules[3][2] = DailyHard(a)
      /\ rules[4][2] = LifetimeHard(a)
      /\ rules[5][2] = (WorstCaseLoss(s.risk, s.cost) > DailyRoom(a))
      /\ rules[6][2] = (WorstCaseLoss(s.risk, s.cost) > LifetimeRoom(a))
      /\ rules[7][2] = (s.risk > 0 /\ 100 * s.cost > 15 * s.risk)
      /\ rules[8][2] = (Magnitude(c.net + s.side * s.notional) > a.balance)
      /\ rules[9][2] = DailySoft(a)
  BY <1>1 DEF Rules
<1>4. Tripped(s, a, c) = {i \in 1..9 : rules[i][2]}
  BY <1>1, <1>2 DEF Tripped
<1>5. \A i \in {1, 2, 3, 4, 5, 6, 7, 8, 9} : i \in Tripped(s, a, c) <=> rules[i][2]
  BY <1>4
<1>6. Tripped(s, a, c) \subseteq 1..9
  BY <1>4
<1> QED BY <1>3, <1>5, <1>6, Zenon

\* A poorer account has lost more of the day and of the peak.
LEMMA PoorerLostMore ==
  ASSUME NEW a, NEW b, WorseOff(a, b)
  PROVE  /\ DailyLoss(a) \in Nat /\ DailyLoss(b) \in Nat /\ DailyLoss(b) <= DailyLoss(a)
         /\ Drawdown(a) \in Nat /\ Drawdown(b) \in Nat /\ Drawdown(b) <= Drawdown(a)
  BY DEF WorseOff, Rows, DailyLoss, Drawdown, MaxOf

LEMMA PoorerIsHard ==
  ASSUME NEW a, NEW b, WorseOff(a, b)
  PROVE  /\ DailySoft(b) => DailySoft(a)
         /\ DailyHard(b) => DailyHard(a)
         /\ LifetimeHard(b) => LifetimeHard(a)
<1>1. a.dayStart \in Int /\ b.dayStart = a.dayStart /\ a.peak \in Int /\ b.peak = a.peak
  BY DEF WorseOff, Rows
<1>2. PICK la \in Nat, lb \in Nat : la = DailyLoss(a) /\ lb = DailyLoss(b) /\ lb <= la
  BY PoorerLostMore
<1>3. PICK da \in Nat, db \in Nat : da = Drawdown(a) /\ db = Drawdown(b) /\ db <= da
  BY PoorerLostMore
<1>4. PICK m \in Int : m = 7 * Mdd * a.peak
  BY <1>1, DeskConstants
<1>5. LifetimeHard(b) => LifetimeHard(a)
  <2>1. LifetimeHard(a) <=> Mdd > 0 /\ a.peak > 0 /\ da > 0 /\ 10000 * da >= m
    BY <1>3, <1>4 DEF LifetimeHard
  <2>2. LifetimeHard(b) <=> Mdd > 0 /\ a.peak > 0 /\ db > 0 /\ 10000 * db >= m
    BY <1>1, <1>3, <1>4 DEF LifetimeHard
  <2> QED BY <1>3, <2>1, <2>2
<1>6. (DailySoft(b) => DailySoft(a)) /\ (DailyHard(b) => DailyHard(a))
  BY <1>1, <1>2 DEF DailySoft, DailyHard
<1> QED BY <1>5, <1>6

\* A poorer account has no more room: a soft day halves what is left, and never
\* less than the whole of it on a richer one.
LEMMA PoorerHasNoMoreRoom ==
  ASSUME NEW a, NEW b, WorseOff(a, b)
  PROVE  /\ DailyRoom(a) \in Nat /\ DailyRoom(b) \in Nat /\ DailyRoom(a) <= DailyRoom(b)
         /\ LifetimeRoom(a) \in Nat /\ LifetimeRoom(b) \in Nat /\ LifetimeRoom(a) <= LifetimeRoom(b)
<1>1. /\ a.dayStart \in Int /\ b.dayStart = a.dayStart /\ a.peak \in Int /\ b.peak = a.peak
      /\ a.balance \in Int /\ b.balance \in Int /\ a.balance <= b.balance
  BY DEF WorseOff, Rows
<1>2. PICK floor \in Int : floor = a.dayStart - a.dayStart \div 50
  BY <1>1
<1>3. PICK x \in Nat, y \in Nat : x = OurDailyRoom(a) /\ y = OurDailyRoom(b) /\ x <= y
  <2>1. OurDailyRoom(a) = MaxOf(0, a.balance - floor) /\ OurDailyRoom(b) = MaxOf(0, b.balance - floor)
    BY <1>1, <1>2 DEF OurDailyRoom
  <2> QED BY <1>1, <2>1 DEF MaxOf
<1>4. x \div 2 \in Nat /\ y \div 2 \in Nat /\ x \div 2 <= y \div 2 /\ x \div 2 <= x /\ y \div 2 <= y
  <2>1. \A k \in Nat : k \div 2 \in Nat /\ k \div 2 <= k
    OBVIOUS
  <2>2. \A k \in Nat, m \in Nat : k <= m => k \div 2 <= m \div 2
    OBVIOUS
  <2> QED BY <1>3, <2>1, <2>2
<1>5. DailyRoom(a) \in Nat /\ DailyRoom(b) \in Nat /\ DailyRoom(a) <= DailyRoom(b)
  BY <1>3, <1>4, PoorerIsHard DEF DailyRoom
<1>6. PICK low \in Int : low = a.peak - (7 * Mdd * a.peak) \div 10000
  <2>1. PICK m \in Int : m = 7 * Mdd * a.peak
    BY <1>1, DeskConstants
  <2>2. m \div 10000 \in Int
    OBVIOUS
  <2> QED BY <1>1, <2>1, <2>2
<1>7. PICK u \in Nat, v \in Nat : /\ u = MaxOf(0, a.balance - low) /\ v = MaxOf(0, b.balance - low)
                                  /\ u <= v
  BY <1>1 DEF MaxOf
<1>8. /\ LifetimeRoom(a) = IF LifetimeHard(a) THEN 0 ELSE u
      /\ LifetimeRoom(b) = IF LifetimeHard(b) THEN 0 ELSE v
  BY <1>1, <1>6, <1>7 DEF LifetimeRoom
<1> QED BY <1>5, <1>7, <1>8, PoorerIsHard

\* More exposure on the setup's own side is a larger one.
LEMMA HarsherLeansMore ==
  ASSUME NEW s \in Priced, NEW c, NEW d, Harsher(c, d, s)
  PROVE  /\ Magnitude(c.net + s.side * s.notional) \in Int
         /\ Magnitude(d.net + s.side * s.notional) \in Int
         /\ Magnitude(d.net + s.side * s.notional) <= Magnitude(c.net + s.side * s.notional)
<1>1. c.net \in Int /\ d.net \in Int /\ s.notional \in Nat
  BY DEF Harsher, Contexts, Priced
<1>2. CASE s.side = 1
  BY <1>1, <1>2 DEF Harsher, Magnitude, MaxOf
<1>3. CASE s.side = -1
  <2>1. s.side * s.notional = -s.notional /\ s.side * c.net = -c.net /\ s.side * d.net = -d.net
    BY <1>1, <1>3
  <2> QED BY <1>1, <2>1 DEF Harsher, Magnitude, MaxOf
<1> QED BY <1>2, <1>3 DEF Priced, Long, Short

\* What trips a rule for the richer account and the milder context trips it for
\* the poorer and the harsher.
LEMMA PoorerTripsMore ==
  ASSUME NEW s \in Priced, NEW a, NEW b, WorseOff(a, b), NEW c, NEW d, Harsher(c, d, s)
  PROVE  Tripped(s, b, d) \subseteq Tripped(s, a, c)
<1>1. PICK worst \in Int : worst = WorstCaseLoss(s.risk, s.cost)
  BY DEF WorstCaseLoss, Priced
<1>2. /\ worst > DailyRoom(b) => worst > DailyRoom(a)
      /\ worst > LifetimeRoom(b) => worst > LifetimeRoom(a)
  BY PoorerHasNoMoreRoom
<1>3. /\ d.benched => c.benched
      /\ d.losses >= d.limit => c.losses >= c.limit
  BY DEF Harsher, Contexts
<1>4. Magnitude(d.net + s.side * s.notional) > b.balance
      => Magnitude(c.net + s.side * s.notional) > a.balance
  BY HarsherLeansMore DEF WorseOff, Rows
<1>5. ASSUME NEW i \in Tripped(s, b, d) PROVE i \in Tripped(s, a, c)
  <2>1. i \in {1, 2, 3, 4, 5, 6, 7, 8, 9}
    BY <1>5, NineRules
  <2>2. CASE i \in {1, 2}
    BY <1>3, <1>5, <2>2, NineRules
  <2>3. CASE i \in {3, 4, 9}
    BY <1>5, <2>3, NineRules, PoorerIsHard
  <2>4. CASE i \in {5, 6}
    BY <1>1, <1>2, <1>5, <2>4, NineRules
  <2>5. CASE i = 7
    BY <1>5, <2>5, NineRules
  <2>6. CASE i = 8
    BY <1>4, <1>5, <2>6, NineRules
  <2> QED BY <2>1, <2>2, <2>3, <2>4, <2>5, <2>6
<1> QED BY <1>5

LEMMA MoreRulesRankLower ==
  ASSUME NEW s, NEW a, NEW b, NEW c, NEW d, Tripped(s, b, d) \subseteq Tripped(s, a, c)
  PROVE  Rank[Verdict(s, a, c)] <= Rank[Verdict(s, b, d)]
<1>1. Rank["REJECT"] = 0 /\ Rank["REDUCE"] = 1 /\ Rank["APPROVE"] = 2
  BY DEF Rank
<1>2. CASE Tripped(s, b, d) = {}
  BY <1>1, <1>2 DEF Verdict
<1>3. CASE Tripped(s, b, d) = {9}
  <2>1. Verdict(s, b, d) = "REDUCE"
    BY <1>3 DEF Verdict
  <2>2. Verdict(s, a, c) \in {"REDUCE", "REJECT"}
    BY <1>3 DEF Verdict
  <2> QED BY <1>1, <2>1, <2>2
<1>4. CASE Tripped(s, b, d) \notin {{}, {9}}
  <2>1. Tripped(s, a, c) \notin {{}, {9}}
    BY <1>4
  <2> QED BY <1>1, <1>4, <2>1 DEF Verdict
<1> QED BY <1>2, <1>3, <1>4

LEMMA SetupsArePriced ==
  ASSUME account \in Accounts, NEW s \in Setups
  PROVE  s \in Priced
<1>1. PICK riskBp \in Nat, gear \in Nat, side \in {Long, Short} :
        s = Setup(account.balance, riskBp, gear, side)
  BY DeskConstants DEF Setups
<1>2. \A x \in Nat, n \in Nat \ {0} : x \div n \in Nat
  OBVIOUS
<1>3. PICK risk \in Nat : risk = Risk(account.balance, riskBp)
  <2>1. account.balance \in Nat
    BY DeskConstants DEF Accounts
  <2>2. account.balance * riskBp \in Nat
    BY <2>1
  <2> QED BY <1>2, <2>2 DEF Risk
<1>4. PICK notional \in Nat : notional = risk * gear
  OBVIOUS
<1>5. PICK cost \in Nat : cost = ExpectedCost(notional, ExpectedHold)
  <2>1. Blocks(ExpectedHold) = 6
    BY DEF Blocks, CeilDiv, Interval, ExpectedHold
  <2>2. 6 * 11 * notional \in Nat /\ 8 * notional \in Nat
    OBVIOUS
  <2> QED BY <1>2, <2>1, <2>2 DEF ExpectedCost, RoundTripCommission, Funding
<1>6. s = [side |-> side, risk |-> risk, notional |-> notional, cost |-> cost]
  BY <1>1, <1>3, <1>4, <1>5 DEF Setup
<1> QED BY <1>6 DEF Priced

LEMMA RowsHold ==
  DeskSpec => [](account \in Accounts)
<1>1. account \in Accounts /\ [DeskNext]_account => (account \in Accounts)'
  BY DEF DeskNext, RowSaved, Accounts
<1> QED BY <1>1, PTL DEF DeskSpec, DeskInit

\* Whatever the risk, the setups and the row that the last live cycle saved: a
\* poorer account, a longer losing streak or more exposure on the setup's own side
\* never turns a refusal of the gate into an admission, nor a reduction into an
\* approval.
THEOREM VerdictStaysMonotone == DeskSpec => []VerdictIsMonotone
<1>1. ASSUME account \in Accounts PROVE VerdictIsMonotone
  <2> SUFFICES ASSUME NEW s \in Setups
               PROVE LET RankOf(a, c) == Rank[Verdict(s, a, c)]
                         own == RankOf(account, DefaultContext)
                     IN /\ \A b \in Balances :
                             b <= account.balance =>
                               RankOf([account EXCEPT !.balance = b], DefaultContext) <= own
                        /\ \A c \in {[DefaultContext EXCEPT !.losses = 3],
                                     [DefaultContext EXCEPT !.net = s.side * s.notional]} :
                             RankOf(account, c) <= own
    BY DEF VerdictIsMonotone
  <2>1. s \in Priced
    BY <1>1, SetupsArePriced
  <2>2. /\ Harsher(DefaultContext, DefaultContext, s)
        /\ Harsher([DefaultContext EXCEPT !.losses = 3], DefaultContext, s)
        /\ Harsher([DefaultContext EXCEPT !.net = s.side * s.notional], DefaultContext, s)
    <3>1. PICK net \in Int : net = s.side * s.notional /\ s.side * net >= 0 /\ s.side * 0 = 0
      <4>1. s.notional \in Nat /\ s.side \in {1, -1}
        BY <2>1 DEF Priced, Long, Short
      <4>2. CASE s.side = 1
        BY <4>1, <4>2
      <4>3. CASE s.side = -1
        BY <4>1, <4>3
      <4> QED BY <4>1, <4>2, <4>3
    <3>2. DefaultContext \in Contexts /\ DefaultContext.losses = 0 /\ DefaultContext.net = 0
      BY DEF DefaultContext, Contexts
    <3>3. ASSUME NEW d \in Contexts, d.losses = 0, d.net = 0
          PROVE  /\ Harsher(d, d, s) /\ Harsher([d EXCEPT !.losses = 3], d, s)
                 /\ Harsher([d EXCEPT !.net = net], d, s)
      BY <3>1, <3>3 DEF Harsher, Contexts
    <3> QED BY <3>1, <3>2, <3>3
  <2>3. ASSUME NEW b \in Balances, b <= account.balance
        PROVE  Rank[Verdict(s, [account EXCEPT !.balance = b], DefaultContext)]
               <= Rank[Verdict(s, account, DefaultContext)]
    <3>1. WorseOff([account EXCEPT !.balance = b], account)
      BY <1>1, <2>3, DeskConstants DEF WorseOff, Rows, Accounts
    <3> QED BY <2>1, <2>2, <3>1, PoorerTripsMore, MoreRulesRankLower
  <2>4. WorseOff(account, account)
    <3>1. account.balance \in Nat /\ account.dayStart \in Nat /\ account.peak \in Nat
      BY <1>1, DeskConstants DEF Accounts
    <3> QED BY <1>1, <3>1 DEF WorseOff, Rows, Accounts
  <2>5. ASSUME NEW c \in {[DefaultContext EXCEPT !.losses = 3],
                          [DefaultContext EXCEPT !.net = s.side * s.notional]}
        PROVE  Rank[Verdict(s, account, c)] <= Rank[Verdict(s, account, DefaultContext)]
    BY <2>1, <2>2, <2>4, PoorerTripsMore, MoreRulesRankLower
  <2> QED BY <2>3, <2>5
<1> QED BY <1>1, RowsHold, PTL

\* Our own rooms end before Kraken's floors, and what is left when a room is used
\* up, or is none, is above them.
LEMMA RoomsEndAboveFloors ==
  ASSUME NEW a, a.balance \in Nat, a.dayStart \in Nat, a.peak \in Nat, NEW loss \in Nat
  PROVE  /\ ~DailyHard(a) /\ loss <= DailyRoom(a) => a.balance - loss >= MdlFloor(a.dayStart)
         /\ ~LifetimeHard(a) /\ loss <= LifetimeRoom(a) => a.balance - loss >= MddFloor(a.peak)
<1>1. ASSUME ~DailyHard(a), loss <= DailyRoom(a) PROVE a.balance - loss >= MdlFloor(a.dayStart)
  <2>1. PICK k \in Nat : k = a.dayStart \div 50 /\ 50 * k <= a.dayStart /\ a.dayStart < 50 * k + 50
    OBVIOUS
  <2>2. a.dayStart - a.balance <= k
    <3>1. CASE a.balance >= a.dayStart
      BY <2>1, <3>1
    <3>2. CASE a.balance < a.dayStart
      <4>1. DailyLoss(a) = a.dayStart - a.balance
        BY <3>2 DEF DailyLoss, MaxOf
      <4>2. 1000 * (a.dayStart - a.balance) < 20 * a.dayStart
        BY <1>1, <3>2, <4>1 DEF DailyHard
      <4> QED BY <2>1, <4>2
    <3> QED BY <3>1, <3>2
  <2>3. OurDailyRoom(a) = a.balance - (a.dayStart - k) /\ OurDailyRoom(a) \in Nat
    BY <2>1, <2>2 DEF OurDailyRoom, MaxOf
  <2>4. loss <= OurDailyRoom(a)
    <3>1. \A x \in Nat : x \div 2 <= x /\ x \div 2 \in Nat
      OBVIOUS
    <3> QED BY <1>1, <2>3, <3>1 DEF DailyRoom
  <2>5. k <= (3 * a.dayStart) \div 100 /\ (3 * a.dayStart) \div 100 \in Int
    BY <2>1
  <2> QED BY <2>1, <2>3, <2>4, <2>5 DEF MdlFloor
<1>2. ASSUME ~LifetimeHard(a), loss <= LifetimeRoom(a) PROVE a.balance - loss >= MddFloor(a.peak)
  <2>1. PICK m \in Nat : m = Mdd * a.peak
    BY DeskConstants
  <2>2. 7 * Mdd * a.peak = 7 * m
    BY <2>1, DeskConstants
  <2>3. PICK k \in Nat : /\ k = (7 * m) \div 10000 /\ 10000 * k <= 7 * m /\ 7 * m < 10000 * k + 10000
                         /\ k <= m \div 1000 /\ m \div 1000 \in Nat
    OBVIOUS
  <2>4. a.peak - a.balance <= k
    <3>1. CASE a.balance >= a.peak
      BY <2>3, <3>1
    <3>2. CASE a.balance < a.peak
      <4>1. Drawdown(a) = a.peak - a.balance /\ a.peak > 0
        BY <3>2 DEF Drawdown, MaxOf
      <4>2. 10000 * (a.peak - a.balance) < 7 * m
        BY <1>2, <2>2, <3>2, <4>1, DeskConstants DEF LifetimeHard
      <4> QED BY <2>3, <4>2
    <3> QED BY <3>1, <3>2
  <2>5. LifetimeRoom(a) = a.balance - (a.peak - k)
    BY <1>2, <2>2, <2>3, <2>4 DEF LifetimeRoom, MaxOf
  <2> QED BY <1>2, <2>1, <2>3, <2>5 DEF MddFloor
<1> QED BY <1>1, <1>2

\* For every risk, setup, tier of account and row: what the gate admits, lost at its
\* stop with the cost it was priced with, leaves the row above both floors at which
\* Kraken ends the account.
THEOREM AdmittedKeepsFloors == DeskSpec => []AdmittedLossKeepsFloors
<1>1. ASSUME account \in Accounts PROVE AdmittedLossKeepsFloors
  <2> SUFFICES ASSUME NEW s \in Setups, Verdict(s, account, DefaultContext) # "REJECT"
               PROVE LET left == account.balance - WorstCaseLoss(s.risk, s.cost)
                     IN left >= MdlFloor(account.dayStart) /\ left >= MddFloor(account.peak)
    BY DEF AdmittedLossKeepsFloors
  <2>1. PICK loss \in Nat : loss = WorstCaseLoss(s.risk, s.cost)
    BY <1>1, SetupsArePriced DEF Priced, WorstCaseLoss
  <2>2. account.balance \in Nat /\ account.dayStart \in Nat /\ account.peak \in Nat
    BY <1>1, DeskConstants DEF Accounts
  <2>3. Tripped(s, account, DefaultContext) \in {{}, {9}}
    BY DEF Verdict
  <2>4. \A i \in 1..8 : i \notin Tripped(s, account, DefaultContext)
    BY <2>3
  <2>5. /\ ~DailyHard(account) /\ ~LifetimeHard(account)
        /\ ~(loss > DailyRoom(account)) /\ ~(loss > LifetimeRoom(account))
    BY <2>1, <2>4, NineRules
  <2>6. DailyRoom(account) \in Nat /\ LifetimeRoom(account) \in Nat
    <3>1. WorseOff(account, account)
      BY <2>2, <1>1 DEF WorseOff, Rows, Accounts
    <3> QED BY <3>1, PoorerHasNoMoreRoom
  <2>7. loss <= DailyRoom(account) /\ loss <= LifetimeRoom(account)
    BY <2>5, <2>6
  <2> QED BY <2>1, <2>2, <2>5, <2>7, RoomsEndAboveFloors
<1> QED BY <1>1, RowsHold, PTL
-----------------------------------------------------------------------------
(* OrderForm: what the checkpoint accepts is on the phone.                 *)

\* While the screen is dumped nothing moves on the phone, so a fresh dump is what
\* is on it; a first dump agrees with nothing.
DumpInv ==
  /\ driver.pc # "idle" => driver.intent \in Intents
  /\ driver.pc = "dump" =>
       \/ driver.prev.side = "unread" /\ driver.attempts = 0
       \/ driver.wasStale
       \/ driver.prev = Screen
  /\ driver.pc = "dump" => driver.wasStale \in BOOLEAN

\* The process keeps its record.
DriverShape ==
  driver = [pc |-> driver.pc, intent |-> driver.intent, at |-> driver.at, clean |-> driver.clean,
            prev |-> driver.prev, attempts |-> driver.attempts, wasStale |-> driver.wasStale]

\* A screen that shows the intended side shows the form.
LEMMA ScreenIsTheForm ==
  ASSUME NEW i \in Intents, Matches(Screen, i)
  PROVE  Matches(View(form), i)
<1>1. SideOf[i] \in {"Buy", "Sell"}
  BY FormConstants
<1>2. Screen # NoForm
  BY <1>1 DEF Matches, NoForm
<1> QED BY <1>2 DEF Screen

LEMMA DumpStep ==
  ASSUME DriverShape, DumpInv, NEW seen, NEW stale \in BOOLEAN, Dump(seen, stale),
         ~stale => seen = Screen
  PROVE  /\ DriverShape' /\ DumpInv'
         /\ driver'.pc = "matched" =>
              (driver.wasStale /\ driver'.wasStale) \/ Matches(View(form), driver.intent)
<1>1. /\ driver.pc = "dump" /\ driver.intent \in Intents /\ Screen' = Screen
      /\ SideOf[driver.intent] \in {"Buy", "Sell"}
  BY FormConstants DEF Dump, DumpInv, Screen
<1> DEFINE expected == seen.side = SideOf[driver.intent]
           d == [driver EXCEPT !.prev = seen, !.attempts = @ + 1, !.wasStale = stale]
           agrees == Agrees(driver.prev, seen) /\ expected
           verdict == IF Matches(seen, driver.intent) THEN "matched" ELSE "refused"
<1>2. driver' = IF agrees THEN [d EXCEPT !.pc = verdict]
                ELSE IF d.attempts = MaxAttempts THEN Idle ELSE d
  BY DEF Dump
<1>3. CASE agrees
  <2>1. /\ driver'.pc = verdict /\ driver'.intent = driver.intent /\ DriverShape'
        /\ driver'.wasStale = stale
    BY <1>2, <1>3 DEF DriverShape
  <2>2. seen = Screen \/ (driver.wasStale /\ stale)
    <3>1. driver.prev.side # "unread"
      BY <1>1, <1>3 DEF Agrees
    <3> QED BY <1>1, <1>3, <3>1 DEF DumpInv, Agrees
  <2>3. verdict = "matched" =>
          (driver.wasStale /\ stale) \/ Matches(View(form), driver.intent)
    BY <1>1, <2>2, ScreenIsTheForm
  <2> QED BY <1>1, <2>1, <2>3 DEF DumpInv
<1>4. CASE ~agrees /\ d.attempts = MaxAttempts
  BY <1>2, <1>4 DEF Idle, DriverShape, DumpInv
<1>5. CASE ~agrees /\ d.attempts # MaxAttempts
  <2>1. /\ driver'.pc = "dump" /\ driver'.intent = driver.intent /\ driver'.prev = seen
        /\ driver'.wasStale = stale /\ DriverShape'
    BY <1>1, <1>2, <1>5 DEF DriverShape
  <2> QED BY <1>1, <2>1 DEF DumpInv
<1> QED BY <1>3, <1>4, <1>5

\* Whatever failed, was repeated or covered the screen before, and however often a
\* dump was stale: a form that verify_order_form accepts on two dumps of which one
\* was of the screen is on the phone as the intent has it, with TP/SL.  Nobody
\* touches the phone while it is dumped.
THEOREM MatchedIsIntended ==
  ASSUME "touch" \notin Interference
  PROVE  FormSpec => MatchedFormIsIntended
<1> DEFINE Inv == DriverShape /\ DumpInv
<1>1. FormInit => Inv
  BY DEF FormInit, Idle, DriverShape, DumpInv
<1>2. ASSUME Inv, [FormNext]_formVars
      PROVE  /\ Inv'
             /\ driver.pc = "dump" /\ driver'.pc = "matched" =>
                  (driver.wasStale /\ driver'.wasStale) \/ Matches(View(form), driver.intent)
  <2>1. ASSUME NEW i \in Intents \cup Crooked, StartPopulate(i)
        PROVE  Inv' /\ driver'.pc # "matched"
    <3>1. CASE i \in Crooked
      BY <1>2, <2>1, <3>1 DEF StartPopulate, DriverShape, DumpInv, Screen
    <3>2. CASE i \notin Crooked
      <4>1. /\ driver'.pc = "populate" /\ driver'.intent = i /\ DriverShape'
        BY <2>1, <3>2 DEF StartPopulate, DriverShape, Idle
      <4> QED BY <2>1, <3>2, <4>1 DEF DumpInv
    <3> QED BY <3>1, <3>2
  <2>2. CASE Send
    <3>1. /\ driver'.pc \in {"populate", "populated"} /\ driver'.intent = driver.intent /\ DriverShape'
          /\ driver.pc = "populate"
      <4>1. PICK clean : driver' = Sent(clean) /\ driver.pc = "populate"
        BY <2>2 DEF Send
      <4> QED BY <1>2, <4>1 DEF Sent, DriverShape
    <3> QED BY <1>2, <3>1 DEF DumpInv
  <2>3. CASE SendFails
    <3>1. /\ driver'.pc = "stopped" /\ driver'.intent = driver.intent /\ DriverShape'
          /\ driver.pc = "populate"
      BY <2>3 DEF SendFails, DriverShape, Idle
    <3> QED BY <1>2, <3>1 DEF DumpInv
  <2>4. CASE StartDump
    <3>1. /\ driver'.pc = "dump" /\ driver'.intent = driver.intent /\ DriverShape'
          /\ driver.pc \in {"populated", "stopped"}
          /\ driver'.prev.side = "unread" /\ driver'.attempts = 0 /\ driver'.wasStale = FALSE
      BY <1>2, <2>4 DEF StartDump, DriverShape, NoForm
    <3> QED BY <1>2, <3>1 DEF DumpInv
  <2>5. CASE GiveUp \/ DumpFails
    BY <2>5 DEF GiveUp, DumpFails, Idle, DriverShape, DumpInv
  <2>6. CASE DumpFresh
    <3>1. Dump(Screen, FALSE)
      BY <2>6 DEF DumpFresh
    <3> QED BY <1>2, <3>1, DumpStep
  <2>7. CASE DumpStale
    <3>1. Dump(cache, TRUE)
      BY <2>7 DEF DumpStale
    <3> QED BY <1>2, <3>1, DumpStep
  <2>8. CASE Call
    BY <1>2, <2>8 DEF Call, DriverShape, DumpInv
  <2>9. CASE CloseForm
    <3>1. driver.pc = "idle" /\ driver' = driver
      BY <2>9 DEF CloseForm
    <3> QED BY <1>2, <3>1 DEF DriverShape, DumpInv
  <2>10. CASE UNCHANGED formVars
    BY <1>2, <2>10 DEF formVars, DriverShape, DumpInv, Screen
  <2> QED BY <1>2, <2>1, <2>2, <2>3, <2>4, <2>5, <2>6, <2>7, <2>8, <2>9, <2>10 DEF FormNext
<1>3. Inv /\ [FormNext]_formVars
      => [driver.pc = "dump" /\ driver'.pc = "matched" =>
            (driver.wasStale /\ driver'.wasStale) \/ Matches(View(form), driver.intent)]_formVars
  BY <1>2
<1> HIDE DEF Inv
<1> QED BY <1>1, <1>2, <1>3, PTL DEF FormSpec, MatchedFormIsIntended
-----------------------------------------------------------------------------
(* OrderForm: what a population that met nothing leaves behind.            *)

Values == Intents \cup {"other"}
Forms == [open : BOOLEAN, menu : BOOLEAN, side : {"Buy", "Sell"}, type : {"Market", "Limit"},
          tpsl : BOOLEAN, focus : Fields \cup {"none"}, val : [Fields -> Values]]

\* How far a clean population has come: what the first at - 1 commands did.
Progress(f, i, at) ==
  at > 1 =>
    /\ f.open /\ f.side = SideOf[i] /\ (f.menu <=> at = 3)
    /\ f.type = IF at > 3 THEN "Limit" ELSE "Market"
    /\ f.tpsl <=> at > 6
    /\ at > 4 => f.val["limit_price"] = i
    /\ at > 5 => f.val["quantity"] = i
    /\ at > 7 => f.val["take_profit"] = i
    /\ at > 8 => f.val["stop_loss"] = i

PopulateInv ==
  /\ form \in Forms
  /\ driver.pc # "idle" => driver.intent \in Intents
  /\ driver.pc = "populate" => driver.at \in 1..8
  /\ driver.pc = "populate" /\ driver.clean => Progress(form, driver.intent, driver.at)
  /\ driver.pc = "populated" /\ driver.clean => Progress(form, driver.intent, 9)

\* A text goes to the field that was tapped when the form is as the coordinates
\* expect it.
LEMMA FieldIsHit ==
  ASSUME NEW f, f.open, ~f.menu, f.type = "Limit", NEW field \in Fields,
         field \in Protection => f.tpsl
  PROVE  Hit(f, field) = field
  BY Zenon DEF Hit

LEMMA HitIsAField ==
  ASSUME NEW f, NEW field \in Fields
  PROVE  Hit(f, field) \in Fields \cup {"none"}
<1>1. "quantity" \in Fields
  BY DEF Fields
<1> QED BY <1>1, Zenon DEF Hit

LEMMA TypedKeepsForms ==
  ASSUME NEW f \in Forms, NEW field \in Fields, NEW i \in Intents, NEW value \in Values
  PROVE  Typed(f, field, i, value) \in Forms
<1>1. PICK focus \in Fields \cup {"none"} :
        focus = IF Hit(f, field) = "none" THEN f.focus ELSE Hit(f, field)
  BY HitIsAField DEF Forms
<1>2. CASE ~f.open \/ focus = "none" \/ f.menu
  <2>1. Typed(f, field, i, value) = [f EXCEPT !.menu = FALSE]
    BY <1>1, <1>2 DEF Typed
  <2> QED BY <2>1 DEF Forms
<1>3. CASE ~(~f.open \/ focus = "none" \/ f.menu)
  <2>1. PICK v \in Values : v = IF focus = field THEN value ELSE "other"
    BY DEF Values
  <2>2. PICK val \in [Fields -> Values] : val = [f.val EXCEPT ![focus] = v]
    BY <1>3 DEF Forms
  <2>3. Typed(f, field, i, value) = [f EXCEPT !.focus = focus, !.val = val]
    BY <1>1, <1>3, <2>1, <2>2 DEF Typed
  <2> QED BY <2>3 DEF Forms
<1> QED BY <1>2, <1>3

\* A form that takes texts for this field, and one that differs in this field only.
Takes(f, field) == /\ f.open /\ ~f.menu /\ f.type = "Limit"
                   /\ field \in Protection => f.tpsl
Wrote(f, g, field, i) ==
  /\ g.open = f.open /\ g.menu = f.menu /\ g.side = f.side /\ g.type = f.type
  /\ g.tpsl = f.tpsl /\ g.val[field] = i
  /\ \A x \in Fields : x # field => g.val[x] = f.val[x]

LEMMA TypedWrites ==
  ASSUME NEW f \in Forms, NEW field \in Fields, Takes(f, field), NEW i \in Intents
  PROVE  Wrote(f, Typed(f, field, i, i), field, i)
<1> DEFINE g == Typed(f, field, i, i)
<1>0. f.open /\ ~f.menu /\ f.type = "Limit" /\ (field \in Protection => f.tpsl)
  BY DEF Takes
<1>1. Hit(f, field) = field /\ field # "none"
  BY <1>0, FieldIsHit DEF Fields
<1>2. PICK val \in [Fields -> Values] : val = [f.val EXCEPT ![field] = i]
  BY DEF Forms, Values
<1>3. val[field] = i /\ \A x \in Fields : x # field => val[x] = f.val[x]
  BY <1>2 DEF Forms
<1>4. g = [f EXCEPT !.focus = field, !.val = val]
  BY <1>0, <1>1, <1>2 DEF Typed
<1> HIDE DEF g
<1>5. /\ g.open = f.open /\ g.menu = f.menu /\ g.side = f.side /\ g.type = f.type
      /\ g.tpsl = f.tpsl /\ g.val = val
  BY <1>4 DEF Forms
<1> QED BY <1>3, <1>5 DEF Wrote, g

\* The kinds of command: one that opens the form, three that switch one thing, and
\* the texts.
LEMMA OpeningEffect ==
  ASSUME NEW f, NEW i
  PROVE  Effects("action", f, i) = Opened(f, i)
  BY Zenon DEF Effects

LEMMA TextEffect ==
  ASSUME NEW f, NEW i, NEW field \in Fields
  PROVE  Effects(field, f, i) = {Typed(f, field, i, i)}
<1>1. field \notin {"action", "dropdown", "option", "toggle"}
  BY DEF Fields
<1> QED BY <1>1, Zenon DEF Effects

\* One form differs from another in the menu, the type and the TP/SL switch.
Switched(f, g, menu, type, tpsl) ==
  /\ g \in Forms
  /\ g.open = f.open /\ g.side = f.side /\ g.val = f.val
  /\ g.menu <=> menu
  /\ g.tpsl <=> tpsl
  /\ g.type = type

LEMMA SwitchEffects ==
  ASSUME NEW f \in Forms, NEW i, NEW g
  PROVE  /\ g \in Effects("dropdown", f, i)
              => Switched(f, g, IF f.open THEN ~f.menu ELSE f.menu, f.type, f.tpsl)
         /\ g \in Effects("option", f, i)
              => Switched(f, g, FALSE, IF f.menu THEN "Limit" ELSE f.type, f.tpsl)
         /\ g \in Effects("toggle", f, i)
              => Switched(f, g, FALSE, f.type, IF f.open /\ ~f.menu THEN ~f.tpsl ELSE f.tpsl)
<1>1. Effects("dropdown", f, i) = {IF f.open THEN [f EXCEPT !.menu = ~@] ELSE f}
  BY Zenon DEF Effects
<1>2. Effects("option", f, i) = {IF f.menu THEN [f EXCEPT !.menu = FALSE, !.type = "Limit"] ELSE f}
  BY Zenon DEF Effects
<1>3. Effects("toggle", f, i)
      = {IF f.open /\ ~f.menu THEN [f EXCEPT !.tpsl = ~@] ELSE [f EXCEPT !.menu = FALSE]}
  BY Zenon DEF Effects
<1>4. ASSUME g \in Effects("dropdown", f, i)
      PROVE  Switched(f, g, IF f.open THEN ~f.menu ELSE f.menu, f.type, f.tpsl)
  <2>1. CASE f.open
    <3>1. g = [f EXCEPT !.menu = ~@]
      BY <1>1, <1>4, <2>1
    <3> QED BY <2>1, <3>1 DEF Forms, Switched
  <2>2. CASE ~f.open
    BY <1>1, <1>4, <2>2 DEF Switched
  <2> QED BY <2>1, <2>2
<1>5. ASSUME g \in Effects("option", f, i)
      PROVE  Switched(f, g, FALSE, IF f.menu THEN "Limit" ELSE f.type, f.tpsl)
  <2>1. CASE f.menu
    <3>1. g = [f EXCEPT !.menu = FALSE, !.type = "Limit"]
      BY <1>2, <1>5, <2>1
    <3> QED BY <2>1, <3>1 DEF Forms, Switched
  <2>2. CASE ~f.menu
    BY <1>2, <1>5, <2>2 DEF Switched
  <2> QED BY <2>1, <2>2
<1>6. ASSUME g \in Effects("toggle", f, i)
      PROVE  Switched(f, g, FALSE, f.type, IF f.open /\ ~f.menu THEN ~f.tpsl ELSE f.tpsl)
  <2>1. CASE f.open /\ ~f.menu
    <3>1. g = [f EXCEPT !.tpsl = ~@]
      BY <1>3, <1>6, <2>1
    <3> QED BY <2>1, <3>1 DEF Forms, Switched
  <2>2. CASE ~(f.open /\ ~f.menu)
    <3>1. g = [f EXCEPT !.menu = FALSE]
      BY <1>3, <1>6, <2>2
    <3> QED BY <2>2, <3>1 DEF Forms, Switched
  <2> QED BY <2>1, <2>2
<1> QED BY <1>4, <1>5, <1>6

LEMMA EightCommands ==
  /\ Len(Commands) = 8
  /\ Commands[1] = "action" /\ Commands[2] = "dropdown" /\ Commands[3] = "option"
  /\ Commands[4] = "limit_price" /\ Commands[5] = "quantity" /\ Commands[6] = "toggle"
  /\ Commands[7] = "take_profit" /\ Commands[8] = "stop_loss"
  BY DEF Commands

LEMMA NewFormIsForm ==
  ASSUME NEW i \in Intents
  PROVE  NewForm(i) \in Forms /\ Progress(NewForm(i), i, 2)
<1>1. SideOf[i] \in {"Buy", "Sell"}
  BY FormConstants
<1>2. [x \in Fields |-> "other"] \in [Fields -> Values]
  BY DEF Values
<1>3. /\ BlankForm \in Forms /\ BlankForm.type = "Market" /\ ~BlankForm.tpsl
      /\ ~BlankForm.menu
  BY <1>2 DEF BlankForm, Forms
<1>4. ASSUME NEW f \in Forms, f.type = "Market", ~f.tpsl, ~f.menu,
             NEW g, g = [f EXCEPT !.open = TRUE, !.side = SideOf[i]]
      PROVE  g \in Forms /\ Progress(g, i, 2)
  <2>1. /\ g \in Forms /\ g.open /\ g.side = SideOf[i] /\ g.type = "Market"
        /\ ~g.tpsl /\ ~g.menu
    BY <1>1, <1>4 DEF Forms
  <2> QED BY <2>1 DEF Progress
<1> QED BY <1>3, <1>4 DEF NewForm

\* Whatever a command does to the form, and however little of its text arrives.
LEMMA EffectsKeepForms ==
  ASSUME NEW f \in Forms, NEW i \in Intents, NEW k \in 1..8,
         NEW g \in Effects(Commands[k], f, i) \cup Broken(Commands[k], f, i)
  PROVE  g \in Forms
<1>1. i \in Values /\ "other" \in Values
  BY DEF Values
<1>2. CASE Commands[k] \in Fields
  <2>1. PICK field \in Fields : field = Commands[k]
    BY <1>2
  <2>2. g \in Effects(field, f, i) \cup Broken(field, f, i)
    BY <2>1
  <2>3. g \in {Typed(f, field, i, i), Typed(f, field, i, "other")}
    BY <2>2, TextEffect DEF Broken
  <2> QED BY <1>1, <2>3, TypedKeepsForms
<1>3. CASE Commands[k] \notin Fields
  <2>1. g \in Effects(Commands[k], f, i)
    BY <1>3 DEF Broken
  <2>2. Commands[k] \in {"action", "dropdown", "option", "toggle"}
    <3>1. k \in {1, 2, 3, 4, 5, 6, 7, 8}
      OBVIOUS
    <3> QED BY <1>3, <3>1, EightCommands DEF Fields
  <2>3. CASE Commands[k] = "action"
    <3>1. g \in Opened(f, i)
      <4>1. g \in Effects("action", f, i)
        BY <2>1, <2>3
      <4> QED BY <4>1, OpeningEffect
    <3>2. SideOf[i] \in {"Buy", "Sell"}
      BY FormConstants
    <3>3. [f EXCEPT !.open = TRUE, !.side = SideOf[i], !.focus = "none"] \in Forms
      BY <3>2 DEF Forms
    <3> QED BY <3>1, <3>3, NewFormIsForm DEF Opened
  <2>4. CASE Commands[k] = "dropdown"
    <3>1. g \in Effects("dropdown", f, i)
      BY <2>1, <2>4
    <3> QED BY <3>1, SwitchEffects DEF Switched
  <2>5. CASE Commands[k] = "option"
    <3>1. g \in Effects("option", f, i)
      BY <2>1, <2>5
    <3> QED BY <3>1, SwitchEffects DEF Switched
  <2>6. CASE Commands[k] = "toggle"
    <3>1. g \in Effects("toggle", f, i)
      BY <2>1, <2>6
    <3> QED BY <3>1, SwitchEffects DEF Switched
  <2> QED BY <2>2, <2>3, <2>4, <2>5, <2>6
<1> QED BY <1>2, <1>3

\* Each command that arrives on a form as its predecessors left it does its part.
LEMMA CommandsProgress ==
  ASSUME NEW f \in Forms, NEW i \in Intents, NEW k \in 1..8, Progress(f, i, k),
         NEW g \in Effects(Commands[k], f, i), k = 1 => g = NewForm(i)
  PROVE  Progress(g, i, k + 1)
<1>1. CASE k = 1
  BY <1>1, NewFormIsForm
<1>2. CASE k = 2
  <2>1. g \in Effects("dropdown", f, i) /\ f.open
    BY <1>2, EightCommands DEF Progress
  <2>2. Switched(f, g, IF f.open THEN ~f.menu ELSE f.menu, f.type, f.tpsl)
    BY <2>1, SwitchEffects
  <2> QED BY <1>2, <2>1, <2>2 DEF Progress, Switched
<1>3. CASE k = 3
  <2>1. g \in Effects("option", f, i)
    BY <1>3, EightCommands
  <2>2. Switched(f, g, FALSE, IF f.menu THEN "Limit" ELSE f.type, f.tpsl)
    BY <2>1, SwitchEffects
  <2> QED BY <1>3, <2>2 DEF Progress, Switched
<1>4. CASE k = 6
  <2>1. g \in Effects("toggle", f, i)
    BY <1>4, EightCommands
  <2>2. Switched(f, g, FALSE, f.type, IF f.open /\ ~f.menu THEN ~f.tpsl ELSE f.tpsl)
    BY <2>1, SwitchEffects
  <2> QED BY <1>4, <2>2 DEF Progress, Switched
<1>5. CASE k \in {4, 5, 7, 8}
  <2>1. PICK field \in Fields : /\ field = Commands[k]
                                /\ field \in Protection <=> k > 6
    BY <1>5, EightCommands DEF Fields, Protection
  <2>2. g = Typed(f, field, i, i)
    <3>1. g \in Effects(field, f, i)
      BY <2>1
    <3> QED BY <3>1, TextEffect
  <2>3. Takes(f, field)
    BY <1>5, <2>1 DEF Progress, Takes
  <2>4. Wrote(f, g, field, i)
    BY <2>2, <2>3, TypedWrites
  <2>5. {"limit_price", "quantity", "take_profit", "stop_loss"} \subseteq Fields
    BY DEF Fields
  <2>6. CASE k = 4
    BY <2>1, <2>4, <2>5, <2>6, EightCommands DEF Progress, Wrote
  <2>7. CASE k = 5
    BY <2>1, <2>4, <2>5, <2>7, EightCommands DEF Progress, Wrote
  <2>8. CASE k = 7
    BY <2>1, <2>4, <2>5, <2>8, EightCommands DEF Progress, Wrote
  <2>9. CASE k = 8
    BY <2>1, <2>4, <2>5, <2>9, EightCommands DEF Progress, Wrote
  <2> QED BY <1>5, <2>6, <2>7, <2>8, <2>9
<1> QED BY <1>1, <1>2, <1>3, <1>4, <1>5

LEMMA EndMatches ==
  ASSUME NEW f \in Forms, NEW i \in Intents, Progress(f, i, 9)
  PROVE  Matches(View(f), i)
<1>1. /\ f.open /\ f.side = SideOf[i] /\ f.type = "Limit" /\ f.tpsl
      /\ f.val["limit_price"] = i /\ f.val["quantity"] = i
      /\ f.val["take_profit"] = i /\ f.val["stop_loss"] = i
  BY DEF Progress
<1>2. \A x \in Fields : f.val[x] = i
  BY <1>1 DEF Fields
<1>3. View(f) = [side |-> f.side, type |-> f.type, tpsl |-> f.tpsl,
                 val |-> [x \in Fields |-> f.val[x]]]
  BY <1>1 DEF View
<1> QED BY <1>1, <1>2, <1>3 DEF Matches

\* A population that began on a closed form, met nothing and raised nothing leaves
\* exactly the intended form behind, whatever earlier runs left on the phone.
THEOREM CleanPopulates ==
  ASSUME "touch" \notin Interference
  PROVE  FormSpec => []CleanRunPopulates
<1> DEFINE Inv == DriverShape /\ PopulateInv
<1>1. FormInit => Inv
  <2> SUFFICES ASSUME FormInit PROVE Inv
    OBVIOUS
  <2>1. [x \in Fields |-> "other"] \in [Fields -> Values]
    BY DEF Values
  <2>2. form \in Forms
    BY <2>1 DEF FormInit, BlankForm, Forms
  <2> QED BY <2>2 DEF FormInit, Idle, DriverShape, PopulateInv
<1>2. ASSUME Inv, [FormNext]_formVars
      PROVE  Inv'
  <2>1. ASSUME NEW i \in Intents \cup Crooked, StartPopulate(i)
        PROVE  Inv'
    <3>1. CASE i \in Crooked
      BY <1>2, <2>1, <3>1 DEF StartPopulate, DriverShape, PopulateInv
    <3>2. CASE i \notin Crooked
      <4>1. /\ driver'.pc = "populate" /\ driver'.intent = i /\ driver'.at = 1 /\ DriverShape'
        BY <2>1, <3>2 DEF StartPopulate, DriverShape, Idle
      <4>2. form' \in Forms
        BY <1>2, <2>1 DEF StartPopulate, PopulateInv
      <4> QED BY <3>2, <4>1, <4>2 DEF PopulateInv, Progress
    <3> QED BY <3>1, <3>2
  <2>2. CASE Send
    <3>1. /\ driver.pc = "populate" /\ driver.intent \in Intents /\ driver.at \in 1..8 /\ form \in Forms
          /\ driver.clean => Progress(form, driver.intent, driver.at)
      BY <1>2, <2>2 DEF Send, PopulateInv
    <3>2. form' \in Forms
      BY <2>2, <3>1, EffectsKeepForms DEF Send, Command
    <3>3. PICK clean : /\ driver' = Sent(clean)
                       /\ clean = (driver.clean /\ ~overlay
                                   /\ (Command = "action" => form' = NewForm(driver.intent)))
      BY <2>2 DEF Send
    <3>4. clean => Progress(form', driver.intent, driver.at + 1)
      <4> SUFFICES ASSUME clean PROVE Progress(form', driver.intent, driver.at + 1)
        OBVIOUS
      <4>1. form' \in Effects(Commands[driver.at], form, driver.intent)
        BY <2>2, <3>3 DEF Send, Command
      <4>2. driver.at = 1 => form' = NewForm(driver.intent)
        BY <3>3, EightCommands DEF Command
      <4>3. Progress(form, driver.intent, driver.at)
        BY <3>1, <3>3
      <4> QED BY <3>1, <4>1, <4>2, <4>3, CommandsProgress
    <3>5. CASE driver.at = 8
      <4>1. /\ driver'.pc = "populated" /\ driver'.clean = clean /\ driver'.intent = driver.intent
            /\ DriverShape'
        BY <1>2, <3>3, <3>5, EightCommands DEF Sent, DriverShape
      <4>2. driver.at + 1 = 9
        BY <3>5
      <4> QED BY <3>1, <3>2, <3>4, <4>1, <4>2 DEF PopulateInv
    <3>6. CASE driver.at # 8
      <4>1. /\ driver'.pc = "populate" /\ driver'.clean = clean /\ driver'.intent = driver.intent
            /\ driver'.at = driver.at + 1 /\ DriverShape'
        BY <1>2, <3>1, <3>3, <3>6, EightCommands DEF Sent, DriverShape
      <4>2. driver.at + 1 \in 1..8
        BY <3>1, <3>6
      <4> QED BY <3>1, <3>2, <3>4, <4>1, <4>2 DEF PopulateInv
    <3> QED BY <3>5, <3>6
  <2>3. CASE SendFails
    <3>1. /\ driver.pc = "populate" /\ driver.intent \in Intents /\ driver.at \in 1..8 /\ form \in Forms
      BY <1>2, <2>3 DEF SendFails, PopulateInv
    <3>2. form' \in {form} \cup Broken(Command, form, driver.intent)
                          \cup Effects(Command, form, driver.intent)
      BY <2>3 DEF SendFails
    <3>3. form' \in Forms
      BY <3>1, <3>2, EffectsKeepForms DEF Command
    <3>4. driver'.pc = "stopped" /\ driver'.intent = driver.intent /\ DriverShape'
      BY <2>3 DEF SendFails, DriverShape, Idle
    <3> QED BY <3>1, <3>3, <3>4 DEF PopulateInv
  <2>4. CASE StartDump
    <3>1. /\ driver'.pc = "dump" /\ driver'.intent = driver.intent /\ DriverShape'
          /\ driver.pc \in {"populated", "stopped"} /\ form' = form
      BY <1>2, <2>4 DEF StartDump, DriverShape
    <3> QED BY <1>2, <3>1 DEF PopulateInv
  <2>5. CASE GiveUp \/ DumpFails
    <3>1. driver' = Idle /\ form' = form
      BY <2>5 DEF GiveUp, DumpFails
    <3> QED BY <1>2, <3>1 DEF Idle, DriverShape, PopulateInv
  <2>6. ASSUME NEW seen, NEW stale, Dump(seen, stale)
        PROVE  Inv'
    <3>1. /\ driver.pc = "dump" /\ form' = form
          /\ \/ driver' = Idle
             \/ /\ driver'.pc \in {"dump", "matched", "refused"} /\ driver'.intent = driver.intent
                /\ DriverShape'
      BY <1>2, <2>6 DEF Dump, DriverShape
    <3> QED BY <1>2, <3>1 DEF Idle, DriverShape, PopulateInv
  <2>7. CASE Call
    BY <1>2, <2>7 DEF Call, DriverShape, PopulateInv
  <2>8. CASE CloseForm
    <3>1. driver.pc = "idle" /\ driver' = driver
      BY <2>8 DEF CloseForm
    <3>2. form' \in Forms
      BY <1>2, <2>8 DEF CloseForm, PopulateInv, Forms
    <3> QED BY <1>2, <3>1, <3>2 DEF DriverShape, PopulateInv
  <2>9. CASE UNCHANGED formVars
    BY <1>2, <2>9 DEF formVars, DriverShape, PopulateInv
  <2> QED BY <1>2, <2>1, <2>2, <2>3, <2>4, <2>5, <2>6, <2>7, <2>8, <2>9
          DEF FormNext, DumpFresh, DumpStale
<1>3. Inv => CleanRunPopulates
  BY EndMatches DEF PopulateInv, CleanRunPopulates
<1> HIDE DEF Inv
<1> QED BY <1>1, <1>2, <1>3, PTL DEF FormSpec
=============================================================================
