---------------------------- MODULE ResearchProofs ----------------------------
(***************************************************************************)
(* The pure parts of the research side, for every input: the carries of a  *)
(* pair's signals (PairSignals), the folds of a walk-forward run           *)
(* (WalkForward) and the books of a backtest (BacktestEngine).             *)
(***************************************************************************)
EXTENDS PairSignals, WalkForward, BacktestEngine, TLAPS

-----------------------------------------------------------------------------
(* PairSignals: positions span the bands for every tape of spreads, of the *)
(* authority and of the adapter, every pair of thresholds and every gate.  *)

Levels == Spreads \cup {NoPrice}
Trade == [dir : {-1, 0, 1}, from : Levels, to : Levels, valid : BOOLEAN]

\* What a bar may rely on: the shape of the state, and that get_trades follows
\* the very position the authority carries.
PairType ==
  /\ frozen \in [hedge : Hedges, constant : Flatlines, stationary : BOOLEAN]
  /\ level \in Levels /\ own \in Levels
  /\ core \in [target : {-1, 0, 1}, entry : Levels]
  /\ adapter \in {-1, 0, 1} /\ gated \in {-1, 0, 1}
  /\ trade \in Trade /\ judged \in Trade

PairInv ==
  /\ PairType
  /\ trade.dir = core.target
  /\ core.target # 0 /\ ~frozen.constant => Entered(trade.from) = trade.dir
  /\ TradesSpanTheBands

\* The authority's frame and its trade log start flat.
LEMMA PairStarts == PairInit => PairInv
  BY PairConstants DEF PairInit, PairInv, PairType, Levels, Trade, FlatPair, NoTrade,
     TradesSpanTheBands, Within, Above, Below

\* An entry is a side, and its bar is outside the exit band.
LEMMA EntriesAreSides ==
  ASSUME NEW s \in Levels
  PROVE  /\ Entered(s) \in {-1, 0, 1}
         /\ Entered(CoreZ(s)) \in {-1, 0, 1}
         /\ Within(s, ExitZ) => Entered(s) = 0
  BY PairConstants DEF Levels, Entered, Within, Above, Below, CoreZ

\* The gate: where the carry without one is flat, it is flat.
LEMMA GateWaits ==
  ASSUME PairInv, NEW z \in Levels, NEW calm \in BOOLEAN,
         adapter' = AdapterStep(adapter, z, TRUE), gated' = AdapterStep(gated, z, calm)
  PROVE  /\ adapter' \in {-1, 0, 1} /\ gated' \in {-1, 0, 1}
         /\ adapter' = 0 => gated' = 0
         /\ Within(z, ExitZ) => adapter' = 0
<1>1. Entered(z) \in {-1, 0, 1} /\ (Within(z, ExitZ) => Entered(z) = 0)
  BY EntriesAreSides
<1>2. adapter \in {-1, 0, 1} /\ gated \in {-1, 0, 1} /\ (adapter = 0 => gated = 0)
  BY DEF PairInv, PairType, TradesSpanTheBands
<1> QED
  BY <1>1, <1>2 DEF AdapterStep

\* One bar keeps it all.
LEMMA PairSteps ==
  ASSUME PairInv, NEW s \in Levels, NEW z \in Levels, NEW calm \in BOOLEAN, PairBar(s, z, calm)
  PROVE  PairInv'
<1>1. /\ Entered(s) \in {-1, 0, 1} /\ Entered(CoreZ(s)) \in {-1, 0, 1}
      /\ Within(s, ExitZ) => Entered(s) = 0
  BY EntriesAreSides
<1>2. ~frozen.constant => CoreZ(s) = s
  BY DEF CoreZ
<1>3. core' \in [target : {-1, 0, 1}, entry : Levels]
  BY <1>1 DEF PairInv, PairType, PairBar, CoreStep, FlatPair, Levels
<1>4. /\ adapter' \in {-1, 0, 1} /\ gated' \in {-1, 0, 1}
      /\ adapter' = 0 => gated' = 0
      /\ Within(own', ExitZ) => adapter' = 0
  BY GateWaits DEF PairBar, Within, Above, Below
<1>5. /\ trade' \in Trade /\ judged' \in Trade /\ trade'.dir = core'.target
  <2>1. core'.target \in {-1, 0, 1}
    BY <1>3
  <2>2. CASE trade.dir = 0 /\ core'.target # 0
    BY <2>1, <2>2 DEF PairInv, PairType, PairBar, Follow, Trade, NoTrade, Levels
  <2>3. CASE trade.dir # 0 /\ core'.target = 0
    <3>1. judged' = [trade EXCEPT !.to = s, !.valid = Reverted(trade.dir, trade.from, s)]
      BY <2>3 DEF PairBar, Follow
    <3>2. Reverted(trade.dir, trade.from, s) \in BOOLEAN
      BY ZenonT(20) DEF Reverted
    <3>3. judged' \in Trade
      BY <3>1, <3>2 DEF PairInv, PairType, Trade
    <3>4. trade' = NoTrade /\ NoTrade \in Trade
      BY <2>3 DEF PairBar, Follow, NoTrade, Trade, Levels
    <3> QED BY <2>3, <3>3, <3>4 DEF NoTrade
  <2>4. CASE trade.dir = 0 /\ core'.target = 0
    BY <2>4 DEF PairInv, PairType, PairBar, Follow
  <2>5. CASE trade.dir # 0 /\ core'.target # 0
    <3>1. core' = core
      BY <2>5 DEF PairInv, PairBar, CoreStep, FlatPair
    <3> QED BY <2>5, <3>1 DEF PairInv, PairType, PairBar, Follow
  <2> QED BY <2>2, <2>3, <2>4, <2>5
<1>6. core'.target # 0 =>
        /\ trade'.dir = core'.target /\ trade'.from = core'.entry
        /\ ~frozen.constant => Entered(trade'.from) = trade'.dir
  <2>1. CASE core.target # 0
    BY <2>1 DEF PairInv, PairType, TradesSpanTheBands, PairBar, Follow, CoreStep, FlatPair
  <2>2. CASE core.target = 0
    <3>1. SUFFICES ASSUME core'.target # 0
                   PROVE  /\ trade'.dir = core'.target /\ trade'.from = core'.entry
                          /\ ~frozen.constant => Entered(trade'.from) = trade'.dir
      OBVIOUS
    <3>2. core' = [target |-> Entered(CoreZ(s)), entry |-> s]
      BY <2>2, <3>1 DEF PairBar, CoreStep, FlatPair
    <3>3. trade' = [NoTrade EXCEPT !.dir = core'.target, !.from = s]
      BY <2>2, <3>1 DEF PairInv, PairBar, Follow
    <3>4. trade'.dir = core'.target /\ trade'.from = s
      BY <3>3 DEF NoTrade
    <3> QED BY <1>2, <3>2, <3>4
  <2> QED BY <2>1, <2>2
<1>7. ASSUME ~frozen.constant
      PROVE  /\ Within(s, ExitZ) => core'.target = 0
             /\ judged'.dir # 0 => Within(judged'.to, ExitZ) /\ Entered(judged'.from) = judged'.dir
  <2>1. Within(s, ExitZ) => core'.target = 0
    BY <1>1, <1>2, <1>7 DEF PairInv, PairBar, CoreStep, FlatPair
  <2>2. CASE trade.dir # 0 /\ core'.target = 0
    <3>1. Within(s, ExitZ)
      BY <2>2, <1>2, <1>7 DEF PairInv, PairBar, CoreStep, FlatPair
    <3>2. judged'.to = s /\ judged'.from = trade.from /\ judged'.dir = trade.dir
      BY <2>2 DEF PairInv, PairType, Trade, PairBar, Follow
    <3>3. Entered(trade.from) = trade.dir
      BY <2>2, <1>7 DEF PairInv
    <3> QED BY <2>1, <3>1, <3>2, <3>3
  <2>3. CASE ~(trade.dir # 0 /\ core'.target = 0)
    <3>1. judged' = judged
      BY <2>3 DEF PairBar, Follow
    <3>2. judged.dir # 0 => Within(judged.to, ExitZ) /\ Entered(judged.from) = judged.dir
      BY <1>7 DEF PairInv, TradesSpanTheBands
    <3> QED BY <2>1, <3>1, <3>2
  <2> QED BY <2>2, <2>3
<1>8. frozen' = frozen /\ level' = s /\ own' = z
  BY DEF PairBar
<1>9. TradesSpanTheBands'
  BY <1>4, <1>6, <1>7, <1>8 DEF TradesSpanTheBands, Within, Above, Below, Entered
<1>10. PairType'
  BY <1>3, <1>4, <1>5, <1>8 DEF PairInv, PairType
<1>11. core'.target # 0 /\ ~frozen'.constant => Entered(trade'.from) = trade'.dir
  BY <1>6, <1>8
<1> QED
  BY <1>5, <1>9, <1>10, <1>11 DEF PairInv, Entered, Above, Below

\* Positions and the trades read off them last from beyond the entry band to
\* within the exit band, each carry by its own z-score, and exits are never
\* gated (strategies/stat_arb.py:124-186, 188-261, 390-395): for any two
\* spreads, whatever hedge ratios and baselines they were fitted with.
THEOREM TradesSpan == PairSpec => []TradesSpanTheBands
<1>1. PairInv /\ [PairNext]_pairVars => PairInv'
  <2> SUFFICES ASSUME PairInv, [PairNext]_pairVars PROVE PairInv'
    OBVIOUS
  <2>1. CASE PairNext
    BY <2>1, PairSteps DEF PairNext, Levels
  <2>2. CASE UNCHANGED pairVars
    BY <2>2 DEF pairVars, PairInv, PairType, TradesSpanTheBands, Within, Above, Below, Entered
  <2> QED BY <2>1, <2>2
<1>2. PairInv => TradesSpanTheBands
  BY DEF PairInv
<1> QED BY PairStarts, <1>1, <1>2, PTL DEF PairSpec

-----------------------------------------------------------------------------
(* WalkForward: the folds are clean for every choice of months, steps and  *)
(* first day, on every calendar whose months have 28 to 31 days.           *)

\* A date is a month and one of its days.
IsDate(d) ==
  /\ d = <<d[1], d[2]>>
  /\ d[1] \in Int /\ d[2] \in Int /\ 1 <= d[2] /\ d[2] <= Days(d[1])

\* "not after"
UpTo(d, e) == ~Before(e, d)

-----------------------------------------------------------------------------
(* The calendar.                                                           *)

LEMMA MonthLengths == ASSUME NEW m \in Int PROVE Days(m) \in {28, 30, 31}
  BY DEF Days

LEMMA PairParts == ASSUME NEW m \in Int, NEW n \in Int PROVE <<m, n>>[1] = m /\ <<m, n>>[2] = n
  OBVIOUS

LEMMA OrderOfDates ==
  ASSUME NEW d, NEW e, NEW f, IsDate(d), IsDate(e), IsDate(f)
  PROVE  /\ Before(d, e) /\ Before(e, f) => Before(d, f)
         /\ UpTo(d, e) /\ Before(e, f) => Before(d, f)
         /\ Before(d, e) /\ UpTo(e, f) => Before(d, f)
         /\ Before(d, e) => UpTo(d, e)
         /\ UpTo(d, d)
  BY DEF IsDate, Before, UpTo

LEMMA NextDayIsLater ==
  ASSUME NEW d, IsDate(d)
  PROVE  /\ IsDate(NextDay(d)) /\ Before(d, NextDay(d))
         /\ \A e : IsDate(e) /\ Before(e, NextDay(d)) => UpTo(e, d)
<1>1. Days(d[1] + 1) \in {28, 30, 31} /\ Days(d[1]) \in {28, 30, 31}
  BY MonthLengths DEF IsDate
<1>2. CASE d[2] < Days(d[1])
  <2>1. NextDay(d) = <<d[1], d[2] + 1>>
    BY <1>2 DEF NextDay
  <2> QED BY <1>1, <1>2, <2>1 DEF IsDate, Before, UpTo
<1>3. CASE ~(d[2] < Days(d[1]))
  <2>1. NextDay(d) = <<d[1] + 1, 1>> /\ d[2] = Days(d[1])
    BY <1>1, <1>3 DEF NextDay, IsDate
  <2> QED BY <1>1, <2>1 DEF IsDate, Before, UpTo
<1> QED BY <1>2, <1>3

LEMMA MonthsMoveOn ==
  ASSUME NEW d, IsDate(d), NEW n \in Nat \ {0}
  PROVE  /\ IsDate(AddMonths(d, n)) /\ Before(d, AddMonths(d, n))
         /\ AddMonths(d, n)[1] = d[1] + n
<1>1. Days(d[1] + n) \in {28, 30, 31}
  BY MonthLengths DEF IsDate
<1>2. AddMonths(d, n) = <<d[1] + n, Lower(d[2], Days(d[1] + n))>>
  BY DEF AddMonths
<1> DEFINE day == Lower(d[2], Days(d[1] + n))
<1>3. day \in Int /\ 1 <= day /\ day <= Days(d[1] + n)
  BY <1>1 DEF Lower, IsDate
<1>4. AddMonths(d, n)[1] = d[1] + n /\ AddMonths(d, n)[2] = day
  BY <1>2
<1> HIDE DEF day
<1> QED BY <1>2, <1>3, <1>4 DEF IsDate, Before, day

\* A window of whole months ends on its first day or later.
LEMMA WindowsHoldADay ==
  ASSUME NEW d, IsDate(d), NEW n \in Nat \ {0}
  PROVE  IsDate(DayBefore(AddMonths(d, n))) /\ UpTo(d, DayBefore(AddMonths(d, n)))
<1> DEFINE e == AddMonths(d, n)
<1>1. IsDate(e) /\ e[1] = d[1] + n
  BY MonthsMoveOn
<1>2. Days(e[1] - 1) \in {28, 30, 31}
  BY <1>1, MonthLengths DEF IsDate
<1> HIDE DEF e
<1>3. CASE e[2] > 1
  <2>1. DayBefore(e) = <<e[1], e[2] - 1>>
    BY <1>3 DEF DayBefore
  <2>2. DayBefore(e)[1] = e[1] /\ DayBefore(e)[2] = e[2] - 1
    BY <2>1
  <2>3. IsDate(<<e[1], e[2] - 1>>)
    <3>1. e[1] \in Int /\ e[2] \in Int /\ e[2] <= Days(e[1]) /\ Days(e[1]) \in Int
      BY <1>1, MonthLengths DEF IsDate
    <3>2. e[2] - 1 \in Int /\ 1 <= e[2] - 1 /\ e[2] - 1 <= Days(e[1])
      BY <3>1, <1>3
    <3> QED BY <3>1, <3>2, PairParts DEF IsDate
  <2>4. UpTo(d, DayBefore(e))
    BY <1>1, <2>2 DEF IsDate, Before, UpTo
  <2> QED BY <2>1, <2>3, <2>4 DEF e
<1>4. CASE ~(e[2] > 1)
  <2>1. DayBefore(e) = <<e[1] - 1, Days(e[1] - 1)>>
    BY <1>4 DEF DayBefore
  <2>2. n = 1 => e[1] - 1 = d[1]
    BY <1>1 DEF IsDate
  <2> QED BY <1>1, <1>2, <2>1, <2>2 DEF IsDate, Before, UpTo, e
<1> QED BY <1>3, <1>4

-----------------------------------------------------------------------------
(* The invariant: the next window starts after every test window so far.   *)

FoldsSoFar ==
  \A i \in DOMAIN folds :
    /\ IsDate(folds[i].trainEnd) /\ IsDate(folds[i].testStart) /\ IsDate(folds[i].testEnd)
    /\ IF split.anchored THEN UpTo(folds[i].testEnd, trainEnd)
       ELSE Before(folds[i].testEnd, foldStart)

SplitInv ==
  /\ split.train \in Nat \ {0} /\ split.test \in Nat \ {0} /\ split.step \in Nat \ {0}
  /\ IsDate(foldStart) /\ IsDate(trainEnd)
  /\ Len(folds) \in Nat /\ DOMAIN folds = 1..Len(folds)
  /\ FoldsSoFar
  /\ SplitIsClean

\* The window of a pass, and what it lies after.
LEMMA WindowIsClean ==
  ASSUME SplitInv
  PROVE  /\ IsDate(TrainEnd) /\ IsDate(TestStart) /\ IsDate(TestEnd)
         /\ Before(TrainEnd, TestStart) /\ UpTo(TestStart, TestEnd)
         /\ \A i \in DOMAIN folds : Before(folds[i].testEnd, TestStart)
<1>1. /\ IsDate(TrainEnd)
      /\ split.anchored => TrainEnd = trainEnd
      /\ ~split.anchored => UpTo(foldStart, TrainEnd)
  <2>1. CASE split.anchored
    BY <2>1 DEF TrainEnd, SplitInv
  <2>2. CASE ~split.anchored
    BY <2>2, WindowsHoldADay DEF TrainEnd, SplitInv
  <2> QED BY <2>1, <2>2
<1>2. IsDate(TestStart) /\ Before(TrainEnd, TestStart)
  BY <1>1, NextDayIsLater DEF TestStart
<1>3. IsDate(TestEnd) /\ UpTo(TestStart, TestEnd)
  BY <1>2, WindowsHoldADay DEF TestEnd, SplitInv
<1>4. ASSUME NEW i \in DOMAIN folds PROVE Before(folds[i].testEnd, TestStart)
  <2>1. IsDate(folds[i].testEnd)
    BY DEF SplitInv, FoldsSoFar
  <2>2. CASE split.anchored
    <3>1. UpTo(folds[i].testEnd, TrainEnd)
      BY <2>2, <1>1 DEF SplitInv, FoldsSoFar
    <3> QED BY <2>1, <3>1, <1>1, <1>2, OrderOfDates
  <2>3. CASE ~split.anchored
    <3>1. Before(folds[i].testEnd, foldStart) /\ UpTo(foldStart, TrainEnd) /\ IsDate(foldStart)
      BY <2>3, <1>1 DEF SplitInv, FoldsSoFar
    <3>2. Before(folds[i].testEnd, TrainEnd)
      BY <2>1, <3>1, <1>1, OrderOfDates
    <3> QED BY <2>1, <3>2, <1>1, <1>2, OrderOfDates
  <2> QED BY <2>2, <2>3
<1> QED BY <1>1, <1>2, <1>3, <1>4

LEMMA SplitStarts ==
  ASSUME \A d \in FirstDates : IsDate(d), SplitInit
  PROVE  SplitInv
<1>1. /\ split.train \in Nat \ {0} /\ split.test \in Nat \ {0} /\ split.step \in Nat \ {0}
      /\ split.first \in FirstDates
  BY SplitterConstants DEF SplitInit, SplitParameters
<1>2. IsDate(foldStart) /\ IsDate(trainEnd)
  BY <1>1, WindowsHoldADay DEF SplitInit
<1>3. folds = <<>> /\ DOMAIN folds = 1..0 /\ Len(folds) = 0
  BY DEF SplitInit
<1> QED BY <1>1, <1>2, <1>3 DEF SplitInv, FoldsSoFar, SplitIsClean

\* Past the test window just emitted, and never back.
LEMMA NextWindowIsLater ==
  ASSUME SplitInv
  PROVE  /\ IsDate(NextTrainEnd(TestEnd)) /\ UpTo(TestEnd, NextTrainEnd(TestEnd))
         /\ IsDate(NextFoldStart(TestEnd)) /\ Before(TestEnd, NextFoldStart(TestEnd))
<1>1. IsDate(TestEnd)
  BY WindowIsClean
<1>2. IsDate(AddMonths(trainEnd, split.step)) /\ IsDate(AddMonths(foldStart, split.step))
  BY MonthsMoveOn DEF SplitInv
<1>3. IsDate(NextDay(TestEnd)) /\ Before(TestEnd, NextDay(TestEnd))
  BY <1>1, NextDayIsLater
<1> QED BY <1>1, <1>2, <1>3, OrderOfDates DEF NextTrainEnd, NextFoldStart

LEMMA TooShortKeeps == ASSUME SplitInv, TooShort PROVE SplitInv'
<1>1. folds' = folds /\ split' = split
  BY DEF TooShort
<1>2. /\ IsDate(foldStart') /\ IsDate(trainEnd')
      /\ split.anchored => UpTo(trainEnd, trainEnd')
      /\ ~split.anchored => UpTo(foldStart, foldStart')
  <2>1. /\ IsDate(AddMonths(trainEnd, split.step)) /\ Before(trainEnd, AddMonths(trainEnd, split.step))
        /\ IsDate(AddMonths(foldStart, split.step)) /\ Before(foldStart, AddMonths(foldStart, split.step))
    BY MonthsMoveOn DEF SplitInv
  <2> QED BY <2>1, OrderOfDates DEF TooShort, SplitInv
<1>3. FoldsSoFar'
  <2> SUFFICES ASSUME NEW i \in DOMAIN folds
               PROVE  IF split.anchored THEN UpTo(folds[i].testEnd, trainEnd')
                      ELSE Before(folds[i].testEnd, foldStart')
    BY <1>1 DEF FoldsSoFar, SplitInv, UpTo, Before, IsDate, Days
  <2>1. IsDate(folds[i].testEnd) /\ IsDate(foldStart) /\ IsDate(trainEnd)
    BY DEF SplitInv, FoldsSoFar
  <2>2. CASE split.anchored
    <3>1. UpTo(folds[i].testEnd, trainEnd) /\ UpTo(trainEnd, trainEnd')
      BY <2>2, <1>2 DEF SplitInv, FoldsSoFar
    <3> QED BY <2>1, <2>2, <3>1, <1>2 DEF UpTo, Before, IsDate
  <2>3. CASE ~split.anchored
    <3>1. Before(folds[i].testEnd, foldStart) /\ UpTo(foldStart, foldStart')
      BY <2>3, <1>2 DEF SplitInv, FoldsSoFar
    <3> QED BY <2>1, <2>3, <3>1, <1>2, OrderOfDates
  <2> QED BY <2>2, <2>3
<1> QED BY <1>1, <1>2, <1>3 DEF SplitInv, SplitIsClean, Before, IsDate, Days

LEMMA EmitKeeps == ASSUME SplitInv, Emit PROVE SplitInv'
<1> DEFINE new == [trainStart |-> TrainStart, trainEnd |-> TrainEnd,
                    testStart |-> TestStart, testEnd |-> TestEnd]
           n == Len(folds)
<1>1. split' = split /\ folds' = Append(folds, new)
  BY DEF Emit
<1>2. n \in Nat /\ DOMAIN folds = 1..n
  BY DEF SplitInv
<1>3. /\ DOMAIN folds' = 1..(n + 1) /\ Len(folds') = n + 1
      /\ folds'[n + 1] = new /\ \A i \in 1..n : folds'[i] = folds[i]
  BY <1>1, <1>2
<1>4. /\ IsDate(new.trainEnd) /\ IsDate(new.testStart) /\ IsDate(new.testEnd)
      /\ Before(new.trainEnd, new.testStart) /\ UpTo(new.testStart, new.testEnd)
      /\ \A i \in 1..n : Before(folds[i].testEnd, new.testStart)
  BY <1>2, WindowIsClean
<1> HIDE DEF new
<1>5. /\ IsDate(foldStart') /\ IsDate(trainEnd')
      /\ split.anchored => UpTo(new.testEnd, trainEnd')
      /\ ~split.anchored => Before(new.testEnd, foldStart')
  BY NextWindowIsLater DEF Emit, SplitInv, new
<1>6. ASSUME NEW i \in 1..(n + 1)
      PROVE  /\ IsDate(folds'[i].trainEnd) /\ IsDate(folds'[i].testStart) /\ IsDate(folds'[i].testEnd)
             /\ IF split.anchored THEN UpTo(folds'[i].testEnd, trainEnd')
                ELSE Before(folds'[i].testEnd, foldStart')
  <2>1. CASE i = n + 1
    BY <2>1, <1>3, <1>4, <1>5
  <2>2. CASE i # n + 1
    <3>1. i \in 1..n /\ folds'[i] = folds[i]
      BY <2>2, <1>2, <1>3
    <3>2. IsDate(folds[i].trainEnd) /\ IsDate(folds[i].testStart) /\ IsDate(folds[i].testEnd)
      BY <3>1, <1>2 DEF SplitInv, FoldsSoFar
    <3>3. Before(folds[i].testEnd, new.testEnd)
      BY <3>1, <3>2, <1>4, OrderOfDates
    <3>4. split.anchored => UpTo(folds[i].testEnd, trainEnd')
      BY <3>2, <3>3, <1>4, <1>5, OrderOfDates
    <3>5. ~split.anchored => Before(folds[i].testEnd, foldStart')
      BY <3>2, <3>3, <1>4, <1>5, OrderOfDates
    <3> QED BY <3>1, <3>2, <3>4, <3>5
  <2> QED BY <2>1, <2>2
<1>7. FoldsSoFar'
  BY <1>1, <1>3, <1>6 DEF FoldsSoFar, IsDate, UpTo, Before, Days
<1>8. ASSUME NEW i \in 1..(n + 1)
      PROVE  /\ Before(folds'[i].trainEnd, folds'[i].testStart)
             /\ UpTo(folds'[i].testStart, folds'[i].testEnd)
             /\ \A j \in 1..(i - 1) : Before(folds'[j].testEnd, folds'[i].testStart)
  <2>1. CASE i = n + 1
    BY <2>1, <1>2, <1>3, <1>4
  <2>2. CASE i # n + 1
    <3>1. i \in 1..n /\ \A j \in 1..(i - 1) : j \in 1..n
      BY <2>2, <1>2
    <3> QED BY <3>1, <1>2, <1>3 DEF SplitInv, SplitIsClean, UpTo
  <2> QED BY <2>1, <2>2
<1>9. SplitIsClean'
  BY <1>3, <1>8 DEF SplitIsClean, UpTo, Before
<1>10. split'.train \in Nat \ {0} /\ split'.test \in Nat \ {0} /\ split'.step \in Nat \ {0}
  BY <1>1 DEF SplitInv
<1>11. Len(folds') \in Nat /\ DOMAIN folds' = 1..Len(folds')
  BY <1>2, <1>3
<1> QED BY <1>5, <1>7, <1>9, <1>10, <1>11 DEF SplitInv, IsDate, Days

LEMMA SplitStays == ASSUME SplitInv, [SplitNext]_splitVars PROVE SplitInv'
<1>1. CASE Exhausted \/ UNCHANGED splitVars
  <2>1. /\ split' = split /\ foldStart' = foldStart /\ trainEnd' = trainEnd /\ folds' = folds
    BY <1>1 DEF Exhausted, splitVars
  <2> QED BY <2>1 DEF SplitInv, FoldsSoFar, SplitIsClean, IsDate, UpTo, Before, Days
<1>2. CASE TooShort
  BY <1>2, TooShortKeeps
<1>3. CASE Emit
  BY <1>3, EmitKeeps
<1> QED BY <1>1, <1>2, <1>3 DEF SplitNext

\* No fold of splitter.py tests on a day it trained on, and no two folds test on
\* the same day, whatever the months, the step and the first day: the error for
\* overlapping test periods cannot be raised.
THEOREM FoldsAreClean ==
  ASSUME \A d \in FirstDates : IsDate(d)
  PROVE  SplitSpec => []SplitIsClean
<1>1. SplitInit => SplitInv
  BY SplitStarts
<1>2. SplitInv /\ [SplitNext]_splitVars => SplitInv'
  BY SplitStays
<1>3. SplitInv => SplitIsClean
  BY DEF SplitInv
<1> QED BY <1>1, <1>2, <1>3, PTL DEF SplitSpec
-----------------------------------------------------------------------------
(* BacktestEngine: the books, and the limits on entries.                   *)

Books == [cash : Int, a : Int, b : Int, entryA : Int, entryB : Int,
          dayStart : Int, halted : BOOLEAN, failed : BOOLEAN]
Deal == [acc : Books, booked : Int]

Complete(pa, pb) ==
  /\ pa \in Nat \ {0}
  /\ pb \in Nat
  /\ pb = 0 <=> legs = "single"

\* The trade events of a deal explain its account; a single asset has no leg B.
Explained(t) ==
  /\ t \in Deal
  /\ t.acc.cash + t.acc.a * t.acc.entryA + t.acc.b * t.acc.entryB = Capital + t.booked
  /\ legs = "single" => t.acc.b = 0

\* A deal leaves the flags of the account it starts from.
SameFlags(t, u) ==
  t.acc.halted = u.acc.halted /\ t.acc.failed = u.acc.failed

\* A deal is replaced by one that holds these legs at these entries.
Holding(t, done, cash, a, b, u, v, gain) ==
  done = [acc |-> [t.acc EXCEPT !.cash = cash, !.a = a, !.b = b, !.entryA = u, !.entryB = v],
          booked |-> gain]
Balance(cash, a, b, u, v, gain) == cash + a * u + b * v = Capital + gain

\* What a leg pays when it is closed and what its trade event books.
Sold(price, size, entry, paid, gain) ==
  /\ paid = (IF Valid(price) THEN Proceeds(price, size) - Commission(price, size) ELSE 0)
  /\ gain = (IF Valid(price)
             THEN size * (Executed(price, -size) - entry) - Commission(price, size) ELSE 0)
  /\ paid = gain + size * entry

LEMMA EngineInts ==
  /\ Capital \in Int /\ Notional \in Int /\ Leverage \in Int /\ CommissionBp \in Nat
  /\ SlippageBp \in Nat /\ FloorLimit \in Int /\ DailyLimit \in Int
  BY EngineConstants

LEMMA CostsAreInts ==
  ASSUME NEW price \in Nat, NEW size \in Int
  PROVE  Executed(price, size) \in Int /\ Commission(price, size) \in Int
<1>1. \A x \in Int : x \div 10000 \in Int
  OBVIOUS
<1>2. PICK m \in Int : m = Magnitude(size)
  BY DEF Magnitude
<1>3. price * SlippageBp \in Int /\ price * m * CommissionBp \in Int
  BY EngineInts
<1>4. PICK s \in Int : s = (price * SlippageBp) \div 10000
  BY <1>1, <1>3
<1>5. Executed(price, size) \in Int
  BY <1>4 DEF Executed
<1>6. Commission(price, size) = (price * m * CommissionBp) \div 10000
  BY <1>2 DEF Commission
<1> QED BY <1>1, <1>3, <1>5, <1>6

\* Books that balance after the cash and the legs are replaced.
LEMMA Replaced ==
  ASSUME NEW t \in Deal, NEW cash \in Int, NEW a \in Int, NEW b \in Int,
         NEW u \in Int, NEW v \in Int, NEW gain \in Int,
         NEW done, Holding(t, done, cash, a, b, u, v, gain), Balance(cash, a, b, u, v, gain),
         legs = "single" => b = 0
  PROVE  Explained(done) /\ SameFlags(done, t) /\ done.acc.a = a /\ done.acc.b = b
<1>1. /\ done \in Deal /\ done.acc.cash = cash /\ done.booked = gain
      /\ done.acc.a = a /\ done.acc.b = b /\ done.acc.entryA = u /\ done.acc.entryB = v
  BY DEF Deal, Books, Holding
<1>2. SameFlags(done, t)
  BY DEF Deal, Books, SameFlags, Holding
<1> QED BY <1>1, <1>2 DEF Explained, Balance

LEMMA DealParts ==
  ASSUME NEW t \in Deal
  PROVE  /\ t.acc \in Books /\ t.acc.cash \in Int /\ t.acc.a \in Int /\ t.acc.b \in Int
         /\ t.acc.entryA \in Int /\ t.acc.entryB \in Int /\ t.booked \in Int
         /\ t.acc.halted \in BOOLEAN /\ t.acc.failed \in BOOLEAN
  BY DEF Deal, Books

\* A leg that is sold pays its cost and what the trade event books.
LEMMA SaleExplains ==
  ASSUME NEW price \in Nat, NEW size \in Int, NEW entry \in Int,
         Valid(price) \/ size = 0
  PROVE  \E paid \in Int, gain \in Int : Sold(price, size, entry, paid, gain)
<1>1. CASE Valid(price)
  <2>1. PICK x \in Int : x = Executed(price, -size)
    BY CostsAreInts
  <2>2. PICK c \in Int : c = Commission(price, size)
    BY CostsAreInts
  <2>3. /\ size * x \in Int /\ size * entry \in Int
        /\ size * (x - entry) = size * x - size * entry
    OBVIOUS
  <2>4. Proceeds(price, size) = size * x
    BY <2>1 DEF Proceeds
  <2> WITNESS size * x - c \in Int, size * (x - entry) - c \in Int
  <2> QED BY <1>1, <2>1, <2>2, <2>3, <2>4 DEF Sold
<1>2. CASE ~Valid(price)
  <2>1. size * entry = 0
    BY <1>2
  <2> WITNESS 0 \in Int, 0 \in Int
  <2> QED BY <1>2, <2>1 DEF Sold
<1> QED BY <1>1, <1>2

\* A close books what it pays out over the entry, on each leg.
LEMMA CloseExplains ==
  ASSUME NEW t, Explained(t), NEW pa, NEW pb, Complete(pa, pb)
  PROVE  /\ Explained(Closed(t, pa, pb)) /\ Flat(Closed(t, pa, pb).acc)
         /\ SameFlags(Closed(t, pa, pb), t)
<1>1. t \in Deal
  BY DEF Explained
<1>2. CASE Flat(t.acc)
  BY <1>2 DEF Closed, SameFlags
<1>3. CASE ~Flat(t.acc)
  <2>1. pa \in Nat /\ pb \in Nat /\ Valid(pa) /\ (Valid(pb) \/ t.acc.b = 0)
    BY DEF Complete, Valid, Explained
  <2>2. PICK payA \in Int, gainA \in Int : Sold(pa, t.acc.a, t.acc.entryA, payA, gainA)
    BY <1>1, <2>1, DealParts, SaleExplains
  <2>3. PICK payB \in Int, gainB \in Int : Sold(pb, t.acc.b, t.acc.entryB, payB, gainB)
    BY <1>1, <2>1, DealParts, SaleExplains
  <2>4. PICK done : done = Closed(t, pa, pb)
    OBVIOUS
  <2>5. PICK cash \in Int, gain \in Int :
          cash = t.acc.cash + payA + payB /\ gain = t.booked + gainA + gainB
    BY <1>1, DealParts
  <2>6. Holding(t, done, cash, 0, 0, 0, 0, gain)
    BY <1>3, <2>2, <2>3, <2>4, <2>5 DEF Closed, Sold, Holding
  <2>7. Balance(cash, 0, 0, 0, 0, gain)
    <3>1. PICK x \in Int, y \in Int : x = t.acc.a * t.acc.entryA /\ y = t.acc.b * t.acc.entryB
      BY <1>1, DealParts
    <3>2. t.acc.cash + x + y = Capital + t.booked
      BY <3>1 DEF Explained
    <3>3. payA = gainA + x /\ payB = gainB + y
      BY <2>2, <2>3, <3>1 DEF Sold
    <3>4. cash = Capital + gain
      <4>1. PICK c \in Int, k \in Int, e \in Int : c = t.acc.cash /\ k = t.booked /\ e = Capital
        BY <1>1, DealParts, EngineInts
      <4>2. c + x + y = e + k
        BY <3>2, <4>1
      <4>3. cash = c + payA + payB /\ gain = k + gainA + gainB
        BY <2>5, <4>1
      <4>4. cash = e + gain
        BY <3>3, <4>2, <4>3
      <4> QED BY <4>1, <4>4
    <3>5. 0 * 0 = 0
      OBVIOUS
    <3> QED BY <3>4, <3>5 DEF Balance
  <2>8. Explained(done) /\ SameFlags(done, t) /\ done.acc.a = 0 /\ done.acc.b = 0
    <3>1. PICK z \in Int : z = 0
      OBVIOUS
    <3>2. Holding(t, done, cash, z, z, z, z, gain) /\ Balance(cash, z, z, z, z, gain)
      BY <2>6, <2>7, <3>1
    <3>3. legs = "single" => z = 0
      BY <3>1
    <3>4. Explained(done) /\ SameFlags(done, t) /\ done.acc.a = z /\ done.acc.b = z
      BY <1>1, <3>2, <3>3, Replaced
    <3> QED BY <3>1, <3>4
  <2> QED BY <2>4, <2>8 DEF Flat
<1> QED BY <1>2, <1>3

\* An open from flat books its commissions and carries the legs at their cost.
LEMMA OpenExplains ==
  ASSUME NEW t, Explained(t), Flat(t.acc), NEW side \in {-1, 1},
         NEW pa, NEW pb, Complete(pa, pb)
  PROVE  /\ Explained(Opened(t, side, pa, pb)) /\ SameFlags(Opened(t, side, pa, pb), t)
<1>1. t \in Deal /\ t.acc.a = 0 /\ t.acc.b = 0 /\ pa \in Nat \ {0} /\ pb \in Nat
  BY DEF Explained, Complete, Flat
<1>2. PICK size \in Int : size = Clipped(t.acc, pa, pb)
  <2>1. 0 * pa = 0 /\ 0 * pb = 0
    BY <1>1
  <2>2. PICK e \in Int : e = Equity(t.acc, pa, pb)
    BY <1>1, <2>1, DealParts DEF Equity
  <2>3. Leverage * e \in Int
    BY EngineInts
  <2> QED BY <2>2, <2>3, EngineInts DEF Clipped
<1>3. \A x \in Int, n \in Nat \ {0} : x \div n \in Int
  OBVIOUS
<1>4. \A x \in Int : side * x \in Int /\ -side * x \in Int
  OBVIOUS
<1>5. PICK a \in Int : a = side * ((IF Valid(pb) THEN size \div 2 ELSE size) \div pa)
  <2>1. (IF Valid(pb) THEN size \div 2 ELSE size) \in Int
    OBVIOUS
  <2> QED BY <1>1, <1>3, <1>4, <2>1
<1>6. PICK b \in Int : b = (IF Valid(pb) THEN -side * ((size \div 2) \div pb) ELSE 0)
  <2>1. size \div 2 \in Int
    OBVIOUS
  <2>2. Valid(pb) => pb \in Nat \ {0}
    BY <1>1 DEF Valid
  <2>3. Valid(pb) => -side * ((size \div 2) \div pb) \in Int
    BY <1>3, <1>4, <2>1, <2>2
  <2> QED BY <2>3
<1>7. legs = "single" => b = 0
  BY <1>6 DEF Complete, Valid
<1>8. PICK u \in Int, kA \in Int : u = Executed(pa, a) /\ kA = Commission(pa, a)
  BY <1>1, CostsAreInts
<1>9. PICK v \in Int, kB \in Int : v = Executed(pb, b) /\ kB = Commission(pb, b)
  BY <1>1, CostsAreInts
<1>10. PICK done : done = Opened(t, side, pa, pb)
  OBVIOUS
<1>11. CASE Equity(t.acc, pa, pb) <= 0 \/ ~Valid(pa)
  BY <1>11 DEF Opened, SameFlags
<1>12. CASE ~(Equity(t.acc, pa, pb) <= 0 \/ ~Valid(pa))
  <2>1. Holding(t, done, t.acc.cash - (a * u + kA) - (b * v + kB), a, b, u, v, t.booked - kA - kB)
    BY <1>2, <1>5, <1>6, <1>8, <1>9, <1>10, <1>12 DEF Opened, LegCost, Holding
  <2>2. a * u \in Int /\ b * v \in Int
    OBVIOUS
  <2>3. t.acc.cash - (a * u + kA) - (b * v + kB) \in Int /\ t.booked - kA - kB \in Int
    BY <1>1, <2>2, DealParts
  <2>4. t.acc.cash = Capital + t.booked
    <3>1. 0 * t.acc.entryA = 0 /\ 0 * t.acc.entryB = 0
      BY <1>1, DealParts
    <3> QED BY <1>1, <3>1, DealParts, EngineInts DEF Explained
  <2>5. Balance(t.acc.cash - (a * u + kA) - (b * v + kB), a, b, u, v, t.booked - kA - kB)
    BY <1>1, <2>2, <2>4, DealParts, EngineInts DEF Balance
  <2>6. Explained(done) /\ SameFlags(done, t)
    BY <1>1, <1>7, <2>1, <2>3, <2>5, Replaced
  <2> QED BY <1>10, <2>6
<1> QED BY <1>11, <1>12

LEMMA FreshExplains == Explained([acc |-> Fresh, booked |-> 0])
<1>1. Fresh \in Books
  BY EngineInts DEF Fresh, Books
<1>2. Capital + 0 * 0 + 0 * 0 = Capital + 0
  <2>1. 0 * 0 = 0
    OBVIOUS
  <2> QED BY <2>1, EngineInts
<1> QED BY <1>1, <1>2 DEF Explained, Deal, Fresh

\* A row trades within the books, whatever the target.
LEMMA TradeExplains ==
  ASSUME NEW t, Explained(t), NEW target \in {-1, 0, 1}, NEW pa, NEW pb, Complete(pa, pb)
  PROVE  Explained(Traded(t, target, pa, pb))
<1>1. CASE target = 0
  BY <1>1, CloseExplains DEF Traded
<1>2. CASE target # 0
  <2>1. target \in {-1, 1}
    BY <1>2
  <2>2. ASSUME NEW u, Explained(u), Flat(u.acc)
        PROVE  Explained(OpenUnlessHalted(u, target, pa, pb))
    BY <2>1, <2>2, OpenExplains DEF OpenUnlessHalted
  <2>3. Explained(Flipped(t, target, pa, pb))
    BY <2>2, CloseExplains DEF Flipped
  <2> QED BY <1>2, <2>2, <2>3 DEF Traded
<1> QED BY <1>1, <1>2

\* The day's turn and the rules touch neither the cash nor the legs.
LEMMA RuleExplains ==
  ASSUME Explained([acc |-> account, booked |-> booked]), NEW newDay \in BOOLEAN,
         NEW pa, NEW pb, Complete(pa, pb)
  PROVE  Explained([acc |-> Ruled(Rolled(account, newDay, pa, pb), pa, pb), booked |-> booked])
<1> DEFINE now == [acc |-> account, booked |-> booked]
<1>1. account \in Books /\ booked \in Int
  BY DEF Explained, Deal
<1>2. PICK e \in Int : e = Equity(account, pa, pb)
  <2>1. account.a * pa \in Int /\ account.b * pb \in Int /\ account.cash \in Int
    BY <1>1 DEF Books, Complete
  <2> QED BY <2>1 DEF Equity
<1>3. PICK r : r = Rolled(account, newDay, pa, pb)
  OBVIOUS
<1>4. /\ r \in Books /\ r.cash = account.cash /\ r.a = account.a /\ r.b = account.b
      /\ r.entryA = account.entryA /\ r.entryB = account.entryB
  BY <1>1, <1>2, <1>3 DEF Rolled, Books
<1>5. PICK q : q = Ruled(r, pa, pb)
  OBVIOUS
<1>6. PICK f \in BOOLEAN, h \in BOOLEAN : q = [r EXCEPT !.failed = f, !.halted = h]
  BY <1>4, <1>5 DEF Ruled, Books
<1>7. /\ q \in Books /\ q.cash = account.cash /\ q.a = account.a /\ q.b = account.b
      /\ q.entryA = account.entryA /\ q.entryB = account.entryB
  BY <1>4, <1>6 DEF Books
<1>8. Explained([acc |-> q, booked |-> booked])
  BY <1>1, <1>7 DEF Explained, Deal
<1> QED BY <1>3, <1>5, <1>8

BooksInv == Explained([acc |-> account, booked |-> booked])

\* The trade events of a run always explain its account: the capital, what they
\* realised and what they paid is the cash and the legs at their entries.  A leg
\* without a price is dropped when the pair closes, so every row has its prices.
THEOREM BooksHold ==
  ASSUME 0 \notin TapePrices \cup HedgePrices
  PROVE  EngineSpec => []BooksReconcile
<1>1. EngineInit => BooksInv
  <2> SUFFICES ASSUME EngineInit PROVE BooksInv
    OBVIOUS
  <2>1. account = Fresh /\ booked = 0
    BY DEF EngineInit
  <2> QED BY <2>1, FreshExplains DEF BooksInv
<1>2. BooksInv /\ [EngineNext]_engineVars => BooksInv'
  <2> SUFFICES ASSUME BooksInv, [EngineNext]_engineVars PROVE BooksInv'
    OBVIOUS
  <2>0. \A t : legs' = legs /\ Explained(t) => Explained(t)'
    BY DEF Explained
  <2>1. CASE EmptyRun \/ EndRun \/ UNCHANGED engineVars
    BY <2>1 DEF EmptyRun, EndRun, engineVars, BooksInv, Explained
  <2>2. CASE BeginFold
    <3>1. account' = Fresh /\ booked' = 0 /\ legs' = legs
      BY <2>2 DEF BeginFold
    <3> QED BY <3>1, FreshExplains DEF BooksInv, Explained
  <2>3. ASSUME NEW newDay \in BOOLEAN, NEW pa \in TapePrices, NEW pb \in LegB,
               NEW target \in {-1, 0, 1}, Bar(newDay, pa, pb, target)
        PROVE  BooksInv'
    <3>1. Complete(pa, pb)
      BY EngineConstants DEF Complete, LegB
    <3> DEFINE before == [acc |-> Ruled(Rolled(account, newDay, pa, pb), pa, pb), booked |-> booked]
    <3>2. Explained(before)
      BY <3>1, RuleExplains DEF BooksInv
    <3>3. PICK after : /\ Explained(after) /\ account' = after.acc /\ booked' = after.booked
                       /\ legs' = legs
      <4>1. CASE before.acc.failed
        <5>1. account' = Closed(before, pa, pb).acc /\ booked' = Closed(before, pa, pb).booked
              /\ legs' = legs
          BY <2>3, <4>1 DEF Bar
        <5> QED BY <3>1, <3>2, <5>1, CloseExplains
      <4>2. CASE ~before.acc.failed
        <5>1. /\ account' = Traded(before, target, pa, pb).acc
              /\ booked' = Traded(before, target, pa, pb).booked /\ legs' = legs
          BY <2>3, <4>2 DEF Bar
        <5> QED BY <3>1, <3>2, <5>1, TradeExplains
      <4> QED BY <4>1, <4>2
    <3>4. after = [acc |-> account', booked |-> booked']
      BY <3>3 DEF Explained, Deal
    <3> QED BY <3>3, <3>4 DEF BooksInv, Explained
  <2> QED BY <2>1, <2>2, <2>3 DEF EngineNext
<1>3. BooksInv => BooksReconcile
  BY DEF BooksInv, Explained, BooksReconcile
<1> QED BY <1>1, <1>2, <1>3, PTL DEF EngineSpec

\* An account is always the record that reset() makes.
Shaped(acc) ==
  acc = [cash |-> acc.cash, a |-> acc.a, b |-> acc.b, entryA |-> acc.entryA, entryB |-> acc.entryB,
         dayStart |-> acc.dayStart, halted |-> acc.halted, failed |-> acc.failed]

LimitsInv ==
  /\ Shaped(account)
  /\ lost => account.halted
  /\ entered => ~lost

LEMMA CloseKeepsFlags ==
  ASSUME NEW t, Shaped(t.acc), NEW pa, NEW pb
  PROVE  /\ Shaped(Closed(t, pa, pb).acc) /\ Flat(Closed(t, pa, pb).acc)
         /\ SameFlags(Closed(t, pa, pb), t)
<1>1. CASE Flat(t.acc)
  BY <1>1 DEF Closed, SameFlags
<1>2. CASE ~Flat(t.acc)
  <2>1. PICK cash : Closed(t, pa, pb).acc
                    = [t.acc EXCEPT !.cash = cash, !.a = 0, !.b = 0, !.entryA = 0, !.entryB = 0]
    BY <1>2 DEF Closed
  <2> QED BY <2>1 DEF Shaped, SameFlags, Flat
<1> QED BY <1>1, <1>2

LEMMA OpenKeepsFlags ==
  ASSUME NEW t, Shaped(t.acc), NEW side, NEW pa, NEW pb
  PROVE  Shaped(Opened(t, side, pa, pb).acc) /\ SameFlags(Opened(t, side, pa, pb), t)
<1>1. CASE Opened(t, side, pa, pb) = t
  BY <1>1 DEF SameFlags
<1>2. CASE Opened(t, side, pa, pb) # t
  <2>1. PICK cash, a, b, u, v :
          Opened(t, side, pa, pb).acc
          = [t.acc EXCEPT !.cash = cash, !.a = a, !.b = b, !.entryA = u, !.entryB = v]
    BY <1>2 DEF Opened
  <2> QED BY <2>1 DEF Shaped, SameFlags
<1> QED BY <1>1, <1>2

\* A halted day leaves the legs alone or flattens them.
LEMMA HaltedDay ==
  ASSUME NEW t, Shaped(t.acc), NEW target, NEW pa, NEW pb
  PROVE  LET u == Traded(t, target, pa, pb)
         IN /\ Shaped(u.acc) /\ SameFlags(u, t)
            /\ t.acc.halted => u = t \/ Flat(u.acc)
<1>1. /\ Shaped(Closed(t, pa, pb).acc) /\ SameFlags(Closed(t, pa, pb), t)
      /\ Flat(Closed(t, pa, pb).acc)
  BY CloseKeepsFlags
<1>2. PICK c : c = Closed(t, pa, pb)
  OBVIOUS
<1>3. ASSUME NEW x, Shaped(x.acc)
      PROVE  /\ Shaped(OpenUnlessHalted(x, target, pa, pb).acc)
             /\ SameFlags(OpenUnlessHalted(x, target, pa, pb), x)
             /\ x.acc.halted => OpenUnlessHalted(x, target, pa, pb) = x
  <2>1. CASE x.acc.halted
    BY <1>3, <2>1 DEF OpenUnlessHalted, SameFlags
  <2>2. CASE ~x.acc.halted
    BY <1>3, <2>2, OpenKeepsFlags DEF OpenUnlessHalted
  <2> QED BY <2>1, <2>2
<1>4. PICK f : f = OpenUnlessHalted(c, target, pa, pb)
  OBVIOUS
<1>5. /\ Shaped(f.acc) /\ SameFlags(f, t)
      /\ t.acc.halted => Flat(f.acc)
  BY <1>1, <1>2, <1>3, <1>4 DEF SameFlags
<1>6. Traded(t, target, pa, pb) \in {t, c, f, OpenUnlessHalted(t, target, pa, pb)}
  BY <1>2, <1>4 DEF Traded, Flipped
<1>7. SameFlags(t, t)
  BY DEF SameFlags
<1> QED BY <1>1, <1>2, <1>3, <1>5, <1>6, <1>7

\* No position is ever opened on a day one of whose rows stood at the daily limit,
\* nor after a row at the floor: the rules halt the account before the target is
\* looked at, and a flip asks again.
THEOREM EntriesStayInLimits ==
  EngineSpec => []EntriesRespectLimits
<1>1. EngineInit => LimitsInv
  BY DEF EngineInit, LimitsInv, Shaped, Fresh
<1>2. LimitsInv /\ [EngineNext]_engineVars => LimitsInv'
  <2> SUFFICES ASSUME LimitsInv, [EngineNext]_engineVars PROVE LimitsInv'
    OBVIOUS
  <2>1. CASE EmptyRun \/ EndRun
    BY <2>1 DEF EmptyRun, EndRun, LimitsInv, Shaped
  <2>2. CASE UNCHANGED engineVars
    BY <2>2 DEF engineVars, LimitsInv, Shaped
  <2>3. CASE BeginFold
    BY <2>3 DEF BeginFold, LimitsInv, Shaped, Fresh
  <2>4. ASSUME NEW newDay \in BOOLEAN, NEW pa, NEW pb, NEW target \in {-1, 0, 1},
               Bar(newDay, pa, pb, target)
        PROVE  LimitsInv'
    <3>1. PICK rolled : rolled = Rolled(account, newDay, pa, pb)
      OBVIOUS
    <3>2. /\ Shaped(rolled) /\ rolled.a = account.a /\ rolled.b = account.b
          /\ rolled.halted = (IF newDay THEN FALSE ELSE account.halted)
      BY <3>1 DEF Rolled, LimitsInv, Shaped
    <3>3. PICK ruled : ruled = Ruled(rolled, pa, pb)
      OBVIOUS
    <3>4. /\ Shaped(ruled) /\ ruled.a = account.a /\ ruled.b = account.b
          /\ ruled.cash = rolled.cash /\ ruled.dayStart = rolled.dayStart
      BY <3>2, <3>3 DEF Ruled, Shaped
    <3>5. ruled.halted <=> \/ rolled.halted \/ AtFloor(rolled, pa, pb)
                           \/ AtDailyLimit(rolled, pa, pb)
      BY <3>2, <3>3 DEF Ruled, Shaped
    <3>6. /\ AtFloor(ruled, pa, pb) = AtFloor(rolled, pa, pb)
          /\ AtDailyLimit(ruled, pa, pb) = AtDailyLimit(rolled, pa, pb)
      BY <3>2, <3>4 DEF AtFloor, AtDailyLimit, Equity
    <3> DEFINE before == [acc |-> ruled, booked |-> booked]
    <3>7. PICK after : after = (IF ruled.failed THEN Closed(before, pa, pb)
                                ELSE Traded(before, target, pa, pb))
      OBVIOUS
    <3>8. /\ account' = after.acc
          /\ lost' = (\/ lost /\ ~newDay
                      \/ AtFloor(ruled, pa, pb) \/ AtDailyLimit(ruled, pa, pb))
          /\ entered' = (~Flat(after.acc) /\ (Flat(account) \/ Sign(after.acc.a) # Sign(account.a)))
      BY <2>4, <3>1, <3>3, <3>7 DEF Bar
    <3>9. before.acc = ruled
      OBVIOUS
    <3>10. /\ Shaped(after.acc) /\ after.acc.halted = ruled.halted
           /\ ruled.halted => after.acc = ruled \/ Flat(after.acc)
      <4>1. CASE ruled.failed
        BY <3>4, <3>7, <3>9, <4>1, CloseKeepsFlags DEF SameFlags
      <4>2. CASE ~ruled.failed
        BY <3>4, <3>7, <3>9, <4>2, HaltedDay DEF SameFlags
      <4> QED BY <4>1, <4>2
    <3>11. lost' => ruled.halted
      BY <3>2, <3>5, <3>6, <3>8 DEF LimitsInv
    <3>12. ruled.halted => ~entered'
      BY <3>4, <3>8, <3>10 DEF Flat
    <3>13. Shaped(account')
      BY <3>8, <3>10
    <3> QED BY <3>8, <3>10, <3>11, <3>12, <3>13 DEF LimitsInv, Shaped
  <2> QED BY <2>1, <2>2, <2>3, <2>4 DEF EngineNext
<1>3. LimitsInv => EntriesRespectLimits
  BY DEF LimitsInv, EntriesRespectLimits
<1> QED BY <1>1, <1>2, <1>3, PTL DEF EngineSpec
=============================================================================
