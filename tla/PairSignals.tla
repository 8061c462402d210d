------------------------------ MODULE PairSignals ------------------------------
(***************************************************************************)
(* The signals of a pair, strategies/stat_arb.py: the carried target of    *)
(* the signal authority (StatArbStrategy), the same carry written again in *)
(* the walk-forward adapter, with its entropy gate, and the trades and the *)
(* database rows read off the authority's frame.  The training bars only   *)
(* fit a baseline, which is frozen: a bar here is a spread in half         *)
(* standard deviations from the frozen mean, or NoPrice.  The authority    *)
(* and the adapter fit baselines of their own: one takes the hedge ratio   *)
(* from np.cov over np.var, or 1.0 on fewer than ten bars, the other from  *)
(* np.polyfit.  So a bar has a spread for each of them, of any relation.   *)
(***************************************************************************)
EXTENDS Integers

CONSTANTS
  Spreads,             \* half deviations, e.g. -5..5
  NoPrice,             \* a bar whose spread is NaN
  EntryZ, ExitZ,       \* thresholds, in half deviations
  Hedges,              \* hedge ratios, in tenths
  Flatlines,           \* may the training spread be constant?
  MaxSpreadBars        \* bound

ASSUME PairConstants ==
  /\ Spreads \subseteq Int /\ NoPrice \notin Spreads
  /\ EntryZ \in Nat /\ ExitZ \in 1 .. EntryZ
  /\ Hedges \subseteq Nat /\ Flatlines \subseteq BOOLEAN /\ MaxSpreadBars \in Nat

VARIABLES
  frozen,    \* what the training slice fixes: hedge, constant spread? stationary?
  level,     \* the authority's spread of the last bar
  own,       \* the adapter's
  core,      \* the authority: target and the spread it was entered at
  adapter,   \* WalkForwardStatArb's target without a gate
  gated,     \* and with entropy_threshold set
  trade,     \* get_trades: the trade being followed
  judged,    \* and the last one it appended
  signalRow, \* the row to_db_signals writes for the bar
  barsSeen
pairVars == <<frozen, level, own, core, adapter, gated, trade, judged, signalRow, barsSeen>>

FlatPair == [target |-> 0, entry |-> NoPrice]

\* calculate_z_score divides by the deviation whatever it is, so a constant
\* training spread makes z infinite, and NaN at the mean; the adapter divides
\* by 1.0 instead, so its z is its spread.  Unbounded stands for infinity.
Unbounded == 100
CoreZ(s) ==
  IF s = NoPrice \/ ~frozen.constant THEN s
  ELSE IF s > 0 THEN Unbounded ELSE IF s < 0 THEN -Unbounded ELSE NoPrice

\* No comparison with NaN holds.
Above(z, limit) == z # NoPrice /\ z > limit
Below(z, limit) == z # NoPrice /\ z < limit
Within(z, limit) == Above(z, -limit) /\ Below(z, limit)

Entered(z) == IF Above(z, EntryZ) THEN -1 ELSE IF Below(z, -EntryZ) THEN 1 ELSE 0

\* StatArbStrategy.generate_signals, one bar.
CoreStep(s) ==
  IF core.target = 0
  THEN IF Entered(CoreZ(s)) = 0 THEN FlatPair ELSE [target |-> Entered(CoreZ(s)), entry |-> s]
  ELSE IF Within(CoreZ(s), ExitZ) THEN FlatPair ELSE core

\* WalkForwardStatArb.generate_signals, one bar: only entries are gated.  A
\* pair whose training spread is not stationary is not traded at all.  Faulty
\* variant: exits are gated too.
AdapterExitsGated(target, z, calm) ==
  IF ~frozen.stationary THEN 0
  ELSE IF ~calm THEN target
  ELSE IF target = 0 THEN Entered(z)
  ELSE IF Within(z, ExitZ) THEN 0 ELSE target
AdapterStep(target, z, calm) ==
  IF ~frozen.stationary THEN 0
  ELSE IF target = 0 THEN IF calm THEN Entered(z) ELSE 0
  ELSE IF Within(z, ExitZ) THEN 0 ELSE target

\* get_trades: from 0 opens, to 0 closes.  A long counts as reverted when the
\* spread fell, a short when it rose.
Reverted(dir, from, to) ==
  from # NoPrice /\ to # NoPrice /\ IF dir = 1 THEN to < from ELSE to > from
NoTrade == [dir |-> 0, from |-> NoPrice, to |-> NoPrice, valid |-> FALSE]
Follow(target, s) ==
  CASE trade.dir = 0 /\ target # 0 ->
         trade' = [NoTrade EXCEPT !.dir = target, !.from = s] /\ UNCHANGED judged
    [] trade.dir # 0 /\ target = 0 ->
         /\ judged' = [trade EXCEPT !.to = s, !.valid = Reverted(trade.dir, trade.from, s)]
         /\ trade' = NoTrade
    [] OTHER -> UNCHANGED <<trade, judged>>

\* to_db_signals: the second leg is -a * hedge, rounded half to even.
Rounded(tenths) ==
  LET n == tenths \div 10
      rest == tenths % 10
  IN IF rest > 5 \/ (rest = 5 /\ n % 2 = 1) THEN n + 1 ELSE n
SignalRow(target) ==
  [signal |-> CASE target = 1 -> "BUY" [] target = -1 -> "SELL" [] OTHER -> "HOLD",
   a |-> target, b |-> -target * Rounded(frozen.hedge)]

PairInit ==
  /\ frozen \in [hedge : Hedges, constant : Flatlines, stationary : BOOLEAN]
  /\ level = NoPrice /\ own = NoPrice /\ core = FlatPair /\ adapter = 0 /\ gated = 0
  /\ trade = NoTrade /\ judged = NoTrade /\ barsSeen = 0
  /\ signalRow = [signal |-> "HOLD", a |-> 0, b |-> 0]

PairBar(s, z, calm) ==
  /\ barsSeen < MaxSpreadBars /\ barsSeen' = barsSeen + 1
  /\ level' = s /\ own' = z
  /\ core' = CoreStep(s)
  /\ adapter' = AdapterStep(adapter, z, TRUE)
  /\ gated' = AdapterStep(gated, z, calm)
  /\ Follow(core'.target, s)
  /\ signalRow' = SignalRow(core'.target)
  /\ UNCHANGED frozen

PairNext == \E s, z \in Spreads \cup {NoPrice}, calm \in BOOLEAN : PairBar(s, z, calm)

PairSpec == PairInit /\ [][PairNext]_pairVars

-----------------------------------------------------------------------------
\* A position lasts from beyond the entry band to within the exit band, each
\* carry by its own z.  get_trades looks at openings and closings only and is
\* right to, as no side turns into the other without passing flat, gaps or
\* not: what it follows is the position held, and a trade it closed opened
\* beyond the band on its side and closed inside it.  The entropy gate delays
\* entries ("Exits are never gated"): it holds nothing inside the exit band,
\* nor anything while the carry without a gate is flat.
TradesSpanTheBands ==
  /\ adapter = 0 => gated = 0
  /\ Within(own, ExitZ) => adapter = 0
  /\ core.target # 0 => trade.dir = core.target /\ trade.from = core.entry
  /\ ~frozen.constant =>
       /\ Within(level, ExitZ) => core.target = 0
       /\ judged.dir # 0 => Within(judged.to, ExitZ) /\ Entered(judged.from) = judged.dir

\* A trade that closed nearer the mean than it opened is VALID.
ReversionIsValid ==
  judged.dir # 0 /\ judged.from * judged.dir < judged.to * judged.dir => judged.valid

\* A gate withholds positions, it takes none the ungated carry does not hold.
GateOnlyWithholds == gated # 0 => gated = adapter

\* A row that holds one leg of a pair holds the other.
RowsAreHedged == signalRow.a # 0 => signalRow.b # 0

\* A spread back at its mean is held by nobody.
MeanIsFlat == level = 0 => core.target = 0
=============================================================================
