----------------------------- MODULE TrackRecord -----------------------------
(***************************************************************************)
(* Which venue a backtest's prices came from: the audit of data/           *)
(* provenance.py, the walk-forward engine that writes engine_results       *)
(* (backtesting/window_engine.py), the script that rebuilds the Kraken     *)
(* track record, and the eligibility the leaderboard reads from it.        *)
(*                                                                         *)
(* A window is named by its type: of the many windows of a type one is     *)
(* enough to tell rows apart.  What a strategy earned is pass or fail.     *)
(***************************************************************************)
EXTENDS Integers, FiniteSets

CONSTANTS
  Symbols, Venues,
  Kraken, Binance,    \* two of the venues
  Lists,              \* the symbols each venue lists
  Pair,               \* two legs, or <<>>
  Perps,              \* symbols with funding rates, SYMBOL_MAP
  EngineWindows,      \* types of window the engine walks
  Combos,             \* parameter sets of a strategy, 1 the default
  RecordFaults,       \* {"insertFails", "dies", "readFails"}
  MaxRuns             \* bound

ASSUME RecordConstants ==
  /\ IsFiniteSet(Venues) /\ {Kraken, Binance} \subseteq Venues /\ Lists \in [Venues -> SUBSET Symbols]
  /\ Pair \in {<<>>} \cup (Symbols \X Symbols) /\ Perps \subseteq Symbols
  /\ Combos \in Nat \ {0} /\ MaxRuns \in Nat

VARIABLES
  sources,   \* the venues that have rows in prices, per symbol
  flags,     \* instrument_provenance: is_kraken_sourced, per audited symbol
  results,   \* the rows of engine_results
  job,       \* the engine or the rebuild script, in memory
  runs,      \* jobs begun
  onRecord   \* what was on record for its symbols as the last rebuild began

recordVars == <<sources, flags, results, job, runs, onRecord>>

\* A candidate is a strategy on an instrument.
Candidates ==
  [strategy : {"single"}, on : {<<s>> : s \in Symbols}]
    \cup [strategy : {"funding"}, on : {<<s>> : s \in Perps}]
    \cup [strategy : {"pair"}, on : {Pair} \ {<<>>}]

\* leg_count, which funding_rate_arb overrides.
LegCount(c) == IF c.strategy = "single" THEN 1 ELSE 2

NoCache == [s \in {} |-> {}]
NoJob == [pc |-> "idle", kind |-> "engine", cache |-> NoCache, todo |-> {}, rows |-> {}, symbols |-> {}]

-----------------------------------------------------------------------------
(* data/provenance.py                                                      *)

\* audit_instrument_provenance: the venues of every symbol that has rows.
Audited == {s \in Symbols : sources[s] # {}}
Audit == [s \in Audited |-> sources[s]]
SingleSourced(audit, s) == s \in DOMAIN audit /\ Cardinality(audit[s]) = 1
SourceOf(audit, s) == CHOOSE v \in Venues : audit[s] = {v}

\* Faulty variant: rows of another venue do not matter.
HasKraken(audit, s) == Kraken \in audit[s]
OnlyKraken(audit, s) == audit[s] = {Kraken}

\* sync_instrument_provenance: symbols without rows keep what they had.
Sync ==
  /\ flags' = [s \in DOMAIN flags \cup Audited |->
                 IF s \in Audited THEN OnlyKraken(Audit, s) ELSE flags[s]]
  /\ UNCHANGED <<sources, results, job, runs, onRecord>>

\* backfill_engine_results_exchange: rows written before the venue was
\* recorded get the one every leg has today.
Inferred(row) ==
  IF row.provenance = "unknown" /\ \A s \in {row.on[i] : i \in DOMAIN row.on} : SingleSourced(Audit, s)
  THEN [row EXCEPT !.provenance = "inferred_from_symbol",
                   !.exchange = [i \in DOMAIN row.on |-> SourceOf(Audit, row.on[i])]]
  ELSE row
BackfillExchange ==
  /\ results' = {Inferred(row) : row \in results}
  /\ UNCHANGED <<sources, flags, job, runs, onRecord>>

\* A collector or a backfill stores rows of a venue.
Collect(s, v) ==
  /\ s \in Lists[v] /\ v \notin sources[s]
  /\ sources' = [sources EXCEPT ![s] = @ \cup {v}]
  /\ UNCHANGED <<flags, results, job, runs, onRecord>>

-----------------------------------------------------------------------------
(* The engine.                                                             *)

\* _load_prices reads the rows of the venue _resolve_exchange named.  Faulty
\* variant: of every venue.
BlendedPrices(v, s) == sources[s]
PricesOf(v, s) == {v} \cap sources[s]

ResultRow(c, window, params, passed, exchange, provenance, truth) ==
  [run |-> runs, strategy |-> c.strategy, on |-> c.on, window |-> window, params |-> params,
   passed |-> passed, exchange |-> exchange, provenance |-> provenance, truth |-> truth]

\* _run_over_windows and _mutate: the defaults on every window long enough;
\* where they fail, the other parameter sets in turn until one passes.
Tried(outcome) ==
  {p \in 1..Combos : /\ p > 1 => outcome[1] = "fail"
                     /\ \A q \in 1..(p - 1) : outcome[q] # "pass"}
RowsOver(c, windows, outcomes, exchange, provenance, truth) ==
  UNION {{ResultRow(c, w, p, outcomes[w][p] = "pass", exchange, provenance, truth) :
            p \in {q \in Tried(outcomes[w]) : outcomes[w][q] # "short"}} : w \in windows}
Outcomes(windows) == [windows -> [1..Combos -> {"pass", "fail", "short"}]]

BeginEngine ==
  /\ job.pc = "idle" /\ runs < MaxRuns
  /\ job' = [NoJob EXCEPT !.pc = "run", !.todo = Candidates]
  /\ runs' = runs + 1
  /\ UNCHANGED <<sources, flags, results, onRecord>>

\* One candidate.  The audit is taken once per engine; an instrument whose
\* venue it cannot establish is refused, rows that cannot be read skip it.
\* Funding rates are Binance's, whatever the audit says.
Windows == IF job.kind = "engine" THEN EngineWindows ELSE {"INDEPENDENT"}
Cache == IF job.cache = NoCache THEN Audit ELSE job.cache
Refused(c) ==
  \/ \E i \in DOMAIN c.on : ~SingleSourced(Cache, c.on[i])
  \/ job.kind = "rebuild" /\ Cache[c.on[1]] # {Kraken}
Skip(c) ==
  /\ job.pc = "run" /\ c \in job.todo
  /\ \/ c.strategy # "funding" /\ Refused(c)
     \/ "readFails" \in RecordFaults
  /\ job' = [job EXCEPT !.todo = @ \ {c}, !.cache = IF c.strategy = "funding" THEN @ ELSE Cache]
  /\ UNCHANGED <<sources, flags, results, runs, onRecord>>
Backtest(c) ==
  /\ job.pc = "run" /\ c \in job.todo /\ c.strategy # "funding"
  /\ ~Refused(c)
  /\ \E outcomes \in Outcomes(Windows) :
       LET venue == [i \in DOMAIN c.on |-> SourceOf(Cache, c.on[i])]
           truth == [i \in DOMAIN c.on |-> PricesOf(venue[i], c.on[i])]
       IN job' = [job EXCEPT !.todo = @ \ {c}, !.cache = Cache,
                    !.rows = @ \cup RowsOver(c, Windows, outcomes, venue, "verified", truth)]
  /\ UNCHANGED <<sources, flags, results, runs, onRecord>>
BacktestFunding(c) ==
  /\ job.pc = "run" /\ c \in job.todo /\ c.strategy = "funding"
  /\ \E outcomes \in Outcomes(Windows) :
       job' = [job EXCEPT !.todo = @ \ {c},
                 !.rows = @ \cup RowsOver(c, Windows, outcomes, <<Binance>>,
                                          "inferred_from_symbol", <<{Binance}>>)]
  /\ UNCHANGED <<sources, flags, results, runs, onRecord>>

\* insert_engine_results, in one transaction; an error inserts nothing.
Recorded(rows) ==
  {results \cup rows} \cup (IF "insertFails" \in RecordFaults THEN {results} ELSE {})

\* _persist_results: one insert; its failure is logged.
Persist ==
  /\ job.todo = {} /\ job.pc = IF job.kind = "engine" THEN "run" ELSE "write"
  /\ results' \in Recorded(job.rows)
  /\ job' = NoJob
  /\ UNCHANGED <<sources, flags, runs, onRecord>>

JobDies ==
  /\ "dies" \in RecordFaults /\ job.pc # "idle"
  /\ job' = NoJob
  /\ UNCHANGED <<sources, flags, results, runs, onRecord>>

-----------------------------------------------------------------------------
(* scripts/rebuild_kraken_track_record.py                                  *)

OnSymbols(rows, symbols) == {row \in rows : row.on \in {<<s>> : s \in symbols}}
BeginRebuild ==
  LET symbols == {s \in Audited : OnlyKraken(Audit, s)}
  IN /\ job.pc = "idle" /\ runs < MaxRuns /\ symbols # {}
     /\ job' = [NoJob EXCEPT !.pc = "run", !.kind = "rebuild", !.symbols = symbols,
                  !.todo = {c \in Candidates : LegCount(c) = 1 /\ c.on[1] \in symbols}]
     /\ onRecord' = {row.on[1] : row \in OnSymbols(results, symbols)}
     /\ runs' = runs + 1
     /\ UNCHANGED <<sources, flags, results>>

\* Without new rows the script stops; with them it deletes the old ones and
\* commits, then persists.  Faulty variant: it deletes nothing.
KeepLegacy(rows, symbols) == rows
DeleteLegacy(rows, symbols) ==
  rows \ {row \in OnSymbols(rows, symbols) : row.window = "EXPANDING"}
Replace ==
  /\ job.pc = "run" /\ job.kind = "rebuild" /\ job.todo = {}
  /\ IF job.rows = {}
     THEN job' = NoJob /\ UNCHANGED results
     ELSE /\ results' = DeleteLegacy(results, job.symbols)
          /\ job' = [job EXCEPT !.pc = "write"]
  /\ UNCHANGED <<sources, flags, runs, onRecord>>

-----------------------------------------------------------------------------
(* The leaderboard.                                                        *)

\* Its candidates, by strategy, instrument and parameters.
OnBoard == {[strategy |-> row.strategy, on |-> row.on, params |-> row.params] : row \in results}
RowsOf(c) ==
  {row \in results : row.strategy = c.strategy /\ row.on = c.on /\ row.params = c.params}

\* prop_eligible: a symbol never audited is not.
PropEligible(c) == LegCount(c) = 1 /\ c.on[1] \in DOMAIN flags /\ flags[c.on[1]]

\* Rows of an engine that did not yet record the venue.
LegacyRows(from) ==
  {[run |-> 0, strategy |-> c.strategy, on |-> c.on, window |-> "EXPANDING", params |-> 1,
    passed |-> TRUE, exchange |-> <<>>, provenance |-> "unknown",
    truth |-> IF c.strategy = "funding" THEN <<{Binance}>> ELSE [i \in DOMAIN c.on |-> from[c.on[i]]]] :
   c \in {d \in Candidates : \A i \in DOMAIN d.on : from[d.on[i]] # {}}}

RecordInit ==
  /\ sources \in {from \in [Symbols -> SUBSET Venues] :
                    \A s \in Symbols : from[s] \subseteq {v \in Venues : s \in Lists[v]}}
  /\ results \in {{}, LegacyRows(sources)}
  /\ flags = [s \in {} |-> FALSE]
  /\ job = NoJob /\ runs = 0 /\ onRecord = {}

RecordNext ==
  \/ Sync \/ BackfillExchange
  \/ \E s \in Symbols, v \in Venues : Collect(s, v)
  \/ BeginEngine \/ BeginRebuild
  \/ \E c \in Candidates : Skip(c) \/ Backtest(c) \/ BacktestFunding(c)
  \/ Replace \/ Persist \/ JobDies

RecordSpec == RecordInit /\ [][RecordNext]_recordVars

-----------------------------------------------------------------------------
\* A row says where its prices came from, or nothing: a label inferred long
\* after the backtest, or taken from an audit that is no longer current, is
\* still the venue of every price that went in.  Funding rows of before the
\* venue was recorded are left out: their funding rates are Binance's, their
\* label is inferred from the bars, and HTX lists bars under the same names.
LabelsAreTrue ==
  \A row \in results :
    /\ row.provenance # "unknown"
    /\ row.strategy = "funding" => row.run > 0
    => row.truth = [i \in DOMAIN row.on |-> {row.exchange[i]}]

\* What the leaderboard offers to the Kraken pipeline was measured on
\* Kraken's prices alone, although its flag is as old as the last audit.
RankedIsKraken ==
  \A c \in OnBoard : PropEligible(c) => \A row \in RowsOf(c) : row.truth = <<{Kraken}>>

\* The rebuild never leaves a symbol without the record it had.
NeverWorse ==
  job.pc = "idle" => \A s \in onRecord : OnSymbols(results, {s}) # {}
=============================================================================
