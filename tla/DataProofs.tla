------------------------------ MODULE DataProofs ------------------------------
(***************************************************************************)
(* Proofs about the data: what the track record says of the prices a       *)
(* backtest was measured on (TrackRecord), and which bars are stored       *)
(* (DataCollection).                                                       *)
(***************************************************************************)
EXTENDS DataCollection, TrackRecord, FiniteSetTheorems, TLAPS

-----------------------------------------------------------------------------
(***************************************************************************)
(* The track record.  A venue, once it has rows of a symbol, keeps them:   *)
(* `sources' only grows, so an audit that names one venue, however old,    *)
(* names one that still has rows, and what a backtest read of the symbol   *)
(* was that venue's.  The invariant relates each row to `sources' and to   *)
(* the flags, and so does the audit an engine holds in memory.             *)
(***************************************************************************)
Flagged == {s \in DOMAIN flags : flags[s]}

\* The prices of a row came from venues that have rows of its symbols.
Measured(row, from) ==
  /\ row.truth = [i \in DOMAIN row.on |-> row.truth[i]]
  /\ \A i \in DOMAIN row.on :
       row.on[i] \in Symbols /\ row.truth[i] # {} /\ row.truth[i] \subseteq from[row.on[i]]

RowSound(row, from, flagged) ==
  /\ row.strategy = "single" => \E s \in Symbols : row.on = <<s>>
  /\ row.strategy = "funding" => \E s \in Perps : row.on = <<s>> /\ row.truth = <<{Binance}>>
  /\ row.strategy # "funding" => Measured(row, from)
  /\ row.strategy = "single" /\ row.on[1] \in flagged => row.truth = <<{Kraken}>>

CacheSound(cache, from, flagged) ==
  \A s \in DOMAIN cache :
    /\ s \in Symbols /\ cache[s] # {} /\ cache[s] \subseteq from[s]
    /\ s \in flagged => Kraken \in cache[s]

SourcesSound ==
  /\ sources \in [Symbols -> SUBSET Venues]
  /\ \A s \in Symbols : \A v \in sources[s] : s \in Lists[v]

JobShape ==
  \E pc, kind, cache, todo, rows, symbols :
    job = [pc |-> pc, kind |-> kind, cache |-> cache, todo |-> todo, rows |-> rows,
           symbols |-> symbols]

RecordInv ==
  /\ SourcesSound
  /\ \A s \in Flagged : s \in Symbols /\ Kraken \in sources[s]
  /\ JobShape
  /\ CacheSound(job.cache, sources, Flagged)
  /\ \A row \in results \cup job.rows : RowSound(row, sources, Flagged)
\* An established venue is the only one with rows.
LEMMA OneVenue ==
  ASSUME NEW cache, NEW s, SingleSourced(cache, s), s \in DOMAIN cache => cache[s] \subseteq Venues
  PROVE  /\ SourceOf(cache, s) \in Venues
         /\ cache[s] = {SourceOf(cache, s)}
  <1>1. PICK v : cache[s] = {v}
    <2>1. s \in DOMAIN cache /\ Cardinality(cache[s]) = 1
      BY DEF SingleSourced
    <2>2. IsFiniteSet(cache[s])
      BY <2>1, FS_Subset, RecordConstants DEF RecordConstants
    <2>. QED
      BY <2>1, <2>2, FS_Singleton
  <1>2. v \in Venues
    BY <1>1 DEF SingleSourced
  <1>. QED
    BY <1>1, <1>2 DEF SourceOf

\* What a candidate trades.
LEMMA CandidateOn ==
  ASSUME NEW c \in Candidates
  PROVE  /\ c.strategy = "single" => \E s \in Symbols : c.on = <<s>>
         /\ c.strategy = "funding" => \E s \in Perps : c.on = <<s>>
         /\ \A i \in DOMAIN c.on : c.on[i] \in Symbols
  BY RecordConstants DEF Candidates, RecordConstants

\* The rows of a backtest share what was backtested and on which prices.
LEMMA RowsAre ==
  ASSUME NEW c, NEW windows, NEW outcomes, NEW exchange, NEW provenance, NEW truth,
         NEW row \in RowsOver(c, windows, outcomes, exchange, provenance, truth)
  PROVE  /\ row.strategy = c.strategy /\ row.on = c.on /\ row.truth = truth
         /\ row.exchange = exchange /\ row.provenance = provenance
  BY DEF RowsOver, ResultRow

\* A sound row stays sound while venues are added and flags withdrawn.
LEMMA RowStaysSound ==
  ASSUME NEW row, NEW from, NEW to, NEW flagged, NEW remaining,
         RowSound(row, from, flagged),
         \A s \in Symbols : from[s] \subseteq to[s],
         remaining \subseteq flagged
  PROVE  RowSound(row, to, remaining)
  BY DEF RowSound, Measured
\* What an engine reads of a symbol whose venue it has established.
LEMMA EstablishedReads ==
  ASSUME NEW cache, CacheSound(cache, sources, Flagged), NEW s \in DOMAIN cache,
         SingleSourced(cache, s), SourcesSound
  PROVE  LET v == SourceOf(cache, s)
         IN PricesOf(v, s) = {v} /\ {v} \subseteq sources[s] /\ (s \in Flagged => v = Kraken)
  <1>1. /\ s \in Symbols /\ cache[s] \subseteq sources[s] /\ sources[s] \subseteq Venues
        /\ s \in Flagged => Kraken \in cache[s]
    BY DEF CacheSound, SourcesSound
  <1>2. cache[s] = {SourceOf(cache, s)}
    BY <1>1, OneVenue
  <1>. QED
    BY <1>1, <1>2 DEF PricesOf

\* The audit of the moment is a sound one to hold.
LEMMA CacheIsSound ==
  ASSUME RecordInv
  PROVE  CacheSound(Cache, sources, Flagged)
  <1>1. CacheSound(Audit, sources, Flagged)
    BY DEF RecordInv, SourcesSound, CacheSound, Audit, Audited
  <1>. QED
    BY <1>1 DEF RecordInv, Cache

LEMMA RecordInvInit == RecordInit => RecordInv
  <1>. SUFFICES ASSUME RecordInit PROVE RecordInv
    OBVIOUS
  <1>1. SourcesSound
    BY DEF RecordInit, SourcesSound
  <1>2. Flagged = {}
    BY DEF RecordInit, Flagged
  <1>3. JobShape /\ job.rows = {} /\ job.cache = NoCache
    BY DEF RecordInit, JobShape, NoJob
  <1>4. CacheSound(job.cache, sources, Flagged)
    BY <1>3 DEF CacheSound, NoCache
  <1>5. ASSUME NEW row \in results PROVE RowSound(row, sources, Flagged)
    <2>1. PICK c \in Candidates :
            /\ \A i \in DOMAIN c.on : sources[c.on[i]] # {}
            /\ row.strategy = c.strategy /\ row.on = c.on
            /\ row.truth = IF c.strategy = "funding" THEN <<{Binance}>>
                           ELSE [i \in DOMAIN c.on |-> sources[c.on[i]]]
      <3>1. row \in LegacyRows(sources)
        BY <1>5 DEF RecordInit
      <3>2. PICK c \in {d \in Candidates : \A i \in DOMAIN d.on : sources[d.on[i]] # {}} :
              row = [run |-> 0, strategy |-> c.strategy, on |-> c.on, window |-> "EXPANDING",
                     params |-> 1, passed |-> TRUE, exchange |-> <<>>, provenance |-> "unknown",
                     truth |-> IF c.strategy = "funding" THEN <<{Binance}>>
                               ELSE [i \in DOMAIN c.on |-> sources[c.on[i]]]]
        BY <3>1, Zenon DEF LegacyRows
      <3>3. row.strategy = c.strategy /\ row.on = c.on
        BY <3>2, Zenon
      <3>4. row.truth = IF c.strategy = "funding" THEN <<{Binance}>>
                        ELSE [i \in DOMAIN c.on |-> sources[c.on[i]]]
        BY <3>2, Zenon
      <3>. QED
        BY <3>2, <3>3, <3>4
    <2>2. row.strategy # "funding" => Measured(row, sources)
      BY <2>1, CandidateOn DEF Measured
    <2>. QED
      BY <2>1, <2>2, <1>2, CandidateOn DEF RowSound
  <1>. QED
    BY <1>1, <1>2, <1>3, <1>4, <1>5 DEF RecordInv

\* A job that keeps its cache, or drops it, and writes no row.
LEMMA JobKeeps ==
  ASSUME RecordInv, UNCHANGED <<sources, flags>>, JobShape',
         job'.cache \in {job.cache, NoCache, Cache}, job'.rows \subseteq job.rows,
         results' \subseteq results \cup job.rows
  PROVE  RecordInv'
  <1>1. SourcesSound' /\ Flagged' = Flagged /\ sources' = sources
    BY DEF RecordInv, SourcesSound, Flagged
  <1>2. CacheSound(NoCache, sources, Flagged)
    BY DEF CacheSound, NoCache
  <1>3. CacheSound(job'.cache, sources, Flagged)
    BY <1>2, CacheIsSound DEF RecordInv
  <1>4. \A row \in results' \cup job'.rows : RowSound(row, sources, Flagged)
    BY DEF RecordInv
  <1>. QED
    BY <1>1, <1>3, <1>4 DEF RecordInv

\* New audits and new prices: no job moves, and no row is touched.
LEMMA TablesKeep ==
  ASSUME RecordInv, SourcesSound', UNCHANGED <<results, job>>,
         \A s \in Symbols : sources[s] \subseteq sources'[s],
         \A s \in Flagged' : s \in Flagged \/ (s \in Symbols /\ sources'[s] = {Kraken})
  PROVE  RecordInv'
  <1>1. \A s \in Flagged' : s \in Symbols /\ Kraken \in sources'[s]
    BY DEF RecordInv
  <1>2. CacheSound(job.cache, sources', Flagged')
    BY DEF RecordInv, CacheSound
  <1>3. ASSUME NEW row \in results \cup job.rows PROVE RowSound(row, sources', Flagged')
    <2>1. RowSound(row, sources, Flagged)
      BY DEF RecordInv
    <2>2. row.strategy # "funding" => Measured(row, sources')
      BY <2>1 DEF RowSound, Measured
    <2>3. ASSUME row.strategy = "single", row.on[1] \in Flagged', row.on[1] \notin Flagged
          PROVE  row.truth = <<{Kraken}>>
      <3>1. PICK s \in Symbols : row.on = <<s>>
        BY <2>1, <2>3 DEF RowSound
      <3>2. sources'[s] = {Kraken} /\ DOMAIN row.on = 1..1 /\ row.on[1] = s
        BY <2>3, <3>1
      <3>3. row.truth[1] = {Kraken} /\ row.truth = [i \in 1..1 |-> row.truth[i]]
        BY <2>2, <2>3, <3>2 DEF Measured
      <3>. QED
        BY <3>3
    <2>. QED
      BY <2>1, <2>2, <2>3 DEF RowSound
  <1>. QED
    BY <1>1, <1>2, <1>3 DEF RecordInv, JobShape
\* The rows a candidate adds are sound.
LEMMA RowsAdded ==
  ASSUME RecordInv, UNCHANGED <<sources, flags, results>>,
         NEW cache \in {job.cache, Cache}, NEW added,
         \E todo : job' = [job EXCEPT !.todo = todo, !.cache = cache, !.rows = @ \cup added],
         \A row \in added : RowSound(row, sources, Flagged)
  PROVE  RecordInv'
  <1>1. SourcesSound' /\ Flagged' = Flagged /\ sources' = sources
    BY DEF RecordInv, SourcesSound, Flagged
  <1>2. JobShape' /\ job'.cache = cache /\ job'.rows = job.rows \cup added
    BY Zenon DEF RecordInv, JobShape
  <1>3. CacheSound(cache, sources, Flagged)
    BY CacheIsSound DEF RecordInv
  <1>4. \A row \in results' \cup job'.rows : RowSound(row, sources, Flagged)
    BY <1>2 DEF RecordInv
  <1>. QED
    BY <1>1, <1>2, <1>3, <1>4 DEF RecordInv

LEMMA BacktestKeeps ==
  ASSUME RecordInv, NEW c \in Candidates, Backtest(c)
  PROVE  RecordInv'
  <1> DEFINE venue == [i \in DOMAIN c.on |-> SourceOf(Cache, c.on[i])]
             truth == [i \in DOMAIN c.on |-> PricesOf(venue[i], c.on[i])]
  <1>1. PICK outcomes :
          job' = [job EXCEPT !.todo = @ \ {c}, !.cache = Cache,
                    !.rows = @ \cup RowsOver(c, Windows, outcomes, venue, "verified", truth)]
    BY DEF Backtest
  <1>2. ASSUME NEW i \in DOMAIN c.on
        PROVE  /\ truth[i] = {venue[i]} /\ truth[i] \subseteq sources[c.on[i]]
               /\ c.on[i] \in Flagged => venue[i] = Kraken
    <2>1. SingleSourced(Cache, c.on[i]) /\ c.on[i] \in DOMAIN Cache
      BY DEF Backtest, Refused, SingleSourced
    <2>. QED
      BY <2>1, CacheIsSound, EstablishedReads DEF RecordInv
  <1> HIDE DEF venue, truth
  <1>3. truth = [i \in DOMAIN c.on |-> truth[i]]
    BY DEF truth
  <1>4. ASSUME NEW row \in RowsOver(c, Windows, outcomes, venue, "verified", truth)
        PROVE  RowSound(row, sources, Flagged)
    <2>1. row.strategy = c.strategy /\ row.on = c.on /\ row.truth = truth
      BY RowsAre
    <2>2. row.strategy # "funding" /\ Measured(row, sources)
      <3>1. c.strategy # "funding"
        BY DEF Backtest
      <3>2. \A i \in DOMAIN c.on : c.on[i] \in Symbols
        BY CandidateOn
      <3>3. \A i \in DOMAIN c.on : truth[i] # {} /\ truth[i] \subseteq sources[c.on[i]]
        BY <1>2
      <3>4. Measured(row, sources)
        BY <2>1, <1>3, <3>2, <3>3 DEF Measured
      <3>. QED
        BY <2>1, <3>1, <3>4
    <2>3. ASSUME row.strategy = "single", row.on[1] \in Flagged
          PROVE  row.truth = <<{Kraken}>>
      <3>1. DOMAIN c.on = 1..1
        <4>1. PICK s \in Symbols : c.on = <<s>>
          BY <2>1, <2>3, CandidateOn
        <4>. QED
          BY <4>1
      <3>2. truth[1] = {Kraken}
        BY <3>1, <2>1, <2>3, <1>2
      <3>. QED
        BY <2>1, <3>1, <3>2, <1>3
    <2>. QED
      BY <2>1, <2>2, <2>3, CandidateOn DEF RowSound
  <1>5. \E todo : job' = [job EXCEPT !.todo = todo, !.cache = Cache,
                    !.rows = @ \cup RowsOver(c, Windows, outcomes, venue, "verified", truth)]
    BY <1>1, Zenon
  <1>. QED
    BY <1>4, <1>5, RowsAdded DEF Backtest

LEMMA BacktestFundingKeeps ==
  ASSUME RecordInv, NEW c \in Candidates, BacktestFunding(c)
  PROVE  RecordInv'
  <1>1. PICK outcomes :
          job' = [job EXCEPT !.todo = @ \ {c},
                    !.rows = @ \cup RowsOver(c, Windows, outcomes, <<Binance>>,
                                             "inferred_from_symbol", <<{Binance}>>)]
    BY DEF BacktestFunding
  <1> DEFINE added == RowsOver(c, Windows, outcomes, <<Binance>>,
                               "inferred_from_symbol", <<{Binance}>>)
  <1>2. ASSUME NEW row \in added PROVE RowSound(row, sources, Flagged)
    <2>1. row.strategy = "funding" /\ row.on = c.on /\ row.truth = <<{Binance}>>
      BY <1>2, RowsAre DEF BacktestFunding
    <2>. QED
      BY <2>1, CandidateOn DEF RowSound, BacktestFunding
  <1> HIDE DEF added
  <1>3. \E todo : job' = [job EXCEPT !.todo = todo, !.cache = job.cache,
                                      !.rows = @ \cup added]
    <2>1. job' = [job EXCEPT !.todo = @ \ {c}, !.rows = @ \cup added]
      BY <1>1, Zenon DEF added
    <2>2. job' = [job EXCEPT !.todo = job.todo \ {c}, !.cache = job.cache,
                              !.rows = @ \cup added]
      BY <2>1 DEF RecordInv, JobShape
    <2>. QED
      BY <2>2, Zenon
  <1>. QED
    BY <1>2, <1>3, RowsAdded DEF BacktestFunding

LEMMA BackfillKeeps ==
  ASSUME RecordInv, BackfillExchange
  PROVE  RecordInv'
  <1>1. SourcesSound' /\ Flagged' = Flagged /\ UNCHANGED <<sources, job>>
    BY DEF RecordInv, SourcesSound, Flagged, BackfillExchange
  <1>2. ASSUME NEW row \in results PROVE RowSound(Inferred(row), sources, Flagged)
    <2>1. RowSound(row, sources, Flagged)
      BY DEF RecordInv
    <2>2. /\ Inferred(row).on = row.on /\ Inferred(row).truth = row.truth
          /\ Inferred(row).strategy = row.strategy
      BY DEF Inferred
    <2>. QED
      BY <2>1, <2>2 DEF RowSound, Measured
  <1>3. \A row \in results' \cup job.rows : RowSound(row, sources, Flagged)
    BY <1>2 DEF RecordInv, BackfillExchange
  <1>. QED
    BY <1>1, <1>3 DEF RecordInv, JobShape

LEMMA RecordInvStep ==
  ASSUME RecordInv, [RecordNext]_recordVars
  PROVE  RecordInv'
  <1>1. ASSUME UNCHANGED recordVars PROVE RecordInv'
    BY <1>1, JobKeeps DEF recordVars, RecordInv, JobShape
  <1>2. ASSUME Sync PROVE RecordInv'
    <2>1. SourcesSound' /\ UNCHANGED <<sources, results, job>>
      BY <1>2 DEF Sync, RecordInv, SourcesSound
    <2>2. \A s \in Flagged' : s \in Flagged \/ (s \in Symbols /\ sources'[s] = {Kraken})
      BY <1>2 DEF Sync, Flagged, Audited, Audit, OnlyKraken
    <2>. QED
      BY <2>1, <2>2, TablesKeep
  <1>3. ASSUME NEW s \in Symbols, NEW v \in Venues, Collect(s, v) PROVE RecordInv'
    <2>1. SourcesSound' /\ UNCHANGED <<results, job, flags>>
      BY <1>3 DEF Collect, RecordInv, SourcesSound
    <2>2. \A t \in Symbols : sources[t] \subseteq sources'[t]
      BY <1>3 DEF Collect, RecordInv, SourcesSound
    <2>3. Flagged' = Flagged
      BY <2>1 DEF Flagged
    <2>. QED
      BY <2>1, <2>2, <2>3, TablesKeep
  <1>4. ASSUME BeginEngine PROVE RecordInv'
    <2>1. JobShape' /\ job'.cache = NoCache /\ job'.rows = {}
      BY <1>4 DEF BeginEngine, NoJob, JobShape
    <2>. QED
      BY <1>4, <2>1, JobKeeps DEF BeginEngine
  <1>5. ASSUME BeginRebuild PROVE RecordInv'
    <2>1. JobShape' /\ job'.cache = NoCache /\ job'.rows = {}
      BY <1>5 DEF BeginRebuild, NoJob, JobShape
    <2>. QED
      BY <1>5, <2>1, JobKeeps DEF BeginRebuild
  <1>6. ASSUME NEW c \in Candidates, Skip(c) PROVE RecordInv'
    <2>1. JobShape' /\ job'.cache \in {job.cache, Cache} /\ job'.rows = job.rows
      BY <1>6 DEF Skip, RecordInv, JobShape
    <2>. QED
      BY <1>6, <2>1, JobKeeps DEF Skip
  <1>7. ASSUME Replace PROVE RecordInv'
    <2>1. JobShape' /\ job'.cache \in {job.cache, NoCache} /\ job'.rows \subseteq job.rows
      BY <1>7 DEF Replace, RecordInv, JobShape, NoJob
    <2>2. results' \subseteq results
      BY <1>7 DEF Replace, DeleteLegacy
    <2>. QED
      BY <1>7, <2>1, <2>2, JobKeeps DEF Replace
  <1>8. ASSUME Persist PROVE RecordInv'
    <2>1. JobShape' /\ job'.cache = NoCache /\ job'.rows = {}
      BY <1>8 DEF Persist, NoJob, JobShape
    <2>2. results' \subseteq results \cup job.rows
      BY <1>8 DEF Persist, Recorded
    <2>. QED
      BY <1>8, <2>1, <2>2, JobKeeps DEF Persist
  <1>9. ASSUME JobDies PROVE RecordInv'
    <2>1. JobShape' /\ job'.cache = NoCache /\ job'.rows = {}
      BY <1>9 DEF JobDies, NoJob, JobShape
    <2>. QED
      BY <1>9, <2>1, JobKeeps DEF JobDies
  <1>. QED
    BY <1>1, <1>2, <1>3, <1>4, <1>5, <1>6, <1>7, <1>8, <1>9, BackfillKeeps, BacktestKeeps,
       BacktestFundingKeeps DEF RecordNext

\* Every row of the leaderboard that the Kraken pipeline may take was measured
\* on Kraken's prices alone, however old its flag and its engine's audit: for
\* any symbols and venues, parameter sets, runs and faults.
THEOREM RankedOnKraken == RecordSpec => []RankedIsKraken
  <1>1. RecordInv => RankedIsKraken
    <2>. SUFFICES ASSUME RecordInv, NEW c \in OnBoard, PropEligible(c), NEW row \in RowsOf(c)
                  PROVE  row.truth = <<{Kraken}>>
      BY DEF RankedIsKraken
    <2>1. RowSound(row, sources, Flagged)
      BY DEF RecordInv, RowsOf
    <2>2. row.strategy = "single" /\ row.on[1] \in Flagged
      BY DEF RowsOf, PropEligible, LegCount, Flagged
    <2>. QED
      BY <2>1, <2>2 DEF RowSound
  <1>. QED
    BY <1>1, RecordInvInit, RecordInvStep, PTL DEF RecordSpec
-----------------------------------------------------------------------------
(***************************************************************************)
(* Labels.  A row of an engine that does not record the venue has no label *)
(* until one is inferred from the venues of today, and an engine that      *)
(* does record it labels what it read.  The funding rows of the former are *)
(* left out, as in the property.                                           *)
(***************************************************************************)
HasLabel(row) == {"run", "exchange", "provenance", "truth", "on", "strategy"} \subseteq DOMAIN row
Labelled(row) ==
  /\ row.provenance = "unknown" => row.run = 0
  /\ row.provenance # "unknown" /\ (row.strategy = "funding" => row.run > 0)
     => row.truth = [i \in DOMAIN row.on |-> {row.exchange[i]}]
LabelInv == \A row \in results \cup job.rows : HasLabel(row) /\ Labelled(row)

LEMMA RowsHaveLabels ==
  ASSUME NEW c, NEW windows, NEW outcomes, NEW exchange, NEW provenance, NEW truth,
         NEW row \in RowsOver(c, windows, outcomes, exchange, provenance, truth)
  PROVE  HasLabel(row)
  BY DEF RowsOver, ResultRow, HasLabel

LEMMA LabelInvInit == RecordInit => LabelInv
  <1>. SUFFICES ASSUME RecordInit PROVE LabelInv
    OBVIOUS
  <1>1. job.rows = {}
    BY DEF RecordInit, NoJob
  <1>2. ASSUME NEW row \in LegacyRows(sources)
        PROVE  HasLabel(row) /\ row.provenance = "unknown" /\ row.run = 0
    <2>1. HasLabel(row)
      BY DEF LegacyRows, HasLabel
    <2>2. row.provenance = "unknown" /\ row.run = 0
      BY DEF LegacyRows
    <2>. QED
      BY <2>1, <2>2
  <1>. QED
    BY <1>1, <1>2 DEF RecordInit, LabelInv, Labelled

\* A label inferred from the venues of today is the venue of the prices.
LEMMA InferredIsTrue ==
  ASSUME SourcesSound, NEW row, NEW flagged,
         RowSound(row, sources, flagged), row.strategy # "funding",
         \A s \in {row.on[i] : i \in DOMAIN row.on} : SingleSourced(Audit, s)
  PROVE  row.truth = [i \in DOMAIN row.on |-> {SourceOf(Audit, row.on[i])}]
  <1>1. ASSUME NEW s \in Symbols, SingleSourced(Audit, s)
        PROVE  sources[s] = {SourceOf(Audit, s)}
    <2>1. s \in DOMAIN Audit /\ Audit[s] = sources[s]
      BY <1>1 DEF SingleSourced, Audit
    <2>2. sources[s] \subseteq Venues
      BY DEF SourcesSound
    <2>3. Audit[s] = {SourceOf(Audit, s)}
      BY <1>1, <2>1, <2>2, OneVenue
    <2>. QED
      BY <2>1, <2>3
  <1>2. Measured(row, sources)
    BY DEF RowSound
  <1>3. ASSUME NEW i \in DOMAIN row.on
        PROVE  row.truth[i] = {SourceOf(Audit, row.on[i])}
    <2>1. row.on[i] \in Symbols /\ SingleSourced(Audit, row.on[i])
      BY <1>2 DEF Measured
    <2>2. sources[row.on[i]] = {SourceOf(Audit, row.on[i])}
      BY <2>1, <1>1
    <2>. QED
      BY <1>2, <2>2 DEF Measured
  <1>. QED
    BY <1>2, <1>3 DEF Measured

LEMMA LabelsBackfill ==
  ASSUME RecordInv, LabelInv, BackfillExchange
  PROVE  LabelInv'
  <1>1. ASSUME NEW row \in results PROVE HasLabel(Inferred(row)) /\ Labelled(Inferred(row))
    <2>1. HasLabel(row) /\ Labelled(row) /\ RowSound(row, sources, Flagged) /\ SourcesSound
      BY DEF LabelInv, RecordInv
    <2>2. CASE Inferred(row) = row
      BY <2>1, <2>2
    <2>3. CASE Inferred(row) # row
      <3>1. /\ row.provenance = "unknown"
            /\ \A s \in {row.on[i] : i \in DOMAIN row.on} : SingleSourced(Audit, s)
            /\ Inferred(row) = [row EXCEPT !.provenance = "inferred_from_symbol",
                                  !.exchange = [i \in DOMAIN row.on |-> SourceOf(Audit, row.on[i])]]
        BY <2>3, Zenon DEF Inferred
      <3>2. /\ DOMAIN Inferred(row) = DOMAIN row
            /\ Inferred(row).on = row.on /\ Inferred(row).truth = row.truth
            /\ Inferred(row).run = row.run /\ Inferred(row).strategy = row.strategy
        BY <3>1
      <3>3. /\ Inferred(row).exchange = [i \in DOMAIN row.on |-> SourceOf(Audit, row.on[i])]
            /\ Inferred(row).provenance = "inferred_from_symbol"
        BY <2>1, <3>1 DEF HasLabel
      <3>4. row.run = 0
        BY <2>1, <3>1 DEF Labelled
      <3>5. row.strategy # "funding" =>
              row.truth = [i \in DOMAIN row.on |-> {SourceOf(Audit, row.on[i])}]
        BY <2>1, <3>1, InferredIsTrue
      <3>. QED
        BY <2>1, <3>2, <3>3, <3>4, <3>5 DEF HasLabel, Labelled
    <2>. QED
      BY <2>2, <2>3
  <1>. QED
    BY <1>1 DEF LabelInv, BackfillExchange

LEMMA LabelsBacktest ==
  ASSUME RecordInv, LabelInv, NEW c \in Candidates, Backtest(c)
  PROVE  LabelInv'
  <1> DEFINE venue == [i \in DOMAIN c.on |-> SourceOf(Cache, c.on[i])]
             truth == [i \in DOMAIN c.on |-> PricesOf(venue[i], c.on[i])]
  <1>1. PICK outcomes :
          job' = [job EXCEPT !.todo = @ \ {c}, !.cache = Cache,
                    !.rows = @ \cup RowsOver(c, Windows, outcomes, venue, "verified", truth)]
    BY DEF Backtest
  <1>2. ASSUME NEW i \in DOMAIN c.on PROVE PricesOf(venue[i], c.on[i]) = {venue[i]}
    <2>1. SingleSourced(Cache, c.on[i]) /\ c.on[i] \in DOMAIN Cache
      BY DEF Backtest, Refused, SingleSourced
    <2>. QED
      BY <2>1, CacheIsSound, EstablishedReads DEF RecordInv
  <1>3. truth = [i \in DOMAIN c.on |-> {venue[i]}]
    BY <1>2
  <1> HIDE DEF venue, truth
  <1>4. ASSUME NEW row \in RowsOver(c, Windows, outcomes, venue, "verified", truth)
        PROVE  HasLabel(row) /\ Labelled(row)
    <2>1. /\ row.on = c.on /\ row.truth = truth /\ row.exchange = venue
          /\ row.provenance = "verified"
      BY RowsAre
    <2>. QED
      BY <2>1, <1>3, RowsHaveLabels DEF Labelled
  <1>5. job'.rows = job.rows \cup RowsOver(c, Windows, outcomes, venue, "verified", truth)
    BY <1>1, Zenon DEF RecordInv, JobShape
  <1>. QED
    BY <1>4, <1>5 DEF LabelInv, Backtest

LEMMA LabelsFunding ==
  ASSUME RecordInv, LabelInv, NEW c \in Candidates, BacktestFunding(c)
  PROVE  LabelInv'
  <1>1. PICK outcomes :
          job' = [job EXCEPT !.todo = @ \ {c},
                    !.rows = @ \cup RowsOver(c, Windows, outcomes, <<Binance>>,
                                             "inferred_from_symbol", <<{Binance}>>)]
    BY DEF BacktestFunding
  <1> DEFINE added == RowsOver(c, Windows, outcomes, <<Binance>>,
                               "inferred_from_symbol", <<{Binance}>>)
  <1>2. ASSUME NEW row \in added PROVE HasLabel(row) /\ Labelled(row)
    <2>1. /\ row.on = c.on /\ row.truth = <<{Binance}>> /\ row.exchange = <<Binance>>
          /\ row.provenance = "inferred_from_symbol"
      BY <1>2, RowsAre
    <2>2. PICK s \in Perps : c.on = <<s>>
      BY CandidateOn DEF BacktestFunding
    <2>3. Labelled(row)
      BY <2>1, <2>2 DEF Labelled
    <2>. QED
      BY <1>2, <2>3, RowsHaveLabels
  <1>3. job'.rows = job.rows \cup added
    BY <1>1, Zenon DEF RecordInv, JobShape
  <1> HIDE DEF added
  <1>. QED
    BY <1>2, <1>3 DEF LabelInv, BacktestFunding

\* A row that says where its prices came from says the truth, whether it was
\* labelled as it was written or inferred long after, and however old the
\* audit its engine held: for any symbols, venues, listings, parameter sets,
\* runs and faults.
THEOREM LabelsHold == RecordSpec => []LabelsAreTrue
  <1>1. ASSUME RecordInv, LabelInv, [RecordNext]_recordVars
        PROVE  LabelInv'
    <2>1. ASSUME results' \cup job'.rows \subseteq results \cup job.rows PROVE LabelInv'
      BY <1>1, <2>1 DEF LabelInv
    <2>2. ASSUME UNCHANGED <<results, job>> PROVE LabelInv'
      BY <2>1, <2>2
    <2>3. ASSUME job' = NoJob \/ job'.rows = {}, results' \subseteq results \cup job.rows
          PROVE  LabelInv'
      BY <2>1, <2>3 DEF NoJob
    <2>4. CASE UNCHANGED recordVars
      BY <2>2, <2>4 DEF recordVars
    <2>5. CASE Sync \/ \E s \in Symbols, v \in Venues : Collect(s, v)
      BY <2>2, <2>5 DEF Sync, Collect
    <2>6. CASE BeginEngine \/ BeginRebuild
      BY <2>3, <2>6 DEF BeginEngine, BeginRebuild, NoJob
    <2>7. ASSUME NEW c \in Candidates, Skip(c) PROVE LabelInv'
      <3>1. job'.rows = job.rows /\ results' = results
        BY <1>1, <2>7 DEF Skip, RecordInv, JobShape
      <3>. QED
        BY <2>1, <3>1
    <2>8. CASE Replace
      <3>1. job'.rows \subseteq job.rows /\ results' \subseteq results
        BY <1>1, <2>8 DEF Replace, DeleteLegacy, RecordInv, JobShape, NoJob
      <3>. QED
        BY <2>1, <3>1
    <2>9. CASE Persist
      BY <2>3, <2>9 DEF Persist, Recorded
    <2>10. CASE JobDies
      BY <2>3, <2>10 DEF JobDies
    <2>. QED
      BY <1>1, <2>4, <2>5, <2>6, <2>7, <2>8, <2>9, <2>10, LabelsBackfill, LabelsBacktest,
         LabelsFunding DEF RecordNext
  <1>2. LabelInv => LabelsAreTrue
    BY DEF LabelInv, Labelled, LabelsAreTrue
  <1>. QED
    BY <1>1, <1>2, LabelInvInit, RecordInvInit, RecordInvStep, PTL DEF RecordSpec
-----------------------------------------------------------------------------
(***************************************************************************)
(* Collecting bars.  First the largest and the smallest of a set.          *)
(***************************************************************************)
LEMMA SmallestExists ==
  ASSUME NEW S \in SUBSET Nat, S # {}
  PROVE  \E x \in S : \A y \in S : x <= y
  <1>1. PICK x \in S : \A y \in S : <<y, x>> \notin OpToRel(<, Nat)
    BY NatLessThanWellFounded, WFMin
  <1>2. ASSUME NEW y \in S PROVE x <= y
    <2>1. ~(y < x)
      BY <1>1 DEF OpToRel
    <2>. QED
      BY <2>1
  <1>. QED
    BY <1>2

LEMMA MinIsLeast ==
  ASSUME NEW S \in SUBSET Nat, S # {}
  PROVE  Min(S) \in S /\ \A y \in S : Min(S) <= y
  BY SmallestExists DEF Min

LEMMA MaxIsGreatest ==
  ASSUME NEW S \in SUBSET Int, S # {}, NEW top \in Int, \A x \in S : x <= top
  PROVE  Max(S) \in S /\ \A y \in S : y <= Max(S)
  <1> DEFINE below == {top - x : x \in S}
  <1>1. below \in SUBSET Nat /\ below # {}
    <2>1. ASSUME NEW x \in S PROVE top - x \in Nat
      BY x \in Int, x <= top
    <2>2. PICK x \in S : TRUE
      OBVIOUS
    <2>3. top - x \in below
      BY <2>2
    <2>. QED
      BY <2>1, <2>3
  <1>2. PICK d \in below : \A e \in below : d <= e
    BY <1>1, SmallestExists
  <1>3. PICK x \in S : d = top - x
    BY <1>2
  <1>4. ASSUME NEW y \in S PROVE y <= x
    <2>1. top - y \in below /\ d \in Nat
      BY <1>1
    <2>2. d <= top - y
      BY <1>2, <2>1
    <2>. QED
      BY <1>3, <2>2
  <1>. QED
    BY <1>4 DEF Max
-----------------------------------------------------------------------------
(***************************************************************************)
(* No holes.  Below a stored bar, from the first bar of all, every bar is  *)
(* stored or excused; below a bar a process holds every bar is held too,   *)
(* or stored or excused; and a process asks only for bars below which that *)
(* is so already.  The last is why a run that goes on from the latest      *)
(* stored bar, or from the beginning, leaves no hole, and why a backfill   *)
(* must adjoin the stored bars.                                            *)
(***************************************************************************)
Shape(c) ==
  \E pc, drops, since, until, rows :
    c = [pc |-> pc, drops |-> drops, since |-> since, until |-> until, rows |-> rows]

Rows(rows) ==
  /\ DOMAIN rows \subseteq Bars
  /\ \A b \in DOMAIN rows : rows[b] \in {"final", "partial"}

\* Below b nothing is missing.
Reached(b, have) == \A a \in 0..(b - 1) : a \in have

Adjoins(c, stored, skipped) ==
  /\ Shape(c) /\ c.since \in Nat /\ c.until \in Nat /\ Rows(c.rows)
  /\ \A b \in DOMAIN c.rows : Reached(b, DOMAIN c.rows \cup stored \cup skipped)
  /\ c.pc \in {"latest", "fetch"} => Reached(c.since, DOMAIN c.rows \cup stored \cup skipped)

Table(table, times) == table = [t \in times |-> table[t]]

HoleInv ==
  /\ now \in Bars /\ Table(prices, Bars)
  /\ \A t \in Stored(prices) : Reached(t, Stored(prices) \cup excused)
  /\ Table(collector, Collectors)
  /\ \A p \in Collectors : Adjoins(collector[p], Stored(prices), excused)
  /\ funding \subseteq 0..now /\ \A t \in funding : Reached(t, funding)

LEMMA StoredBars ==
  ASSUME HoleInv
  PROVE  /\ Stored(prices) \subseteq Bars /\ Bars \in SUBSET Nat /\ MaxNow \in Nat
         /\ Stored(prices) # {} => /\ Min(Stored(prices)) \in Stored(prices)
                                   /\ Max(Stored(prices)) \in Stored(prices)
  <1>1. Bars \in SUBSET Nat /\ MaxNow \in Nat
    BY CollectionConstants DEF Bars, CollectionConstants
  <1>2. Stored(prices) \subseteq Bars
    BY DEF HoleInv, Table, Stored
  <1>3. Stored(prices) \in SUBSET Nat /\ Stored(prices) \in SUBSET Int
        /\ \A x \in Stored(prices) : x <= MaxNow
    BY <1>1, <1>2 DEF Bars
  <1>4. ASSUME Stored(prices) # {}
        PROVE  Min(Stored(prices)) \in Stored(prices) /\ Max(Stored(prices)) \in Stored(prices)
    <2> DEFINE S == Stored(prices)
    <2>1. S \in SUBSET Nat /\ S \in SUBSET Int /\ S # {} /\ MaxNow \in Int
          /\ \A x \in S : x <= MaxNow
      BY <1>1, <1>3, <1>4
    <2> HIDE DEF S
    <2>2. Min(S) \in S
      BY <2>1, MinIsLeast
    <2>3. Max(S) \in S
      BY <2>1, MaxIsGreatest
    <2>. QED
      BY <2>2, <2>3 DEF S
  <1>. QED
    BY <1>1, <1>2, <1>4

\* What is stored or excused remains so, and so does what adjoins it.
LEMMA AdjoinsStays ==
  ASSUME NEW c, NEW stored, NEW skipped, NEW stored2, NEW skipped2,
         Adjoins(c, stored, skipped), stored \subseteq stored2, skipped \subseteq skipped2
  PROVE  Adjoins(c, stored2, skipped2)
  BY DEF Adjoins, Reached

\* A process with nothing in memory.
LEMMA EmptyAdjoins ==
  ASSUME NEW c, NEW stored, NEW skipped, Shape(c), c.since \in Nat, c.until \in Nat,
         c.rows = NoRows, c.pc \in {"latest", "fetch"} => Reached(c.since, stored \cup skipped)
  PROVE  Adjoins(c, stored, skipped)
  <1>1. DOMAIN c.rows = {}
    BY DEF NoRows
  <1>. QED
    BY <1>1 DEF Adjoins, Rows, Reached

LEMMA NoCollectorAdjoins ==
  ASSUME NEW stored, NEW skipped
  PROVE  Adjoins(NoCollector, stored, skipped)
  <1>1. Shape(NoCollector) /\ NoCollector.since = 0 /\ NoCollector.until = 0
        /\ NoCollector.rows = NoRows /\ NoCollector.pc = "idle"
    BY DEF NoCollector, Shape
  <1>2. DOMAIN NoRows = {}
    BY DEF NoRows
  <1>. QED
    BY <1>1, <1>2 DEF Adjoins, Rows, Reached

\* A step of one process that leaves prices and funding alone.
LEMMA CollectorSteps ==
  ASSUME HoleInv, NEW p \in Collectors, NEW c, Keep(p, c),
         UNCHANGED <<now, prices, funding>>, excused \subseteq excused',
         Adjoins(c, Stored(prices), excused')
  PROVE  HoleInv'
  <1>1. Table(collector', Collectors) /\ collector'[p] = c
        /\ \A q \in Collectors : q # p => collector'[q] = collector[q]
    BY DEF HoleInv, Keep, Table
  <1>2. \A q \in Collectors : Adjoins(collector'[q], Stored(prices), excused')
    BY <1>1, AdjoinsStays DEF HoleInv
  <1>3. \A t \in Stored(prices) : Reached(t, Stored(prices) \cup excused')
    BY DEF HoleInv, Reached
  <1>. QED
    BY <1>1, <1>2, <1>3 DEF HoleInv, Stored
\* The bounds of a page.
LEMMA ServedPage ==
  ASSUME NEW since \in Nat, now \in Bars
  PROVE  LET first == FirstServed(since)
             last == Min({first + Page - 1, now})
         IN /\ first \in Nat /\ first >= since /\ (first = since \/ first = now - Depth + 1)
            /\ last \in Int /\ last <= now /\ last <= first + Page - 1
            /\ Served(since) = first..last
  <1>1. now \in Nat /\ {Page, Depth} \subseteq Nat
    BY CollectionConstants DEF CollectionConstants, Bars
  <1>2. \A x, y \in Int : /\ Max({x, y}) \in {x, y} /\ Max({x, y}) >= x /\ Max({x, y}) >= y
                          /\ Min({x, y}) \in {x, y} /\ Min({x, y}) <= x /\ Min({x, y}) <= y
    <2>1. ASSUME NEW x \in Int, NEW y \in Int
          PROVE  Max({x, y}) \in {x, y} /\ Max({x, y}) >= x /\ Max({x, y}) >= y
      <3>1. \E m \in {x, y} : \A z \in {x, y} : m >= z
        OBVIOUS
      <3>. QED
        BY <3>1 DEF Max
    <2>2. ASSUME NEW x \in Int, NEW y \in Int
          PROVE  Min({x, y}) \in {x, y} /\ Min({x, y}) <= x /\ Min({x, y}) <= y
      <3>1. \E m \in {x, y} : \A z \in {x, y} : m <= z
        OBVIOUS
      <3>. QED
        BY <3>1 DEF Min
    <2>. QED
      BY <2>1, <2>2
  <1> DEFINE first == FirstServed(since)
  <1>3. first \in Nat /\ first >= since /\ (first = since \/ first = now - Depth + 1)
    <2>1. PICK z \in Int : z = now - Depth + 1
      BY <1>1
    <2>2. first = Max({since, z}) /\ since \in Int
      BY <2>1 DEF FirstServed
    <2>3. Max({since, z}) \in {since, z} /\ Max({since, z}) >= since
      BY <1>2, <2>1, <2>2
    <2>. QED
      BY <2>1, <2>2, <2>3
  <1> HIDE DEF first
  <1>4. LET last == Min({first + Page - 1, now})
        IN last \in Int /\ last <= now /\ last <= first + Page - 1
    <2>1. PICK z \in Int : z = first + Page - 1
      BY <1>1, <1>3
    <2>2. now \in Int
      BY <1>1
    <2>3. Min({z, now}) \in {z, now} /\ Min({z, now}) <= z /\ Min({z, now}) <= now
      BY <1>2, <2>1, <2>2
    <2>. QED
      BY <1>1, <2>1, <2>3
  <1>5. Served(since) = first..Min({first + Page - 1, now})
    BY DEF Served, first
  <1>. QED
    BY <1>3, <1>4, <1>5 DEF first

\* What a turn of the loop keeps of a page: the page's own bars, and every
\* bar before the next page, are held, stored or excused.
LEMMA PagedAdjoins ==
  ASSUME HoleInv, NEW c, Adjoins(c, Stored(prices), excused), c.pc = "fetch",
         NEW refused, NEW valid, valid # {}, valid \subseteq Served(c.since),
         Served(c.since) \subseteq valid \cup refused,
         NEW skipped,
         skipped = excused \cup refused \cup (c.since..(FirstServed(c.since) - 1))
  PROVE  Adjoins(Paged(c, valid), Stored(prices), skipped)
  <1> DEFINE first == FirstServed(c.since)
             last == Min({first + Page - 1, now})
             have == DOMAIN c.rows \cup Stored(prices) \cup excused
             d == Paged(c, valid)
             next == Max(valid) + 1
             rows == [b \in valid \cup DOMAIN c.rows |->
                        IF b \in DOMAIN c.rows THEN c.rows[b] ELSE Candle(b)]
             pc == IF next > c.until THEN "insert" ELSE "fetch"
  <1>1. /\ first \in Nat /\ first >= c.since /\ last \in Int /\ last <= now
        /\ Served(c.since) = first..last
    BY ServedPage DEF HoleInv, Adjoins
  <1>2. now \in Nat /\ MaxNow \in Nat /\ now <= MaxNow
    BY CollectionConstants DEF HoleInv, Bars, CollectionConstants
  <1> HIDE DEF first, last
  <1>3. valid \subseteq first..last /\ valid \in SUBSET Int /\ \A x \in valid : x <= now
    BY <1>1, <1>2
  <1>4. Max(valid) \in valid /\ \A x \in valid : x <= Max(valid)
    <2>1. now \in Int
      BY <1>2
    <2>. QED
      BY <2>1, <1>3, MaxIsGreatest
  <1>5. next \in Nat /\ next >= first /\ \A a \in first..(next - 1) : a \in valid \cup refused
    <2>1. Max(valid) \in first..last
      BY <1>3, <1>4
    <2>2. next \in Nat /\ next >= first /\ next - 1 <= last
      BY <1>1, <2>1
    <2>. QED
      BY <1>1, <2>2
  <1>6. d = [c EXCEPT !.rows = rows, !.since = next, !.pc = pc]
    BY DEF Paged
  <1> HIDE DEF next, rows, pc, d
  <1>7. /\ Shape(d) /\ d.rows = rows /\ d.since = next /\ d.until = c.until
    <2>1. PICK pc0, drops0, since0, until0, rows0 :
            c = [pc |-> pc0, drops |-> drops0, since |-> since0, until |-> until0, rows |-> rows0]
      BY Zenon DEF Adjoins, Shape
    <2>2. d = [pc |-> pc, drops |-> drops0, since |-> next, until |-> until0, rows |-> rows]
      BY <1>6, <2>1
    <2>. QED
      BY <2>1, <2>2, Zenon DEF Shape
  <1>8. DOMAIN rows = valid \cup DOMAIN c.rows
    BY DEF rows
  <1>9. Rows(rows)
    <2>1. valid \subseteq Bars
      BY <1>1, <1>2, <1>3 DEF Bars
    <2>. QED
      BY <2>1, <1>8 DEF rows, Rows, Adjoins, Candle
  <1>10. Reached(next, DOMAIN rows \cup Stored(prices) \cup skipped)
    <2>. SUFFICES ASSUME NEW a \in 0..(next - 1)
                  PROVE  a \in DOMAIN rows \cup Stored(prices) \cup skipped
      BY DEF Reached
    <2>1. CASE a < c.since
      <3>1. a \in have
        BY <2>1, <1>5 DEF Adjoins, Reached
      <3>. QED
        BY <3>1, <1>8
    <2>2. CASE a >= c.since /\ a < first
      <3>1. a \in c.since..(first - 1)
        BY <2>2, <1>1 DEF Adjoins
      <3>. QED
        BY <3>1 DEF first
    <2>3. CASE a >= first
      <3>1. a \in valid \cup refused
        BY <2>3, <1>1, <1>5
      <3>. QED
        BY <3>1, <1>8
    <2>. QED
      BY <2>1, <2>2, <2>3, <1>1 DEF Adjoins
  <1>11. ASSUME NEW b \in DOMAIN rows
         PROVE  Reached(b, DOMAIN rows \cup Stored(prices) \cup skipped)
    <2>1. CASE b \in DOMAIN c.rows
      <3>1. Reached(b, have)
        BY <2>1 DEF Adjoins
      <3>2. have \subseteq DOMAIN rows \cup Stored(prices) \cup skipped
        BY <1>8
      <3>. QED
        BY <3>1, <3>2 DEF Reached
    <2>2. CASE b \in valid
      <3>1. b \in Int /\ b - 1 <= next - 1 /\ next \in Nat
        BY <2>2, <1>3, <1>4, <1>5 DEF next
      <3>. QED
        BY <3>1, <1>10 DEF Reached
    <2>. QED
      BY <2>1, <2>2, <1>8
  <1>12. Adjoins(d, Stored(prices), skipped)
    <2>1. c.until \in Nat
      BY DEF Adjoins
    <2>. QED
      BY <2>1, <1>5, <1>7, <1>9, <1>10, <1>11, Zenon DEF Adjoins
  <1>. QED
    BY <1>12 DEF d
LEMMA FetchHoles ==
  ASSUME HoleInv, NEW p \in Collectors, FetchPage(p)
  PROVE  HoleInv'
  <1> DEFINE c == collector[p]
             page == Served(c.since)
  <1>1. Adjoins(c, Stored(prices), excused) /\ c.pc = "fetch"
    BY DEF HoleInv, FetchPage
  <1>2. PICK refused \in Refusals(page) :
          IF page \ refused = {}
          THEN Keep(p, [c EXCEPT !.pc = "insert"]) /\ excused' = excused \cup refused
          ELSE /\ Keep(p, Paged(c, page \ refused))
               /\ excused' = excused \cup refused \cup (c.since..(FirstServed(c.since) - 1))
    BY DEF FetchPage
  <1>3. UNCHANGED <<now, prices, funding>>
    BY DEF FetchPage
  <1>4. CASE page \ refused = {}
    <2>1. Adjoins([c EXCEPT !.pc = "insert"], Stored(prices), excused)
      <3>1. PICK pc, drops, since, until, rows :
              c = [pc |-> pc, drops |-> drops, since |-> since, until |-> until, rows |-> rows]
        BY <1>1, Zenon DEF Adjoins, Shape
      <3>2. [c EXCEPT !.pc = "insert"]
              = [pc |-> "insert", drops |-> drops, since |-> since, until |-> until, rows |-> rows]
        BY <3>1
      <3>3. /\ Shape([c EXCEPT !.pc = "insert"]) /\ [c EXCEPT !.pc = "insert"].pc = "insert"
            /\ [c EXCEPT !.pc = "insert"].since = c.since
            /\ [c EXCEPT !.pc = "insert"].until = c.until
            /\ [c EXCEPT !.pc = "insert"].rows = c.rows
        BY <3>1, <3>2, Zenon DEF Shape
      <3>. QED
        BY <1>1, <3>3 DEF Adjoins
    <2>2. excused \subseteq excused'
      BY <1>2, <1>4
    <2>3. Adjoins([c EXCEPT !.pc = "insert"], Stored(prices), excused')
      BY <2>1, <2>2, AdjoinsStays
    <2>. QED
      BY <1>2, <1>3, <1>4, <2>2, <2>3, CollectorSteps
  <1>5. CASE page \ refused # {}
    <2>1. excused' = excused \cup refused \cup (c.since..(FirstServed(c.since) - 1))
      BY <1>2, <1>5
    <2>2. Adjoins(Paged(c, page \ refused), Stored(prices), excused')
      <3>1. page \ refused \subseteq page /\ page \subseteq (page \ refused) \cup refused
        OBVIOUS
      <3>. QED
        BY <1>1, <1>5, <2>1, <3>1, PagedAdjoins
    <2>3. excused \subseteq excused'
      BY <2>1
    <2>. QED
      BY <1>2, <1>3, <1>5, <2>2, <2>3, CollectorSteps
  <1>. QED
    BY <1>4, <1>5

\* What an insert adds.
LEMMA InsertAdds ==
  ASSUME HoleInv, NEW rows, Rows(rows), prices' \in Inserts(prices, rows)
  PROVE  /\ Table(prices', Bars)
         /\ \/ Stored(prices') = Stored(prices)
            \/ Stored(prices') = Stored(prices) \cup DOMAIN rows
  <1>1. CASE prices' = prices
    BY <1>1 DEF HoleInv, Table, Stored
  <1>2. CASE prices' = Inserted(prices, rows)
    <2>1. DOMAIN prices = Bars
      BY DEF HoleInv, Table
    <2>2. prices' = [t \in Bars |-> IF prices[t] = "absent" /\ t \in DOMAIN rows
                                    THEN rows[t] ELSE prices[t]]
      BY <1>2, <2>1 DEF Inserted
    <2>3. DOMAIN prices' = Bars /\ Table(prices', Bars)
      BY <2>2 DEF Table
    <2>4. Stored(prices') = Stored(prices) \cup DOMAIN rows
      BY <2>1, <2>2, <2>3 DEF Stored, Rows
    <2>. QED
      BY <2>3, <2>4
  <1>. QED
    BY <1>1, <1>2 DEF Inserts

LEMMA InsertHoles ==
  ASSUME HoleInv, NEW p \in Collectors, Insert(p)
  PROVE  HoleInv'
  <1> DEFINE c == collector[p]
             kept == IF c.drops THEN DropOpenCandle(c.rows, c.until) ELSE c.rows
             d == IF c.drops THEN [c EXCEPT !.pc = "derive", !.rows = NoRows] ELSE NoCollector
  <1>1. Adjoins(c, Stored(prices), excused)
    BY DEF HoleInv
  <1>2. prices' \in Inserts(prices, kept) /\ Keep(p, d) /\ UNCHANGED <<now, funding, excused>>
    BY DEF Insert
  <1>3. /\ Rows(kept)
        /\ \A b \in DOMAIN kept : Reached(b, DOMAIN kept \cup Stored(prices) \cup excused)
    <2>1. CASE c.drops
      <3>1. /\ DOMAIN kept = {r \in DOMAIN c.rows : r + 1 <= c.until}
            /\ \A b \in DOMAIN kept : kept[b] = c.rows[b]
        BY <2>1 DEF DropOpenCandle
      <3>2. DOMAIN c.rows \subseteq Nat /\ c.until \in Nat
        BY <1>1, StoredBars DEF Adjoins, Rows
      <3> HIDE DEF kept
      <3>3. Rows(kept)
        BY <1>1, <3>1 DEF Adjoins, Rows
      <3>4. ASSUME NEW b \in DOMAIN kept, NEW a \in 0..(b - 1)
            PROVE  a \in DOMAIN kept \cup Stored(prices) \cup excused
        <4>1. b \in DOMAIN c.rows /\ b \in Nat /\ b + 1 <= c.until
          BY <3>1, <3>2
        <4>2. a \in DOMAIN c.rows \cup Stored(prices) \cup excused
          BY <1>1, <4>1 DEF Adjoins, Reached
        <4>3. a + 1 <= c.until
          BY <3>2, <4>1
        <4>. QED
          BY <3>1, <4>2, <4>3
      <3>. QED
        BY <3>3, <3>4 DEF Reached
    <2>2. CASE ~c.drops
      BY <1>1, <2>2 DEF Adjoins
    <2>. QED
      BY <2>1, <2>2
  <1>4. Adjoins(d, Stored(prices), excused)
    <2>1. CASE c.drops
      <3>1. d = [c EXCEPT !.pc = "derive", !.rows = NoRows]
        BY <2>1, Zenon
      <3>2. Shape(c)
        BY <1>1 DEF Adjoins
      <3> HIDE DEF c, d
      <3>3. PICK x, y : x = c /\ y = d
        OBVIOUS
      <3>5. Shape(x) /\ y = [x EXCEPT !.pc = "derive", !.rows = NoRows]
        BY <3>1, <3>2, <3>3, Zenon
      <3>6. /\ Shape(y) /\ y.pc = "derive" /\ y.since = x.since /\ y.until = x.until
            /\ y.rows = NoRows
        <4>1. PICK pc, drops, since, until, held :
                x = [pc |-> pc, drops |-> drops, since |-> since, until |-> until, rows |-> held]
          BY <3>5, Zenon DEF Shape
        <4>2. y = [pc |-> "derive", drops |-> drops, since |-> since, until |-> until,
                   rows |-> NoRows]
          BY <3>5, <4>1
        <4>. QED
          BY <4>1, <4>2, Zenon DEF Shape
      <3>4. c.since \in Nat /\ c.until \in Nat
        BY <1>1 DEF Adjoins
      <3>. QED
        BY <3>3, <3>4, <3>6, EmptyAdjoins
    <2>2. CASE ~c.drops
      BY <2>2, NoCollectorAdjoins
    <2>. QED
      BY <2>1, <2>2
  <1> HIDE DEF kept, d, c
  <1>5. /\ Table(prices', Bars) /\ Stored(prices) \subseteq Stored(prices')
        /\ \A t \in Stored(prices') : Reached(t, Stored(prices') \cup excused)
    <2>1. /\ Table(prices', Bars)
          /\ \/ Stored(prices') = Stored(prices)
             \/ Stored(prices') = Stored(prices) \cup DOMAIN kept
      BY <1>2, <1>3, InsertAdds
    <2>. QED
      BY <1>3, <2>1 DEF HoleInv, Reached
  <1>6. Table(collector', Collectors) /\ collector'[p] = d
        /\ \A q \in Collectors : q # p => collector'[q] = collector[q]
    BY <1>2 DEF HoleInv, Keep, Table
  <1>7. \A q \in Collectors : Adjoins(collector'[q], Stored(prices'), excused)
    BY <1>4, <1>5, <1>6, AdjoinsStays DEF HoleInv
  <1>. QED
    BY <1>2, <1>5, <1>6, <1>7 DEF HoleInv, Stored
LEMMA BeginRunHoles ==
  ASSUME HoleInv, NEW p \in Collectors, NEW full \in BOOLEAN, BeginRun(p, full)
  PROVE  HoleInv'
  <1>1. PICK pc, x, d : x = NoCollector /\ d = [x EXCEPT !.pc = pc, !.until = now] /\ Keep(p, d)
    BY Zenon DEF BeginRun
  <1>2. Shape(d) /\ d.since = 0 /\ d.until = now /\ d.rows = NoRows
    <2>1. x = [pc |-> "idle", drops |-> TRUE, since |-> 0, until |-> 0, rows |-> NoRows]
      BY <1>1 DEF NoCollector
    <2>2. d = [x EXCEPT !.pc = pc, !.until = now]
      BY <1>1
    <2>3. d = [pc |-> pc, drops |-> TRUE, since |-> 0, until |-> now, rows |-> NoRows]
      BY <2>1, <2>2
    <2>. QED
      BY <2>3, Zenon DEF Shape
  <1>3. now \in Nat
    BY StoredBars DEF HoleInv
  <1>4. Adjoins(d, Stored(prices), excused)
    BY <1>2, <1>3, EmptyAdjoins DEF Reached
  <1>. QED
    BY <1>1, <1>4, CollectorSteps DEF BeginRun

LEMMA BackfillHoles ==
  ASSUME HoleInv, Adjoining, NEW p \in Collectors, NEW from \in 0..now, NEW to \in 0..now,
         BeginBackfill(p, from, to)
  PROVE  HoleInv'
  <1>1. PICK x, d : /\ x = NoCollector /\ Keep(p, d)
                    /\ d = [x EXCEPT !.pc = "fetch", !.drops = FALSE, !.since = from, !.until = to]
    BY Zenon DEF BeginBackfill
  <1>2. Shape(d) /\ d.since = from /\ d.until = to /\ d.rows = NoRows
    <2>1. x = [pc |-> "idle", drops |-> TRUE, since |-> 0, until |-> 0, rows |-> NoRows]
      BY <1>1 DEF NoCollector
    <2>2. d = [x EXCEPT !.pc = "fetch", !.drops = FALSE, !.since = from, !.until = to]
      BY <1>1
    <2>3. d = [pc |-> "fetch", drops |-> FALSE, since |-> from, until |-> to, rows |-> NoRows]
      BY <2>1, <2>2
    <2>. QED
      BY <2>3, Zenon DEF Shape
  <1>3. from \in Nat /\ to \in Nat
    OBVIOUS
  <1>4. Reached(from, Stored(prices) \cup excused)
    <2> DEFINE top == Max(Stored(prices))
    <2>1. top \in Stored(prices) /\ top \in Nat /\ from \in Min(Stored(prices))..(top + 1)
          /\ Min(Stored(prices)) \in Nat
      BY StoredBars DEF BeginBackfill, AdjoinsStored
    <2> HIDE DEF top
    <2>2. from <= top + 1
      BY <2>1, <1>3
    <2>3. Reached(top, Stored(prices) \cup excused)
      BY <2>1 DEF HoleInv
    <2>4. ASSUME NEW a \in 0..(from - 1) PROVE a \in Stored(prices) \cup excused
      <3>1. a = top \/ a \in 0..(top - 1)
        BY <1>3, <2>1, <2>2
      <3>. QED
        BY <2>1, <2>3, <3>1 DEF Reached
    <2>. QED
      BY <2>4 DEF Reached
  <1>5. Adjoins(d, Stored(prices), excused)
    BY <1>2, <1>3, <1>4, EmptyAdjoins
  <1>. QED
    BY <1>1, <1>5, CollectorSteps DEF BeginBackfill

LEMMA ChooseStartHoles ==
  ASSUME HoleInv, NEW p \in Collectors, ChooseStart(p)
  PROVE  HoleInv'
  <1> DEFINE c == collector[p]
  <1>1. Adjoins(c, Stored(prices), excused) /\ c.pc = "latest"
        /\ UNCHANGED <<now, prices, funding, excused>>
    BY DEF HoleInv, ChooseStart
  <1>2. PICK latest \in ReadLatest(Stored(prices)) :
          Keep(p, IF latest = -1 THEN [c EXCEPT !.pc = "fetch"]
                  ELSE IF latest + 2 > c.until THEN [c EXCEPT !.pc = "derive"]
                  ELSE [c EXCEPT !.pc = "fetch", !.since = latest])
    BY DEF ChooseStart
  <1>3. latest = -1 \/ latest \in Stored(prices)
    BY StoredBars DEF ReadLatest, Latest
  <1>4. latest \in Stored(prices) => latest \in Nat
    BY StoredBars
  <1>5. PICK d, x : /\ x = c /\ Keep(p, d)
                    /\ \/ d = [x EXCEPT !.pc = "fetch"]
                       \/ d = [x EXCEPT !.pc = "derive"]
                       \/ latest # -1 /\ d = [x EXCEPT !.pc = "fetch", !.since = latest]
    BY <1>2, Zenon
  <1>6. PICK pc, drops, since, until, rows :
          x = [pc |-> pc, drops |-> drops, since |-> since, until |-> until, rows |-> rows]
    BY <1>1, <1>5, Zenon DEF Adjoins, Shape
  <1>7. Adjoins(x, Stored(prices), excused) /\ x.pc = "latest"
    BY <1>1, <1>5
  <1>8. PICK pc2, since2 :
          /\ d = [pc |-> pc2, drops |-> drops, since |-> since2, until |-> until, rows |-> rows]
          /\ since2 = since \/ (latest # -1 /\ since2 = latest)
    <2> DEFINE Like(pc2, since2) ==
          [pc |-> pc2, drops |-> drops, since |-> since2, until |-> until, rows |-> rows]
    <2>1. d = [x EXCEPT !.pc = "fetch"] => d = Like("fetch", since)
      BY <1>6
    <2>2. d = [x EXCEPT !.pc = "derive"] => d = Like("derive", since)
      BY <1>6
    <2>3. d = [x EXCEPT !.pc = "fetch", !.since = latest] => d = Like("fetch", latest)
      BY <1>6
    <2>. QED
      BY <1>5, <2>1, <2>2, <2>3, Zenon
  <1>9. Shape(d) /\ d.since = since2 /\ d.until = x.until /\ d.rows = x.rows /\ x.since = since
    BY <1>6, <1>8, Zenon DEF Shape
  <1>10. since2 \in Nat /\ Reached(since2, DOMAIN x.rows \cup Stored(prices) \cup excused)
    <2>1. CASE since2 = since
      BY <2>1, <1>7, <1>9 DEF Adjoins
    <2>2. CASE latest # -1 /\ since2 = latest
      BY <2>2, <1>3, <1>4 DEF HoleInv, Reached
    <2>. QED
      BY <2>1, <2>2, <1>8
  <1>11. Adjoins(d, Stored(prices), excused)
    BY <1>7, <1>9, <1>10 DEF Adjoins
  <1>. QED
    BY <1>1, <1>5, <1>11, CollectorSteps

LEMMA DeriveHoles ==
  ASSUME HoleInv, NEW p \in Collectors, Derive(p) \/ Dies(p)
  PROVE  HoleInv'
  <1>1. Keep(p, NoCollector) /\ UNCHANGED <<now, prices, funding, excused>>
    BY DEF Derive, Dies
  <1>. QED
    BY <1>1, NoCollectorAdjoins, CollectorSteps

LEMMA RequestFailsHoles ==
  ASSUME HoleInv, NEW p \in Collectors, RequestFails(p)
  PROVE  HoleInv'
  <1>1. Adjoins(collector[p], Stored(prices), excused)
    BY DEF HoleInv
  <1>2. PICK d, x : x = collector[p] /\ Keep(p, d) /\ d = [x EXCEPT !.pc = "insert"]
    BY Zenon DEF RequestFails, LoopEnded
  <1>3. PICK pc, drops, since, until, rows :
          x = [pc |-> pc, drops |-> drops, since |-> since, until |-> until, rows |-> rows]
    BY <1>1, <1>2, Zenon DEF Adjoins, Shape
  <1>4. d = [pc |-> "insert", drops |-> drops, since |-> since, until |-> until, rows |-> rows]
    BY <1>2, <1>3
  <1>5. /\ Shape(d) /\ d.pc = "insert" /\ d.since = x.since /\ d.until = x.until
        /\ d.rows = x.rows
    BY <1>3, <1>4, Zenon DEF Shape
  <1>6. Adjoins(x, Stored(prices), excused)
    BY <1>1, <1>2
  <1>7. Adjoins(d, Stored(prices), excused)
    BY <1>5, <1>6 DEF Adjoins
  <1>. QED
    BY <1>2, <1>7, CollectorSteps DEF RequestFails

LEMMA FundingHoles ==
  ASSUME HoleInv, NEW pages \in Nat, CollectFunding(pages)
  PROVE  HoleInv'
  <1>1. PICK latest \in ReadLatest(funding) :
          funding' \in FundingInserts(
            {t \in (latest + 1)..now : t <= latest + pages * Page})
    BY DEF CollectFunding, LatestFunding
  <1>2. now \in Nat
    BY StoredBars DEF HoleInv
  <1>3. funding # {} => Max(funding) \in funding
    <2>1. funding \in SUBSET Int /\ now \in Int /\ \A x \in funding : x <= now
      BY <1>2 DEF HoleInv
    <2>. QED
      BY <2>1, MaxIsGreatest
  <1>4. latest = -1 \/ latest \in funding
    BY <1>3 DEF ReadLatest, Latest
  <1>5. latest \in Int /\ latest >= -1 /\ Reached(latest + 1, funding)
    <2>1. CASE latest = -1
      BY <2>1 DEF Reached
    <2>2. CASE latest \in funding
      <3>1. latest \in Nat /\ Reached(latest, funding)
        BY <2>2, <1>2 DEF HoleInv
      <3>2. \A a \in 0..latest : a = latest \/ a \in 0..(latest - 1)
        BY <3>1
      <3>. QED
        BY <2>2, <3>1, <3>2 DEF Reached
    <2>. QED
      BY <1>4, <2>1, <2>2
  <1>6. PICK end \in Int : end = latest + pages * Page
    BY <1>5, CollectionConstants DEF CollectionConstants
  <1> DEFINE got == {t \in (latest + 1)..now : t <= end}
  <1>7. funding' = funding \/ funding' = funding \cup got
    BY <1>1, <1>6 DEF FundingInserts
  <1>8. got \subseteq 0..now
    BY <1>2, <1>5
  <1>9. ASSUME NEW t \in got PROVE Reached(t, funding \cup got)
    <2>1. ASSUME NEW a \in 0..(t - 1) PROVE a \in funding \cup got
      <3>1. t \in Int /\ t <= now /\ t <= end
        BY <1>2, <1>5
      <3>2. a \in 0..latest \/ a \in got
        BY <3>1, <1>2, <1>5
      <3>. QED
        BY <3>2, <1>5 DEF Reached
    <2>. QED
      BY <2>1 DEF Reached
  <1> HIDE DEF got
  <1>10. funding' \subseteq 0..now /\ \A t \in funding' : Reached(t, funding')
    BY <1>7, <1>8, <1>9 DEF HoleInv, Reached
  <1>11. UNCHANGED <<now, prices, collector, excused>>
    BY DEF CollectFunding
  <1>. QED
    BY <1>10, <1>11 DEF HoleInv, Stored

LEMMA HoleInvInit == CollectInit => HoleInv
  <1>. SUFFICES ASSUME CollectInit PROVE HoleInv
    OBVIOUS
  <1>1. Stored(prices) = {} /\ Table(prices, Bars) /\ Table(collector, Collectors)
    BY DEF CollectInit, Stored, Table
  <1>2. \A p \in Collectors : Adjoins(collector[p], Stored(prices), excused)
    BY NoCollectorAdjoins DEF CollectInit
  <1>3. now \in Bars
    BY CollectionConstants DEF CollectInit, CollectionConstants, Bars
  <1>. QED
    BY <1>1, <1>2, <1>3 DEF CollectInit, HoleInv
LEMMA HoleInvStep ==
  ASSUME HoleInv, Adjoining, [CollectNext]_collectVars
  PROVE  HoleInv'
  <1>1. CASE UNCHANGED collectVars
    BY <1>1 DEF collectVars, HoleInv, Stored
  <1>2. CASE CloseBar
    <2>1. now' \in Bars /\ funding' \subseteq 0..now'
      <3>1. MaxNow \in Nat
        BY StoredBars
      <3>2. now \in Bars /\ funding \subseteq 0..now
        BY DEF HoleInv
      <3>. QED
        BY <1>2, <3>1, <3>2 DEF CloseBar, Bars
    <2>. QED
      BY <1>2, <2>1 DEF CloseBar, HoleInv, Stored
  <1>3. CASE FundingNext
    BY <1>3, FundingHoles, CollectionConstants DEF FundingNext, CollectionConstants
  <1>4. ASSUME NEW p \in Collectors,
               \/ \E full \in BOOLEAN : BeginRun(p, full)
               \/ ChooseStart(p) \/ FetchPage(p) \/ RequestFails(p)
               \/ Insert(p) \/ Derive(p) \/ Dies(p)
               \/ \E from, to \in 0..now : from <= to /\ BeginBackfill(p, from, to)
        PROVE  HoleInv'
    BY <1>4, BeginRunHoles, ChooseStartHoles, FetchHoles, RequestFailsHoles, InsertHoles,
       DeriveHoles, BackfillHoles
  <1>. QED
    BY <1>1, <1>2, <1>3, <1>4 DEF CollectNext, BarsNext

\* Between two stored bars, or two settlements, none is missing that was not
\* excused: for any processes, page sizes, depths and faults, while backfills
\* adjoin what is stored.
THEOREM NoHolesLeft ==
  ASSUME Adjoining
  PROVE  CollectSpec => []NoHoles
  <1>1. HoleInv => NoHoles
    <2>. SUFFICES ASSUME HoleInv PROVE NoHoles
      OBVIOUS
    <2>1. now \in Nat
      BY StoredBars DEF HoleInv
    <2>2. ASSUME NEW S \in SUBSET Nat, NEW have, S # {}, S \subseteq have,
                 \A t \in S : t <= MaxNow /\ Reached(t, have)
          PROVE  Min(S)..Max(S) \subseteq have
      <3>1. Min(S) \in S /\ Max(S) \in S
        <4>1. S \in SUBSET Int /\ MaxNow \in Int /\ \A t \in S : t <= MaxNow
          BY <2>2, StoredBars
        <4>. QED
          BY <2>2, <4>1, MinIsLeast, MaxIsGreatest
      <3>2. PICK low, high \in S : low = Min(S) /\ high = Max(S)
        BY <3>1
      <3>3. ASSUME NEW a \in low..high PROVE a \in have
        <4>1. a = high \/ a \in 0..(high - 1)
          BY <2>2, <3>2, <3>3
        <4>2. Reached(high, have)
          BY <2>2
        <4>. QED
          BY <2>2, <4>1, <4>2 DEF Reached
      <3>. QED
        BY <3>2, <3>3
    <2>3. Between(Stored(prices)) \subseteq Stored(prices) \cup excused
      <3>1. Stored(prices) \in SUBSET Nat /\ \A t \in Stored(prices) : t <= MaxNow
        BY StoredBars DEF Bars
      <3>. QED
        BY <2>2, <3>1 DEF Between, HoleInv
    <2>4. Between(funding) \subseteq funding
      <3>1. funding \in SUBSET Nat /\ \A t \in funding : t <= MaxNow
        <4>1. MaxNow \in Nat
          BY StoredBars
        <4>2. now \in Bars /\ funding \subseteq 0..now
          BY DEF HoleInv
        <4>. QED
          BY <4>1, <4>2 DEF Bars
      <3>. QED
        BY <2>2, <3>1 DEF Between, HoleInv
    <2>. QED
      BY <2>3, <2>4 DEF NoHoles
  <1>. QED
    BY <1>1, HoleInvInit, HoleInvStep, PTL DEF CollectSpec
-----------------------------------------------------------------------------
(***************************************************************************)
(* Who stores a forming bar.  A run may hold one, but none before its own  *)
(* end, and it drops the others as it inserts.  A backfill drops nothing,  *)
(* but no page reaches further than its own length past the range's end:   *)
(* only Binance is backfilled, which serves far more bars than a page, so  *)
(* a range older than what is served is answered with closed bars.         *)
(***************************************************************************)
Closing(c, at) ==
  /\ Shape(c) /\ c.since \in Nat /\ c.until \in Nat /\ Rows(c.rows) /\ c.drops \in BOOLEAN
  /\ c.drops = TRUE =>
       /\ c.until <= at
       /\ \A b \in DOMAIN c.rows : b < c.until => c.rows[b] = "final"
  /\ c.drops = FALSE =>
       /\ c.pc # "latest" /\ (c.pc = "fetch" => c.since <= c.until)
       /\ \A b \in DOMAIN c.rows : c.rows[b] = "final" \/ b < c.until + Page

\* The same of the fields by themselves.
Held(pc, drops, since, until, rows, at) ==
  /\ since \in Nat /\ until \in Nat /\ Rows(rows) /\ drops \in BOOLEAN
  /\ drops = TRUE => until <= at /\ \A b \in DOMAIN rows : b < until => rows[b] = "final"
  /\ drops = FALSE =>
       /\ pc # "latest" /\ (pc = "fetch" => since <= until)
       /\ \A b \in DOMAIN rows : rows[b] = "final" \/ b < until + Page

FormingInv ==
  /\ now \in Bars /\ Table(prices, Bars) /\ Table(derived, Buckets)
  /\ \A b \in Bars : prices[b] \in {"absent", "final", "partial"}
  /\ Table(collector, Collectors)
  /\ \A p \in Collectors : Closing(collector[p], now)

LEMMA BarsAreNat == Bars \in SUBSET Nat /\ MaxNow \in Nat /\ Page \in Nat /\ Depth \in Nat
  BY CollectionConstants DEF Bars

\* The fields of a process, spelled out.
LEMMA Fields ==
  ASSUME NEW pc, NEW drops, NEW since, NEW until, NEW rows, NEW d,
         d = [pc |-> pc, drops |-> drops, since |-> since, until |-> until, rows |-> rows]
  PROVE  /\ Shape(d) /\ d.pc = pc /\ d.drops = drops /\ d.since = since
         /\ d.until = until /\ d.rows = rows
  BY Zenon DEF Shape

\* And what a change of some of them leaves.
LEMMA Ended ==
  ASSUME NEW pc, NEW drops, NEW since, NEW until, NEW rows, NEW x,
         x = [pc |-> pc, drops |-> drops, since |-> since, until |-> until, rows |-> rows],
         NEW pc1,
         NEW d, d = [x EXCEPT !.pc = pc1]
  PROVE  d = [pc |-> pc1, drops |-> drops, since |-> since, until |-> until, rows |-> rows]
  OBVIOUS

LEMMA Moved ==
  ASSUME NEW pc, NEW drops, NEW since, NEW until, NEW rows, NEW x,
         x = [pc |-> pc, drops |-> drops, since |-> since, until |-> until, rows |-> rows],
         NEW pc1, NEW since1,
         NEW d, d = [x EXCEPT !.pc = pc1, !.since = since1]
  PROVE  d = [pc |-> pc1, drops |-> drops, since |-> since1, until |-> until, rows |-> rows]
  OBVIOUS

LEMMA Begun ==
  ASSUME NEW pc, NEW drops, NEW since, NEW until, NEW rows, NEW x,
         x = [pc |-> pc, drops |-> drops, since |-> since, until |-> until, rows |-> rows],
         NEW pc1, NEW until1,
         NEW d, d = [x EXCEPT !.pc = pc1, !.until = until1]
  PROVE  d = [pc |-> pc1, drops |-> drops, since |-> since, until |-> until1, rows |-> rows]
  OBVIOUS

LEMMA Filled ==
  ASSUME NEW pc, NEW drops, NEW since, NEW until, NEW rows, NEW x,
         x = [pc |-> pc, drops |-> drops, since |-> since, until |-> until, rows |-> rows],
         NEW pc1, NEW drops1, NEW since1, NEW until1,
         NEW d, d = [x EXCEPT !.pc = pc1, !.drops = drops1, !.since = since1, !.until = until1]
  PROVE  d = [pc |-> pc1, drops |-> drops1, since |-> since1, until |-> until1, rows |-> rows]
  OBVIOUS

LEMMA NoRowsHeld == DOMAIN NoRows = {} /\ Rows(NoRows)
  <1>1. DOMAIN NoRows = {}
    BY DEF NoRows
  <1>. QED
    BY <1>1 DEF Rows

LEMMA Assembled ==
  ASSUME NEW pc, NEW drops, NEW since, NEW until, NEW rows, NEW at,
         Held(pc, drops, since, until, rows, at), NEW d,
         d = [pc |-> pc, drops |-> drops, since |-> since, until |-> until, rows |-> rows]
  PROVE  Closing(d, at)
  <1>1. /\ Shape(d) /\ d.pc = pc /\ d.drops = drops /\ d.since = since /\ d.until = until
        /\ d.rows = rows
    BY Zenon DEF Shape
  <1>. QED
    BY <1>1, Zenon DEF Closing, Held

LEMMA NoCollectorCloses ==
  ASSUME now \in Bars
  PROVE  Closing(NoCollector, now)
  <1>1. 0 <= now /\ 0 \in Nat
    BY BarsAreNat
  <1>2. PICK t : t = TRUE
    OBVIOUS
  <1>3. Held("idle", t, 0, 0, NoRows, now)
    BY <1>1, <1>2, NoRowsHeld DEF Held
  <1>4. NoCollector = [pc |-> "idle", drops |-> t, since |-> 0, until |-> 0, rows |-> NoRows]
    BY <1>2, Zenon DEF NoCollector
  <1>. QED
    BY <1>3, <1>4, Assembled, Zenon

\* A step of one process that stores nothing.
LEMMA FormingSteps ==
  ASSUME FormingInv, NEW p \in Collectors, NEW c, Keep(p, c),
         UNCHANGED <<now, prices, derived>>, Closing(c, now)
  PROVE  FormingInv'
  <1>1. /\ collector'[p] = c /\ \A q \in Collectors : q # p => collector'[q] = collector[q]
        /\ Table(collector', Collectors)
    BY DEF FormingInv, Keep, Table
  <1>2. \A q \in Collectors : Closing(collector'[q], now)
    BY <1>1 DEF FormingInv
  <1>. QED
    BY <1>1, <1>2 DEF FormingInv, Table

\* What a page adds.
LEMMA PagedCloses ==
  ASSUME now \in Bars, Page < Depth, NEW c, Closing(c, now),
         c.pc = "fetch", NEW valid, valid # {}, valid \subseteq Served(c.since)
  PROVE  Closing(Paged(c, valid), now)
  <1> DEFINE next == Max(valid) + 1
             rows == [b \in valid \cup DOMAIN c.rows |->
                        IF b \in DOMAIN c.rows THEN c.rows[b] ELSE Candle(b)]
             pc == IF next > c.until THEN "insert" ELSE "fetch"
             first == FirstServed(c.since)
             last == Min({first + Page - 1, now})
  <1>1. /\ c.since \in Nat /\ c.until \in Nat /\ Shape(c) /\ DOMAIN c.rows \subseteq Bars
        /\ \A b \in DOMAIN c.rows : c.rows[b] \in {"final", "partial"}
    BY DEF Closing, Rows
  <1>2. now \in Nat /\ Page \in Nat /\ Depth \in Nat /\ Bars \in SUBSET Nat
    BY BarsAreNat
  <1>3. /\ first \in Nat /\ (first = c.since \/ first = now - Depth + 1)
        /\ last \in Int /\ last <= now /\ last <= first + Page - 1
        /\ Served(c.since) = first..last
    BY <1>1, ServedPage
  <1> HIDE DEF first, last
  <1>4. \A b \in valid : b \in Nat /\ b <= now /\ b <= first + Page - 1
    BY <1>2, <1>3
  <1>5. PICK m \in valid : m = Max(valid)
    <2>1. valid \in SUBSET Int /\ now \in Int /\ \A b \in valid : b <= now
      BY <1>2, <1>4
    <2>. QED
      BY <2>1, MaxIsGreatest
  <1>6. next \in Nat /\ pc # "latest" /\ (pc = "fetch" => next <= c.until)
    BY <1>1, <1>4, <1>5
  <1>7. valid \subseteq Bars
    <2>1. MaxNow \in Nat /\ now <= MaxNow
      BY BarsAreNat DEF Bars
    <2>. QED
      BY <1>4, <2>1, <1>2 DEF Bars
  <1>8. /\ DOMAIN rows = valid \cup DOMAIN c.rows
        /\ \A b \in DOMAIN c.rows : rows[b] = c.rows[b]
        /\ \A b \in valid : b \notin DOMAIN c.rows =>
             rows[b] \in {"final", "partial"} /\ (b < now => rows[b] = "final")
    BY DEF Candle
  <1>9. PICK d : d = Paged(c, valid)
    OBVIOUS
  <1>10. PICK drops, until : /\ drops = c.drops /\ until = c.until
                             /\ d = [pc |-> pc, drops |-> drops, since |-> next, until |-> until,
                                     rows |-> rows]
    <2>1. d = [c EXCEPT !.rows = rows, !.since = next, !.pc = pc]
      BY <1>9 DEF Paged
    <2> HIDE DEF next, rows, pc
    <2>2. PICK pc0, drops0, since0, until0, rows0 :
            c = [pc |-> pc0, drops |-> drops0, since |-> since0, until |-> until0, rows |-> rows0]
      BY <1>1, Zenon DEF Shape
    <2>3. d = [pc |-> pc, drops |-> drops0, since |-> next, until |-> until0, rows |-> rows]
      BY <2>1, <2>2
    <2>4. c.drops = drops0 /\ c.until = until0
      BY <2>2
    <2>. QED
      BY <2>3, <2>4
  <1> HIDE DEF next, rows, pc
  <1>11. /\ Shape(d) /\ d.pc = pc /\ d.drops = c.drops /\ d.since = next /\ d.until = c.until
         /\ d.rows = rows
    BY <1>10, Fields
  <1>12. Rows(rows)
    BY <1>1, <1>7, <1>8 DEF Rows
  <1>13. ASSUME c.drops = TRUE
         PROVE  /\ c.until <= now
                /\ \A b \in DOMAIN rows : b < c.until => rows[b] = "final"
    <2>1. c.until <= now /\ \A b \in DOMAIN c.rows : b < c.until => c.rows[b] = "final"
      BY <1>13 DEF Closing
    <2>. QED
      BY <2>1, <1>1, <1>2, <1>4, <1>8
  <1>14. ASSUME c.drops = FALSE
         PROVE  \A b \in DOMAIN rows : rows[b] = "final" \/ b < c.until + Page
    <2>1. /\ \A b \in DOMAIN c.rows : c.rows[b] = "final" \/ b < c.until + Page
          /\ c.since <= c.until
      BY <1>14 DEF Closing
    <2>2. \A b \in valid : b < now \/ b < c.until + Page
      BY <2>1, <1>1, <1>2, <1>3, <1>4
    <2>. QED
      BY <2>1, <2>2, <1>8
  <1>15. Closing(d, now)
    <2>1. c.drops \in BOOLEAN
      BY DEF Closing
    <2>. QED
      BY <2>1, <1>1, <1>6, <1>11, <1>12, <1>13, <1>14 DEF Closing
  <1>. QED
    BY <1>9, <1>15

\* A process that only moves on keeps what it holds.
LEMMA MovedOnCloses ==
  ASSUME NEW x, Closing(x, now), NEW pc, NEW new \in Nat, NEW d,
         \/ d = [x EXCEPT !.pc = pc, !.since = new]
         \/ d = [x EXCEPT !.pc = pc],
         x.drops = FALSE => pc # "latest" /\ pc # "fetch"
  PROVE  Closing(d, now)
  <1>1. PICK pc0, drops, since, until, rows :
          x = [pc |-> pc0, drops |-> drops, since |-> since, until |-> until, rows |-> rows]
    BY Zenon DEF Closing, Shape
  <1>2. x.drops = drops /\ x.since = since /\ x.until = until /\ x.rows = rows
    BY <1>1, Fields, Zenon
  <1>3. /\ drops \in BOOLEAN /\ since \in Nat /\ until \in Nat /\ Rows(rows)
        /\ drops = TRUE => until <= now /\ \A b \in DOMAIN rows : b < until => rows[b] = "final"
        /\ drops = FALSE => \A b \in DOMAIN rows : rows[b] = "final" \/ b < until + Page
    BY <1>2, Zenon DEF Closing
  <1>4. drops = FALSE => pc # "latest" /\ pc # "fetch"
    BY <1>2, Zenon
  <1>5. Held(pc, drops, new, until, rows, now) /\ Held(pc, drops, since, until, rows, now)
    BY <1>3, <1>4, Zenon DEF Held
  <1>6. CASE d = [x EXCEPT !.pc = pc, !.since = new]
    <2>1. d = [pc |-> pc, drops |-> drops, since |-> new, until |-> until, rows |-> rows]
      BY <1>1, <1>6, Moved, Zenon
    <2>. QED
      BY <1>5, <2>1, Assembled, Zenon
  <1>7. CASE d = [x EXCEPT !.pc = pc]
    <2>1. d = [pc |-> pc, drops |-> drops, since |-> since, until |-> until, rows |-> rows]
      BY <1>1, <1>7, Ended, Zenon
    <2>. QED
      BY <1>5, <2>1, Assembled, Zenon
  <1>. QED
    BY <1>6, <1>7

LEMMA EndedCloses ==
  ASSUME NEW x, Closing(x, now), NEW pc, NEW d, d = [x EXCEPT !.pc = pc],
         x.drops = FALSE => pc # "latest" /\ pc # "fetch"
  PROVE  Closing(d, now)
  <1>1. 0 \in Nat
    OBVIOUS
  <1>. QED
    BY <1>1, MovedOnCloses

LEMMA FetchForming ==
  ASSUME FormingInv, Page < Depth, NEW p \in Collectors, FetchPage(p)
  PROVE  FormingInv'
  <1> DEFINE page == Served(collector[p].since)
  <1>1. PICK x : x = collector[p] /\ Closing(x, now) /\ x.pc = "fetch"
    BY DEF FormingInv, FetchPage
  <1>2. UNCHANGED <<now, prices, derived>> /\ now \in Bars
    BY DEF FetchPage, FormingInv
  <1>3. PICK refused : IF page \ refused = {} THEN Keep(p, [x EXCEPT !.pc = "insert"])
                       ELSE Keep(p, Paged(x, page \ refused))
    BY <1>1, Zenon DEF FetchPage
  <1>4. CASE page \ refused = {}
    <2>1. PICK d : d = [x EXCEPT !.pc = "insert"] /\ Keep(p, d)
      BY <1>3, <1>4, Zenon
    <2>2. Closing(d, now)
      BY <1>1, <2>1, EndedCloses
    <2>. QED
      BY <1>2, <2>1, <2>2, FormingSteps
  <1>5. CASE page \ refused # {}
    <2>1. PICK valid : valid = page \ refused /\ Keep(p, Paged(x, valid))
      BY <1>3, <1>5, Zenon
    <2>2. valid # {} /\ valid \subseteq Served(x.since)
      BY <1>1, <1>5, <2>1
    <2>3. Closing(Paged(x, valid), now)
      BY <1>1, <1>2, <2>2, PagedCloses
    <2>. QED
      BY <1>2, <2>1, <2>3, FormingSteps
  <1>. QED
    BY <1>4, <1>5

\* What an insert adds: nothing that forms, unless a backfill inserts.
LEMMA InsertForming ==
  ASSUME FormingInv, NEW p \in Collectors, Insert(p)
  PROVE  /\ FormingInv'
         /\ \A b \in Bars : prices[b] # "partial" /\ prices'[b] = "partial" =>
              /\ collector[p].pc = "insert" /\ ~collector[p].drops
              /\ b < collector[p].until + Page
         /\ derived' = derived
  <1>1. PICK x : x = collector[p] /\ Closing(x, now) /\ x.pc = "insert"
    BY DEF FormingInv, Insert
  <1>2. PICK kept, d :
          /\ kept = IF x.drops THEN DropOpenCandle(x.rows, x.until) ELSE x.rows
          /\ d = IF x.drops THEN [x EXCEPT !.pc = "derive", !.rows = NoRows] ELSE NoCollector
          /\ prices' \in Inserts(prices, kept) /\ Keep(p, d) /\ UNCHANGED <<now, derived>>
    BY <1>1 DEF Insert
  <1>3. now \in Bars /\ Bars \in SUBSET Nat
    BY BarsAreNat DEF FormingInv
  <1>4. ASSUME x.drops = TRUE
        PROVE  /\ Closing(d, now)
               /\ \A b \in DOMAIN kept : kept[b] = "final"
    <2>1. kept = DropOpenCandle(x.rows, x.until) /\ d = [x EXCEPT !.pc = "derive", !.rows = NoRows]
      BY <1>2, <1>4, Zenon
    <2>2. \A b \in DOMAIN kept : b \in DOMAIN x.rows /\ b + 1 <= x.until /\ kept[b] = x.rows[b]
      BY <2>1 DEF DropOpenCandle
    <2>3. /\ \A b \in DOMAIN x.rows : b < x.until => x.rows[b] = "final"
          /\ DOMAIN x.rows \subseteq Nat /\ x.until \in Nat /\ x.since \in Nat /\ x.until <= now
      BY <1>1, <1>3, <1>4 DEF Closing, Rows
    <2>4. PICK pc, drops, since, until, rows :
            x = [pc |-> pc, drops |-> drops, since |-> since, until |-> until, rows |-> rows]
      BY <1>1, Zenon DEF Closing, Shape
    <2>5. d = [pc |-> "derive", drops |-> drops, since |-> since, until |-> until, rows |-> NoRows]
      BY <2>1, <2>4
    <2>6. x.drops = drops /\ x.until = until /\ x.since = since
      BY <2>4, Fields
    <2>7. /\ Shape(d) /\ d.pc = "derive" /\ d.drops = drops /\ d.since = since /\ d.until = until
          /\ d.rows = NoRows
      BY <2>5, Fields
    <2>8. Closing(d, now)
      BY <1>4, <2>3, <2>6, <2>7, NoRowsHeld DEF Closing
    <2>. QED
      BY <2>2, <2>3, <2>8
  <1>5. ASSUME x.drops = FALSE
        PROVE  /\ Closing(d, now) /\ kept = x.rows
               /\ \A b \in DOMAIN kept : kept[b] = "final" \/ b < x.until + Page
    <2>1. kept = x.rows /\ d = NoCollector
      BY <1>2, <1>5, Zenon
    <2>. QED
      BY <1>1, <1>3, <1>5, <2>1, NoCollectorCloses DEF Closing
  <1>6. x.drops \in BOOLEAN
    BY <1>1 DEF Closing
  <1>7. Closing(d, now)
    BY <1>4, <1>5, <1>6
  <1>8. \A b \in DOMAIN kept : kept[b] \in {"final", "partial"}
    BY <1>1, <1>4, <1>5, <1>6 DEF Closing, Rows
  <1>9. /\ Table(prices', Bars)
        /\ \A b \in Bars : prices'[b] = prices[b] \/ (b \in DOMAIN kept /\ prices'[b] = kept[b])
    <2>1. prices' = prices \/ prices' = Inserted(prices, kept)
      BY <1>2 DEF Inserts
    <2>. QED
      BY <2>1 DEF FormingInv, Table, Inserted
  <1>10. \A b \in Bars : prices'[b] \in {"absent", "final", "partial"}
    BY <1>8, <1>9 DEF FormingInv
  <1>11. ASSUME NEW b \in Bars, prices[b] # "partial", prices'[b] = "partial"
         PROVE  /\ collector[p].pc = "insert" /\ ~collector[p].drops
                /\ b < collector[p].until + Page
    <2>1. b \in DOMAIN kept /\ kept[b] = "partial"
      BY <1>9, <1>11
    <2>2. x.drops = FALSE
      BY <1>4, <1>6, <2>1
    <2>. QED
      BY <1>1, <1>5, <2>1, <2>2
  <1>12. /\ collector'[p] = d /\ \A q \in Collectors : q # p => collector'[q] = collector[q]
         /\ Table(collector', Collectors)
    BY <1>2 DEF FormingInv, Keep, Table
  <1>13. \A q \in Collectors : Closing(collector'[q], now)
    BY <1>7, <1>12 DEF FormingInv
  <1>14. FormingInv'
    BY <1>2, <1>9, <1>10, <1>12, <1>13 DEF FormingInv, Table
  <1>. QED
    BY <1>2, <1>11, <1>14

\* A derived bar that is half-formed was aggregated of such a one.
LEMMA DeriveForming ==
  ASSUME FormingInv, NEW p \in Collectors, Derive(p)
  PROVE  /\ FormingInv' /\ prices' = prices
         /\ \A k \in Buckets : derived[k] # "partial" /\ derived'[k] = "partial" =>
              \E b \in Sources(k) : prices[b] = "partial"
  <1>1. PICK latest :
          derived' \in Inserts(derived,
            [k \in {j \in Buckets : j >= latest /\ Complete(j)} |-> Aggregate(k)])
    BY DEF Derive
  <1> DEFINE adds == [k \in {j \in Buckets : j >= latest /\ Complete(j)} |-> Aggregate(k)]
  <1>2. \A k \in DOMAIN adds : Complete(k) /\ adds[k] = Aggregate(k)
    OBVIOUS
  <1> HIDE DEF adds
  <1>3. /\ Table(derived', Buckets)
        /\ \A k \in Buckets : derived'[k] = derived[k] \/ (k \in DOMAIN adds /\ derived'[k] = adds[k])
    <2>1. derived' = derived \/ derived' = Inserted(derived, adds)
      BY <1>1 DEF Inserts, adds
    <2>. QED
      BY <2>1 DEF FormingInv, Table, Inserted
  <1>4. ASSUME NEW k \in Buckets, derived[k] # "partial", derived'[k] = "partial"
        PROVE  \E b \in Sources(k) : prices[b] = "partial"
    <2>1. Complete(k) /\ Aggregate(k) = "partial"
      BY <1>2, <1>3, <1>4
    <2>2. PICK b \in Sources(k) : prices[b] # "final"
      BY <2>1 DEF Aggregate
    <2>3. b \in Bars /\ prices[b] # "absent"
      BY <2>1 DEF Complete, Stored, FormingInv, Table
    <2>. QED
      BY <2>2, <2>3 DEF FormingInv
  <1>5. Keep(p, NoCollector) /\ UNCHANGED <<now, prices>>
    BY DEF Derive
  <1>6. /\ collector'[p] = NoCollector /\ \A q \in Collectors : q # p => collector'[q] = collector[q]
        /\ Table(collector', Collectors)
    BY <1>5 DEF FormingInv, Keep, Table
  <1>7. \A q \in Collectors : Closing(collector'[q], now)
    BY <1>6, NoCollectorCloses DEF FormingInv
  <1>8. FormingInv'
    BY <1>3, <1>5, <1>6, <1>7 DEF FormingInv, Table
  <1>. QED
    BY <1>4, <1>5, <1>8

LEMMA StartsForming ==
  ASSUME FormingInv, NEW p \in Collectors,
         \/ \E full \in BOOLEAN : BeginRun(p, full)
         \/ \E from, to \in 0..now : from <= to /\ BeginBackfill(p, from, to)
  PROVE  FormingInv'
  <1>1. PICK n, t, f :
          /\ t = TRUE /\ f = FALSE /\ n = NoCollector
          /\ n = [pc |-> "idle", drops |-> t, since |-> 0, until |-> 0, rows |-> NoRows]
    BY Zenon DEF NoCollector
  <1>2. now \in Nat /\ now <= now /\ 0 \in Nat
    BY BarsAreNat DEF FormingInv
  <1>3. n = [pc |-> "idle", drops |-> t, since |-> 0, until |-> 0, rows |-> NoRows]
    BY <1>1
  <1>4. ASSUME NEW full \in BOOLEAN, BeginRun(p, full) PROVE FormingInv'
    <2>1. PICK pc, d : d = [n EXCEPT !.pc = pc, !.until = now] /\ Keep(p, d)
      BY <1>1, <1>4, Zenon DEF BeginRun
    <2>2. d = [pc |-> pc, drops |-> t, since |-> 0, until |-> now, rows |-> NoRows]
      BY <1>3, <2>1, Begun, Zenon
    <2>3. Held(pc, t, 0, now, NoRows, now)
      BY <1>1, <1>2, NoRowsHeld DEF Held
    <2>4. Closing(d, now)
      BY <2>2, <2>3, Assembled, Zenon
    <2>. QED
      BY <1>4, <2>1, <2>4, FormingSteps DEF BeginRun
  <1>5. ASSUME NEW from \in 0..now, NEW to \in 0..now, from <= to, BeginBackfill(p, from, to)
        PROVE  FormingInv'
    <2>1. PICK d : d = [n EXCEPT !.pc = "fetch", !.drops = f, !.since = from, !.until = to]
                   /\ Keep(p, d)
      BY <1>1, <1>5, Zenon DEF BeginBackfill
    <2>2. d = [pc |-> "fetch", drops |-> f, since |-> from, until |-> to, rows |-> NoRows]
      BY <1>3, <2>1, Filled, Zenon
    <2>3. Held("fetch", f, from, to, NoRows, now)
      <3>1. from \in Nat /\ to \in Nat /\ from <= to
        BY <1>2, <1>5
      <3>2. f \in BOOLEAN /\ f # TRUE /\ "fetch" # "latest"
        BY <1>1
      <3>3. Rows(NoRows) /\ \A b \in DOMAIN NoRows : NoRows[b] = "final" \/ b < to + Page
        BY NoRowsHeld
      <3>. QED
        BY <3>1, <3>2, <3>3, Zenon DEF Held
    <2>4. Closing(d, now)
      BY <2>2, <2>3, Assembled, Zenon
    <2>. QED
      BY <1>5, <2>1, <2>4, FormingSteps DEF BeginBackfill
  <1>. QED
    BY <1>4, <1>5

LEMMA ChooseStartForming ==
  ASSUME FormingInv, NEW p \in Collectors, ChooseStart(p)
  PROVE  FormingInv'
  <1>1. PICK x : x = collector[p] /\ Closing(x, now) /\ x.pc = "latest"
    BY DEF FormingInv, ChooseStart
  <1>2. PICK latest \in ReadLatest(Stored(prices)) :
          Keep(p, IF latest = -1 THEN [x EXCEPT !.pc = "fetch"]
                  ELSE IF latest + 2 > x.until THEN [x EXCEPT !.pc = "derive"]
                  ELSE [x EXCEPT !.pc = "fetch", !.since = latest])
    BY <1>1 DEF ChooseStart
  <1>3. x.drops = TRUE
    BY <1>1 DEF Closing
  <1>4. latest = -1 \/ latest \in Nat
    <2>1. CASE Stored(prices) = {}
      BY <1>2, <2>1 DEF ReadLatest, Latest
    <2>2. CASE Stored(prices) # {}
      <3>1. Stored(prices) \in SUBSET Int /\ MaxNow \in Int /\ Stored(prices) \subseteq Nat
            /\ \A b \in Stored(prices) : b <= MaxNow
        BY BarsAreNat DEF FormingInv, Table, Stored, Bars
      <3>2. Max(Stored(prices)) \in Stored(prices)
        BY <2>2, <3>1, MaxIsGreatest
      <3>. QED
        BY <1>2, <2>2, <3>1, <3>2 DEF ReadLatest, Latest
    <2>. QED
      BY <2>1, <2>2
  <1>5. PICK d : /\ Keep(p, d)
                 /\ \/ d = [x EXCEPT !.pc = "fetch"]
                    \/ d = [x EXCEPT !.pc = "derive"]
                    \/ latest \in Nat /\ d = [x EXCEPT !.pc = "fetch", !.since = latest]
    <2>1. CASE latest = -1
      BY <1>2, <2>1, Zenon
    <2>2. CASE latest # -1
      BY <1>2, <1>4, <2>2, Zenon
    <2>. QED
      BY <2>1, <2>2
  <1>6. Closing(d, now)
    <2>1. 0 \in Nat
      OBVIOUS
    <2>2. CASE d = [x EXCEPT !.pc = "fetch"]
      BY <1>1, <1>3, <2>1, <2>2, MovedOnCloses
    <2>3. CASE d = [x EXCEPT !.pc = "derive"]
      BY <1>1, <1>3, <2>1, <2>3, MovedOnCloses
    <2>4. CASE latest \in Nat /\ d = [x EXCEPT !.pc = "fetch", !.since = latest]
      BY <1>1, <1>3, <2>4, MovedOnCloses
    <2>. QED
      BY <1>5, <2>2, <2>3, <2>4
  <1>. QED
    BY <1>5, <1>6, FormingSteps DEF ChooseStart

LEMMA RequestFailsForming ==
  ASSUME FormingInv, NEW p \in Collectors, RequestFails(p)
  PROVE  FormingInv'
  <1>1. PICK d, x : x = collector[p] /\ Keep(p, d) /\ d = [x EXCEPT !.pc = "insert"]
    BY Zenon DEF RequestFails, LoopEnded
  <1>2. Closing(x, now)
    BY <1>1 DEF FormingInv
  <1>3. Closing(d, now)
    BY <1>1, <1>2, EndedCloses
  <1>. QED
    BY <1>1, <1>3, FormingSteps DEF RequestFails

LEMMA FormingInit == CollectInit => FormingInv
  <1>. SUFFICES ASSUME CollectInit PROVE FormingInv
    OBVIOUS
  <1>1. now \in Bars
    BY CollectionConstants DEF CollectInit, Bars
  <1>2. \A p \in Collectors : Closing(collector[p], now)
    BY <1>1, NoCollectorCloses DEF CollectInit
  <1>. QED
    BY <1>1, <1>2 DEF CollectInit, FormingInv, Table

\* The two halves of the property, of one step.
FormingIsBackfilled ==
  \A b \in Bars : prices[b] # "partial" /\ prices'[b] = "partial" =>
    \E p \in Collectors :
      /\ collector[p].pc = "insert" /\ ~collector[p].drops
      /\ b < collector[p].until + Page
FormingIsAggregated ==
  \A k \in Buckets : derived[k] # "partial" /\ derived'[k] = "partial" =>
    \E b \in Sources(k) : prices[b] = "partial"

LEMMA FormingStep ==
  ASSUME FormingInv, Page < Depth, [CollectNext]_collectVars
  PROVE  FormingInv' /\ FormingIsBackfilled /\ FormingIsAggregated
  <1>1. ASSUME UNCHANGED <<prices, derived>> PROVE FormingIsBackfilled /\ FormingIsAggregated
    BY <1>1 DEF FormingIsBackfilled, FormingIsAggregated
  <1>2. CASE UNCHANGED collectVars
    BY <1>1, <1>2 DEF collectVars, FormingInv, Table
  <1>3. CASE CloseBar
    <2>1. now \in Nat /\ now' = now + 1 /\ now' \in Bars /\ UNCHANGED <<prices, derived, collector>>
      BY <1>3, BarsAreNat DEF CloseBar, FormingInv, Bars
    <2>2. ASSUME NEW p \in Collectors PROVE Closing(collector[p], now')
      <3>1. Closing(collector[p], now)
        BY DEF FormingInv
      <3>2. collector[p].until \in Nat
        BY <3>1 DEF Closing
      <3>. QED
        BY <2>1, <3>1, <3>2 DEF Closing
    <2>. QED
      BY <1>1, <2>1, <2>2 DEF FormingInv, Table
  <1>4. CASE FundingNext
    BY <1>1, <1>4 DEF FundingNext, CollectFunding, FormingInv, Table
  <1>5. ASSUME NEW p \in Collectors, Dies(p) PROVE FormingInv' /\ UNCHANGED <<prices, derived>>
    <2>1. Keep(p, NoCollector) /\ UNCHANGED <<now, prices, derived>> /\ now \in Bars
      BY <1>5 DEF Dies, FormingInv
    <2>. QED
      BY <2>1, NoCollectorCloses, FormingSteps
  <1>6. ASSUME NEW p \in Collectors,
               \/ \E full \in BOOLEAN : BeginRun(p, full)
               \/ ChooseStart(p) \/ FetchPage(p) \/ RequestFails(p)
               \/ Insert(p) \/ Derive(p) \/ Dies(p)
               \/ \E from, to \in 0..now : from <= to /\ BeginBackfill(p, from, to)
        PROVE  FormingInv' /\ FormingIsBackfilled /\ FormingIsAggregated
    <2>1. CASE \/ \E full \in BOOLEAN : BeginRun(p, full)
               \/ \E from, to \in 0..now : from <= to /\ BeginBackfill(p, from, to)
      <3>1. UNCHANGED <<prices, derived>>
        BY <2>1 DEF BeginRun, BeginBackfill
      <3>. QED
        BY <1>1, <2>1, <3>1, StartsForming
    <2>2. CASE FetchPage(p)
      BY <1>1, <2>2, FetchForming DEF FetchPage
    <2>3. CASE ChooseStart(p)
      BY <1>1, <2>3, ChooseStartForming DEF ChooseStart
    <2>4. CASE RequestFails(p)
      BY <1>1, <2>4, RequestFailsForming DEF RequestFails
    <2>5. CASE Insert(p)
      BY <2>5, InsertForming DEF FormingIsBackfilled, FormingIsAggregated
    <2>6. CASE Derive(p)
      BY <2>6, DeriveForming DEF FormingIsBackfilled, FormingIsAggregated
    <2>7. CASE Dies(p)
      BY <1>1, <1>5, <2>7
    <2>. QED
      BY <1>6, <2>1, <2>2, <2>3, <2>4, <2>5, <2>6, <2>7
  <1>. QED
    BY <1>2, <1>3, <1>4, <1>6 DEF CollectNext, BarsNext

\* No collect run stores a forming bar, and only a backfill whose range ends
\* less than a page before the bar does; a half-formed derived bar has such a
\* bar among its sources.  For any processes, ranges, bucket sizes and faults,
\* while a page is shorter than what the exchange serves.
THEOREM FormingComesFromBackfills ==
  ASSUME Page < Depth
  PROVE  CollectSpec => OnlyBackfillsStoreForming
  <1>1. FormingInv /\ [CollectNext]_collectVars
        => [FormingIsBackfilled /\ FormingIsAggregated]_collectVars
    BY FormingStep
  <1>2. FormingInv /\ [CollectNext]_collectVars => FormingInv'
    BY FormingStep
  <1>. QED
    BY <1>1, <1>2, FormingInit, PTL
       DEF CollectSpec, OnlyBackfillsStoreForming, FormingIsBackfilled, FormingIsAggregated
=============================================================================
