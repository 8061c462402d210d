---------------------------- MODULE DataCollection ----------------------------
(***************************************************************************)
(* Collecting the bars of one symbol on one exchange: cli/collect.py, the  *)
(* three OHLCV collectors (they differ in page size and in how far back    *)
(* the exchange serves), the derived timeframe, the backfill command, the  *)
(* funding collector, and the inserts of data/db.py.                       *)
(*                                                                         *)
(* Bar t spans [t, t+1): at `now' the bars before `now' are closed and bar *)
(* `now' is forming.  A stored bar is "final", or "partial" when it was    *)
(* fetched while it formed.                                                *)
(***************************************************************************)
EXTENDS Integers, FiniteSetsExt

CONSTANTS
  Collectors,     \* processes: the cron job, the CLI, a dashboard job
  Page,           \* bars a request returns (500 or 720)
  Depth,          \* bars the exchange serves, counted back from the forming one
  Bucket,         \* source bars of a derived bar (3 of 1h make 3h)
  Adjoining,      \* backfills begin within the stored bars or right after them
  CollectFaults,  \* {"requestFails", "badCandle", "readFails", "insertFails", "dies"}
  MaxNow          \* bound

ASSUME CollectionConstants ==
  /\ {Page, Depth, Bucket, MaxNow} \subseteq Nat \ {0} /\ Adjoining \in BOOLEAN

VARIABLES
  now,
  prices,     \* the bars of the native timeframe
  derived,    \* the bars of the derived timeframe
  funding,    \* settlement times in funding_rates, one per bar
  collector,  \* what a process holds in memory
  excused     \* bars the validator refused or the exchange served no longer

collectVars == <<now, prices, derived, funding, collector, excused>>

Bars == 0..MaxNow
Buckets == 0..(MaxNow \div Bucket)
NoRows == [b \in {} |-> "final"]
NoCollector == [pc |-> "idle", drops |-> TRUE, since |-> 0, until |-> 0, rows |-> NoRows]

Stored(table) == {t \in DOMAIN table : table[t] # "absent"}
Keep(p, c) == collector' = [collector EXCEPT ![p] = c]
Failing(fault) == fault \in CollectFaults

\* get_latest_timestamp: None (here -1) for an empty table and for an error.
Latest(times) == IF times = {} THEN -1 ELSE Max(times)
ReadLatest(times) == {Latest(times)} \cup (IF Failing("readFails") THEN {-1} ELSE {})

\* insert_prices: ON CONFLICT DO NOTHING, in one transaction; an error
\* inserts nothing and is not raised.
Inserted(table, rows) ==
  [t \in DOMAIN table |->
     IF table[t] = "absent" /\ t \in DOMAIN rows THEN rows[t] ELSE table[t]]
Inserts(table, rows) ==
  {Inserted(table, rows)} \cup (IF Failing("insertFails") THEN {table} ELSE {})

-----------------------------------------------------------------------------
(* The OHLCV collectors.                                                   *)

\* fetch_ohlcv_safe: a page of what the exchange still serves, up to the
\* forming bar.
FirstServed(since) == Max({since, now - Depth + 1})
Served(since) == FirstServed(since)..Min({FirstServed(since) + Page - 1, now})
Candle(b) == IF b < now THEN "final" ELSE "partial"

\* validate_ohlcv_batch: the candles it may refuse.
Refusals(page) ==
  {{}} \cup (IF Failing("badCandle") THEN {{b} : b \in page} ELSE {})

\* What a turn of the loop keeps of a page's valid candles.
Paged(c, valid) ==
  LET next == Max(valid) + 1
  IN [c EXCEPT
        !.rows = [b \in valid \cup DOMAIN c.rows |->
                    IF b \in DOMAIN c.rows THEN c.rows[b] ELSE Candle(b)],
        !.since = next,
        !.pc = IF next > c.until THEN "insert" ELSE "fetch"]

\* collect_symbol, one turn of its loop, which the three collectors share.
\* A request that fails (after its retries) ends the loop and keeps the pages
\* before it; so does a page without a valid candle.  No page is cut at
\* `until'.
FetchPage(p) ==
  LET c == collector[p]
      page == Served(c.since)
  IN /\ c.pc = "fetch"
     /\ \E refused \in Refusals(page) :
          LET valid == page \ refused
          IN IF valid = {}
             THEN Keep(p, [c EXCEPT !.pc = "insert"]) /\ excused' = excused \cup refused
             ELSE /\ Keep(p, Paged(c, valid))
                  /\ excused' = excused \cup refused \cup (c.since..(FirstServed(c.since) - 1))
     /\ UNCHANGED <<now, prices, derived, funding>>

\* Faulty variant: a page that fails is stepped over.
PageSkipped(c) ==
  [c EXCEPT !.since = @ + Page, !.pc = IF c.since + Page > c.until THEN "insert" ELSE "fetch"]
LoopEnded(c) == [c EXCEPT !.pc = "insert"]
RequestFails(p) ==
  /\ collector[p].pc = "fetch" /\ Failing("requestFails")
  /\ Keep(p, LoopEnded(collector[p]))
  /\ UNCHANGED <<now, prices, derived, funding, excused>>

-----------------------------------------------------------------------------
(* _collect_exchange                                                       *)

\* The run's end is taken once, before the first request.
BeginRun(p, full) ==
  /\ collector[p].pc = "idle"
  /\ Keep(p, [NoCollector EXCEPT !.pc = IF full THEN "fetch" ELSE "latest", !.until = now])
  /\ UNCHANGED <<now, prices, derived, funding, excused>>

\* Without a latest bar the whole history is asked for; else from the latest
\* bar on, unless no bar can have closed since.
ChooseStart(p) ==
  LET c == collector[p]
  IN /\ c.pc = "latest"
     /\ \E latest \in ReadLatest(Stored(prices)) :
          Keep(p, IF latest = -1 THEN [c EXCEPT !.pc = "fetch"]
                  ELSE IF latest + 2 > c.until THEN [c EXCEPT !.pc = "derive"]
                  ELSE [c EXCEPT !.pc = "fetch", !.since = latest])
     /\ UNCHANGED <<now, prices, derived, funding, excused>>

\* _drop_open_candle, with the end of the run.  Faulty variant: with the
\* time of the insert.
StillClosed(rows, until) == [b \in {r \in DOMAIN rows : r + 1 <= now} |-> rows[b]]
DropOpenCandle(rows, until) == [b \in {r \in DOMAIN rows : r + 1 <= until} |-> rows[b]]

Insert(p) ==
  LET c == collector[p]
  IN /\ c.pc = "insert"
     /\ prices' \in Inserts(prices, IF c.drops THEN DropOpenCandle(c.rows, c.until) ELSE c.rows)
     /\ Keep(p, IF c.drops THEN [c EXCEPT !.pc = "derive", !.rows = NoRows] ELSE NoCollector)
     /\ UNCHANGED <<now, derived, funding, excused>>

\* _derive_timeframe: from the latest derived bar on, buckets that hold
\* every source bar.
Sources(k) == (k * Bucket)..(k * Bucket + Bucket - 1)
Complete(k) == Sources(k) \subseteq Stored(prices)
Aggregate(k) == IF \A b \in Sources(k) : prices[b] = "final" THEN "final" ELSE "partial"
Derive(p) ==
  /\ collector[p].pc = "derive"
  /\ \E latest \in ReadLatest(Stored(derived)) :
       derived' \in Inserts(derived,
         [k \in {j \in Buckets : j >= latest /\ Complete(j)} |-> Aggregate(k)])
  /\ Keep(p, NoCollector)
  /\ UNCHANGED <<now, prices, funding, excused>>

\* run_backfill: the range the caller names, by default to now, and every bar
\* that comes back, the forming one too.
AdjoinsStored(from) == Stored(prices) # {} /\ from \in Min(Stored(prices))..(Max(Stored(prices)) + 1)
BeginBackfill(p, from, to) ==
  /\ collector[p].pc = "idle"
  /\ Adjoining => AdjoinsStored(from)
  /\ Keep(p, [NoCollector EXCEPT !.pc = "fetch", !.drops = FALSE, !.since = from, !.until = to])
  /\ UNCHANGED <<now, prices, derived, funding, excused>>

Dies(p) ==
  /\ Failing("dies") /\ collector[p].pc # "idle"
  /\ Keep(p, NoCollector)
  /\ UNCHANGED <<now, prices, derived, funding, excused>>

-----------------------------------------------------------------------------
\* get_latest_funding_time_ms and insert_funding_rates, with the same errors.
LatestFunding == ReadLatest(funding)
FundingInserts(times) ==
  {funding \cup times} \cup (IF Failing("insertFails") THEN {funding} ELSE {})

\* collect_all of the funding collector: pages from one past the latest
\* settlement; a request that fails keeps the pages before it.
CollectFunding(pages) ==
  /\ \E latest \in LatestFunding :
       LET available == (latest + 1)..now
           got == {t \in available : t <= latest + pages * Page}
       IN /\ got # {}
          /\ got = available \/ Failing("requestFails")
          /\ funding' \in FundingInserts(got)
  /\ UNCHANGED <<now, prices, derived, collector, excused>>

CloseBar ==
  /\ now < MaxNow
  /\ now' = now + 1
  /\ UNCHANGED <<prices, derived, funding, collector, excused>>

CollectInit ==
  /\ now = 1
  /\ prices = [b \in Bars |-> "absent"]
  /\ derived = [k \in Buckets |-> "absent"]
  /\ funding = {} /\ excused = {}
  /\ collector = [p \in Collectors |-> NoCollector]

BarsNext ==
  \E p \in Collectors :
    \/ \E full \in BOOLEAN : BeginRun(p, full)
    \/ ChooseStart(p) \/ FetchPage(p) \/ RequestFails(p)
    \/ Insert(p) \/ Derive(p) \/ Dies(p)
    \/ \E from, to \in 0..now : from <= to /\ BeginBackfill(p, from, to)
FundingNext == \E pages \in 1..MaxNow : CollectFunding(pages)
CollectNext == BarsNext \/ FundingNext \/ CloseBar

CollectSpec == CollectInit /\ [][CollectNext]_collectVars

-----------------------------------------------------------------------------
\* "A half-formed bar stored mid-period would never be corrected": no collect
\* run stores one, however long it took, and only a backfill whose range ends
\* less than a page before the bar does; a half-formed derived bar has such a
\* bar among its sources.
OnlyBackfillsStoreForming ==
  [][/\ \A b \in Bars : prices[b] # "partial" /\ prices'[b] = "partial" =>
          \E p \in Collectors :
            /\ collector[p].pc = "insert" /\ ~collector[p].drops
            /\ b < collector[p].until + Page
     /\ \A k \in Buckets : derived[k] # "partial" /\ derived'[k] = "partial" =>
          \E b \in Sources(k) : prices[b] = "partial"]_collectVars

\* Between two stored bars none is missing, unless the validator refused it
\* or the exchange had dropped it: each run goes on from the latest bar, so
\* a hole would stay.
Between(times) == IF times = {} THEN {} ELSE Min(times)..Max(times)
NoHoles ==
  /\ Between(Stored(prices)) \subseteq Stored(prices) \cup excused
  /\ Between(funding) \subseteq funding
=============================================================================
