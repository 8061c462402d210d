# A verification project for rafund-ml4t

rafund-ml4t researches trading strategies, promotes the ones that survive
validation, trades them on paper or on an exchange, and prepares hand-placed
trades for a Kraken Prop account. This directory holds TLA+ models of the parts
that decide and move money, TLC runs that check them on small instances, and
TLAPS proofs for every value of the constants.

## The system and its parts

All state lives in one Postgres database. What shares it: the `trainer`
container (scripts/train_loop.sh, a sequential loop of CLI commands), the
`dashboard` container (gunicorn with two workers: each request thread and each
background job of monitoring/jobs.py is an actor of its own), and whatever an
operator starts by hand from main.py; a live cycle is always started by hand,
there or in the dashboard. Nothing takes a lock across a load and
the save that follows it.

| Part | State | Operations | What makes it correct |
| --- | --- | --- | --- |
| Live trader (trading/live_trader.py, position.py, execution.py) | one row of paper_positions per exchange, orders at the exchange | run_live_cycle, force_close_live, resume_trading, limit order with timeout, cancel, re-read | row and exchange agree or the row is halted; halts hold; no forgotten order; a breach ends flat |
| Paper trader (trading/paper_trader.py) | one row per strategy and symbol, paper_orders | _apply_paper_step, backfill_paper_slot, kill switch, resume | floors and halts hold over days; equity counts each profit once; a replay keeps the halts |
| Prop account, gate (risk/) | PropAccountState, gate_decisions | evaluate, funding and cost model | no admitted setup may cost more than the room above the floors; the order of rules |
| Pending signals (signals/) | pending_signals, one active row per (strategy, symbol, direction) | scan, upsert, expire, resolve from the dashboard | every row passed the gate; one active row per key; a resolved signal stays resolved |
| Senior trader (senior_trader/) | decisions, execution_intents, trade_journal, incidents | review cycle, paper cycle, audit | one intent per decision, each intent reaches an outcome, TAKE only behind the gate |
| Mobile order form (execution/mobile/) | the form on the phone | populate, dump, verify | what is verified is what the intent says |
| Dashboard jobs (monitoring/jobs.py) | per worker job registry | submit, run, evict | one job of a type at a time |
| Model lifecycle (models/, monitoring/drift_detector.py) | model_registry, drift_reports, model_blocks, MLflow's stages, a cache per predictor | retrain, validate, promote, block, predict | a production model is kept; only what passed is served |
| Data collection (cli/collect.py, data/collectors/, data/db.py) | prices, derived bars, funding_rates | collect, derive, backfill | a collection stores only closed bars; no holes |
| Track record (data/provenance.py, backtesting/window_engine.py, scripts/rebuild_kraken_track_record.py, monitoring/leaderboard.py) | instrument_provenance, engine_results | audit, run the engine, rebuild, rank | a row says truly where its prices came from; only Kraken rows are ranked for Kraken |
| Backtest engines (backtesting/engine.py, engine_eval.py, evaluation_rules.py) | the account of one run | bar by bar simulation, challenge rules | the books add up; limits hold |
| Splitting (backtesting/splitter.py) | none between runs | rolling and anchored windows | no look-ahead, no shared test day |
| Pair signals (strategies/stat_arb.py) | a carried target | fit, carry, gate, write rows | one rule, however often it is written |
| Research verdicts, labels, features, single-asset strategies, statistics, portfolio | none, or an append-only table | arithmetic | numerical; not a subject for TLC |

The hard behaviours are: operations that overlap on one row (load, wait on an
exchange for seconds, save everything); an exchange that fills partly, late or
after a cancel, and whose answers get lost; processes that die between two
commits; state read now and used after a long wait; days and floors that turn at
different moments; and flags that must survive long sequences of legal calls.
PROJECT.json lists each at its line under "hazards".

## Modules

| Module | Models | Instances and proofs |
| --- | --- | --- |
| LiveTrader | live order execution of one exchange | MCLiveTrader; LiveTraderProofs |
| ExchangeAccount | what the live trader promises about its account at the exchange; instantiated by LiveTrader | MCLiveTrader; LiveTraderProofs |
| PaperTrader | paper slots: cycle, replay, kill switch, resume | MCPaperTrader; PaperTraderProofs |
| PendingSignals | gate_decisions and pending_signals with their writers | MCKrakenProp, MCSeniorTrader (through SeniorTrader); SeniorTraderProofs |
| SeniorTrader | reviews and paper sessions on top of PendingSignals | MCSeniorTrader; SeniorTraderProofs |
| DecisionLedger | what the senior trader promises about a decision; instantiated by SeniorTrader | MCSeniorTrader; SeniorTraderProofs |
| KrakenFees | fee schedule, funding marks, the fee tracker, the cost of a setup | extended by PropDesk; MCKrakenProp; KrakenProofs |
| PropDesk | the pre-trade gate over the row of the live trader | MCKrakenProp; KrakenProofs |
| OrderForm | the order form on the phone and its verification | MCKrakenProp; KrakenProofs |
| DataCollection | bars, derived bars and funding rates | MCResearch; DataProofs |
| TrackRecord | provenance audit, engine_results, rebuild, leaderboard eligibility | MCTrackRecord, MCResearch; DataProofs |
| BacktestEngine | the bar by bar engine over the folds of a run | MCResearch; ResearchProofs |
| PairEvaluation | the evaluation engine and its tracker | MCResearch |
| WalkForward | the splitter | MCResearch; ResearchProofs |
| PairSignals | the carried signals of a pair | MCResearch; ResearchProofs |
| ModelLifecycle | training, promoting, blocking and using one model | MCResearch; ModelLifecycleProofs |
| DashboardJobs | the job registries of the dashboard's workers | MCResearch; DashboardJobsProofs |

PendingSignals, SeniorTrader and DecisionLedger compose; PropDesk prices its
setups with KrakenFees. MCKrakenProp and MCResearch put modules that share no variable into
one instance: a variable `side` says which of them a behaviour follows.

### LiveTrader

`row` and `saved` are the row of paper_positions for run_id `live_<exchange>`:
its slot (strategy_name, symbol), signed quantity, the three halts and the day
of last_update. `book` and `holding` are what the exchange knows. Each process
of `Procs` runs one operation at a time: it loads the row into `pos[p]`
(PositionState), decides, and goes through `place`, `working`, `refetch` for
each limit order, then `save`. `sel` and `target` are the accepted strategy and
the side its last signal asks for, `job` the order it is executing, `oid` the
exchange's id for it.

| Action | Code |
| --- | --- |
| StartCycle, StartKill, StartResume | run_live_cycle up to load_position; force_close_now; resume_trading |
| CloseRotated, Decide | lines 408-519 of run_live_cycle, split where the exchange is called |
| KillFlat, KillClose, KillWithoutPrice | force_close_live |
| ShadowFill, PlaceAccepted, PlaceRejected, PlaceTimeout | _execute_limit up to the first poll |
| SeeClosed, CancelOrder, CancelFails, Refetch, RefetchFails | the poll loop, the cancel, the re-read |
| Settle | what _live_close, _live_open and force_close_live do with a _Fill |
| Save | save_position: every column, last_update = NOW() |
| Fill, Reconcile, NewDay, SwitchMode, Crash | the exchange, the operator, the clock, a redeploy, a killed process |

A database read or write is atomic; everything between two calls to the
exchange is one step, since only the row and the exchange are shared and the
row is touched at load and save alone. Abstracted: prices and equity (what
_update_propfirm concludes is a choice among no breach, the daily limit and the
hard floor), the size of an opening order (any of 1..MaxQty), the signal, and
the ranking of accepted strategies (any member of `Accepted`). Left out: leverage
and margin settings, alerts, log_order.

ExchangeAccount is the promise: `held` per symbol, and the two lasting halts of
the row. `holding` implements it (ImplementsAccount): it grows from nothing and
in one direction where nothing is halted, goes back unit by unit without crossing
zero, and moves otherwise only while it is halted by hand, when the operator
trades or presses the kill switch again on a row that does not match.

`Faults` names what the environment may do wrong, so that a run says which
faults its property survives; `OperatorChecks` says whether the operator resumes
only a row that matches the exchange, as the alert of _halt_unreconciled asks.

### PendingSignals

`gates` and `signals` are the tables gate_decisions and pending_signals, oldest
row first; a row's id is its place. A row's numbers (limit, stop, target, size)
are abstracted to `levels`: the id of the gate decision that evaluated exactly
these numbers. `scan[s]` is what a running `main.py signal-scan` holds in memory
between two commits.

| Action | Code |
| --- | --- |
| SelectStale, ExpireStale | expire_stale_signals: the two SELECTs with the price look-ups, then the UPDATE by id |
| StartScan, SkipCandidate | scan_kraken_signals up to the loop; a candidate with too few bars or HOLD |
| EvaluateCandidate | build the payload, evaluate it, persist_decision |
| UpsertSignal | _upsert_active_signal, on conflict with the partial unique index |
| ScanCrash | a killed process or a lost database connection between two commits |
| Resolve | api_resolve_pending_signal: one guarded UPDATE |
| Tick | the clock |

Choices: which pairs qualify, in which direction, what the gate says of them,
and whether a price has moved away. The two SELECTs of the sweep are one step:
a row that expires between them is seen by neither, as one that expires just
after it.

### SeniorTrader

Extends PendingSignals with `decisions`, `intents` and `journal` (the tables
decisions, execution_intents, trade_journal) and with what each reviewer and
each paper session holds in memory.

| Action | Code |
| --- | --- |
| BeginReview, ReadSignals | run_review_cycle: its `now`, active_signals |
| RecordPlaceholder | the NO_TRADE of an empty session |
| RecordDecision | latest_decision, _decide_one, _persist_decision for one row |
| BeginPaper, ReadQueue | run_paper_trading_cycle: its `now`, take_decisions_without_intent |
| LoadSignal, BuildIntent | _process_one: signal_by_id, build_execution_intent and its INSERT |
| RecordFill, WriteJournal | simulate_execution with record_fill_outcome; write_journal_entry |
| EndPaper | the end of the session; the audit only reads |
| ReviewCrash, PaperCrash | a killed process or a lost connection |

latest_decision and the INSERT that follows are one step: a verdict that
another scan adds in between has a higher id and the same key, and a review
that was a moment faster would not have seen it either. Left out: incidents,
which nothing reads back; the RESEARCH mode, in which a session does nothing; a
failed reconciliation, which a simulated fill cannot have; and a missing signal,
since no code deletes rows of pending_signals.

DecisionLedger is the promise: a decision is recorded once, a TAKE becomes at
most one order, an order is filled or expires once, a fill is journaled at most
once. `Stage(d)` reads a decision's stage off the tables and gives a decision
with two orders or two journal entries a stage the ledger does not know.

### PaperTrader

`rows` is paper_positions, a row per run_id; `journal` counts the OPENs of
paper_orders less the CLOSEs, per slot. `task[p]` is what a process holds: the
slots still to do, the copy it loaded, and for the dashboard the list it read
before it wrote the first row. `today` is NOW(), `bar` the day of the latest 1d
bar in the table.

| Action | Code |
| --- | --- |
| StartCycle, LoadSlot | run_paper_cycle: the candidates, load_position |
| Step | _apply_paper_step: rotation, rollover, floors, stop, signal, with _open, _close and _target_notional |
| StartReplay, EndReplay | backfill_paper_slot over its bars |
| StartOperator, KillSlot, KillSkips, ResumeSlot | force_close_now and _force_close_one; resume_trading |
| SaveSlot | save_position: every column, last_update = NOW(), or the last bar of a replay |
| Crash, NewDay | a killed process, the calendar |
| Collect | a collection: _drop_open_candle leaves out the bar of the day under way, so the latest one is yesterday's |
| Backfill | run_backfill up to now, which stores the bar of today |

Choices: the signal, the stop, the price, the capital of a new slot, what the
regime filter blocks. Prices and money are small integers; the size of an order
is whole, halved or nothing, as the floors say. Left out: alerts, the fields of a
journal row but its kind.

### KrakenFees and PropDesk

`open` and `ledger` are KrakenFeeTracker's, `now` its clock in hours. Nothing in
the repository but the tests drives the tracker, so whoever does may open, accrue
and close when he likes.

`account` is PropAccountState as current_account_state makes it of the row
live_kraken. The scan reads that row and neither writes it nor turns its day:
daily_clock.py is called by nothing, and no code books on the row what a person
trades by hand. So the row is whatever the last live cycle saved: any balance,
start of the day and peak.

| Action | Code |
| --- | --- |
| TrackerOpens, TrackerAccrues, TrackerCloses | open, accrue, close of KrakenFeeTracker |
| FeeTick | the clock |
| RowSaved | a live cycle's save_position |

`Rules` is evaluate() rule by rule in its order, with signed exposure; `Setup`
is _build_payload; every formula of prop_account.py and cost_model.py is an
operator. The verdict is a function, so the properties quantify over every setup
in every row.

### OrderForm

`form` is the phone's form, `driver` the process, `cache` the last dump.

| Action | Code |
| --- | --- |
| StartPopulate, Send, SendFails | populate_order_form, a command at a time, through adb_client |
| StartDump, DumpFresh, DumpStale, DumpFails | dump_ui_stable, parse_trade_form, verify_order_form |
| GiveUp, Call, CloseForm | the caller, the phone and its owner |

A field holds the intended value or another one; coordinates are modelled by
what they hit (`Hit`). How the phone's form behaves is external, from the
comments of adb_client.py.

### DataCollection

Bar t spans [t, t+1). `collector[p]` holds the rows a process has fetched and
not yet inserted.

| Action | Code |
| --- | --- |
| BeginRun, ChooseStart | _collect_exchange: the end of the run, the latest bar |
| FetchPage, RequestFails | collect_symbol, a page at a time; fetch_ohlcv_safe giving up |
| Insert, Derive | _drop_open_candle and insert_prices; _derive_timeframe |
| BeginBackfill | run_backfill |
| CollectFunding | the funding collector |
| Dies, CloseBar | a killed process, the clock |

### TrackRecord

`sources` says which venues have rows for a symbol, `results` is engine_results,
`job` the engine or the rebuild script. A row's `truth` is a ghost: the venues
of the prices that really went in.

| Action | Code |
| --- | --- |
| Sync, BackfillExchange | sync_instrument_provenance, backfill_engine_results_exchange |
| BeginEngine, Skip, Backtest, BacktestFunding, Persist | the engine: audit, windows, mutation of parameters, the insert |
| BeginRebuild, Replace | rebuild_kraken_track_record.py |
| Collect, JobDies | a collector, a killed process |

### BacktestEngine, PairEvaluation, WalkForward, PairSignals

Sequential algorithms whose inputs (prices, signals, day turns, spreads) are
chosen bar by bar, so TLC runs every short tape. BacktestEngine's Bar is one
turn of engine.run's loop, with BeginFold, EmptyRun and EndRun around it;
PairEvaluation's EvalBar is one of engine_eval.py's, FinalMark its end;
WalkForward's Exhausted, TooShort and Emit are the three ways through the
splitter's loop; PairSignals' PairBar is one bar seen by the authority, the
adapter, the adapter with a gate, get_trades and to_db_signals at once; the
authority and the adapter estimate the hedge ratio differently (stat_arb.py:271-283
and 416-424), so a bar has a spread for each, of any relation. Money,
quantities and hedge ratios are integers, rounded down where the code divides
floats: properties compare quantities that are rounded alike.

### ModelLifecycle

`registry` is model_registry, `mlflow` the stage of each version (external),
`trainer[t]` a job between its writes, `predictor[p]` a Predictor and its cache.

| Action | Code |
| --- | --- |
| Train, Stage | ModelTrainer.train |
| NoFold, Validate, Archive, Promote, PromoteFails, Reject | validate_for_promotion, _promote_candidate |
| BeginSave, InsertRow | save_model_registry_entry: the UPDATE, then the INSERT and commit |
| CheckDrift, Unblock | check_drift, run_drift_check, unblock |
| AskGate, Serve, Restart | Predictor.predict, its cache, a new process |
| ServeUngated | predict_proba, get_feature_importance and the benchmark, which take the model without asking the gate |
| TrainerCrash, ComputeFeatures, Later | a killed job, the features table, the clock |

### DashboardJobs

`jobs[w]` is _JOBS of worker w, `handler` a request between has_running_job and
submit_job, `process` the process of a job.

| Action | Code |
| --- | --- |
| AcceptJob, SubmitJob | a POST: has_running_job, then submit_job with _evict_old_jobs |
| BeginJob, SpawnJob, EndProcess, FinishJob | _run_job and the process it starts |
| WorkerRestarts, HourPasses | gunicorn, the clock |

## Runs

Passing:

| Run | Question | Result |
| --- | --- | --- |
| live_sequential | one operation at a time, two slots, partial fills, failing re-reads, fair scheduling | the row never drifts silently, nothing opens on top of an old position, the account implements ExchangeAccount, a breached position ends flat as long as cycles are started |
| live_faulty | all faults at once, a careless operator | manual_halt and account_failed are only lifted as intended; no order opens while the row is halted |
| live_concurrent | two overlapping operations | no order without a reader; a kill switch that returns has halted the row |
| paper_slots | a cycle or a first replay against the dashboard's kill switch and resume, with processes that die | a halted or failed slot is flat, no position stands below the floor, row and journal agree, a kill reaches every row that was there, a daily halt holds for the bars of its day |
| senior_crashes | scan, review and paper session, each killed anywhere, while rows are refreshed, expired and resolved | takes and intents stay behind the gate; one intent per decision |
| senior_fair | paper sessions run one after the other and not killed | the tables implement DecisionLedger; nothing stays pending; every TAKE gets an outcome |
| kraken_prop | two overlapping scans with sweeps, resolutions and crashes; the gate over any row; the fee tracker; the order form under interference | every row has levels its own key was approved for, one active row per key; what the gate admits may be lost without passing a floor; a poorer account is never judged better; every settlement is paid once; what is reported as matched on a true dump is what was meant |
| research | nine sides of the research half, each with its faults | a forming bar comes from a backfill alone; no holes; labels and ranking are true; books reconcile; folds are clean; a pair's positions and trades span the bands; one job per worker; only passed models are served |

Each of the others shows one disagreement between a comment or document and the
code (PROJECT.json, "findings"):

| Run | Shows |
| --- | --- |
| live_kill_race | a cycle under way while the kill switch runs writes manual_halt back to false |
| paper_halt | on the closed bars that collect stores, with a cycle every day, the rollover never comes: a daily halt outlasts its day, and neither the day's start equity nor its trade count is reset |
| rebuild_loss | a rebuild that fails after its delete was committed leaves a symbol without a track record |
| daily_loss | the evaluation engine starts a day at every bar, so the daily limit never applies |

Further disagreements, found with the same modules and not kept as runs. Each is
seen by checking the property with the constants named here.

| Property | With | What happens |
| --- | --- | --- |
| NoSilentDrift | placeTimeout in Faults | a placement that timed out at the client but not at the exchange is read as no fill (execution.py:130) |
| NoOrphanOrders | cancelFails in Faults | the result of cancel_order is ignored (live_trader.py:220); an order rests on |
| KillHalts (LiveTrader) | noBars in Faults | without price data the kill switch returns and halts nothing (live_trader.py:317) |
| OpensTheAcceptedSlot | two accepted slots | a flat row keeps an earlier symbol, and the next order goes there (live_trader.py:285) |
| NoOrderWhileHalted, ClosesPricedByOwnBars | two accepted slots | the rotation close comes before the manual_halt check (live_trader.py:409), and is priced by the other symbol's bar (line 412) |
| SessionsComplete | Crashes | an intent whose session died stays pending for ever (paper_session.py:71) |
| NoFillOfExpiredSignal | any | an intent fills although its signal has been expired (simulation.py:23) |
| ResolvedIsFinal | any | a sweep marks a row expired that the dashboard has just marked taken (pending_signal_detector.py:464) |
| OneIntentPerDecision | two Traders | two sessions read the queue before either wrote, and both build an intent (paper_session.py:120) |
| TakenOnce | two reviews | each review decides again on every active row (review_session.py:146) |
| CitesItsApproval | a review between two commits of a scan | the latest approval of a key is not yet the one the row has (adapters/gate.py:13) |
| EquityIsRealised | any | marked equity is stored and marked again by the next cycle (paper_trader.py:563, position.py:20) |
| NewSlotIsAlive | StartEquity = {2, 6} | the floor is measured from the configured account size, not from the capital the slot was given, so a slot given less fails on its first cycle |
| TradesCapped | any | a flip opens without counting (paper_trader.py) |
| JournalMatchesRow (PaperTrader) | reReplay in Faults | a second replay writes over the row and journals its trades again |
| (of several verdicts) | by construction | AdmittedLossKeepsFloors is of one verdict. Candidates of one scan, and of scans between two live cycles, are judged by the same row (pending_signal_detector.py:326), and no code books a hand-placed trade there: their losses together may pass the floors that prop_account.py:14-17 says "our own code" keeps |
| (of the day) | by construction | the row's day turns at midnight with a live cycle, Kraken's at 00:30 UTC (daily_clock.py:5-10); current_account_state says so itself (pending_signal_detector.py:293-298) |
| MatchedFormIsIntended without its exception | any | two stale dumps of an earlier form of the same side agree and hold what expect_contains asks for, so verify_order_form judges a form that is no longer there; adb_client.py:149-150 says that "a wrong-but-internally-consistent dump can no longer silently pass" |
| MatchedFormIsIntended | touch in Interference | the owner's touch during the dump or after it |
| PopulatedIsProtected | "lost" in Interference | a retry toggles the TP/SL switch off again (order_population.py:97) |
| ServedIsActive, BlockedIsSilent, EveryValidationHasAFold | any | MLflow's production stage is served, not the registry's row; model_blocks is written and read by nothing; a version trained to the last bar has no later rows to be validated on |
| no stored bar is "partial" | any | run_backfill ends by default now (main.py:187) and stores what comes back, the forming bar too (cli/collect.py:266-272), which stays: "a half-formed bar stored mid-period would never be corrected" (cli/collect.py:30-31) |
| OnlyBackfillsStoreForming | Page = Depth | an exchange that serves no more than a page answers an old range with its newest bars, the forming one among them; only Binance is backfilled (cli/collect.py:263), which serves its full history |
| NoHoles | Adjoining = FALSE | a backfill of a range past the latest bar, or before the first, leaves a hole that no later run fills |
| LabelsAreTrue for funding rows with run = 0 | a venue other than Binance that lists a perpetual | funding rates are always Binance's, but backfill_engine_results_exchange infers the label of a legacy row from the bars; train_loop.sh:17 collects all exchanges and HTX lists the same USDT names (htx_collector.py:45-54), so with bars of HTX alone such a row is labelled htx |
| BooksReconcile | 0 in TapePrices or HedgePrices | a missing price closes nothing (engine.py:288-313 against its comment at 361-363) |
| ResultIsOfItsFold | EmptyFolds = TRUE | a fold without rows hands on the previous fold's result (engine.py:350-354) |
| LossHalts | any | the day's start equity is taken at the price of its first row (engine.py:374-387) |
| OpeningIsNeutral | beta other than 100 | the legs of a spread are not equal in notional (engine_eval.py:131-149) |
| StepIsHonoured | rolling | the next training window starts after the last test window, so folds advance by training and test length together, whatever the step (splitter.py:160-163 against line 51) |
| ReversionIsValid | any | get_trades compares the reversion with the wrong sign (stat_arb.py:225-233) |
| GateOnlyWithholds | a z that crosses the band at once | a gate that was shut at the first crossing and opens after z jumped to the other side lets the gated carry in there, while the ungated one still holds the first |
| RowsAreHedged | 4 in Hedges | a hedge below one half rounds to no second leg (stat_arb.py:343-346) |
| MeanIsFlat | Flatlines with TRUE | a constant training spread: the authority's z is infinite off the mean and NaN at it, so a position never ends; the adapter divides by 1.0 |
| OneJobPerType | two Workers, or two Requests | each gunicorn worker has its own registry, and check and submit are two critical sections (trading_routes.py:590) |
| WorkerRunsOne | Garbled = TRUE | output that does not decode marks a job failed whose process lives on |

### Bounds

Live runs. Two slots on two symbols are enough to rotate and to hold a stale slot.
`MaxQty = 2` gives the one partial fill that differs from none and from all;
`MaxHolding` stops runaway exposure after a timed out placement, and equals
MaxQty wherever nothing is lost. One calendar turn (`MaxDay = 1`) separates the
halts that a day resets from those it does not. One order id suffices where one
process runs, since it settles an order before the next; the faults that orphan
orders are then limited to one orphan at a time. Two processes are the smallest
overlap; symmetry in processes and order ids is used only there, where no
liveness is checked.

Two runs compare states through a VIEW: paper_slots leaves the journal out once
operations overlapped or one died, since no action reads it and no property
asks about it from then on; research leaves out copies in memory that no later
step reads (each MC module says which).

Signal runs. One slot has two keys (LONG and SHORT), enough for two rows and for
the unique index to matter. `MaxGates` limits the setups that are evaluated: two
(senior_crashes, kraken_prop) are needed to refresh a row or to reject its
refresh, one elsewhere; sweeps go on after it is reached. Overlapping scans
are in kraken_prop, where nobody decides on what they write and the clock stays
within `Life`; in senior_crashes, with sessions and reviews, one scanner runs.
`MaxTime = 2` with `Life = 1` reaches every order of a row's expiry and a
session's `now`: before, equal and after. `MaxDecisions` stops new reviews, not one under way, so
a review of two rows may exceed it by one; with `QueueLimit = 1` the second
decision has to wait for another session.

Paper runs. One slot, one command line process and one request: what overlaps is
on one row, since rows share nothing. Money is counted in units of the smallest
loss: a capital of 6 with a soft floor 3 and a hard floor 4 below it and a daily
limit of 2, prices of 1 and 2, orders of 2 or 1, so that every floor is reached
from above by one price move; `MaxEquity` caps a lucky run. `MaxDay = 2` gives the
day a halt falls on and the next, with the closed bar of yesterday or a backfilled
one of the day (fault openBar). In paper_slots an operation ends on the day it
began; the proofs do not need that.

kraken_prop. `Balances` are a row of a thousand dollars and poorer ones between and
below each of our floors and Kraken's. `Risks` are the default of the model's tier,
75 basis points, less than it and twice it; the configuration may set
pending_signal_risk_pct to anything (pending_signal_detector.py:252), and 150 is
large enough to ask for more than each room. `Gears` are a stop at 2.5 per cent
and a tight one, whose costs the fee filter refuses. Two trades overlap in the
ledger over 13 hours, three settlements and a start between two. The form has a buy
and a sell, two runs and four attempts: a retry after each kind of interference,
any number of stale dumps among them, and a second order over a form that
remembers the first.

research. Two collectors over four bars with pages of two and a bucket of three: a
page boundary, a complete and an incomplete bucket and an overlap in any order.
Backfills have any range that begins within the stored bars or right after them
(`Adjoining`), up to now included. A state is told apart by `MCView`: a stored bar
stays, so what a process holds of it, and why it was missing before, is dead.
Two training jobs, two
versions and a predictor: the smallest race to promote. The record has two
symbols, of which one is a perpetual, the three venues, of which HTX lists the
perpetual as Binance does, a run and one parameter set. The engine runs
two folds of up to three bars, with a step in either direction; the evaluation
four bars; the pair four, with two spreads each, which covers an entry, a jump
across the band and an exit on either side of a gap. Windows of 1, 3 and 6 months on a calendar of 15
start on first, middle and last days of months of 28 to 31 days. Two workers
with a request each, two job ids and two hours suffice for an eviction, a
conflict and a restart.

Deadlock is checked in the live, paper, signal and kraken_prop runs: an
operation always has a next step, and an idle process may always start. The
research, rebuild_loss and daily_loss runs switch it off because tapes, calendars
and runs end there.

### Fairness

live_sequential (LiveTrader's FairSpec). An operation is straight-line code
whose waits time out: weak fairness of Advance. Nothing in the repository schedules
live cycles: train_loop.sh runs `main.py paper` only, and a live cycle starts when
a person runs `main.py live` or types LIVE in the dashboard's dialog
(trading_routes.py:587-598, dashboard.js:704-721). So cycles are not assumed:
that they go on is a premise of the property itself (CyclesGoOn => ...). That the
exchange accepts some placement and fills some resting unit if asked for ever
(strong fairness of PlaceAccepted and Fill) is an assumption on the exchange, not
on the code: without it no code could flatten a position.

senior_fair (SeniorTrader's FairSpec). A paper session under way goes on to its
end and the operator keeps running sessions (weak fairness of Processing and
BeginPaper); nothing is assumed of scans, sweeps, reviews and the dashboard. It
is checked without crashes, since a crash may strand an intent.

No other run needs fairness: what the paper trader, the form, the collectors and
the jobs promise is that a step is never wrong. Retries and next runs are left to
operators or to a schedule outside the code.

## Theorems

"Any" means for every value of the constants that the module's named ASSUME
allows, which bounds no number of processes, slots, symbols or bars.

| Theorem | States | Assumes |
| --- | --- | --- |
| TypeCorrect | []TypeOK of LiveTrader | nothing more |
| GatesHold | []OpensOnlyUnhalted, any processes, any faults | nothing more |
| OrdersAreWatched | []NoOrphanOrders, any processes | ReliableCancels: no failed cancel, timed out placement or crash |
| NoDrift | []NoSilentDrift | Sequential: one operation at a time, failing re-reads and missing bars the only faults, a careful operator |
| NothingStacks | []NoStacking | Sequential |
| FailureSticks, ManualHaltSticks | FailureIsSticky, ManualHaltIsSticky | OneAtATime, any faults |
| HaltedOpensNothing | NoOpenWhileHalted | OneAtATime, any faults |
| AccountImplemented | ImplementsAccount: LiveTrader refines ExchangeAccount | Sequential |
| KillSwitchHalts (LiveTraderProofs) | KillHalts, any processes, any interleaving | no crash, no missing bars |
| SeniorTypeCorrect | []TypeOK of SeniorTrader | nothing more |
| RowsApproved, TakesApproved, IntentsApproved | RowsAreApproved, TakesAreApproved, IntentsAreApproved, any processes, crashes anywhere | nothing more |
| OneActive | []OneActivePerKey, any scans, sweeps and resolutions, crashes anywhere | nothing more |
| OneIntent | []OneIntentPerDecision | at most one process runs paper sessions |
| LedgerImplemented | ImplementsLedger: SeniorTrader refines DecisionLedger, crashes included | the same |
| SessionsFinish | []SessionsComplete, any number of sessions | no crashes |
| PaperTypeCorrect, PaperHaltsFlat | []TypeOK and []HaltedIsFlat of PaperTrader, any slots, processes and faults | nothing more |
| OpensAboveFloor | []OpenAboveFloor, any faults | Cost <= 1 |
| JournalIsTrue | []JournalMatchesRow, any faults | ReplaysFromFlat: a replay starts over no position |
| ReplayedOnceIsFlat | ReplaysFromFlat | no second replay of a slot |
| KillSwitchHalts (PaperTraderProofs) | KillHalts, any replays and faults | nothing more |
| DailyHaltHoldsForItsBars | DailyHaltHolds, any slots, bars and faults | nothing more (the property asks for no overlap) |
| FeesComplete, PricedCovers | []FeesAreComplete, []PricedFundingCovers, any trades, both ways of counting funding | nothing more |
| VerdictStaysMonotone, AdmittedKeepsFloors | []VerdictIsMonotone, []AdmittedLossKeepsFloors, any rows, risks, stops and tiers | nothing more |
| MatchedIsIntended | MatchedFormIsIntended, any number of stale dumps | no touch |
| CleanPopulates | []CleanRunPopulates | no touch |
| RankedOnKraken | []RankedIsKraken, any venues, symbols and faults | nothing more |
| LabelsHold | []LabelsAreTrue, any venues, listings and faults | nothing more |
| NoHolesLeft | []NoHoles, any collectors, pages and faults | Adjoining: backfills adjoin the stored bars |
| FormingComesFromBackfills | OnlyBackfillsStoreForming, any collectors, pages, ranges and faults | Page < Depth |
| BooksHold | []BooksReconcile, any prices, costs and signals | no leg lacks a price |
| EntriesStayInLimits | []EntriesRespectLimits | nothing more |
| FoldsAreClean | []SplitIsClean, rolling and anchored, any lengths | the first days are dates of the calendar |
| TradesSpan | []TradesSpanTheBands, any thresholds, any two sequences of spreads | nothing more |
| OneJobPerWorker | []WorkerRunsOne, any workers and jobs | SyncWorkers (a request at a time), output that decodes |
| OnlyPassedServed, ProductionStays | []ServedHasPassed, ProductionIsKept, any jobs, predictors and versions, any faults | nothing more |

What the hypotheses stand for. Most are the line between what the code promises
and a disagreement of the table above, where the same property fails without them
(Sequential, missing bars, ReplaysFromFlat, a second paper session, crashes of a
session, touches of the phone, legs without a price, Adjoining, Page = Depth).
`Cost <= 1` scales the
model's money: an order is only opened with headroom left, a cost that eats more
than the smallest headroom would be larger than what max_safe_notional allows
to be lost (position.py:78-92; paper_trader.py:278 caps the order by it), since
costs are a fraction of a percent of a notional that is itself capped by the
headroom.

### Arguments

LiveTraderProofs. TypeOK is not inductive: Fill and CancelOrder write
`book[oid[p]]`, so `TypeInv` adds that a waiting process knows its order's id.
GatesHold needs `Gate`: the reopening after a flip does not look at
account_failed again (line 506), which is sound because a flip is only started
on an account that has not failed, and `Gate` carries that through the close.
OrdersAreWatched rests on `WatchInv`: orders and their waiting processes
correspond one to one, and what is re-read has been cancelled.
NoDrift rests on `DriftInv`: the working copy plus the fills of the order under
way always equals what the exchange holds, or the copy is halted. The lemmas
follow it through a load (AccountedRow, MatchedRow), a decision (DecideLeaves), a
unit filled (FillDrift, where the copy's deficit and the holding grow together),
a cancel, a recorded fill (SettleDrift) and a return (ReturnDrift). Without
Sequential it is false: a kill switch during a cycle, a timed out placement and
a failed cancel break it or its halts. NothingStacks joins it with `StackInv`, that
an opening order at the exchange is the one its process asked for from a flat,
unhalted copy: what DriftInv accounts for is then the order's own fills.
FailureSticks and ManualHaltSticks rest on `HaltInv`: a copy keeps the halts of
the row it was loaded from; with Gate that gives HaltedOpensNothing. `KillInv`
needs no such thing: whatever happens to the row, a kill switch settles only its
own closes and saves only a halted copy.
AccountImplemented needs all of these and `HandInv`: a copy in hand is halted only
where the row is, a closing order asks for exactly what its copy holds, and an
order that rests is not filled to the end. A fill is then a step of the account
(FillIsMove): of an opening order, on nothing but the order's own fills; of a
close, with the deficit DriftInv accounts for still to come, so that it cannot
overshoot. Every other step leaves the account alone or is the operator's.

SeniorTraderProofs. `ApprovalInv`: RowsAreApproved is not inductive alone:
between the gate's commit and the upsert the approval lives only in the
scanner's memory (ScansAreAdmitted); likewise a review's snapshot
(ReviewsAreApproved) and a session's copy of a row (TradersAreApproved) have to
be approved before what they write is. That no table loses or re-keys a row
(GatesStay, KeysStay, DecisionsStay) is what keeps an approval once given
(ApprovalsKept). OneActive: `ActiveInv`, where a new row appears only when the
upsert found no active one of its key, and nothing ever makes a row active
again. OneIntent adds that what a session has queued or holds to build
has no intent yet; a second session breaks exactly this. SessionsFinish rests
on `SessionInv`: whatever is pending, or filled and not journaled, is in some
session's hands (InHand), and a session's own step does not loosen another's
grip. LedgerImplemented rests on `LedgerInv`: a session fills what is pending and
journals what is filled and has no entry (ActsInTurn), and an entry stands for a
fill; then the stage that `Stage` reads off the tables moves as the ledger's does,
one decision at a time, or not at all.

PaperTraderProofs. HaltedIsFlat says nothing of memory, while every save writes a
whole copy back, late or not. So `PaperInv` asks it of every copy: the one under
way and the dashboard's snapshot of each row. `SecureInv` does the same for the
floor. `SerialInv` says what one operation among quiet ones may believe: its slot
is ahead of its row, journal and row agree everywhere else, and the operator's
list is still true for the slots it has not come to (TellsOneStory); for a kill
switch also that what it has written is halted (HaltsSoFar). What it says of the
journal ends with a replay over a position, so that part is asked for only where replays start from flat slots (`kept`); KillSwitchHalts does without. `HoldInv`:
a copy in hand still has the halt, the quantity and the day of the row it will be
saved over (Follows), and no cycle under way read a bar later than the latest one;
then a halt that a save lifts was lifted by a rollover, and what a halted copy
holds it was loaded with.

ResearchProofs. `SplitInv`: that two folds share no test day needs a statement
about the next one. FoldsSoFar says that the next window lies behind every test
window so far, which the step preserves because the splitter never moves less
than past the last test day. `PairInv` adds that the followed trade has the
authority's side and opened beyond the band; the gated carry follows the
adapter's own z alone. `BooksInv` is BooksReconcile
with the types it needs, proved of a close, an opening and a flip as operators on
a deal (CloseExplains, OpenExplains), and then of a bar. `LimitsInv` says that what
was lost is remembered: the account stays halted for the rest of the day.

KrakenProofs. `FeeInv`: an open trade has been charged up to `funded` as if all of
it had been counted at once; ChargesAddUp, that a hold charged in two parts costs what
it costs in one, is the arithmetic of funding marks; PricedIsNoLess compares them
with started blocks. VerdictStaysMonotone: a
poorer row trips at least the rules that the richer one trips
(PoorerTripsMore), with exposure on the setup's side no less (HarsherLeansMore), and
more rules rank no higher (MoreRulesRankLower).
AdmittedKeepsFloors: each room ends above Kraken's floor whatever the roundings
(RoomsEndAboveFloors), and what is admitted fits both.
`DumpInv`: while nothing moves, what a fresh dump shows is on the phone, and a dump
that agrees with the one before is fresh, follows a fresh one, or both are stale. `PopulateInv`:
how far a clean population has come, command by command (Progress), with the
form's mode at each, since the coordinates hit something else in another mode.

DataProofs. `RecordInv`: sources only grow, so an audit that names one venue,
however old, names the one whose prices were read, in the rows, in the flags and
in the cache an engine holds alike. `LabelInv` adds that a label, written or
inferred, names that venue; the inference looks at today's venues, and if one is
left, it was the only one then. Of funding rows of before the venue was recorded it
says nothing, since their prices were Binance's whatever is stored. `HoleInv`: below a stored bar, from the first one
on, everything is stored or excused, and what a process asks for adjoins what is
stored or what it holds; that is why going on from the latest bar leaves no hole.
`FormingInv`: a run may hold a forming bar, but none before its own end, and drops
the others when it inserts; a backfill drops nothing, and holds none a page past
its end.

DashboardJobsProofs. `JobInv`: a worker's registry is safe only with what is
outside it. A job whose process lives is in a registry as running
(AliveIsRunning), of one worker (OneOwner); a request that found a type free
still finds it free when it submits (FreeStaysFree), which is where SyncWorkers
is needed.

ModelLifecycleProofs. `LifeInv`: between a verdict and the registry's row, what is
promoted lives only in the job's memory; PassedInv therefore asks of jobs, of
MLflow's stages and of caches at once that what they hold has passed.
ProductionStays also needs that a failed INSERT rolls back the UPDATE before it,
and that the latest of several rows exists (MaxOfSome, by well-foundedness of <).

### Only model-checked

BreachFlattens and EveryTakeSettles are liveness under fairness. Neither liveness
nor ENABLED is within the prover's reach; nor is induction over data. The modules declare no
RECURSIVE operator. Of the properties named in the table of
disagreements none is proved beyond its hypotheses: it is false there.

## Not modelled

- Alerts, dashboard views, senior trader reports and configuration, browser
  observation, compliance gate: they read, print, send or raise and leave nothing
  another part reads.
- Scores of the leaderboard, overfitting and significance tests, research
  verdicts, regime classifier, features, labels, single-asset strategies,
  portfolio: floating point arithmetic over whole price series. What they decide is a choice in the
  models that act on it.
- Configuration, command line, training loop, migrations: they schedule or
  describe what is modelled where it runs; the uniqueness constraints the
  migrations create are used as facts.
- Inside modelled parts: the live trader's order log, leverage and margin
  settings; the incidents table, which nothing reads into a decision; Kelly and
  volatility sizing and variable slippage of the backtest engine; the audit and
  verify_data.py, which only read.

## Plan

Done: LiveTrader, PendingSignals, SeniorTrader, DecisionLedger, PaperTrader,
KrakenFees, PropDesk, OrderForm, DataCollection, TrackRecord, BacktestEngine,
PairEvaluation, WalkForward, PairSignals, ModelLifecycle, DashboardJobs.

Proved: every property of a passing run but the two under "Only model-checked".

Next, in this order:

1. A composition of LiveTrader's row with the gate that reads it, once the code books
   hand-placed trades and turns the day (the gap pending_signal_detector.py:293-298 names).
2. An exposure that the paper trader refines as LiveTrader does ExchangeAccount;
   its rows are saved whole, so that two processes may undo each other's opens,
   and the promise has to be one about single saves.
