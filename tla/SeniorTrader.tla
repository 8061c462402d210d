---------------------------- MODULE SeniorTrader ----------------------------
(***************************************************************************)
(* The senior trader on top of the signal tables: review_session.py reads  *)
(* active signals and records decisions, paper_session.py (execution_mode  *)
(* PAPER) turns TAKE decisions into execution intents, simulates their     *)
(* fills and journals them.  Every write is a transaction of its own, so   *)
(* sessions interleave with the scan, the sweep, the dashboard and each    *)
(* other between any two of them, and may be killed there.                 *)
(*                                                                         *)
(* A row's id is its place in its table.  Incidents are left out: nothing  *)
(* reads them back into a decision.                                        *)
(***************************************************************************)
EXTENDS PendingSignals, FiniteSets

CONSTANTS
  Reviewers,     \* processes that may run senior-trader-review
  Traders,       \* processes that may run senior-trader-paper
  QueueLimit,    \* LIMIT of take_decisions_without_intent (50 in the code)
  MaxDecisions   \* no review starts once this many decisions were recorded

ASSUME TraderConstants ==
  /\ QueueLimit \in Nat \ {0}
  /\ MaxDecisions \in Nat

VARIABLES
  decisions,  \* the decisions table
  intents,    \* the execution_intents table
  journal,    \* the trade_journal table
  review,     \* what each reviewer holds in memory
  trader      \* what each paper session holds in memory

traderVars == <<decisions, intents, journal, review, trader>>
vars == <<clock, gates, signals, scan, decisions, intents, journal, review, trader>>

\* signal = 0: the placeholder of a session that found nothing active.
\* gate = 0: no APPROVE or REDUCE was found for the key.
\* levels: the price the evidence quotes.
Decision == [signal : Nat, gate : Nat, take : BOOLEAN, levels : Nat]
Intent == [decision : Nat, signal : Nat, levels : Nat, expires : Nat,
           status : {"pending", "filled", "expired"}]
Entry == [decision : Nat, levels : Nat]

Snapshot == [id : Nat, key : Key, levels : Nat, expires : Nat]
Review == [pc : {"idle", "read", "placeholder", "decide"}, now : Nat,
           rows : SUBSET Snapshot]
Trader == [pc : {"idle", "read", "next", "build", "fill", "journal"}, now : Nat,
           queue : SUBSET Nat, decision : Nat, levels : Nat, expires : Nat,
           intent : Nat]

IdleReview == [pc |-> "idle", now |-> 0, rows |-> {}]
IdleTrader == [pc |-> "idle", now |-> 0, queue |-> {}, decision |-> 0,
               levels |-> 0, expires |-> 0, intent |-> 0]

-----------------------------------------------------------------------------
(* run_review_cycle                                                        *)

BeginReview(r) ==
  /\ review[r].pc = "idle"
  /\ Len(decisions) < MaxDecisions
  /\ review' = [review EXCEPT ![r].pc = "read", ![r].now = clock]
  /\ UNCHANGED <<signalVars, decisions, intents, journal, trader>>

\* active_signals: the rows as they are now; the cycle never reads them again.
SnapshotOf(i) == [id |-> i, key |-> signals[i].key, levels |-> signals[i].levels,
                  expires |-> signals[i].expires]
ReadSignals(r) ==
  /\ review[r].pc = "read"
  /\ review' = [review EXCEPT
       ![r].pc = IF ActiveIds = {} THEN "placeholder" ELSE "decide",
       ![r].rows = {SnapshotOf(i) : i \in ActiveIds}]
  /\ UNCHANGED <<signalVars, decisions, intents, journal, trader>>

RecordPlaceholder(r) ==
  /\ review[r].pc = "placeholder"
  /\ decisions' = Append(decisions,
       [signal |-> 0, gate |-> 0, take |-> FALSE, levels |-> 0])
  /\ review' = [review EXCEPT ![r] = IdleReview]
  /\ UNCHANGED <<signalVars, intents, journal, trader>>

\* Faulty variant: latest_decision without its filter on the action.
EveryVerdict(key) == {g \in DOMAIN gates : gates[g].key = key}
Approvals(key) == {g \in DOMAIN gates : Approved(g, key)}

\* latest_decision: by natural key, 0 for None.
IsLatest(g, key) ==
  IF Approvals(key) = {} THEN g = 0
  ELSE g \in Approvals(key) /\ \A h \in Approvals(key) : h <= g

\* _decide_one and _persist_decision, newest signal first.
RecordDecision(r) ==
  /\ review[r].pc = "decide"
  /\ \E row \in review[r].rows, g \in 0 .. Len(gates) :
       /\ \A other \in review[r].rows : other.id <= row.id
       /\ IsLatest(g, row.key)
       /\ decisions' = Append(decisions,
            [signal |-> row.id, gate |-> g, levels |-> row.levels,
             take |-> row.expires > review[r].now])
       /\ review' = [review EXCEPT ![r] =
            IF review[r].rows = {row} THEN IdleReview
            ELSE [review[r] EXCEPT !.rows = @ \ {row}]]
  /\ UNCHANGED <<signalVars, intents, journal, trader>>

ReviewCrash(r) ==
  /\ Crashes
  /\ review[r].pc # "idle"
  /\ review' = [review EXCEPT ![r] = IdleReview]
  /\ UNCHANGED <<signalVars, decisions, intents, journal, trader>>

-----------------------------------------------------------------------------
(* run_paper_trading_cycle                                                 *)

\* The session turns to its next decision.
AtNext(t) == [IdleTrader EXCEPT !.pc = "next", !.now = trader[t].now,
                                !.queue = trader[t].queue]

BeginPaper(t) ==
  /\ trader[t].pc = "idle"
  /\ trader' = [trader EXCEPT ![t].pc = "read", ![t].now = clock]
  /\ UNCHANGED <<signalVars, decisions, intents, journal, review>>

Takes == {d \in DOMAIN decisions : decisions[d].take}

\* take_decisions_without_intent; faulty variants: without its join; only for
\* signals that are still active.
HasIntent(d) == \E i \in DOMAIN intents : intents[i].decision = d
WaitingOrNot == Takes
WaitingActive == {d \in Takes : ~HasIntent(d) /\ decisions[d].signal \in ActiveIds}
Waiting == {d \in Takes : ~HasIntent(d)}

ReadQueue(t) ==
  /\ trader[t].pc = "read"
  /\ trader' = [trader EXCEPT
       ![t].pc = "next",
       ![t].queue = {d \in Waiting : Cardinality({e \in Waiting : e < d}) < QueueLimit}]
  /\ UNCHANGED <<signalVars, decisions, intents, journal, review>>

\* _process_one begins: signal_by_id, whatever the row's status is by now.
LoadSignal(t) ==
  /\ trader[t].pc = "next"
  /\ \E d \in trader[t].queue :
       /\ \A e \in trader[t].queue : d <= e
       /\ LET row == signals[decisions[d].signal]
          IN trader' = [trader EXCEPT
               ![t].pc = "build", ![t].queue = @ \ {d}, ![t].decision = d,
               ![t].levels = row.levels, ![t].expires = row.expires]
  /\ UNCHANGED <<signalVars, decisions, intents, journal, review>>

\* build_execution_intent and persist_execution_intent.
BuildIntent(t) ==
  /\ trader[t].pc = "build"
  /\ intents' = Append(intents,
       [decision |-> trader[t].decision,
        signal |-> decisions[trader[t].decision].signal,
        levels |-> trader[t].levels, expires |-> trader[t].expires,
        status |-> "pending"])
  /\ trader' = [trader EXCEPT ![t].pc = "fill", ![t].intent = Len(intents) + 1]
  /\ UNCHANGED <<signalVars, decisions, journal, review>>

\* simulate_execution, against the session's own idea of now; faulty variant:
\* a status the table does not have.
OutcomeUnfilled(now, expires) == IF now > expires THEN "unfilled" ELSE "filled"
Outcome(now, expires) == IF now > expires THEN "expired" ELSE "filled"

\* reconcile finds nothing to object to in a simulated fill; faulty variant:
\* what expired is journaled and what filled is not.
JournalsExpired(status) == status = "expired"
Journals(status) == status = "filled"

\* record_fill_outcome
RecordFill(t) ==
  /\ trader[t].pc = "fill"
  /\ LET status == Outcome(trader[t].now, trader[t].expires)
     IN /\ intents' = [intents EXCEPT ![trader[t].intent].status = status]
        /\ trader' = [trader EXCEPT
             ![t] = IF Journals(status) THEN [@ EXCEPT !.pc = "journal"] ELSE AtNext(t)]
  /\ UNCHANGED <<signalVars, decisions, journal, review>>

WriteJournal(t) ==
  /\ trader[t].pc = "journal"
  /\ journal' = Append(journal,
       [decision |-> trader[t].decision, levels |-> trader[t].levels])
  /\ trader' = [trader EXCEPT ![t] = AtNext(t)]
  /\ UNCHANGED <<signalVars, decisions, intents, review>>

\* The audit only reads.
EndPaper(t) ==
  /\ trader[t].pc = "next"
  /\ trader[t].queue = {}
  /\ trader' = [trader EXCEPT ![t] = IdleTrader]
  /\ UNCHANGED <<signalVars, decisions, intents, journal, review>>

PaperCrash(t) ==
  /\ Crashes
  /\ trader[t].pc # "idle"
  /\ trader' = [trader EXCEPT ![t] = IdleTrader]
  /\ UNCHANGED <<signalVars, decisions, intents, journal, review>>

-----------------------------------------------------------------------------
Init ==
  /\ SignalInit
  /\ decisions = <<>>
  /\ intents = <<>>
  /\ journal = <<>>
  /\ review = [r \in Reviewers |-> IdleReview]
  /\ trader = [t \in Traders |-> IdleTrader]

Reviewing(r) ==
  BeginReview(r) \/ ReadSignals(r) \/ RecordPlaceholder(r) \/ RecordDecision(r) \/ ReviewCrash(r)

\* The steps of a session that is under way.
Processing(t) ==
  \/ ReadQueue(t) \/ LoadSignal(t) \/ BuildIntent(t) \/ RecordFill(t)
  \/ WriteJournal(t) \/ EndPaper(t)
Papering(t) == BeginPaper(t) \/ Processing(t) \/ PaperCrash(t)

Next ==
  \/ SignalNext /\ UNCHANGED traderVars
  \/ \E r \in Reviewers : Reviewing(r)
  \/ \E t \in Traders : Papering(t)

Spec == Init /\ [][Next]_vars

\* A session that runs goes on to its end, and the operator keeps running them.
Fairness ==
  \A t \in Traders : WF_vars(Processing(t)) /\ WF_vars(BeginPaper(t))
FairSpec == Spec /\ Fairness

-----------------------------------------------------------------------------
(* Properties                                                              *)

TypeOK ==
  /\ SignalTypeOK
  /\ decisions \in Seq(Decision)
  /\ intents \in Seq(Intent)
  /\ journal \in Seq(Entry)
  /\ review \in [Reviewers -> Review]
  /\ trader \in [Traders -> Trader]

\* auditor.py's first check, and more: however scans, sweeps and reviews
\* interleave, each TAKE cites a gate decision that approved or reduced a
\* setup of the very key its signal has.
TakesAreApproved ==
  \A d \in Takes :
    /\ decisions[d].signal \in DOMAIN signals
    /\ Approved(decisions[d].gate, signals[decisions[d].signal].key)

\* The levels an intent relays passed the gate (execution_intent.py:77-81)
\* even when the row was refreshed, expired or resolved after the decision,
\* and the decision behind them is a TAKE on the same signal.
IntentsAreApproved ==
  \A i \in DOMAIN intents :
    LET intent == intents[i]
    IN /\ intent.decision \in Takes
       /\ decisions[intent.decision].signal = intent.signal
       /\ Approved(intent.levels, signals[intent.signal].key)

OrdersOf(d) == {i \in DOMAIN intents : intents[i].decision = d}
EntriesOf(d) == {j \in DOMAIN journal : journal[j].decision = d}

\* Migration 0023: a status "starts 'pending', becomes 'filled' or 'expired'".
\* Once no paper session runs, no intent is pending and every fill is in the
\* journal.
SessionsComplete ==
  (\A t \in Traders : trader[t].pc = "idle") =>
    \A i \in DOMAIN intents :
      /\ intents[i].status # "pending"
      /\ intents[i].status = "filled" => EntriesOf(intents[i].decision) # {}

\* A decision gets at most one execution intent ("every TAKE decision that
\* hasn't yet had an execution_intent built for it", adapters/decisions.py).
OneIntentPerDecision ==
  \A i, j \in DOMAIN intents : intents[i].decision = intents[j].decision => i = j

\* The same setup is not taken twice (AGENT_ORCHESTRATION.md, section 36:
\* "duplicate decision").
TakenOnce ==
  \A d, e \in Takes :
    /\ decisions[d].signal = decisions[e].signal
    /\ decisions[d].levels = decisions[e].levels
    => d = e

\* adapters/gate.py: the latest APPROVE or REDUCE of an active row's key "is
\* the one that actually approved it".
CitesItsApproval == \A d \in Takes : decisions[d].gate = decisions[d].levels

\* AGENT_ORCHESTRATION.md, section 15: a signal that became stale before
\* execution is not executed.
NoFillOfExpiredSignal ==
  [][\A i \in DOMAIN intents :
       intents[i].status = "pending" /\ intents'[i].status = "filled"
         => signals[intents[i].signal].status # "expired"]_vars

\* While operators keep running sessions, a queue limit and sweeps that expire
\* the signal meanwhile leave no TAKE behind without an outcome.
Settled(d) ==
  \E i \in OrdersOf(d) : intents[i].status # "pending"
EveryTakeSettles ==
  \A d \in 1 .. MaxDecisions : (d \in Takes) ~> Settled(d)

\* What DecisionLedger promises, read off the three tables; it knows no stage
\* for a decision that is ordered or journaled twice.
Stage(d) ==
  LET status == intents[CHOOSE i \in OrdersOf(d) : TRUE].status
  IN IF d \notin Takes THEN "no_trade"
     ELSE IF OrdersOf(d) = {} THEN "taken"
     ELSE IF Cardinality(OrdersOf(d)) > 1 \/ Cardinality(EntriesOf(d)) > 1 THEN "duplicate"
     ELSE IF status = "pending" THEN "ordered"
     ELSE IF EntriesOf(d) # {} THEN "journaled"
     ELSE status
Ledger == INSTANCE DecisionLedger WITH
            ledger <- [d \in DOMAIN decisions |-> Stage(d)]

\* One paper session at a time implements the ledger, crashes included.
ImplementsLedger == Ledger!LedgerSpec
=============================================================================
