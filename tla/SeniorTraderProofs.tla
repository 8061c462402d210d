------------------------- MODULE SeniorTraderProofs -------------------------
(***************************************************************************)
(* Theorems about SeniorTrader, for every set of processes and slots and   *)
(* every value of the bounds.                                              *)
(***************************************************************************)
EXTENDS SeniorTrader, SequenceTheorems, FiniteSetTheorems, TLAPS

\* A scanner about to write a row holds the id of the decision that admitted it.
ScansAreAdmitted ==
  \A s \in Scanners : scan[s].pc = "upsert" =>
    scan[s].levels \in DOMAIN gates /\ gates[scan[s].levels].action # "REJECT"

\* A snapshot names an existing signal by its own key, with admitted levels.
ReviewsAreApproved ==
  \A r \in Reviewers : \A row \in review[r].rows :
    /\ row.id \in DOMAIN signals
    /\ signals[row.id].key = row.key
    /\ Approved(row.levels, row.key)

\* A paper session works on TAKE decisions, holds admitted levels while it
\* builds an intent, and has stored the intent it fills and journals.
TraderIsApproved(t) ==
  /\ trader[t].queue \subseteq Takes
  /\ trader[t].pc \in {"build", "fill", "journal"} => trader[t].decision \in Takes
  /\ trader[t].pc = "build" =>
       Approved(trader[t].levels, signals[decisions[trader[t].decision].signal].key)
  /\ trader[t].pc \in {"fill", "journal"} => trader[t].intent \in DOMAIN intents
TradersAreApproved == \A t \in Traders : TraderIsApproved(t)

ApprovalInv ==
  /\ TypeOK
  /\ ScansAreAdmitted
  /\ RowsAreApproved
  /\ ReviewsAreApproved
  /\ TakesAreApproved
  /\ TradersAreApproved
  /\ IntentsAreApproved

-----------------------------------------------------------------------------
(* Tables.                                                                 *)

\* A function on an initial segment of the naturals is a table.
LEMMA TableType ==
  ASSUME NEW S, NEW n \in Nat, NEW f \in [1 .. n -> S]
  PROVE  f \in Seq(S) /\ DOMAIN f = 1 .. n /\ Len(f) = n
<1>1. f \in Seq(S)
  BY SeqDef
<1> QED
  BY <1>1, LenProperties

LEMMA AppendType ==
  ASSUME NEW S, NEW q \in Seq(S), NEW e \in S
  PROVE  /\ Append(q, e) \in Seq(S)
         /\ DOMAIN Append(q, e) = DOMAIN q \cup {Len(q) + 1}
         /\ \A i \in DOMAIN q : Append(q, e)[i] = q[i]
         /\ Append(q, e)[Len(q) + 1] = e
         /\ DOMAIN q = 1 .. Len(q) /\ Len(q) \in Nat
         /\ Len(q) + 1 \notin DOMAIN q
BY LenProperties

\* An UPDATE of some rows keeps the table's shape.
LEMMA UpdateType ==
  ASSUME NEW S, NEW q \in Seq(S), NEW f \in [DOMAIN q -> S]
  PROVE  f \in Seq(S) /\ DOMAIN f = DOMAIN q
BY LenProperties, TableType

LEMMA ActiveType ==
  ASSUME SignalTypeOK
  PROVE  /\ ActiveIds \subseteq DOMAIN signals /\ ActiveIds \subseteq Nat
         /\ \A i \in DOMAIN signals : i \in Nat /\ signals[i] \in Signal
BY LenProperties, ElementOfSeq DEF SignalTypeOK, ActiveIds

-----------------------------------------------------------------------------
(* What a step never takes back.                                           *)

GatesStay == \A g \in DOMAIN gates : g \in DOMAIN gates' /\ gates'[g] = gates[g]
KeysStay ==
  \A i \in DOMAIN signals : i \in DOMAIN signals' /\ signals'[i].key = signals[i].key
DecisionsStay ==
  \A d \in DOMAIN decisions : d \in DOMAIN decisions' /\ decisions'[d] = decisions[d]

LEMMA ApprovalsStay ==
  ASSUME GatesStay, NEW levels, NEW key, Approved(levels, key)
  PROVE  Approved(levels, key)'
BY DEF GatesStay, Approved

-----------------------------------------------------------------------------
(* The steps of the signal tables.                                         *)

ScanInv == SignalTypeOK /\ ScansAreAdmitted /\ RowsAreApproved

LEMMA IdleScanType == IdleScan \in Scan /\ IdleScan.pc = "idle"
BY DEF IdleScan, Scan

LEMMA RestType ==
  ASSUME SignalTypeOK, NEW s \in Scanners, NEW slot
  PROVE  Rest(s, slot) \in Scan /\ Rest(s, slot).pc # "upsert"
BY DEF SignalTypeOK, Rest, IdleScan, Scan

\* What a scanner holds between the gate and the upsert.
LEMMA HeldType ==
  ASSUME NEW x \in Scan, NEW levels \in Nat, NEW expires \in Nat
  PROVE  LET held == [x EXCEPT !.pc = "upsert", !.levels = levels, !.expires = expires]
         IN held \in Scan /\ held.levels = levels
BY DEF Scan

\* A step that only moves scanners, none of them to an upsert.
LEMMA ScanOnly ==
  ASSUME ScanInv, UNCHANGED <<gates, signals>>, clock' \in Nat,
         scan' \in [Scanners -> Scan],
         \A s \in Scanners : scan'[s].pc = "upsert" => scan'[s] = scan[s]
  PROVE  ScanInv' /\ GatesStay /\ KeysStay
BY DEF ScanInv, SignalTypeOK, ScansAreAdmitted, RowsAreApproved, Approved, GatesStay, KeysStay

LEMMA ExpireStep ==
  ASSUME ScanInv, NEW s \in Scanners, ExpireStale(s)
  PROVE  ScanInv' /\ GatesStay /\ KeysStay
<1>1. /\ \A i \in DOMAIN signals : signals[i] \in Signal
      /\ s \in DOMAIN scan /\ scan[s] \in Scan
  BY ActiveType DEF ScanInv, SignalTypeOK
<1>2. signals' \in [DOMAIN signals -> Signal]
  BY <1>1 DEF ExpireStale, Expired, Signal
<1>3. signals' \in Seq(Signal) /\ DOMAIN signals' = DOMAIN signals
  BY <1>2, UpdateType DEF ScanInv, SignalTypeOK
<1>4. \A i \in DOMAIN signals : signals'[i].key = signals[i].key /\ signals'[i].levels = signals[i].levels
  BY <1>1 DEF ExpireStale, Expired, Signal
<1>5. scan' \in [Scanners -> Scan] /\ \A q \in Scanners : scan'[q].pc = "upsert" => scan'[q] = scan[q]
  BY <1>1 DEF ExpireStale, Scan, ScanInv, SignalTypeOK
<1> QED
  BY <1>3, <1>4, <1>5 DEF ScanInv, SignalTypeOK, ScansAreAdmitted, RowsAreApproved,
     Approved, GatesStay, KeysStay, ExpireStale

LEMMA EvaluateStep ==
  ASSUME ScanInv, NEW s \in Scanners, EvaluateCandidate(s)
  PROVE  ScanInv' /\ GatesStay /\ KeysStay
<1>1. PICK slot \in scan[s].todo, direction \in {"LONG", "SHORT"}, action \in Actions :
        EvaluateCandidate(s)!2!(slot, direction, action)
  BY DEF EvaluateCandidate
<1> DEFINE gate == [key |-> <<slot, direction>>, action |-> action]
<1>2. s \in DOMAIN scan /\ scan[s] \in Scan
  BY DEF ScanInv, SignalTypeOK
<1>3. gate \in Gate
  BY <1>2 DEF Gate, Key, Scan
<1>4. /\ gates' = Append(gates, gate) /\ gates' \in Seq(Gate) /\ GatesStay
      /\ Len(gates) + 1 \in DOMAIN gates' /\ gates'[Len(gates) + 1] = gate
      /\ Len(gates) \in Nat
  BY <1>1, <1>3, AppendType DEF ScanInv, SignalTypeOK, GatesStay
<1>5. clock + Life \in Nat
  BY SignalConstants DEF ScanInv, SignalTypeOK
<1>6. scan' \in [Scanners -> Scan]
  <2> DEFINE held == [scan[s] EXCEPT !.pc = "upsert", !.levels = Len(gates) + 1,
                                     !.expires = clock + Life]
  <2>1. held \in Scan
    <3>1. Len(gates) + 1 \in Nat
      BY <1>4
    <3> QED
      BY <3>1, <1>2, <1>5, HeldType
  <2>2. Rest(s, slot) \in Scan
    BY RestType DEF ScanInv
  <2>3. scan' = [scan EXCEPT ![s] = IF Admits(action) THEN held ELSE Rest(s, slot)]
    BY <1>1
  <2> QED
    BY <2>1, <2>2, <2>3 DEF ScanInv, SignalTypeOK
<1>7. ScansAreAdmitted'
  <2> SUFFICES ASSUME NEW q \in Scanners, scan'[q].pc = "upsert"
               PROVE  scan'[q].levels \in DOMAIN gates' /\ gates'[scan'[q].levels].action # "REJECT"
    BY DEF ScansAreAdmitted
  <2>1. CASE q # s
    BY <2>1, <1>1, <1>4 DEF ScanInv, SignalTypeOK, ScansAreAdmitted, GatesStay
  <2>2. CASE q = s
    <3>1. Admits(action)
      BY <2>2, <1>1, <1>2, RestType DEF ScanInv, SignalTypeOK
    <3>2. scan'[s].levels = Len(gates) + 1
      BY <3>1, <1>1, <1>2 DEF ScanInv, SignalTypeOK, Scan
    <3> QED
      BY <2>2, <3>1, <3>2, <1>4 DEF Admits
  <2> QED
    BY <2>1, <2>2
<1>8. RowsAreApproved' /\ KeysStay
  BY <1>4, ApprovalsStay DEF EvaluateCandidate, ScanInv, RowsAreApproved, KeysStay
<1> QED
  BY <1>4, <1>6, <1>7, <1>8 DEF ScanInv, SignalTypeOK, EvaluateCandidate

LEMMA UpsertStep ==
  ASSUME ScanInv, NEW s \in Scanners, UpsertSignal(s)
  PROVE  ScanInv' /\ GatesStay /\ KeysStay
<1> DEFINE key == gates[scan[s].levels].key
           row == [key |-> key, status |-> "active", levels |-> scan[s].levels,
                   expires |-> scan[s].expires]
<1>1. /\ s \in DOMAIN scan /\ scan[s] \in Scan
      /\ \A i \in DOMAIN signals : signals[i] \in Signal
  BY ActiveType DEF ScanInv, SignalTypeOK
<1>2. Approved(scan[s].levels, key) /\ key \in Key
  <2>1. scan[s].levels \in DOMAIN gates /\ gates[scan[s].levels].action # "REJECT"
    BY DEF UpsertSignal, ScanInv, ScansAreAdmitted
  <2>2. gates[scan[s].levels] \in Gate
    BY <2>1, LenProperties, ElementOfSeq DEF ScanInv, SignalTypeOK
  <2> QED
    BY <2>1, <2>2 DEF Approved, Gate
<1>3. row \in Signal
  BY <1>1, <1>2 DEF Signal, Scan
<1>4. /\ signals' \in Seq(Signal) /\ KeysStay
      /\ \A i \in DOMAIN signals' : Approved(signals'[i].levels, signals'[i].key)
  <2>1. CASE SameSetup(key) = {}
    <3>1. signals' = Append(signals, row)
      BY <2>1 DEF UpsertSignal
    <3> QED
      BY <3>1, <1>2, <1>3, AppendType DEF ScanInv, SignalTypeOK, RowsAreApproved, KeysStay
  <2>2. CASE SameSetup(key) # {}
    <3>1. signals' = [i \in DOMAIN signals |->
             IF i \in SameSetup(key)
             THEN Refreshed(signals[i], scan[s].levels, scan[s].expires) ELSE signals[i]]
      BY <2>2 DEF UpsertSignal
    <3>2. signals' \in [DOMAIN signals -> Signal]
      BY <3>1, <1>1 DEF Refreshed, Signal, Scan
    <3>3. signals' \in Seq(Signal) /\ DOMAIN signals' = DOMAIN signals
      BY <3>2, UpdateType DEF ScanInv, SignalTypeOK
    <3>4. \A i \in DOMAIN signals :
            /\ signals'[i].key = signals[i].key
            /\ i \in SameSetup(key) => signals[i].key = key /\ signals'[i].levels = scan[s].levels
            /\ i \notin SameSetup(key) => signals'[i].levels = signals[i].levels
      BY <3>1, <1>1 DEF Refreshed, Signal, SameSetup
    <3> QED
      BY <3>3, <3>4, <1>2 DEF ScanInv, RowsAreApproved, KeysStay
  <2> QED
    BY <2>1, <2>2
<1>5. gates' = gates /\ clock' = clock
  BY DEF UpsertSignal
<1>6. scan' \in [Scanners -> Scan] /\ \A q \in Scanners : scan'[q].pc = "upsert" => scan'[q] = scan[q]
  BY <1>1, RestType DEF UpsertSignal, ScanInv, SignalTypeOK
<1> QED
  BY <1>4, <1>5, <1>6 DEF ScanInv, SignalTypeOK, ScansAreAdmitted, RowsAreApproved, Approved, GatesStay

LEMMA ResolveStep ==
  ASSUME ScanInv, NEW i \in DOMAIN signals, NEW status \in {"acted_on", "skipped"},
         Resolve(i, status)
  PROVE  ScanInv' /\ GatesStay /\ KeysStay
<1>1. \A j \in DOMAIN signals : signals[j] \in Signal
  BY ActiveType DEF ScanInv
<1>2. signals' \in [DOMAIN signals -> Signal]
  BY <1>1 DEF Resolve, Signal, ActiveIds
<1>3. signals' \in Seq(Signal) /\ DOMAIN signals' = DOMAIN signals
  BY <1>2, UpdateType DEF ScanInv, SignalTypeOK
<1>4. \A j \in DOMAIN signals : signals'[j].key = signals[j].key /\ signals'[j].levels = signals[j].levels
  BY <1>1 DEF Resolve, Signal, ActiveIds
<1> QED
  BY <1>3, <1>4 DEF ScanInv, SignalTypeOK, ScansAreAdmitted, RowsAreApproved,
     Approved, GatesStay, KeysStay, Resolve

\* No step of the scanners, the dashboard or the clock loses an approval.
LEMMA SignalStep ==
  ASSUME ScanInv, SignalNext
  PROVE  ScanInv' /\ GatesStay /\ KeysStay
<1>1. ASSUME NEW s \in Scanners, Scanning(s)
      PROVE  ScanInv' /\ GatesStay /\ KeysStay
  <2>1. scan[s] \in Scan /\ scan \in [Scanners -> Scan] /\ clock \in Nat
    BY DEF ScanInv, SignalTypeOK
  <2>2. ASSUME SelectStale(s) PROVE ScanInv' /\ GatesStay /\ KeysStay
    <3> DEFINE late == {i \in ActiveIds : signals[i].expires <= clock}
    <3>1. PICK moved \in SUBSET (ActiveIds \ late) :
            scan' = [scan EXCEPT ![s].pc = IF late \cup moved = {} THEN "scan" ELSE "expire",
                                 ![s].ids = late \cup moved]
      BY <2>2 DEF SelectStale
    <3>2. late \cup moved \in SUBSET Nat
      BY ActiveType DEF ScanInv
    <3> HIDE DEF late
    <3>3. scan' \in [Scanners -> Scan] /\ \A q \in Scanners : scan'[q].pc = "upsert" => scan'[q] = scan[q]
      BY <3>1, <3>2, <2>1 DEF Scan
    <3> QED
      BY <3>3, <2>1, <2>2, ScanOnly DEF SelectStale
  <2>3. ASSUME StartScan(s) PROVE ScanInv' /\ GatesStay /\ KeysStay
    <3>1. PICK todo \in SUBSET Slots :
            scan' = [scan EXCEPT ![s] =
              IF todo = {} THEN IdleScan
              ELSE [IdleScan EXCEPT !.pc = "candidates", !.todo = todo]]
      BY <2>3 DEF StartScan
    <3>2. scan' \in [Scanners -> Scan] /\ \A q \in Scanners : scan'[q].pc = "upsert" => scan'[q] = scan[q]
      BY <3>1, <2>1 DEF Scan, IdleScan
    <3> QED
      BY <3>2, <2>1, <2>3, ScanOnly DEF StartScan
  <2>4. ASSUME SkipCandidate(s) PROVE ScanInv' /\ GatesStay /\ KeysStay
    <3>1. PICK slot \in scan[s].todo : scan' = [scan EXCEPT ![s] = Rest(s, slot)]
      BY <2>4 DEF SkipCandidate
    <3>2. scan' \in [Scanners -> Scan] /\ \A q \in Scanners : scan'[q].pc = "upsert" => scan'[q] = scan[q]
      BY <3>1, <2>1, RestType DEF ScanInv
    <3> QED
      BY <3>2, <2>1, <2>4, ScanOnly DEF SkipCandidate
  <2>5. ASSUME ScanCrash(s) PROVE ScanInv' /\ GatesStay /\ KeysStay
    <3>1. scan' \in [Scanners -> Scan] /\ \A q \in Scanners : scan'[q].pc = "upsert" => scan'[q] = scan[q]
      BY <2>1, <2>5, IdleScanType DEF ScanCrash
    <3> QED
      BY <3>1, <2>1, <2>5, ScanOnly DEF ScanCrash
  <2> QED
    BY <1>1, <2>2, <2>3, <2>4, <2>5, ExpireStep, EvaluateStep, UpsertStep DEF Scanning
<1>2. ASSUME Tick PROVE ScanInv' /\ GatesStay /\ KeysStay
  BY <1>2, ScanOnly DEF Tick, ScanInv, SignalTypeOK
<1> QED
  BY <1>1, <1>2, ResolveStep DEF SignalNext

-----------------------------------------------------------------------------
(* The steps of the sessions.                                              *)

\* A review, a decision, a session and an intent stay approved while the
\* tables they refer to only grow.
LEMMA ApprovalsKept ==
  ASSUME ApprovalInv, GatesStay, KeysStay, DecisionsStay
  PROVE  /\ Takes \subseteq Takes'
         /\ UNCHANGED review => ReviewsAreApproved'
         /\ UNCHANGED decisions => TakesAreApproved'
         /\ UNCHANGED <<trader, intents>> => TradersAreApproved'
         /\ UNCHANGED intents => IntentsAreApproved'
<1>1. Takes \subseteq Takes'
  BY DEF Takes, DecisionsStay
<1>2. ASSUME UNCHANGED review PROVE ReviewsAreApproved'
  BY <1>2, ApprovalsStay DEF ApprovalInv, ReviewsAreApproved, KeysStay
<1>3. ASSUME UNCHANGED decisions PROVE TakesAreApproved'
  BY <1>3, ApprovalsStay DEF ApprovalInv, TakesAreApproved, Takes, KeysStay
<1>4. \A d \in Takes : /\ decisions'[d] = decisions[d]
                        /\ decisions[d].signal \in DOMAIN signals
                        /\ signals'[decisions[d].signal].key = signals[decisions[d].signal].key
  BY DEF ApprovalInv, TakesAreApproved, Takes, DecisionsStay, KeysStay
<1>5. ASSUME UNCHANGED <<trader, intents>> PROVE TradersAreApproved'
  BY <1>1, <1>4, <1>5, ApprovalsStay DEF ApprovalInv, TradersAreApproved, TraderIsApproved
<1>6. ASSUME UNCHANGED intents PROVE IntentsAreApproved'
  BY <1>1, <1>4, <1>6, ApprovalsStay DEF ApprovalInv, IntentsAreApproved
<1> QED
  BY <1>1, <1>2, <1>3, <1>5, <1>6

LEMMA IdleTypes ==
  /\ IdleReview \in Review /\ IdleReview.rows = {}
  /\ IdleTrader \in Trader /\ IdleTrader.queue = {} /\ IdleTrader.pc = "idle"
BY DEF IdleReview, Review, IdleTrader, Trader

\* What the other tables say when a step leaves the signal tables alone.
LEMMA SignalsLeft ==
  ASSUME ApprovalInv, UNCHANGED signalVars
  PROVE  SignalTypeOK' /\ ScansAreAdmitted' /\ RowsAreApproved' /\ GatesStay /\ KeysStay
BY DEF ApprovalInv, TypeOK, SignalTypeOK, ScansAreAdmitted, RowsAreApproved, Approved,
   signalVars, GatesStay, KeysStay

LEMMA ReviewStep ==
  ASSUME ApprovalInv, NEW r \in Reviewers, Reviewing(r)
  PROVE  ApprovalInv'
<1>1. /\ review \in [Reviewers -> Review] /\ review[r] \in Review /\ clock \in Nat
      /\ decisions \in Seq(Decision)
  BY DEF ApprovalInv, TypeOK, SignalTypeOK
<1>2. UNCHANGED <<signalVars, intents, journal, trader>>
  BY DEF Reviewing, BeginReview, ReadSignals, RecordPlaceholder, RecordDecision, ReviewCrash
<1>3. SignalTypeOK' /\ ScansAreAdmitted' /\ RowsAreApproved' /\ GatesStay /\ KeysStay
  BY <1>2, SignalsLeft
<1>4. ASSUME UNCHANGED decisions, review' \in [Reviewers -> Review], ReviewsAreApproved'
      PROVE  ApprovalInv'
  <2>1. DecisionsStay
    BY <1>4 DEF DecisionsStay
  <2> QED
    BY <2>1, <1>2, <1>3, <1>4, ApprovalsKept DEF ApprovalInv, TypeOK
<1>5. ASSUME BeginReview(r) PROVE ApprovalInv'
  <2>1. UNCHANGED decisions /\ review' \in [Reviewers -> Review]
    BY <1>1, <1>5 DEF BeginReview, Review
  <2>2. \A q \in Reviewers : review'[q].rows = review[q].rows
    BY <1>1, <1>5 DEF BeginReview, Review
  <2>3. ReviewsAreApproved'
    BY <2>2, <1>2, <1>3, ApprovalsStay DEF ApprovalInv, ReviewsAreApproved, KeysStay
  <2> QED
    BY <2>1, <2>3, <1>4
<1>6. ASSUME ReadSignals(r) PROVE ApprovalInv'
  <2> DEFINE found == {SnapshotOf(i) : i \in ActiveIds}
  <2>1. \A i \in ActiveIds : /\ SnapshotOf(i) \in Snapshot
                              /\ SnapshotOf(i).id = i
                              /\ SnapshotOf(i).key = signals[i].key
                              /\ SnapshotOf(i).levels = signals[i].levels
    BY ActiveType DEF ApprovalInv, TypeOK, SnapshotOf, Snapshot, Signal
  <2>2. \A row \in found : /\ row.id \in DOMAIN signals /\ signals[row.id].key = row.key
                            /\ Approved(row.levels, row.key)
    BY <2>1, ActiveType DEF ApprovalInv, TypeOK, RowsAreApproved
  <2>3. found \subseteq Snapshot
    BY <2>1
  <2>4. review' = [review EXCEPT ![r].pc = IF ActiveIds = {} THEN "placeholder" ELSE "decide",
                                 ![r].rows = found]
    BY <1>6 DEF ReadSignals
  <2> HIDE DEF found
  <2>5. /\ review' \in [Reviewers -> Review]
        /\ review'[r].rows = found
        /\ \A q \in Reviewers \ {r} : review'[q] = review[q]
    BY <2>3, <2>4, <1>1 DEF Review
  <2>6. ReviewsAreApproved'
    BY <2>2, <2>5, <1>2, <1>3, ApprovalsStay DEF ApprovalInv, ReviewsAreApproved, KeysStay, signalVars
  <2> QED
    BY <2>5, <2>6, <1>4, <1>6 DEF ReadSignals
<1>7. ASSUME ReviewCrash(r) PROVE ApprovalInv'
  <2>1. UNCHANGED decisions /\ review' \in [Reviewers -> Review]
    BY <1>1, <1>7, IdleTypes DEF ReviewCrash
  <2>2. \A q \in Reviewers : review'[q].rows \subseteq review[q].rows
    BY <1>1, <1>7, IdleTypes DEF ReviewCrash
  <2>3. ReviewsAreApproved'
    BY <2>2, <1>2, <1>3, ApprovalsStay DEF ApprovalInv, ReviewsAreApproved, KeysStay
  <2> QED
    BY <2>1, <2>3, <1>4
<1>8. ASSUME NEW e \in Decision, decisions' = Append(decisions, e),
             e.take => /\ e.signal \in DOMAIN signals
                       /\ Approved(e.gate, signals[e.signal].key),
             review' \in [Reviewers -> Review],
             \A q \in Reviewers : review'[q].rows \subseteq review[q].rows
      PROVE  ApprovalInv'
  <2>1. /\ decisions' \in Seq(Decision) /\ DecisionsStay
        /\ DOMAIN decisions' = DOMAIN decisions \cup {Len(decisions) + 1}
        /\ decisions'[Len(decisions) + 1] = e
    BY <1>1, <1>8, AppendType DEF DecisionsStay
  <2>2. TakesAreApproved'
    BY <2>1, <1>2, <1>3, <1>8, ApprovalsStay
    DEF ApprovalInv, TakesAreApproved, Takes, DecisionsStay, KeysStay
  <2>3. ReviewsAreApproved'
    BY <1>2, <1>3, <1>8, ApprovalsStay DEF ApprovalInv, ReviewsAreApproved, KeysStay
  <2> QED
    BY <2>1, <2>2, <2>3, <1>2, <1>3, <1>8, ApprovalsKept DEF ApprovalInv, TypeOK
<1>9. ASSUME RecordPlaceholder(r) PROVE ApprovalInv'
  <2> DEFINE e == [signal |-> 0, gate |-> 0, take |-> FALSE, levels |-> 0]
  <2>1. e \in Decision /\ ~e.take
    BY DEF Decision
  <2>2. review' \in [Reviewers -> Review] /\ \A q \in Reviewers : review'[q].rows \subseteq review[q].rows
    BY <1>1, <1>9, IdleTypes DEF RecordPlaceholder
  <2> QED
    BY <2>1, <2>2, <1>8, <1>9 DEF RecordPlaceholder
<1>10. ASSUME RecordDecision(r) PROVE ApprovalInv'
  <2>1. PICK row \in review[r].rows, g \in 0 .. Len(gates) :
          /\ IsLatest(g, row.key)
          /\ decisions' = Append(decisions,
               [signal |-> row.id, gate |-> g, levels |-> row.levels,
                take |-> row.expires > review[r].now])
          /\ review' = [review EXCEPT ![r] =
               IF review[r].rows = {row} THEN IdleReview
               ELSE [review[r] EXCEPT !.rows = @ \ {row}]]
    BY <1>10 DEF RecordDecision
  <2> DEFINE e == [signal |-> row.id, gate |-> g, levels |-> row.levels,
                   take |-> row.expires > review[r].now]
  <2>2. row \in Snapshot
    BY <1>1 DEF Review
  <2>3. g \in Nat
    BY LenProperties DEF ApprovalInv, TypeOK, SignalTypeOK
  <2>4. e \in Decision
    BY <2>2, <2>3, <1>1 DEF Decision, Snapshot, Review
  <2>5. /\ row.id \in DOMAIN signals /\ signals[row.id].key = row.key
        /\ Approved(row.levels, row.key)
    BY DEF ApprovalInv, ReviewsAreApproved
  <2>6. Approved(g, row.key)
    BY <2>1, <2>5 DEF IsLatest, Approvals, Approved
  <2>7. review' \in [Reviewers -> Review] /\ \A q \in Reviewers : review'[q].rows \subseteq review[q].rows
    BY <2>1, <1>1, IdleTypes DEF Review
  <2> QED
    BY <2>1, <2>4, <2>5, <2>6, <2>7, <1>8
<1> QED
  BY <1>5, <1>6, <1>7, <1>9, <1>10 DEF Reviewing

\* A session's outcome has a status the table knows.
LEMMA OutcomeType ==
  ASSUME NEW now, NEW expires
  PROVE  Outcome(now, expires) \in {"filled", "expired"}
BY DEF Outcome

LEMMA AtNextType ==
  ASSUME TypeOK, NEW t \in Traders
  PROVE  /\ AtNext(t) \in Trader /\ AtNext(t).pc = "next"
         /\ AtNext(t).queue = trader[t].queue
<1>1. trader[t].now \in Nat /\ trader[t].queue \in SUBSET Nat
  BY DEF TypeOK, Trader
<1>2. AtNext(t) = [IdleTrader EXCEPT !.pc = "next", !.now = trader[t].now,
                                     !.queue = trader[t].queue]
  BY Zenon DEF AtNext
<1>3. IdleTrader \in Trader
  BY IdleTypes
<1> QED
  BY <1>1, <1>2, <1>3, Zenon DEF Trader

\* The queue only offers TAKE decisions.
LEMMA QueueType ==
  ASSUME TypeOK
  PROVE  Waiting \subseteq Takes /\ Takes \subseteq Nat /\ Takes \subseteq DOMAIN decisions
BY LenProperties DEF TypeOK, Waiting, Takes

LEMMA PaperStep ==
  ASSUME ApprovalInv, NEW t \in Traders, Papering(t)
  PROVE  ApprovalInv'
<1>1. /\ trader \in [Traders -> Trader] /\ trader[t] \in Trader /\ clock \in Nat
      /\ intents \in Seq(Intent) /\ journal \in Seq(Entry) /\ TraderIsApproved(t)
  BY DEF ApprovalInv, TypeOK, SignalTypeOK, TradersAreApproved
<1>2. UNCHANGED <<signalVars, decisions, review>>
  BY DEF Papering, Processing, BeginPaper, ReadQueue, LoadSignal, BuildIntent, RecordFill,
     WriteJournal, EndPaper, PaperCrash
<1>3. /\ SignalTypeOK' /\ ScansAreAdmitted' /\ RowsAreApproved' /\ GatesStay /\ KeysStay
      /\ DecisionsStay
  BY <1>2, SignalsLeft DEF DecisionsStay
<1>4. /\ ReviewsAreApproved' /\ TakesAreApproved'
      /\ UNCHANGED intents => IntentsAreApproved'
  BY <1>2, <1>3, ApprovalsKept
\* It is enough that this session and the intents are fine again.
<1>5. ASSUME trader' \in [Traders -> Trader], \A q \in Traders \ {t} : trader'[q] = trader[q],
             TraderIsApproved(t)', intents' \in Seq(Intent), DOMAIN intents \subseteq DOMAIN intents',
             IntentsAreApproved', journal' \in Seq(Entry)
      PROVE  ApprovalInv'
  <2>1. ASSUME NEW q \in Traders \ {t} PROVE TraderIsApproved(q)'
    BY <2>1, <1>2, <1>5 DEF ApprovalInv, TradersAreApproved, TraderIsApproved, Takes, Approved, signalVars
  <2>2. TradersAreApproved'
    BY <2>1, <1>5 DEF TradersAreApproved
  <2> QED
    BY <2>2, <1>2, <1>3, <1>4, <1>5 DEF ApprovalInv, TypeOK
<1>6. ASSUME NEW x \in Trader, trader' = [trader EXCEPT ![t] = x], UNCHANGED <<intents, journal>>,
             x.queue \subseteq Takes, x.pc \in {"idle", "read", "next"}
      PROVE  ApprovalInv'
  <2>1. trader' \in [Traders -> Trader] /\ trader'[t] = x /\ \A q \in Traders \ {t} : trader'[q] = trader[q]
    BY <1>1, <1>6
  <2>2. TraderIsApproved(t)'
    BY <2>1, <1>2, <1>6 DEF TraderIsApproved, Takes
  <2> QED
    BY <2>1, <2>2, <1>1, <1>4, <1>5, <1>6
<1>7. ASSUME BeginPaper(t) PROVE ApprovalInv'
  <2> DEFINE x == [trader[t] EXCEPT !.pc = "read", !.now = clock]
  <2>1. x \in Trader /\ x.pc = "read" /\ x.queue = trader[t].queue
    BY <1>1 DEF Trader
  <2>2. trader' = [trader EXCEPT ![t] = x]
    BY <1>1, <1>7 DEF BeginPaper
  <2>3. x.queue \subseteq Takes
    BY <2>1, <1>1 DEF TraderIsApproved
  <2> QED
    BY <2>1, <2>2, <2>3, <1>6, <1>7 DEF BeginPaper
<1>8. ASSUME ReadQueue(t) PROVE ApprovalInv'
  <2> DEFINE queue == {d \in Waiting : Cardinality({e \in Waiting : e < d}) < QueueLimit}
             x == [trader[t] EXCEPT !.pc = "next", !.queue = queue]
  <2>1. queue \subseteq Takes /\ queue \subseteq Nat
    BY QueueType DEF ApprovalInv
  <2>2. trader' = [trader EXCEPT ![t] = x]
    BY <1>1, <1>8 DEF ReadQueue
  <2> HIDE DEF queue
  <2>3. x \in Trader /\ x.pc = "next" /\ x.queue = queue
    BY <2>1, <1>1 DEF Trader
  <2> QED
    BY <2>1, <2>2, <2>3, <1>6, <1>8 DEF ReadQueue
<1>9. ASSUME EndPaper(t) \/ PaperCrash(t) PROVE ApprovalInv'
  <2>1. trader' = [trader EXCEPT ![t] = IdleTrader] /\ UNCHANGED <<intents, journal>>
    BY <1>9 DEF EndPaper, PaperCrash
  <2> QED
    BY <2>1, <1>6, IdleTypes
<1>10. ASSUME LoadSignal(t) PROVE ApprovalInv'
  <2>1. PICK d \in trader[t].queue :
          trader' = [trader EXCEPT
            ![t].pc = "build", ![t].queue = @ \ {d}, ![t].decision = d,
            ![t].levels = signals[decisions[d].signal].levels,
            ![t].expires = signals[decisions[d].signal].expires]
    BY <1>10 DEF LoadSignal
  <2> DEFINE row == signals[decisions[d].signal]
  <2>2. d \in Takes /\ d \in Nat
    BY <1>1, QueueType DEF ApprovalInv, TraderIsApproved
  <2>3. decisions[d].signal \in DOMAIN signals /\ row \in Signal
    BY <2>2, ActiveType DEF ApprovalInv, TypeOK, TakesAreApproved
  <2>4. Approved(row.levels, row.key)
    BY <2>3 DEF ApprovalInv, RowsAreApproved
  <2> DEFINE x == [trader[t] EXCEPT
                     !.pc = "build", !.queue = trader[t].queue \ {d}, !.decision = d,
                     !.levels = row.levels, !.expires = row.expires]
  <2>5. trader' = [trader EXCEPT ![t] = x]
    BY <2>1, <1>1
  <2>6. /\ x \in Trader /\ x.pc = "build" /\ x.queue = trader[t].queue \ {d}
        /\ x.decision = d /\ x.levels = row.levels
    <3>1. /\ trader[t].queue \ {d} \in SUBSET Nat
          /\ row.levels \in Nat /\ row.expires \in Nat
      BY <2>3, <1>1 DEF Trader, Signal
    <3>2. x = [trader[t] EXCEPT
                 !.pc = "build", !.queue = trader[t].queue \ {d}, !.decision = d,
                 !.levels = row.levels, !.expires = row.expires]
      BY Zenon
    <3> HIDE DEF x, row
    <3> QED
      BY <3>1, <3>2, <2>2, <1>1, Zenon DEF Trader
  <2> HIDE DEF x
  <2>8. /\ trader' \in [Traders -> Trader] /\ trader'[t] = x
        /\ \A q \in Traders \ {t} : trader'[q] = trader[q]
    BY <2>5, <2>6, <1>1
  <2>7. TraderIsApproved(t)'
    BY <2>2, <2>4, <2>6, <2>8, <1>1, <1>2 DEF TraderIsApproved, Takes, Approved, signalVars
  <2> QED
    BY <2>7, <2>8, <1>1, <1>4, <1>5, <1>10 DEF LoadSignal
<1>11. ASSUME BuildIntent(t) PROVE ApprovalInv'
  <2> DEFINE d == trader[t].decision
             e == [decision |-> d, signal |-> decisions[d].signal,
                   levels |-> trader[t].levels, expires |-> trader[t].expires,
                   status |-> "pending"]
             x == [trader[t] EXCEPT !.pc = "fill", !.intent = Len(intents) + 1]
  <2>1. /\ d \in Takes /\ Approved(trader[t].levels, signals[decisions[d].signal].key)
    BY <1>1, <1>11 DEF BuildIntent, TraderIsApproved
  <2>2. decisions[d] \in Decision
    BY <2>1, QueueType, LenProperties, ElementOfSeq DEF ApprovalInv, TypeOK
  <2>3. e \in Intent
    BY <2>2, <1>1 DEF Intent, Decision, Trader
  <2>4. /\ intents' = Append(intents, e) /\ intents' \in Seq(Intent)
        /\ DOMAIN intents' = DOMAIN intents \cup {Len(intents) + 1}
        /\ intents'[Len(intents) + 1] = e /\ Len(intents) + 1 \in Nat
        /\ \A i \in DOMAIN intents : intents'[i] = intents[i]
    BY <2>3, <1>1, <1>11, AppendType DEF BuildIntent
  <2>5. x \in Trader /\ x.pc = "fill" /\ x.queue = trader[t].queue /\ x.decision = d
        /\ x.intent = Len(intents) + 1
    BY <2>4, <1>1 DEF Trader
  <2>6. /\ trader' \in [Traders -> Trader] /\ trader'[t] = x
        /\ \A q \in Traders \ {t} : trader'[q] = trader[q]
    BY <2>5, <1>1, <1>11 DEF BuildIntent
  <2>7. TraderIsApproved(t)'
    <3> HIDE DEF x
    <3> QED
      BY <2>1, <2>4, <2>5, <2>6, <1>1, <1>2 DEF TraderIsApproved, Takes
  <2>8. IntentsAreApproved'
    <3> SUFFICES ASSUME NEW i \in DOMAIN intents'
                 PROVE  /\ intents'[i].decision \in Takes
                        /\ decisions[intents'[i].decision].signal = intents'[i].signal
                        /\ Approved(intents'[i].levels, signals[intents'[i].signal].key)
      BY <1>2 DEF IntentsAreApproved, Takes, Approved, signalVars
    <3>1. CASE i \in DOMAIN intents
      BY <3>1, <2>4 DEF ApprovalInv, IntentsAreApproved
    <3>2. CASE i = Len(intents) + 1
      BY <3>2, <2>1, <2>4
    <3> QED
      BY <3>1, <3>2, <2>4
  <2>9. UNCHANGED journal
    BY <1>11 DEF BuildIntent
  <2> QED
    BY <2>4, <2>6, <2>7, <2>8, <2>9, <1>1, <1>5
<1>12. ASSUME RecordFill(t) PROVE ApprovalInv'
  <2> DEFINE status == Outcome(trader[t].now, trader[t].expires)
             x == IF Journals(status) THEN [trader[t] EXCEPT !.pc = "journal"] ELSE AtNext(t)
             i == trader[t].intent
  <2>1. /\ trader[t].decision \in Takes /\ i \in DOMAIN intents
        /\ trader[t].queue \subseteq Takes
    BY <1>1, <1>12 DEF RecordFill, TraderIsApproved
  <2>2. status \in {"filled", "expired"}
    BY OutcomeType
  <2> HIDE DEF status
  <2>3. intents' = [intents EXCEPT ![i].status = status] /\ trader' = [trader EXCEPT ![t] = x]
        /\ UNCHANGED journal
    BY <1>12 DEF RecordFill, status
  <2>4. \A j \in DOMAIN intents : intents[j] \in Intent
    BY <1>1, LenProperties, ElementOfSeq
  <2>5. intents' \in [DOMAIN intents -> Intent]
    BY <2>1, <2>2, <2>3, <2>4, <1>1, LenProperties DEF Intent
  <2>6. intents' \in Seq(Intent) /\ DOMAIN intents' = DOMAIN intents
    BY <2>5, <1>1, UpdateType
  <2>7. \A j \in DOMAIN intents : /\ intents'[j].decision = intents[j].decision
                                   /\ intents'[j].signal = intents[j].signal
                                   /\ intents'[j].levels = intents[j].levels
    BY <2>1, <2>3, <2>4, <1>1, LenProperties DEF Intent
  <2>8. IntentsAreApproved'
    BY <2>6, <2>7, <1>2 DEF ApprovalInv, IntentsAreApproved, Takes, Approved, signalVars
  <2>9. /\ x \in Trader /\ x.queue = trader[t].queue
        /\ x.pc = "next" \/ (x.pc = "journal" /\ x.decision = trader[t].decision /\ x.intent = i)
    BY <1>1, AtNextType DEF ApprovalInv, Trader
  <2> HIDE DEF x
  <2>10. /\ trader' \in [Traders -> Trader] /\ trader'[t] = x
         /\ \A q \in Traders \ {t} : trader'[q] = trader[q]
    BY <2>3, <2>9, <1>1
  <2>11. TraderIsApproved(t)'
    BY <2>1, <2>6, <2>9, <2>10, <1>2 DEF TraderIsApproved, Takes
  <2> QED
    BY <2>3, <2>6, <2>8, <2>10, <2>11, <1>1, <1>5
<1>13. ASSUME WriteJournal(t) PROVE ApprovalInv'
  <2> DEFINE e == [decision |-> trader[t].decision, levels |-> trader[t].levels]
  <2>1. e \in Entry
    BY <1>1 DEF Entry, Trader
  <2>2. journal' \in Seq(Entry)
    BY <2>1, <1>1, <1>13, AppendType DEF WriteJournal
  <2>3. /\ trader' = [trader EXCEPT ![t] = AtNext(t)] /\ UNCHANGED intents
    BY <1>13 DEF WriteJournal
  <2>4. /\ trader' \in [Traders -> Trader] /\ trader'[t] = AtNext(t)
        /\ \A q \in Traders \ {t} : trader'[q] = trader[q]
    BY <2>3, <1>1, AtNextType DEF ApprovalInv
  <2>5. TraderIsApproved(t)'
    BY <2>4, <1>1, <1>2, AtNextType DEF ApprovalInv, TraderIsApproved, Takes
  <2> QED
    BY <2>2, <2>3, <2>4, <2>5, <1>1, <1>4, <1>5
<1> QED
  BY <1>7, <1>8, <1>9, <1>10, <1>11, <1>12, <1>13 DEF Papering, Processing

-----------------------------------------------------------------------------
(* Every behaviour.                                                        *)

LEMMA InitApproval == Init => ApprovalInv
<1> SUFFICES ASSUME Init PROVE ApprovalInv
  OBVIOUS
<1>1. /\ clock = 0 /\ gates = <<>> /\ signals = <<>> /\ scan = [s \in Scanners |-> IdleScan]
      /\ decisions = <<>> /\ intents = <<>> /\ journal = <<>>
      /\ review = [r \in Reviewers |-> IdleReview] /\ trader = [t \in Traders |-> IdleTrader]
  BY DEF Init, SignalInit
<1>2. ASSUME NEW S PROVE <<>> \in Seq(S) /\ DOMAIN <<>> = {}
  BY EmptySeq
<1>3. TypeOK
  BY <1>1, <1>2, IdleScanType, IdleTypes DEF TypeOK, SignalTypeOK
<1>4. /\ \A s \in Scanners : scan[s].pc = "idle"
      /\ \A r \in Reviewers : review[r].rows = {}
      /\ \A t \in Traders : trader[t].pc = "idle" /\ trader[t].queue = {}
  BY <1>1, IdleScanType DEF IdleReview, IdleTrader
<1> QED
  BY <1>1, <1>2, <1>3, <1>4
  DEF ApprovalInv, ScansAreAdmitted, RowsAreApproved, ReviewsAreApproved, TakesAreApproved,
      TradersAreApproved, TraderIsApproved, IntentsAreApproved, Takes

LEMMA ApprovalStep == ApprovalInv /\ [Next]_vars => ApprovalInv'
<1> SUFFICES ASSUME ApprovalInv, [Next]_vars PROVE ApprovalInv'
  OBVIOUS
<1>1. CASE SignalNext /\ UNCHANGED traderVars
  <2>1. ScanInv' /\ GatesStay /\ KeysStay
    BY <1>1, SignalStep DEF ApprovalInv, TypeOK, ScanInv
  <2>2. DecisionsStay
    BY <1>1 DEF traderVars, DecisionsStay
  <2> QED
    BY <1>1, <2>1, <2>2, ApprovalsKept DEF ApprovalInv, TypeOK, ScanInv, traderVars
<1>2. CASE \E r \in Reviewers : Reviewing(r)
  BY <1>2, ReviewStep
<1>3. CASE \E t \in Traders : Papering(t)
  BY <1>3, PaperStep
<1>4. CASE UNCHANGED vars
  BY <1>4 DEF vars, ApprovalInv, TypeOK, SignalTypeOK, ScansAreAdmitted, RowsAreApproved,
     ReviewsAreApproved, TakesAreApproved, TradersAreApproved, TraderIsApproved,
     IntentsAreApproved, Approved, Takes
<1> QED
  BY <1>1, <1>2, <1>3, <1>4 DEF Next

LEMMA Approval == Spec => []ApprovalInv
BY InitApproval, ApprovalStep, PTL DEF Spec

\* Every table and every process of the signal pipeline keeps its type
\* through any interleaving of scans, sweeps, resolutions, reviews, paper
\* sessions and crashes.
THEOREM SeniorTypeCorrect == Spec => []TypeOK
<1>1. ApprovalInv => TypeOK
  BY DEF ApprovalInv
<1> QED
  BY <1>1, Approval, PTL

\* The levels a pending_signals row quotes are those of a setup the pre-trade
\* gate approved or reduced, for the row's own natural key, although the gate
\* decision and the row are two commits (scan_kraken_signals).
THEOREM RowsApproved == Spec => []RowsAreApproved
<1>1. ApprovalInv => RowsAreApproved
  BY DEF ApprovalInv
<1> QED
  BY <1>1, Approval, PTL

\* Every TAKE of review_session.py cites a gate decision that approved or
\* reduced a setup of its signal's key.
THEOREM TakesApproved == Spec => []TakesAreApproved
<1>1. ApprovalInv => TakesAreApproved
  BY DEF ApprovalInv
<1> QED
  BY <1>1, Approval, PTL

\* Every execution intent of paper_session.py acts on a TAKE of its own
\* signal and relays levels the gate approved or reduced, whatever happened
\* to the row between the review and the session.
THEOREM IntentsApproved == Spec => []IntentsAreApproved
<1>1. ApprovalInv => IntentsAreApproved
  BY DEF ApprovalInv
<1> QED
  BY <1>1, Approval, PTL

-----------------------------------------------------------------------------
(* One paper session at a time.                                            *)

\* What a session has queued or holds to build has no intent yet, and it does
\* not hold a decision it has queued.
QueueIsFresh(t) ==
  /\ \A d \in trader[t].queue : ~HasIntent(d)
  /\ trader[t].pc = "build" =>
       ~HasIntent(trader[t].decision) /\ trader[t].decision \notin trader[t].queue
IntentInv == ApprovalInv /\ OneIntentPerDecision /\ \A t \in Traders : QueueIsFresh(t)

\* A step of a session that adds no intent and queues nothing new.
LEMMA QueueShrinks ==
  ASSUME IntentInv, NEW t \in Traders, NEW x,
         trader' = [trader EXCEPT ![t] = x], x.queue \subseteq trader[t].queue,
         x.pc # "build", DOMAIN intents' = DOMAIN intents,
         \A i \in DOMAIN intents : intents'[i].decision = intents[i].decision
  PROVE  OneIntentPerDecision' /\ \A q \in Traders : QueueIsFresh(q)'
<1>1. trader'[t] = x /\ \A q \in Traders \ {t} : trader'[q] = trader[q]
  BY DEF IntentInv, ApprovalInv, TypeOK
<1> QED
  BY <1>1 DEF IntentInv, OneIntentPerDecision, QueueIsFresh, HasIntent

LEMMA IntentPaperStep ==
  ASSUME IntentInv, \A q, s \in Traders : q = s, NEW t \in Traders, Papering(t)
  PROVE  OneIntentPerDecision' /\ \A q \in Traders : QueueIsFresh(q)'
<1>1. /\ TypeOK /\ trader \in [Traders -> Trader] /\ trader[t] \in Trader
      /\ intents \in Seq(Intent) /\ QueueIsFresh(t) /\ Traders = {t}
  BY DEF IntentInv, ApprovalInv, TypeOK
<1>2. ASSUME BeginPaper(t) PROVE OneIntentPerDecision' /\ QueueIsFresh(t)'
  <2>1. UNCHANGED intents /\ trader'[t].queue = trader[t].queue /\ trader'[t].pc = "read"
    BY <1>1, <1>2 DEF BeginPaper, Trader
  <2> QED
    BY <2>1, <1>1 DEF IntentInv, OneIntentPerDecision, QueueIsFresh, HasIntent
<1>3. ASSUME ReadQueue(t) PROVE OneIntentPerDecision' /\ QueueIsFresh(t)'
  <2>1. UNCHANGED intents /\ trader'[t].queue \subseteq Waiting /\ trader'[t].pc = "next"
    BY <1>1, <1>3 DEF ReadQueue, Trader
  <2>2. \A d \in Waiting : ~HasIntent(d)
    BY DEF Waiting
  <2> QED
    BY <2>1, <2>2, <1>1 DEF IntentInv, OneIntentPerDecision, QueueIsFresh, HasIntent
<1>4. ASSUME LoadSignal(t) PROVE OneIntentPerDecision' /\ QueueIsFresh(t)'
  <2>1. PICK d \in trader[t].queue :
          trader' = [trader EXCEPT
            ![t].pc = "build", ![t].queue = @ \ {d}, ![t].decision = d,
            ![t].levels = signals[decisions[d].signal].levels,
            ![t].expires = signals[decisions[d].signal].expires]
    BY <1>4 DEF LoadSignal
  <2>2. UNCHANGED intents /\ trader'[t].queue = trader[t].queue \ {d} /\ trader'[t].decision = d
    BY <2>1, <1>1, <1>4 DEF LoadSignal, Trader
  <2> QED
    BY <2>1, <2>2, <1>1 DEF IntentInv, OneIntentPerDecision, QueueIsFresh, HasIntent
<1>5. ASSUME BuildIntent(t) PROVE OneIntentPerDecision' /\ QueueIsFresh(t)'
  <2> DEFINE d == trader[t].decision
             e == [decision |-> d, signal |-> decisions[d].signal,
                   levels |-> trader[t].levels, expires |-> trader[t].expires,
                   status |-> "pending"]
  <2>1. ApprovalInv'
    BY <1>5, PaperStep DEF IntentInv, Papering, Processing
  <2>2. /\ intents' = Append(intents, e) /\ trader'[t].queue = trader[t].queue
        /\ trader'[t].pc = "fill" /\ trader[t].pc = "build"
    BY <1>1, <1>5 DEF BuildIntent, Trader
  <2>3. /\ DOMAIN intents = 1 .. Len(intents) /\ Len(intents) \in Nat
        /\ DOMAIN intents' = DOMAIN intents \cup {Len(intents) + 1}
        /\ \A i \in DOMAIN intents : intents'[i] = intents[i]
        /\ intents'[Len(intents) + 1].decision = d
    <3> HIDE DEF e
    <3>1. intents' \in Seq(Intent)
      BY <2>1 DEF ApprovalInv, TypeOK
    <3>2. Len(intents') = Len(intents) + 1 /\ intents'[Len(intents) + 1] = e
          /\ \A i \in 1 .. Len(intents) : intents'[i] = intents[i]
      BY <2>2, <1>1
    <3> QED
      BY <3>1, <3>2, <1>1, LenProperties DEF e
  <2>4. \A i \in DOMAIN intents : intents[i].decision # d
    BY <2>2, <1>1 DEF QueueIsFresh, HasIntent
  <2>5. OneIntentPerDecision'
    BY <2>3, <2>4 DEF IntentInv, OneIntentPerDecision
  <2>6. QueueIsFresh(t)'
    BY <2>2, <2>3, <1>1 DEF QueueIsFresh, HasIntent
  <2> QED
    BY <2>5, <2>6
<1>6. ASSUME RecordFill(t) PROVE OneIntentPerDecision' /\ QueueIsFresh(t)'
  <2> DEFINE status == Outcome(trader[t].now, trader[t].expires)
             x == IF Journals(status) THEN [trader[t] EXCEPT !.pc = "journal"] ELSE AtNext(t)
  <2>1. trader' = [trader EXCEPT ![t] = x] /\ intents' = [intents EXCEPT ![trader[t].intent].status = status]
    BY <1>6 DEF RecordFill
  <2> HIDE DEF status
  <2>2. /\ DOMAIN intents' = DOMAIN intents
        /\ \A i \in DOMAIN intents : intents'[i].decision = intents[i].decision
    <3>1. \A i \in DOMAIN intents : intents[i] \in Intent
      BY <1>1, LenProperties, ElementOfSeq
    <3>2. DOMAIN intents' = DOMAIN intents
      BY <2>1, <1>1, LenProperties
    <3> QED
      BY <2>1, <3>1, <3>2, <1>1, LenProperties DEF Intent
  <2>3. x.queue = trader[t].queue /\ x.pc # "build"
    BY <1>1, AtNextType DEF Trader
  <2> QED
    BY <2>1, <2>2, <2>3, QueueShrinks
<1>7. ASSUME WriteJournal(t) PROVE OneIntentPerDecision' /\ QueueIsFresh(t)'
  <2>1. trader' = [trader EXCEPT ![t] = AtNext(t)] /\ UNCHANGED intents
    BY <1>7 DEF WriteJournal
  <2> QED
    BY <2>1, <1>1, AtNextType, QueueShrinks
<1>8. ASSUME EndPaper(t) \/ PaperCrash(t) PROVE OneIntentPerDecision' /\ QueueIsFresh(t)'
  <2>1. trader' = [trader EXCEPT ![t] = IdleTrader] /\ UNCHANGED intents
    BY <1>8 DEF EndPaper, PaperCrash
  <2> QED
    BY <2>1, IdleTypes, QueueShrinks
<1> QED
  BY <1>1, <1>2, <1>3, <1>4, <1>5, <1>6, <1>7, <1>8 DEF Papering, Processing

\* With at most one paper session at a time, a TAKE decision gets at most one
\* execution intent: the work queue of take_decisions_without_intent is taken
\* before the session writes any intent, and stays free of decisions that
\* have one.
THEOREM OneIntent ==
  ASSUME \A s, t \in Traders : s = t
  PROVE  Spec => []OneIntentPerDecision
<1>1. Init => IntentInv
  <2> SUFFICES ASSUME Init PROVE IntentInv
    OBVIOUS
  <2>1. intents = <<>> /\ \A t \in Traders : trader[t] = IdleTrader
    BY DEF Init
  <2>2. DOMAIN intents = {}
    BY <2>1, EmptySeq
  <2> QED
    BY <2>1, <2>2, IdleTypes, InitApproval
    DEF IntentInv, OneIntentPerDecision, QueueIsFresh, HasIntent
<1>2. IntentInv /\ [Next]_vars => IntentInv'
  <2> SUFFICES ASSUME IntentInv, [Next]_vars PROVE IntentInv'
    OBVIOUS
  <2>1. ApprovalInv'
    BY ApprovalStep DEF IntentInv
  <2>2. CASE UNCHANGED <<trader, intents>>
    BY <2>1, <2>2 DEF IntentInv, OneIntentPerDecision, QueueIsFresh, HasIntent
  <2>3. CASE \E t \in Traders : Papering(t)
    BY <2>1, <2>3, IntentPaperStep DEF IntentInv
  <2> QED
    BY <2>2, <2>3 DEF Next, Reviewing, BeginReview, ReadSignals, RecordPlaceholder,
       RecordDecision, ReviewCrash, traderVars, vars
<1>3. IntentInv => OneIntentPerDecision
  BY DEF IntentInv
<1> QED
  BY <1>1, <1>2, <1>3, PTL DEF Spec
-----------------------------------------------------------------------------
(* One live setup per key.                                                 *)

ActiveInv == ScanInv /\ OneActivePerKey

\* A step that makes no row active and leaves the keys alone.
LEMMA FewerActive ==
  ASSUME ActiveInv, KeysStay, DOMAIN signals' = DOMAIN signals, ActiveIds' \subseteq ActiveIds
  PROVE  OneActivePerKey'
BY DEF ActiveInv, OneActivePerKey, KeysStay, ActiveIds

LEMMA ActiveStep ==
  ASSUME ActiveInv, SignalNext
  PROVE  OneActivePerKey'
<1>1. /\ KeysStay /\ signals \in Seq(Signal)
      /\ \A i \in DOMAIN signals : signals[i] \in Signal
  BY SignalStep, ActiveType DEF ActiveInv, ScanInv, SignalTypeOK
<1>2. ASSUME UNCHANGED signals PROVE OneActivePerKey'
  BY <1>2 DEF ActiveInv, OneActivePerKey, ActiveIds
<1>3. ASSUME NEW s \in Scanners, ExpireStale(s) PROVE OneActivePerKey'
  <2>1. /\ DOMAIN signals' = DOMAIN signals
        /\ \A i \in DOMAIN signals : signals'[i].status = "active" => signals[i].status = "active"
    BY <1>1, <1>3 DEF ExpireStale, Expired, Signal
  <2> QED
    BY <2>1, <1>1, FewerActive DEF ActiveIds
<1>4. ASSUME NEW i \in DOMAIN signals, NEW status \in {"acted_on", "skipped"}, Resolve(i, status)
      PROVE  OneActivePerKey'
  <2>1. /\ DOMAIN signals' = DOMAIN signals
        /\ \A j \in DOMAIN signals : signals'[j].status = "active" => signals[j].status = "active"
    BY <1>1, <1>4 DEF Resolve, Signal
  <2> QED
    BY <2>1, <1>1, FewerActive DEF ActiveIds
<1>5. ASSUME NEW s \in Scanners, UpsertSignal(s) PROVE OneActivePerKey'
  <2> DEFINE key == gates[scan[s].levels].key
             row == [key |-> key, status |-> "active", levels |-> scan[s].levels,
                     expires |-> scan[s].expires]
  <2>1. CASE SameSetup(key) = {}
    <3>1. signals' = Append(signals, row)
      BY <2>1, <1>5 DEF UpsertSignal
    <3>2. /\ DOMAIN signals' = DOMAIN signals \cup {Len(signals) + 1}
          /\ \A i \in DOMAIN signals : signals'[i] = signals[i]
          /\ signals'[Len(signals) + 1] = row
      <4>1. DOMAIN signals = 1 .. Len(signals) /\ Len(signals) \in Nat
        BY <1>1, LenProperties
      <4> HIDE DEF row
      <4> QED
        BY <4>1, <3>1, <1>1
    <3>3. \A i \in ActiveIds : signals[i].key # key
      BY <2>1 DEF SameSetup
    <3> QED
      BY <3>2, <3>3 DEF ActiveInv, OneActivePerKey, ActiveIds
  <2>2. CASE SameSetup(key) # {}
    <3>1. signals' = [i \in DOMAIN signals |->
             IF i \in SameSetup(key)
             THEN Refreshed(signals[i], scan[s].levels, scan[s].expires) ELSE signals[i]]
      BY <2>2, <1>5 DEF UpsertSignal
    <3>2. /\ DOMAIN signals' = DOMAIN signals
          /\ \A i \in DOMAIN signals : signals'[i].status = signals[i].status
      BY <3>1, <1>1 DEF Refreshed, Signal
    <3> QED
      BY <3>2, <1>1, FewerActive DEF ActiveIds
  <2> QED
    BY <2>1, <2>2
<1> QED
  BY <1>2, <1>3, <1>4, <1>5 DEF SignalNext, Scanning, SelectStale, StartScan,
     SkipCandidate, EvaluateCandidate, ScanCrash, Tick

\* The partial unique index on active setups, which the upsert's ON CONFLICT
\* relies on: however scans, sweeps, resolves and crashes interleave, at most
\* one row of a key is active.
THEOREM OneActive == SignalSpec => []OneActivePerKey
<1>1. SignalInit => ActiveInv
  <2> SUFFICES ASSUME SignalInit PROVE ActiveInv
    OBVIOUS
  <2>1. SignalTypeOK /\ ScansAreAdmitted
    BY IdleScanType, SignalConstants, EmptySeq DEF SignalInit, SignalTypeOK, ScansAreAdmitted
  <2>2. DOMAIN signals = {}
    BY EmptySeq DEF SignalInit
  <2> QED
    BY <2>1, <2>2 DEF ActiveInv, ScanInv, RowsAreApproved, OneActivePerKey, ActiveIds
<1>2. ActiveInv /\ [SignalNext]_signalVars => ActiveInv'
  <2>1. ASSUME ActiveInv, UNCHANGED signalVars PROVE ActiveInv'
    BY <2>1 DEF ActiveInv, ScanInv, SignalTypeOK, ScansAreAdmitted, RowsAreApproved,
       Approved, OneActivePerKey, ActiveIds, signalVars
  <2> QED
    BY <2>1, SignalStep, ActiveStep DEF ActiveInv
<1>3. ActiveInv => OneActivePerKey
  BY DEF ActiveInv
<1> QED
  BY <1>1, <1>2, <1>3, PTL DEF SignalSpec

-----------------------------------------------------------------------------
(* What a paper session does to the two tables it writes.                  *)

\* Another session's memory is its own.
OthersRest(t) == \A q \in Traders \ {t} : trader'[q] = trader[q]

\* Steps that write neither table: a session never leaves a fill or an entry
\* undone unless it is killed.
Quietly(t) ==
  /\ UNCHANGED <<intents, journal>>
  /\ trader'[t].pc \notin {"fill", "journal"}
  /\ trader[t].pc \in {"fill", "journal"} => Crashes

Ordering(t) ==
  /\ trader[t].pc = "build"
  /\ UNCHANGED journal
  /\ DOMAIN intents' = DOMAIN intents \cup {Len(intents) + 1}
  /\ Len(intents) + 1 \notin DOMAIN intents
  /\ \A i \in DOMAIN intents : intents'[i] = intents[i]
  /\ intents'[Len(intents) + 1].decision = trader[t].decision
  /\ intents'[Len(intents) + 1].status = "pending"
  /\ trader'[t].pc = "fill" /\ trader'[t].intent = Len(intents) + 1
  /\ trader'[t].decision = trader[t].decision

Filling(t) ==
  /\ trader[t].pc = "fill"
  /\ UNCHANGED journal
  /\ DOMAIN intents' = DOMAIN intents
  /\ \A i \in DOMAIN intents :
       /\ intents'[i].decision = intents[i].decision
       /\ i # trader[t].intent => intents'[i] = intents[i]
       /\ i = trader[t].intent => intents'[i].status \in {"filled", "expired"}
  /\ \/ /\ intents'[trader[t].intent].status = "filled"
        /\ trader'[t] = [trader[t] EXCEPT !.pc = "journal"]
        /\ trader'[t].pc = "journal" /\ trader'[t].intent = trader[t].intent
        /\ trader'[t].decision = trader[t].decision
     \/ /\ intents'[trader[t].intent].status = "expired"
        /\ trader'[t].pc = "next"

Journaling(t) ==
  /\ trader[t].pc = "journal"
  /\ UNCHANGED intents
  /\ DOMAIN journal' = DOMAIN journal \cup {Len(journal) + 1}
  /\ \A j \in DOMAIN journal : journal'[j] = journal[j]
  /\ journal'[Len(journal) + 1].decision = trader[t].decision
  /\ trader'[t].pc = "next"

LEMMA PaperEffects ==
  ASSUME ApprovalInv, NEW t \in Traders, Papering(t)
  PROVE  /\ OthersRest(t) /\ UNCHANGED decisions
         /\ Quietly(t) \/ Ordering(t) \/ Filling(t) \/ Journaling(t)
<1>1. /\ trader \in [Traders -> Trader] /\ trader[t] \in Trader
      /\ intents \in Seq(Intent) /\ journal \in Seq(Entry) /\ TraderIsApproved(t)
      /\ trader[t].pc \in {"fill", "journal"} => trader[t].intent \in DOMAIN intents
  BY DEF ApprovalInv, TypeOK, TradersAreApproved, TraderIsApproved
<1>2. UNCHANGED decisions
  BY DEF Papering, Processing, BeginPaper, ReadQueue, LoadSignal, BuildIntent, RecordFill,
     WriteJournal, EndPaper, PaperCrash
<1>3. OthersRest(t)
  BY <1>1 DEF OthersRest, Papering, Processing, BeginPaper, ReadQueue, LoadSignal, BuildIntent,
     RecordFill, WriteJournal, EndPaper, PaperCrash
<1>4. ASSUME BeginPaper(t) \/ ReadQueue(t) PROVE Quietly(t)
  <2>1. trader'[t].pc \in {"read", "next"}
    BY <1>1, <1>4 DEF BeginPaper, ReadQueue, Trader
  <2> QED
    BY <2>1, <1>4 DEF BeginPaper, ReadQueue, Quietly
<1>5. ASSUME LoadSignal(t) PROVE Quietly(t)
  <2>1. PICK d \in trader[t].queue :
          trader' = [trader EXCEPT
            ![t].pc = "build", ![t].queue = @ \ {d}, ![t].decision = d,
            ![t].levels = signals[decisions[d].signal].levels,
            ![t].expires = signals[decisions[d].signal].expires]
    BY <1>5 DEF LoadSignal
  <2>2. trader'[t].pc = "build"
    BY <2>1, <1>1 DEF Trader
  <2> QED
    BY <2>2, <1>5 DEF LoadSignal, Quietly
<1>6. ASSUME EndPaper(t) \/ PaperCrash(t) PROVE Quietly(t)
  <2>1. trader'[t] = IdleTrader
    BY <1>1, <1>6 DEF EndPaper, PaperCrash
  <2> QED
    BY <2>1, <1>6, IdleTypes DEF EndPaper, PaperCrash, Quietly
<1>7. ASSUME BuildIntent(t) PROVE Ordering(t)
  <2> DEFINE e == [decision |-> trader[t].decision,
                   signal |-> decisions[trader[t].decision].signal,
                   levels |-> trader[t].levels, expires |-> trader[t].expires,
                   status |-> "pending"]
  <2>1. intents' = Append(intents, e) /\ ApprovalInv'
    BY <1>7, PaperStep DEF BuildIntent, Papering, Processing
  <2>2. e.decision = trader[t].decision /\ e.status = "pending"
    OBVIOUS
  <2> HIDE DEF e
  <2>3. DOMAIN intents = 1 .. Len(intents) /\ Len(intents) \in Nat
    BY <1>1, LenProperties
  <2>4. /\ DOMAIN intents' = DOMAIN intents \cup {Len(intents) + 1}
        /\ Len(intents) + 1 \notin DOMAIN intents
        /\ \A i \in DOMAIN intents : intents'[i] = intents[i]
        /\ intents'[Len(intents) + 1] = e
    <3>1. intents' \in Seq(Intent)
      BY <2>1 DEF ApprovalInv, TypeOK
    <3>2. Len(intents') = Len(intents) + 1 /\ intents'[Len(intents) + 1] = e
          /\ \A i \in 1 .. Len(intents) : intents'[i] = intents[i]
      BY <2>1, <1>1
    <3> QED
      BY <3>1, <3>2, <2>3, LenProperties
  <2>5. /\ trader'[t].pc = "fill" /\ trader'[t].intent = Len(intents) + 1
        /\ trader'[t].decision = trader[t].decision
    BY <1>1, <1>7 DEF BuildIntent, Trader
  <2> QED
    BY <2>2, <2>4, <2>5, <1>7 DEF Ordering, BuildIntent
<1>8. ASSUME RecordFill(t) PROVE Filling(t)
  <2> DEFINE status == Outcome(trader[t].now, trader[t].expires)
             x == IF Journals(status) THEN [trader[t] EXCEPT !.pc = "journal"] ELSE AtNext(t)
             i == trader[t].intent
  <2>1. status \in {"filled", "expired"} /\ (Journals(status) <=> status = "filled")
    BY OutcomeType DEF Journals
  <2>2. trader' = [trader EXCEPT ![t] = x] /\ intents' = [intents EXCEPT ![i].status = status]
    BY <1>8 DEF RecordFill
  <2>3. i \in DOMAIN intents /\ \A j \in DOMAIN intents : intents[j] \in Intent
    BY <1>1, <1>8, LenProperties, ElementOfSeq DEF RecordFill
  <2>4. trader'[t] = x
    BY <2>2, <1>1
  <2> HIDE DEF status
  <2>5. /\ DOMAIN intents' = DOMAIN intents
        /\ \A j \in DOMAIN intents : /\ intents'[j].decision = intents[j].decision
                                      /\ j # i => intents'[j] = intents[j]
        /\ intents'[i].status = status
    <3>1. DOMAIN intents' = DOMAIN intents
      BY <2>2, <1>1, LenProperties
    <3> QED
      BY <3>1, <2>2, <2>3, <1>1, LenProperties DEF Intent
  <2>6. CASE status = "filled"
    <3>1. trader'[t] = [trader[t] EXCEPT !.pc = "journal"]
      BY <2>1, <2>4, <2>6
    <3>2. /\ trader'[t].pc = "journal" /\ trader'[t].intent = i
          /\ trader'[t].decision = trader[t].decision
      BY <3>1, <1>1 DEF Trader
    <3> QED
      BY <3>1, <3>2, <2>1, <2>5, <2>6, <1>8 DEF Filling, RecordFill
  <2>7. CASE status = "expired"
    <3>1. trader'[t].pc = "next"
      BY <2>1, <2>4, <2>7, AtNextType DEF ApprovalInv
    <3> QED
      BY <3>1, <2>1, <2>5, <2>7, <1>8 DEF Filling, RecordFill
  <2> QED
    BY <2>1, <2>6, <2>7
<1>9. ASSUME WriteJournal(t) PROVE Journaling(t)
  <2> DEFINE e == [decision |-> trader[t].decision, levels |-> trader[t].levels]
  <2>1. e \in Entry /\ e.decision = trader[t].decision
    BY <1>1 DEF Entry, Trader
  <2> HIDE DEF e
  <2>2. journal' = Append(journal, e)
    BY <1>9 DEF WriteJournal, e
  <2>3. /\ DOMAIN journal' = DOMAIN journal \cup {Len(journal) + 1}
        /\ \A j \in DOMAIN journal : journal'[j] = journal[j]
        /\ journal'[Len(journal) + 1] = e
    BY <2>1, <2>2, <1>1, AppendType
  <2>4. trader'[t].pc = "next"
    BY <1>1, <1>9, AtNextType DEF ApprovalInv, WriteJournal
  <2> QED
    BY <2>1, <2>3, <2>4, <1>9 DEF Journaling, WriteJournal
<1> QED
  BY <1>2, <1>3, <1>4, <1>5, <1>6, <1>7, <1>8, <1>9 DEF Papering, Processing

-----------------------------------------------------------------------------
(* Sessions that are not killed.                                           *)

\* A session holds the intent it fills or journals under its own decision.
HoldsIntent(t) ==
  trader[t].pc \in {"fill", "journal"} =>
    intents[trader[t].intent].decision = trader[t].decision

\* Whatever is pending, or filled and not journaled, is in some session's hands.
InHand ==
  \A i \in DOMAIN intents :
    /\ intents[i].status = "pending" =>
         \E t \in Traders : trader[t].pc = "fill" /\ trader[t].intent = i
    /\ intents[i].status = "filled" =>
         \/ EntriesOf(intents[i].decision) # {}
         \/ \E t \in Traders : trader[t].pc = "journal" /\ trader[t].intent = i

SessionInv == ApprovalInv /\ (\A t \in Traders : HoldsIntent(t)) /\ InHand

\* A session's own step keeps every other session's grip on its intent.
LEMMA HoldsStep ==
  ASSUME ApprovalInv, \A q \in Traders : HoldsIntent(q), NEW t \in Traders, Papering(t)
  PROVE  \A q \in Traders : HoldsIntent(q)'
<1>1. /\ OthersRest(t)
      /\ Quietly(t) \/ Ordering(t) \/ Filling(t) \/ Journaling(t)
  BY PaperEffects
<1>2. \A q \in Traders : trader[q].pc \in {"fill", "journal"} => trader[q].intent \in DOMAIN intents
  BY DEF ApprovalInv, TradersAreApproved, TraderIsApproved
<1>3. ASSUME NEW q \in Traders \ {t} PROVE HoldsIntent(q)'
  BY <1>1, <1>2, <1>3 DEF OthersRest, HoldsIntent, Quietly, Ordering, Filling, Journaling
<1>4. HoldsIntent(t)'
  BY <1>1, <1>2 DEF HoldsIntent, Quietly, Ordering, Filling, Journaling
<1> QED
  BY <1>3, <1>4

LEMMA InHandStep ==
  ASSUME ~Crashes, SessionInv, NEW t \in Traders, Papering(t)
  PROVE  InHand'
<1>1. /\ OthersRest(t)
      /\ Quietly(t) \/ Ordering(t) \/ Filling(t) \/ Journaling(t)
  BY PaperEffects DEF SessionInv
<1>2. \A q \in Traders : trader[q].pc \in {"fill", "journal"} => trader[q].intent \in DOMAIN intents
  BY DEF SessionInv, ApprovalInv, TradersAreApproved, TraderIsApproved
<1>3. CASE Quietly(t)
  BY <1>1, <1>3 DEF SessionInv, InHand, Quietly, OthersRest, EntriesOf
<1>4. CASE Ordering(t)
  BY <1>1, <1>2, <1>4 DEF SessionInv, InHand, Ordering, OthersRest, EntriesOf
<1>5. CASE Filling(t)
  BY <1>1, <1>2, <1>5 DEF SessionInv, InHand, Filling, OthersRest, EntriesOf
<1>6. CASE Journaling(t)
  <2>1. \A d : EntriesOf(d) # {} => EntriesOf(d)' # {}
    BY <1>6 DEF Journaling, EntriesOf
  <2>2. \A d : d = trader[t].decision => EntriesOf(d)' # {}
    BY <1>6 DEF Journaling, EntriesOf
  <2>3. intents[trader[t].intent].decision = trader[t].decision
    BY <1>6 DEF Journaling, SessionInv, HoldsIntent
  <2>4. UNCHANGED intents /\ trader[t].pc = "journal" /\ OthersRest(t)
    BY <1>1, <1>6 DEF Journaling
  <2>5. ASSUME NEW i \in DOMAIN intents, intents[i].status = "pending"
        PROVE  \E q \in Traders : trader'[q].pc = "fill" /\ trader'[q].intent = i
    BY <2>4, <2>5 DEF SessionInv, InHand, OthersRest
  <2>6. ASSUME NEW i \in DOMAIN intents, intents[i].status = "filled"
        PROVE  \/ \A d : d = intents[i].decision => EntriesOf(d)' # {}
               \/ \E q \in Traders : trader'[q].pc = "journal" /\ trader'[q].intent = i
    BY <2>1, <2>2, <2>3, <2>4, <2>6 DEF SessionInv, InHand, OthersRest
  <2> QED
    BY <2>4, <2>5, <2>6 DEF InHand
<1> QED
  BY <1>1, <1>3, <1>4, <1>5, <1>6

\* When no session is killed, an order is never left pending and a fill never
\* left out of the journal: whatever is unfinished is in the hands of a
\* session that is still running.
THEOREM SessionsFinish == ASSUME ~Crashes PROVE Spec => []SessionsComplete
<1>1. Init => SessionInv
  <2> SUFFICES ASSUME Init PROVE SessionInv
    OBVIOUS
  <2>1. DOMAIN intents = {} /\ \A t \in Traders : trader[t].pc = "idle"
    BY EmptySeq, IdleTypes DEF Init
  <2> QED
    BY <2>1, InitApproval DEF SessionInv, HoldsIntent, InHand
<1>2. SessionInv /\ [Next]_vars => SessionInv'
  <2> SUFFICES ASSUME SessionInv, [Next]_vars PROVE SessionInv'
    OBVIOUS
  <2>1. ApprovalInv'
    BY ApprovalStep DEF SessionInv
  <2>2. CASE UNCHANGED <<trader, intents, journal>>
    BY <2>1, <2>2 DEF SessionInv, HoldsIntent, InHand, EntriesOf
  <2>3. CASE \E t \in Traders : Papering(t)
    BY <2>1, <2>3, HoldsStep, InHandStep DEF SessionInv
  <2> QED
    BY <2>2, <2>3 DEF Next, Reviewing, BeginReview, ReadSignals, RecordPlaceholder,
       RecordDecision, ReviewCrash, traderVars, vars
<1>3. SessionInv => SessionsComplete
  BY DEF SessionInv, InHand, SessionsComplete
<1> QED
  BY <1>1, <1>2, <1>3, PTL DEF Spec
-----------------------------------------------------------------------------
(* The ledger.                                                             *)

OneEntryPerDecision ==
  \A j, k \in DOMAIN journal : journal[j].decision = journal[k].decision => j = k

\* A journal entry stands for a filled order.
EntriesAreFills ==
  \A j \in DOMAIN journal : \E i \in DOMAIN intents :
    intents[i].decision = journal[j].decision /\ intents[i].status = "filled"

\* A session fills a pending order, and journals a filled one that has no entry.
ActsInTurn(t) ==
  /\ trader[t].pc = "fill" => intents[trader[t].intent].status = "pending"
  /\ trader[t].pc = "journal" =>
       /\ intents[trader[t].intent].status = "filled"
       /\ EntriesOf(trader[t].decision) = {}

LedgerInv ==
  /\ IntentInv
  /\ \A t \in Traders : HoldsIntent(t) /\ ActsInTurn(t)
  /\ OneEntryPerDecision
  /\ EntriesAreFills

LEMMA LedgerStep ==
  ASSUME LedgerInv, ApprovalInv', OneIntentPerDecision', \A s, t \in Traders : s = t,
         NEW t \in Traders, Papering(t)
  PROVE  /\ \A q \in Traders : HoldsIntent(q)' /\ ActsInTurn(q)'
         /\ OneEntryPerDecision' /\ EntriesAreFills'
<1>1. /\ UNCHANGED decisions /\ Traders = {t}
      /\ Quietly(t) \/ Ordering(t) \/ Filling(t) \/ Journaling(t)
      /\ \A q \in Traders : HoldsIntent(q)'
  BY PaperEffects, HoldsStep DEF LedgerInv, IntentInv
<1>2. /\ trader[t].pc \in {"fill", "journal"} => trader[t].intent \in DOMAIN intents
      /\ HoldsIntent(t) /\ ActsInTurn(t) /\ QueueIsFresh(t)
      /\ OneIntentPerDecision /\ OneEntryPerDecision /\ EntriesAreFills
  BY DEF LedgerInv, IntentInv, ApprovalInv, TradersAreApproved, TraderIsApproved
<1>3. CASE Quietly(t)
  BY <1>1, <1>2, <1>3 DEF Quietly, ActsInTurn, OneEntryPerDecision, EntriesAreFills
<1>4. CASE Ordering(t)
  BY <1>1, <1>2, <1>4 DEF Ordering, ActsInTurn, OneEntryPerDecision, EntriesAreFills
<1>5. CASE Filling(t)
  <2>1. /\ intents[trader[t].intent].decision = trader[t].decision
        /\ intents[trader[t].intent].status = "pending"
        /\ trader[t].intent \in DOMAIN intents
    BY <1>2, <1>5 DEF Filling, HoldsIntent, ActsInTurn
  <2>2. EntriesOf(trader[t].decision) = {}
    BY <1>2, <2>1 DEF EntriesOf, EntriesAreFills, OneIntentPerDecision
  <2>3. EntriesAreFills' /\ OneEntryPerDecision'
    <3>1. ASSUME NEW j \in DOMAIN journal
          PROVE  \E i \in DOMAIN intents' :
                   intents'[i].decision = journal[j].decision /\ intents'[i].status = "filled"
      <4>1. PICK i \in DOMAIN intents :
              intents[i].decision = journal[j].decision /\ intents[i].status = "filled"
        BY <1>2, <3>1 DEF EntriesAreFills
      <4> QED
        BY <4>1, <2>1, <1>5 DEF Filling
    <3> QED
      BY <3>1, <1>2, <1>5 DEF Filling, EntriesAreFills, OneEntryPerDecision
  <2>4. ActsInTurn(t)'
    BY <2>1, <2>2, <1>5 DEF Filling, ActsInTurn, EntriesOf
  <2> QED
    BY <2>3, <2>4, <1>1
<1>6. CASE Journaling(t)
  <2>1. /\ intents[trader[t].intent].decision = trader[t].decision
        /\ intents[trader[t].intent].status = "filled"
        /\ trader[t].intent \in DOMAIN intents
        /\ EntriesOf(trader[t].decision) = {}
    BY <1>2, <1>6 DEF Journaling, HoldsIntent, ActsInTurn
  <2>2. OneEntryPerDecision' /\ EntriesAreFills'
    BY <2>1, <1>2, <1>6 DEF Journaling, EntriesOf, EntriesAreFills, OneEntryPerDecision
  <2>3. ActsInTurn(t)'
    BY <1>6 DEF Journaling, ActsInTurn
  <2> QED
    BY <2>2, <2>3, <1>1
<1> QED
  BY <1>1, <1>3, <1>4, <1>5, <1>6

LEMMA LedgerInvariant ==
  ASSUME \A s, t \in Traders : s = t
  PROVE  /\ Init => LedgerInv
         /\ LedgerInv /\ [Next]_vars => LedgerInv'
<1>1. ASSUME Init PROVE LedgerInv
  <2>1. intents = <<>> /\ journal = <<>> /\ \A t \in Traders : trader[t] = IdleTrader
    BY <1>1 DEF Init
  <2>2. DOMAIN intents = {} /\ DOMAIN journal = {}
    BY <2>1, EmptySeq
  <2> QED
    BY <1>1, <2>1, <2>2, IdleTypes, InitApproval
    DEF LedgerInv, IntentInv, OneIntentPerDecision, QueueIsFresh, HasIntent, HoldsIntent,
        ActsInTurn, OneEntryPerDecision, EntriesAreFills
<1>2. ASSUME LedgerInv, [Next]_vars PROVE LedgerInv'
  <2>1. ApprovalInv'
    BY <1>2, ApprovalStep DEF LedgerInv, IntentInv
  <2>2. CASE UNCHANGED <<trader, intents, journal>>
    BY <2>1, <2>2, <1>2 DEF LedgerInv, IntentInv, OneIntentPerDecision, QueueIsFresh, HasIntent,
       HoldsIntent, ActsInTurn, OneEntryPerDecision, EntriesAreFills, EntriesOf
  <2>3. CASE \E t \in Traders : Papering(t)
    <3>1. IntentInv'
      BY <2>1, <2>3, <1>2, IntentPaperStep DEF LedgerInv, IntentInv
    <3> QED
      BY <3>1, <2>1, <2>3, <1>2, LedgerStep DEF LedgerInv, IntentInv
  <2> QED
    BY <1>2, <2>2, <2>3 DEF Next, Reviewing, BeginReview, ReadSignals, RecordPlaceholder,
       RecordDecision, ReviewCrash, traderVars, vars
<1> QED
  BY <1>1, <1>2

-----------------------------------------------------------------------------
(* The stage the three tables give a decision.                             *)

\* The stage of a decision nobody took, of a TAKE without an order, and of one
\* with a single order and at most one entry; now and after a step.
LEMMA StageOf ==
  ASSUME NEW d
  PROVE  /\ d \notin Takes => Stage(d) = "no_trade"
         /\ d \in Takes /\ OrdersOf(d) = {} => Stage(d) = "taken"
         /\ (d \notin Takes)' => Stage(d)' = "no_trade"
         /\ (d \in Takes /\ OrdersOf(d) = {})' => Stage(d)' = "taken"
BY DEF Stage

AtMostOne(set) == set = {} \/ \E x : set = {x}

LEMMA FewHave ==
  ASSUME NEW set, AtMostOne(set)
  PROVE  ~(Cardinality(set) > 1)
<1>1. CASE set = {}
  BY <1>1, FS_EmptySet
<1>2. CASE \E x : set = {x}
  <2>1. Cardinality(set) = 1
    BY <1>2, FS_Singleton, Zenon
  <2> QED
    BY <2>1
<1> QED
  BY <1>1, <1>2 DEF AtMostOne

LEMMA StageOfOrder ==
  ASSUME NEW d, NEW i
  PROVE  /\ d \in Takes /\ OrdersOf(d) = {i} /\ AtMostOne(EntriesOf(d)) =>
              Stage(d) = IF intents[i].status = "pending" THEN "ordered"
                         ELSE IF EntriesOf(d) # {} THEN "journaled" ELSE intents[i].status
         /\ (d \in Takes)' /\ OrdersOf(d)' = {i} /\ AtMostOne(EntriesOf(d)') =>
              Stage(d)' = IF intents'[i].status = "pending" THEN "ordered"
                          ELSE IF EntriesOf(d)' # {} THEN "journaled" ELSE intents'[i].status
<1>1. (CHOOSE x \in {i} : TRUE) = i /\ {i} # {} /\ ~(Cardinality({i}) > 1)
  BY FewHave DEF AtMostOne
<1>2. ASSUME d \in Takes, OrdersOf(d) = {i}, AtMostOne(EntriesOf(d))
      PROVE  Stage(d) = IF intents[i].status = "pending" THEN "ordered"
                        ELSE IF EntriesOf(d) # {} THEN "journaled" ELSE intents[i].status
  <2>1. ~(Cardinality(OrdersOf(d)) > 1) /\ ~(Cardinality(EntriesOf(d)) > 1)
    BY <1>1, <1>2, FewHave
  <2> QED
    BY <1>1, <1>2, <2>1 DEF Stage
<1>3. ASSUME (d \in Takes)', OrdersOf(d)' = {i}, AtMostOne(EntriesOf(d)')
      PROVE  Stage(d)' = IF intents'[i].status = "pending" THEN "ordered"
                         ELSE IF EntriesOf(d)' # {} THEN "journaled" ELSE intents'[i].status
  <2>1. ~(Cardinality(OrdersOf(d)') > 1) /\ ~(Cardinality(EntriesOf(d)') > 1)
    BY <1>1, <1>3, FewHave
  <2> QED
    BY <1>1, <1>3, <2>1 DEF Stage
<1> QED
  BY <1>2, <1>3

\* A decision whose rows a step leaves alone keeps its stage.
LEMMA StageKept ==
  ASSUME NEW d, d \in Takes <=> (d \in Takes)', OrdersOf(d)' = OrdersOf(d),
         \A i \in OrdersOf(d) : intents'[i].status = intents[i].status,
         EntriesOf(d)' = EntriesOf(d)
  PROVE  Stage(d)' = Stage(d)
<1>1. CASE OrdersOf(d) = {}
  BY <1>1, StageOf
<1>2. CASE OrdersOf(d) # {}
  <2> DEFINE i == CHOOSE x \in OrdersOf(d) : TRUE
  <2>1. i \in OrdersOf(d)
    BY <1>2
  <2>2. intents'[i].status = intents[i].status
    BY <2>1
  <2>3. (CHOOSE x \in OrdersOf(d)' : TRUE) = i
    OBVIOUS
  <2> QED
    BY <1>2, <2>2, <2>3 DEF Stage
<1> QED
  BY <1>1, <1>2

-----------------------------------------------------------------------------
(* The refinement.                                                         *)

Read == [d \in DOMAIN decisions |-> Stage(d)]

\* Two tables that agree row by row, the second with one more row.
LEMMA TableGrows ==
  ASSUME NEW S, NEW n \in Nat, NEW f \in [1 .. n -> S], NEW g \in [1 .. n + 1 -> S],
         \A i \in 1 .. n : g[i] = f[i]
  PROVE  g = Append(f, g[n + 1])
<1> DEFINE e == g[n + 1]
<1>1. /\ f \in Seq(S) /\ Len(f) = n /\ e \in S
      /\ g \in Seq(S) /\ Len(g) = n + 1
  <2>1. n + 1 \in Nat /\ n + 1 \in 1 .. n + 1
    OBVIOUS
  <2> QED
    BY <2>1, TableType
<1> HIDE DEF e
<1>2. /\ Append(f, e) \in Seq(S) /\ Len(Append(f, e)) = n + 1
      /\ \A i \in 1 .. n : Append(f, e)[i] = f[i]
      /\ Append(f, e)[n + 1] = e
  BY <1>1, AppendProperties
<1>3. ASSUME NEW i \in 1 .. n + 1 PROVE g[i] = Append(f, e)[i]
  <2>1. CASE i \in 1 .. n
    BY <2>1, <1>2
  <2>2. CASE i = n + 1
    BY <2>2, <1>2 DEF e
  <2> QED
    BY <2>1, <2>2
<1>4. g = Append(f, e)
  BY <1>1, <1>2, <1>3, SeqEqual
<1> QED
  BY <1>4 DEF e

\* A review only ever adds a decision that has no order yet.
LEMMA ReviewRecords ==
  ASSUME LedgerInv, ApprovalInv', NEW r \in Reviewers, Reviewing(r)
  PROVE  [Ledger!LedgerNext]_Read
<1>1. /\ UNCHANGED <<intents, journal>> /\ ApprovalInv
      /\ decisions \in Seq(Decision) /\ decisions' \in Seq(Decision)
  BY DEF Reviewing, BeginReview, ReadSignals, RecordPlaceholder, RecordDecision, ReviewCrash,
     LedgerInv, IntentInv, ApprovalInv, TypeOK
<1>2. CASE UNCHANGED decisions
  BY <1>1, <1>2 DEF Read, Stage, Takes, OrdersOf, EntriesOf
<1>3. ASSUME NEW e, decisions' = Append(decisions, e)
      PROVE  Ledger!Record
  <2>1. PICK n \in Nat : n = Len(decisions)
    BY <1>1, LenProperties
  <2>2. /\ DOMAIN decisions = 1 .. n
        /\ DOMAIN decisions' = 1 .. n + 1
        /\ \A d \in DOMAIN decisions : decisions'[d] = decisions[d]
    <3>1. Len(decisions') = n + 1 /\ \A i \in 1 .. n : decisions'[i] = decisions[i]
      BY <1>1, <1>3, <2>1
    <3> QED
      BY <3>1, <2>1, <1>1, LenProperties
  <2>3. \A d \in DOMAIN decisions : Stage(d)' = Stage(d)
    BY <2>2, <1>1, StageKept DEF Takes, OrdersOf, EntriesOf
  <2>4. OrdersOf(n + 1)' = {}
    <3>1. \A i \in DOMAIN intents : intents[i].decision \in DOMAIN decisions
      BY <1>1 DEF ApprovalInv, IntentsAreApproved, Takes
    <3> QED
      BY <3>1, <2>2, <1>1 DEF OrdersOf
  <2>5. Stage(n + 1)' \in {"no_trade", "taken"}
    BY <2>4, StageOf
  <2> DEFINE S == {Stage(d)' : d \in 1 .. n + 1}
  <2>6. Read = [d \in 1 .. n |-> Stage(d)] /\ Read' = [d \in 1 .. n + 1 |-> Stage(d)']
    BY <2>2 DEF Read
  <2>7. Read \in [1 .. n -> S] /\ Read' \in [1 .. n + 1 -> S]
        /\ Read'[n + 1] = Stage(n + 1)' /\ \A d \in 1 .. n : Read'[d] = Read[d]
    <3>1. Read \in [1 .. n -> S]
      BY <2>2, <2>3, <2>6
    <3>2. Read' \in [1 .. n + 1 -> S]
      BY <2>6
    <3> QED
      BY <3>1, <3>2, <2>2, <2>3, <2>6
  <2> HIDE DEF S
  <2>8. Read' = Append(Read, Read'[n + 1])
    BY <2>7, TableGrows
  <2> QED
    BY <2>5, <2>7, <2>8 DEF Read, Ledger!Record
<1>4. UNCHANGED decisions \/ \E e : decisions' = Append(decisions, e)
  BY DEF Reviewing, BeginReview, ReadSignals, RecordPlaceholder, RecordDecision, ReviewCrash
<1> QED
  BY <1>2, <1>3, <1>4 DEF Ledger!LedgerNext

\* With one order and at most one entry to a decision, its rows are these.
LEMMA FewRows ==
  ASSUME NEW d, NEW i
  PROVE  /\ OneEntryPerDecision => AtMostOne(EntriesOf(d))
         /\ OneEntryPerDecision' => AtMostOne(EntriesOf(d)')
         /\ OneIntentPerDecision /\ i \in DOMAIN intents /\ intents[i].decision = d =>
              OrdersOf(d) = {i}
         /\ OneIntentPerDecision' /\ i \in DOMAIN intents' /\ intents'[i].decision = d =>
              OrdersOf(d)' = {i}
<1>1. OneEntryPerDecision => AtMostOne(EntriesOf(d))
  BY DEF OneEntryPerDecision, EntriesOf, AtMostOne
<1>2. OneEntryPerDecision' => AtMostOne(EntriesOf(d)')
  BY DEF OneEntryPerDecision, EntriesOf, AtMostOne
<1>3. OneIntentPerDecision /\ i \in DOMAIN intents /\ intents[i].decision = d =>
        OrdersOf(d) = {i}
  BY DEF OneIntentPerDecision, OrdersOf
<1>4. OneIntentPerDecision' /\ i \in DOMAIN intents' /\ intents'[i].decision = d =>
        OrdersOf(d)' = {i}
  BY DEF OneIntentPerDecision, OrdersOf
<1> QED
  BY <1>1, <1>2, <1>3, <1>4

\* One decision moves to a stage that may follow its own.
LEMMA OneAdvances ==
  ASSUME UNCHANGED decisions, NEW d \in DOMAIN decisions,
         Stage(d)' \in Ledger!After(Stage(d)),
         \A c \in DOMAIN decisions : c # d => Stage(c)' = Stage(c)
  PROVE  Ledger!LedgerNext
<1>1. Read' = [Read EXCEPT ![d] = Stage(d)'] /\ DOMAIN Read = DOMAIN decisions /\ Read[d] = Stage(d)
  BY DEF Read
<1> QED
  BY <1>1 DEF Read, Ledger!LedgerNext, Ledger!Advance

LEMMA AfterCases ==
  /\ Ledger!After("taken") = {"ordered"}
  /\ Ledger!After("ordered") = {"expired", "filled"}
  /\ Ledger!After("filled") = {"journaled"}
BY DEF Ledger!After

\* A paper session moves at most the decision it holds, by one stage.
LEMMA PaperAdvances ==
  ASSUME LedgerInv, LedgerInv', NEW t \in Traders, Papering(t)
  PROVE  [Ledger!LedgerNext]_Read
<1>1. /\ UNCHANGED decisions
      /\ Quietly(t) \/ Ordering(t) \/ Filling(t) \/ Journaling(t)
  BY PaperEffects DEF LedgerInv, IntentInv
<1>2. /\ trader[t].pc \in {"fill", "journal"} => trader[t].intent \in DOMAIN intents
      /\ trader[t].pc \in {"build", "fill", "journal"} => trader[t].decision \in Takes
      /\ HoldsIntent(t) /\ ActsInTurn(t) /\ QueueIsFresh(t)
      /\ OneIntentPerDecision /\ OneEntryPerDecision /\ EntriesAreFills
      /\ OneIntentPerDecision' /\ OneEntryPerDecision'
  BY DEF LedgerInv, IntentInv, ApprovalInv, TradersAreApproved, TraderIsApproved
<1>3. Takes' = Takes /\ Takes \subseteq DOMAIN decisions
  BY <1>1 DEF Takes
<1>4. PICK d : d = trader[t].decision
  OBVIOUS
<1>5. CASE Quietly(t)
  BY <1>1, <1>5 DEF Quietly, Read, Stage, Takes, OrdersOf, EntriesOf
<1>6. CASE Ordering(t)
  <2>1. PICK n : n = Len(intents) + 1
    OBVIOUS
  <2>2. d \in Takes /\ OrdersOf(d) = {}
    BY <1>2, <1>4, <1>6 DEF Ordering, QueueIsFresh, HasIntent, OrdersOf
  <2>3. OrdersOf(d)' = {n} /\ intents'[n].status = "pending"
    BY <1>2, <1>4, <1>6, <2>1, FewRows DEF Ordering
  <2>4. Stage(d) = "taken" /\ Stage(d)' = "ordered"
    BY <1>2, <1>3, <2>2, <2>3, StageOf, StageOfOrder, FewRows
  <2>5. ASSUME NEW c \in DOMAIN decisions, c # d PROVE Stage(c)' = Stage(c)
    <3>1. /\ OrdersOf(c)' = OrdersOf(c)
          /\ \A i \in OrdersOf(c) : intents'[i].status = intents[i].status
          /\ EntriesOf(c)' = EntriesOf(c)
      BY <1>4, <1>6, <2>5 DEF Ordering, OrdersOf, EntriesOf
    <3> QED
      BY <3>1, <1>3, StageKept
  <2> QED
    BY <1>1, <1>3, <2>2, <2>4, <2>5, AfterCases, OneAdvances
<1>7. CASE Filling(t)
  <2>1. PICK n : n = trader[t].intent
    OBVIOUS
  <2>2. /\ d \in Takes /\ n \in DOMAIN intents /\ intents[n].decision = d
        /\ intents[n].status = "pending"
    BY <1>2, <1>4, <1>7, <2>1 DEF Filling, HoldsIntent, ActsInTurn
  <2>3. /\ OrdersOf(d) = {n} /\ OrdersOf(d)' = {n}
        /\ intents'[n].status \in {"filled", "expired"}
    BY <1>2, <1>7, <2>1, <2>2, FewRows DEF Filling
  <2>4. EntriesOf(d) = {} /\ EntriesOf(d)' = {}
    BY <1>2, <1>7, <2>2 DEF Filling, EntriesOf, EntriesAreFills, OneIntentPerDecision
  <2>5. Stage(d) = "ordered" /\ Stage(d)' = intents'[n].status
    BY <1>3, <2>2, <2>3, <2>4, StageOfOrder DEF AtMostOne
  <2>6. ASSUME NEW c \in DOMAIN decisions, c # d PROVE Stage(c)' = Stage(c)
    <3>1. /\ OrdersOf(c)' = OrdersOf(c)
          /\ \A i \in OrdersOf(c) : intents'[i].status = intents[i].status
          /\ EntriesOf(c)' = EntriesOf(c)
      BY <1>7, <2>1, <2>2, <2>6 DEF Filling, OrdersOf, EntriesOf
    <3> QED
      BY <3>1, <1>3, StageKept
  <2> QED
    BY <1>1, <1>3, <2>2, <2>3, <2>5, <2>6, AfterCases, OneAdvances
<1>8. CASE Journaling(t)
  <2>1. PICK n : n = trader[t].intent
    OBVIOUS
  <2>2. /\ d \in Takes /\ n \in DOMAIN intents /\ intents[n].decision = d
        /\ intents[n].status = "filled" /\ EntriesOf(d) = {}
    BY <1>2, <1>4, <1>8, <2>1 DEF Journaling, HoldsIntent, ActsInTurn
  <2>3. OrdersOf(d) = {n} /\ OrdersOf(d)' = {n} /\ intents'[n].status = "filled"
    BY <1>2, <1>8, <2>2, FewRows DEF Journaling
  <2>4. EntriesOf(d)' # {}
    BY <1>4, <1>8 DEF Journaling, EntriesOf
  <2>5. Stage(d) = "filled" /\ Stage(d)' = "journaled"
    BY <1>2, <1>3, <2>2, <2>3, <2>4, StageOfOrder, FewRows
  <2>6. ASSUME NEW c \in DOMAIN decisions, c # d PROVE Stage(c)' = Stage(c)
    <3>1. /\ OrdersOf(c)' = OrdersOf(c)
          /\ \A i \in OrdersOf(c) : intents'[i].status = intents[i].status
          /\ EntriesOf(c)' = EntriesOf(c)
      BY <1>4, <1>8, <2>6 DEF Journaling, OrdersOf, EntriesOf
    <3> QED
      BY <3>1, <1>3, StageKept
  <2> QED
    BY <1>1, <1>3, <2>2, <2>5, <2>6, AfterCases, OneAdvances
<1> QED
  BY <1>1, <1>5, <1>6, <1>7, <1>8

\* One paper session at a time implements the ledger of DecisionLedger, even
\* if it is killed anywhere: a TAKE is ordered at most once, filled or expired
\* at most once after that, and journaled at most once, only when filled.
THEOREM LedgerImplemented ==
  ASSUME \A s, t \in Traders : s = t
  PROVE  Spec => ImplementsLedger
<1>1. Init => LedgerInv
  BY LedgerInvariant
<1>2. LedgerInv /\ [Next]_vars => LedgerInv'
  BY LedgerInvariant
<1>3. Init => Ledger!LedgerInit
  <2> SUFFICES ASSUME Init PROVE Read = <<>>
    BY DEF Ledger!LedgerInit, Read
  <2>1. DOMAIN decisions = {}
    BY EmptySeq DEF Init
  <2> QED
    BY <2>1 DEF Read
<1>4. LedgerInv /\ LedgerInv' /\ [Next]_vars => [Ledger!LedgerNext]_Read
  <2> SUFFICES ASSUME LedgerInv, LedgerInv', [Next]_vars PROVE [Ledger!LedgerNext]_Read
    OBVIOUS
  <2>1. CASE UNCHANGED <<decisions, intents, journal>>
    BY <2>1 DEF Read, Stage, Takes, OrdersOf, EntriesOf
  <2>2. CASE \E r \in Reviewers : Reviewing(r)
    BY <2>2, ReviewRecords DEF LedgerInv, IntentInv
  <2>3. CASE \E t \in Traders : Papering(t)
    BY <2>3, PaperAdvances
  <2> QED
    BY <2>1, <2>2, <2>3 DEF Next, traderVars, vars
<1> QED
  BY <1>1, <1>2, <1>3, <1>4, PTL DEF Spec, ImplementsLedger, Ledger!LedgerSpec, Read
=============================================================================
