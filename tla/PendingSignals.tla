---------------------------- MODULE PendingSignals ----------------------------
(***************************************************************************)
(* The tables gate_decisions and pending_signals and the three writers of  *)
(* the latter: the expiry sweep and the scan of                            *)
(* signals/pending_signal_detector.py, which `main.py signal-scan` runs    *)
(* one after the other, and the dashboard's resolve endpoint.              *)
(*                                                                         *)
(* A row's id is its place in the sequence.  The numbers of a setup        *)
(* (limit, stop, target, size) are left out; levels is the id of the gate  *)
(* decision that evaluated exactly these numbers, so two rows agree on     *)
(* levels when they carry the same payload.                                *)
(***************************************************************************)
EXTENDS Integers, Sequences

CONSTANTS
  Scanners,   \* processes that may run signal-scan
  Slots,      \* (strategy, symbol) pairs that qualify on the leaderboard
  Life,       \* pending_signal_expiry_minutes
  MaxTime,    \* bound on the clock of a behaviour
  MaxGates,   \* a scan finds no candidates once this many were evaluated
  Crashes     \* TRUE: a process may be killed or lose the database anywhere

ASSUME SignalConstants ==
  /\ Life \in Nat
  /\ MaxTime \in Nat
  /\ MaxGates \in Nat
  /\ Crashes \in BOOLEAN

VARIABLES
  clock,    \* NOW(), in ticks
  gates,    \* gate_decisions, oldest first
  signals,  \* pending_signals, by id
  scan      \* what each scanner holds in memory

signalVars == <<clock, gates, signals, scan>>

Key == Slots \X {"LONG", "SHORT"}
Actions == {"APPROVE", "REDUCE", "REJECT"}
Gate == [key : Key, action : Actions]
Signal == [key : Key, status : {"active", "expired", "acted_on", "skipped"},
           levels : Nat, expires : Nat]
Scan == [pc : {"idle", "expire", "scan", "candidates", "upsert"},
         ids : SUBSET Nat, todo : SUBSET Slots, levels : Nat, expires : Nat]

IdleScan == [pc |-> "idle", ids |-> {}, todo |-> {}, levels |-> 0, expires |-> 0]

ActiveIds == {i \in DOMAIN signals : signals[i].status = "active"}

-----------------------------------------------------------------------------
(* expire_stale_signals                                                    *)

\* Read what has expired by the clock, and by a price that moved away.
SelectStale(s) ==
  /\ scan[s].pc = "idle"
  /\ LET late == {i \in ActiveIds : signals[i].expires <= clock}
     IN \E moved \in SUBSET (ActiveIds \ late) :
          scan' = [scan EXCEPT
            ![s].pc = IF late \cup moved = {} THEN "scan" ELSE "expire",
            ![s].ids = late \cup moved]
  /\ UNCHANGED <<clock, gates, signals>>

\* UPDATE ... WHERE id = ANY(ids), in a transaction of its own.
Expired(row) == [row EXCEPT !.status = "expired"]
ExpireStale(s) ==
  /\ scan[s].pc = "expire"
  /\ signals' = [i \in DOMAIN signals |->
                   IF i \in scan[s].ids THEN Expired(signals[i]) ELSE signals[i]]
  /\ scan' = [scan EXCEPT ![s].pc = "scan", ![s].ids = {}]
  /\ UNCHANGED <<clock, gates>>

-----------------------------------------------------------------------------
(* scan_kraken_signals                                                     *)

\* Faulty variant: the gate's verdict is recorded and then ignored.
AdmitsAny(action) == action \in Actions
Admits(action) == action \in {"APPROVE", "REDUCE"}

\* What is left to do after one more candidate.
Rest(s, slot) ==
  LET left == scan[s].todo \ {slot}
  IN IF left = {} THEN IdleScan
     ELSE [IdleScan EXCEPT !.pc = "candidates", !.todo = left]

\* No candidates at all: also what a halted account leads to.
StartScan(s) ==
  /\ scan[s].pc = "scan"
  /\ \E todo \in SUBSET Slots :
       /\ todo # {} => Len(gates) < MaxGates
       /\ scan' = [scan EXCEPT ![s] =
            IF todo = {} THEN IdleScan
            ELSE [IdleScan EXCEPT !.pc = "candidates", !.todo = todo]]
  /\ UNCHANGED <<clock, gates, signals>>

\* Too few bars, or HOLD.
SkipCandidate(s) ==
  /\ scan[s].pc = "candidates"
  /\ \E slot \in scan[s].todo : scan' = [scan EXCEPT ![s] = Rest(s, slot)]
  /\ UNCHANGED <<clock, gates, signals>>

\* Build the payload, evaluate it, persist the decision.
EvaluateCandidate(s) ==
  /\ scan[s].pc = "candidates"
  /\ \E slot \in scan[s].todo, direction \in {"LONG", "SHORT"}, action \in Actions :
       /\ gates' = Append(gates, [key |-> <<slot, direction>>, action |-> action])
       /\ scan' = [scan EXCEPT ![s] =
            IF Admits(action)
            THEN [scan[s] EXCEPT !.pc = "upsert", !.levels = Len(gates) + 1,
                                 !.expires = clock + Life]
            ELSE Rest(s, slot)]
  /\ UNCHANGED <<clock, signals>>

\* Faulty variants: the unique index without direction; a row past its expiry
\* is taken for gone although no sweep has marked it.
SameSlot(key) == {i \in ActiveIds : signals[i].key[1] = key[1]}
SameUnlessLate(key) == {i \in ActiveIds : signals[i].key = key /\ signals[i].expires > clock}
SameSetup(key) == {i \in ActiveIds : signals[i].key = key}

\* _upsert_active_signal: insert, or refresh the active row of this key.
Refreshed(row, levels, expires) ==
  [row EXCEPT !.levels = levels, !.expires = expires]
UpsertSignal(s) ==
  /\ scan[s].pc = "upsert"
  /\ LET key == gates[scan[s].levels].key
         same == SameSetup(key)
     IN /\ signals' =
             IF same = {}
             THEN Append(signals, [key |-> key, status |-> "active",
                                   levels |-> scan[s].levels,
                                   expires |-> scan[s].expires])
             ELSE [i \in DOMAIN signals |->
                     IF i \in same
                     THEN Refreshed(signals[i], scan[s].levels, scan[s].expires)
                     ELSE signals[i]]
        /\ scan' = [scan EXCEPT ![s] = Rest(s, key[1])]
  /\ UNCHANGED <<clock, gates>>

ScanCrash(s) ==
  /\ Crashes
  /\ scan[s].pc # "idle"
  /\ scan' = [scan EXCEPT ![s] = IdleScan]
  /\ UNCHANGED <<clock, gates, signals>>

-----------------------------------------------------------------------------
(* api_resolve_pending_signal: one guarded UPDATE.                         *)
Resolve(i, status) ==
  /\ i \in ActiveIds
  /\ signals' = [signals EXCEPT ![i].status = status]
  /\ UNCHANGED <<clock, gates, scan>>

Tick ==
  /\ clock < MaxTime
  /\ clock' = clock + 1
  /\ UNCHANGED <<gates, signals, scan>>

SignalInit ==
  /\ clock = 0
  /\ gates = <<>>
  /\ signals = <<>>
  /\ scan = [s \in Scanners |-> IdleScan]

Scanning(s) ==
  \/ SelectStale(s) \/ ExpireStale(s) \/ StartScan(s) \/ SkipCandidate(s)
  \/ EvaluateCandidate(s) \/ UpsertSignal(s) \/ ScanCrash(s)

SignalNext ==
  \/ \E s \in Scanners : Scanning(s)
  \/ \E i \in DOMAIN signals, status \in {"acted_on", "skipped"} : Resolve(i, status)
  \/ Tick

SignalSpec == SignalInit /\ [][SignalNext]_signalVars

-----------------------------------------------------------------------------
(* Properties                                                              *)

SignalTypeOK ==
  /\ clock \in Nat
  /\ gates \in Seq(Gate)
  /\ signals \in Seq(Signal)
  /\ scan \in [Scanners -> Scan]

\* The levels a key's gate decision approved or reduced.
Approved(levels, key) ==
  /\ levels \in DOMAIN gates
  /\ gates[levels].key = key
  /\ gates[levels].action # "REJECT"

\* The gate is the only path to a live setup (pretrade_gate.py's docstring):
\* whatever scanners, sweeps, resolves and crashes interleave, every row
\* carries levels the gate admitted for that row's own key.
RowsAreApproved ==
  \A i \in DOMAIN signals : Approved(signals[i].levels, signals[i].key)

\* The partial unique index of migration 0017: refreshes, sweeps and
\* resolves in any order leave one active row per key.
OneActivePerKey ==
  \A i, j \in ActiveIds : signals[i].key = signals[j].key => i = j

\* What a person did with a signal is final: a row marked acted_on or
\* skipped is never marked anything else.
ResolvedIsFinal ==
  [][\A i \in DOMAIN signals :
       signals[i].status \in {"acted_on", "skipped"} => signals'[i].status = signals[i].status
    ]_signalVars
=============================================================================
