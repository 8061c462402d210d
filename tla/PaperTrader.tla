----------------------------- MODULE PaperTrader -----------------------------
(***************************************************************************)
(* Paper trading of trading/paper_trader.py: one row of paper_positions    *)
(* per slot (exchange, strategy, symbol), and the operations that load and *)
(* save whole rows: the cycle of `main.py paper`, the replay of            *)
(* `main.py paper --replay-days`, the kill switch and resume of the        *)
(* dashboard.  Each runs in a process of its own and none takes a lock.    *)
(*                                                                         *)
(* Money and quantities are small integers: equity, the drawdown amounts   *)
(* and the cost of one order (commission and funding) in one unit, a       *)
(* quantity signed (LONG positive).  Sizing is FullSize, halved by the     *)
(* soft floor and zero without headroom.                                   *)
(***************************************************************************)
EXTENDS Integers, FiniteSets

CONSTANTS
  Commands,     \* processes that run `main.py paper`, with or without a replay
  Requests,     \* dashboard requests: kill switch and resume
  Slots,        \* run_ids of the candidates of one exchange
  Prices,       \* closes of the last bar
  Capital,      \* account_size, which the floors are relative to
  StartEquity,  \* what risk parity may give a slot to begin with
  SoftFloor,    \* soft_floor_amount
  HardFloor,    \* hard_floor_amount
  DailyLoss,    \* account_size * max_daily_loss_pct
  FullSize,     \* units of a position that no floor halves
  Cost,         \* of one order
  MaxTrades,    \* max_trades_per_day
  MaxDay,       \* bound on the calendar
  MaxEquity,    \* bound on what a slot may earn
  Faults        \* what the environment may do, see below

(* "crash": a process dies between two statements; "openBar": a backfill   *)
(* up to now stores the bar of the current day, which collect leaves out;  *)
(* "meanwhile": the day turns and bars come while an operation is under    *)
(* way;                                                                    *)
(* "noBars": a symbol has no bars; "reReplay": a replay of a slot that has *)
(* a row; "unknownSlot": the operator names a run_id that has no row.      *)
KnownFaults == {"crash", "openBar", "meanwhile", "noBars", "reReplay", "unknownSlot"}

Procs == Commands \cup Requests

ASSUME PaperConstants ==
  /\ Slots # {} /\ Prices \subseteq Nat \ {0}
  /\ Capital \in Nat /\ StartEquity \subseteq Nat
  /\ SoftFloor \in Nat /\ HardFloor \in Nat /\ 0 < SoftFloor /\ SoftFloor < HardFloor
  /\ DailyLoss \in Nat \ {0}
  /\ FullSize \in Nat /\ Cost \in Nat /\ MaxTrades \in Nat
  /\ MaxDay \in Nat /\ MaxEquity \in Nat
  /\ Faults \subseteq KnownFaults

VARIABLES
  rows,     \* paper_positions
  journal,  \* paper_orders: of each slot, OPENs of a quantity less CLOSEs
  today,    \* the calendar day of NOW()
  bar,      \* the day of the latest 1d bar, its timestamp
  task,     \* what each process is doing
  serial    \* auxiliary: no two operations have overlapped, none was killed

paperVars == <<rows, journal, today, bar, task, serial>>

Never == -1   \* last_update IS NULL
Row == [exists : BOOLEAN, named : BOOLEAN, qty : Int, entry : Nat, stop : Nat,
        equity : Int, dayStart : Int, daily : BOOLEAN, failed : BOOLEAN,
        manual : BOOLEAN, day : {Never} \cup Nat, trades : Nat]

\* What load_position returns for a run_id that has no row.
Fresh(equity, named) ==
  [exists |-> FALSE, named |-> named, qty |-> 0, entry |-> 0, stop |-> 0,
   equity |-> equity, dayStart |-> equity, daily |-> FALSE, failed |-> FALSE,
   manual |-> FALSE, day |-> Never, trades |-> 0]
NoRow == Fresh(Capital, FALSE)

Kinds == {"idle", "cycle", "replay", "kill", "resume"}
Task == [kind : Kinds, pc : {"idle", "next", "step", "save"}, todo : SUBSET Slots,
         asked : SUBSET Slots,
         asOf : Nat,  \* the day of the last bar it read
         slot : Slots, pos : Row, snap : [Slots -> Row]]
AnySlot == CHOOSE s \in Slots : TRUE
NoSnap == [s \in Slots |-> NoRow]
Idle == [kind |-> "idle", pc |-> "idle", todo |-> {}, asked |-> {}, asOf |-> 0,
         slot |-> AnySlot, pos |-> NoRow, snap |-> NoSnap]

-----------------------------------------------------------------------------
(* PositionState and the accounting of _open, _close, _target_notional.    *)

Flat(r) == r.qty = 0
Sign(n) == IF n > 0 THEN 1 ELSE IF n < 0 THEN -1 ELSE 0
Larger(a, b) == IF a > b THEN a ELSE b
Smaller(a, b) == IF a < b THEN a ELSE b

\* mark_to_market: the stored equity plus what the open quantity gained.
Mark(r, price) == r.equity + r.qty * (price - r.entry)

\* day_rolled: a row without last_update never rolls.
DayRolled(r, asOf) == r.day # Never /\ r.day < asOf

\* Headroom of max_safe_notional to the nearer floor.
Headroom(r) ==
  Larger(0, Smaller(r.equity - (Capital - HardFloor),
                    r.equity - (r.dayStart - DailyLoss)))

\* _target_notional in units; faulty variant: the headroom cap is dropped.
UncappedSize(r) == IF Capital - r.equity >= SoftFloor THEN FullSize \div 2 ELSE FullSize
Size(r) == IF Headroom(r) = 0 THEN 0 ELSE UncappedSize(r)

\* daily_trade_count, of which only the comparison with the cap matters.
Counted(trades) == Smaller(trades + 1, MaxTrades + 1)

\* An order of no quantity is logged and counted and leaves the row flat.
Opened(r, dir, price, stop) ==
  LET size == Size(r)
  IN IF size = 0 THEN [r EXCEPT !.trades = Counted(@)]
     ELSE [r EXCEPT !.qty = dir * size, !.entry = price, !.stop = stop,
                    !.equity = @ - Cost, !.trades = Counted(@)]

Closed(r, price) ==
  [r EXCEPT !.equity = Mark(r, price) - Cost, !.qty = 0, !.entry = 0, !.stop = 0]

\* Faulty variant: a short position is left open.
LongsFlattened(r, price) == IF r.qty > 0 THEN Closed(r, price) ELSE r
Flattened(r, price) == IF Flat(r) THEN r ELSE Closed(r, price)

StopBreached(r, price) ==
  /\ ~Flat(r) /\ r.stop # 0
  /\ IF r.qty > 0 THEN price <= r.stop ELSE price >= r.stop

-----------------------------------------------------------------------------
(* _apply_paper_step up to the signal: rotation, rollover, floors.         *)

\* The names of a row that an operator created are blank, so that its first
\* position is taken for one of another strategy.
Rotates(r) == ~Flat(r) /\ ~r.named
Rotated(r, price) == IF Rotates(r) THEN [Closed(r, price) EXCEPT !.named = TRUE] ELSE r

RolledOver(r, price, asOf) ==
  IF DayRolled(r, asOf)
  THEN [r EXCEPT !.dayStart = Mark(r, price), !.daily = FALSE, !.trades = 0]
  ELSE r

\* _update_propfirm.
Checked(r, price) ==
  LET equity == Mark(r, price)
      failed == equity <= Capital - HardFloor
      lost == equity - r.dayStart <= -DailyLoss
  IN IF r.failed THEN r
     ELSE [r EXCEPT !.failed = failed, !.daily = @ \/ lost \/ failed]

Prepared(r, price, asOf) == Checked(RolledOver(Rotated(r, price), price, asOf), price)

-----------------------------------------------------------------------------
(* One observation applied to the working copy of a slot.                  *)

\* log_order; the count is kept between -1 and 2, since all that is asked of
\* it is whether it is 0 or 1.
Logged(n, opens, closes) == Larger(-1, Smaller(2, n + opens - closes))

\* The step is taken with this price; what it logs is added to the journal;
\* a cycle saves next, a replay goes on to its next bar.
Applied(p, pos, opens, closes) ==
  /\ pos.equity <= MaxEquity
  /\ journal' = [journal EXCEPT ![task[p].slot] = Logged(@, opens, closes)]
  /\ task' = [task EXCEPT ![p].pos = [pos EXCEPT !.exists = TRUE],
                          ![p].pc = IF task[p].kind = "cycle" THEN "save" ELSE "step"]
  /\ UNCHANGED <<rows, today, bar, serial>>

Closes(r, price) == IF Rotates(r) THEN 1 ELSE 0
OpensOf(r) == IF Flat(r) THEN 0 ELSE 1

\* The account is blown: flatten what is open and stop.
StepFailed(p, r, price) ==
  /\ r.failed
  /\ Applied(p, Flattened(r, price), 0, Closes(task[p].pos, price) + OpensOf(r))

StepHalted(p, r, price) ==
  /\ ~r.failed /\ r.manual
  /\ Applied(p, r, 0, Closes(task[p].pos, price))

MayAct(r) == ~r.failed /\ ~r.manual

StepStopped(p, r, price) ==
  /\ MayAct(r) /\ StopBreached(r, price)
  /\ Applied(p, Closed(r, price), 0, Closes(task[p].pos, price) + 1)

Acts(r, price) == MayAct(r) /\ ~StopBreached(r, price)

\* Equity at the end of a step is the marked one.
Remarked(r, price) == [r EXCEPT !.equity = Mark(r, price)]

\* HOLD, or a signal beyond the daily cap of a flat slot: what is open is
\* closed.  Faulty variant: the close of the copy is not logged.
ExitUnlogged(r) == 0
ExitLogged(r) == OpensOf(r)
StepExit(p, r, price) ==
  /\ Acts(r, price)
  /\ Applied(p, Flattened(r, price), 0, Closes(task[p].pos, price) + ExitLogged(r))

\* A signal for the side that is open already.
StepHold(p, r, price) ==
  /\ Acts(r, price) /\ ~Flat(r)
  /\ Applied(p, Remarked(r, price), 0, Closes(task[p].pos, price))

\* Faulty variant: a halted day does not bar the reopening.
BarredByRegime(r, blocked) == blocked
Barred(r, blocked) == r.daily \/ blocked

\* A signal while flat, or against the side that is open; a halted day or a
\* blocking regime leaves the slot flat.
StepEnter(p, r, price, dir, stop, blocked) ==
  /\ Acts(r, price)
  /\ Sign(r.qty) # dir
  /\ Flat(r) => r.trades < MaxTrades
  /\ LET flat == Flattened(r, price)
         done == IF Barred(r, blocked) THEN flat ELSE Opened(flat, dir, price, stop)
     IN Applied(p, Remarked(done, price), OpensOf(done),
                Closes(task[p].pos, price) + OpensOf(r))

\* A structural stop lies against the position, if there is one.  Faulty
\* variant: at a distance from the price, whatever the price is.
StopsAtDistance(dir, price) == {0, price - dir * FullSize}
StopsFor(dir, price) == {0} \cup {q \in Prices : dir * (price - q) > 0}

Step(p) ==
  /\ task[p].pc = "step" /\ task[p].kind \in {"cycle", "replay"}
  /\ task[p].kind = "replay" => ~task[p].pos.failed
  /\ \E price \in Prices :
       LET r == Prepared(task[p].pos, price, task[p].asOf)
       IN \/ StepFailed(p, r, price)
          \/ StepHalted(p, r, price)
          \/ StepStopped(p, r, price)
          \/ StepExit(p, r, price)
          \/ StepHold(p, r, price)
          \/ \E dir \in {-1, 1}, blocked \in BOOLEAN :
               \E stop \in StopsFor(dir, price) : StepEnter(p, r, price, dir, stop, blocked)

-----------------------------------------------------------------------------
(* The operations.                                                         *)

Busy == {p \in Procs : task[p].kind # "idle"}
Existing == {s \in Slots : rows[s].exists}

Begin(p, t) ==
  /\ task[p].kind = "idle"
  /\ task' = [task EXCEPT ![p] = t]
  /\ serial' = (serial /\ Busy = {})
  /\ UNCHANGED <<rows, journal, today, bar>>

\* _paper_candidates: any of the slots qualify and have enough bars.
Candidates == SUBSET Slots \ {{}}
StartCycle(p) == \E todo \in Candidates :
  Begin(p, [Idle EXCEPT !.kind = "cycle", !.pc = "next", !.todo = todo])

\* The latest bars, then load_position, or the fresh state with the capital
\* this slot is given.
LoadSlot(p) ==
  /\ task[p].pc = "next" /\ task[p].kind = "cycle"
  /\ \E s \in task[p].todo, equity \in StartEquity :
       task' = [task EXCEPT ![p].slot = s, ![p].pc = "step", ![p].asOf = bar,
                  ![p].pos = IF rows[s].exists THEN rows[s] ELSE Fresh(equity, TRUE)]
  /\ UNCHANGED <<rows, journal, today, bar, serial>>

\* "These slots were created today", says backfill_paper_slot of its slots;
\* the command does not check it.
StartReplay(p) == \E s \in Slots :
  /\ "reReplay" \in Faults \/ ~rows[s].exists
  /\ Begin(p, [Idle EXCEPT !.kind = "replay", !.pc = "step", !.slot = s, !.todo = {s},
                           !.asOf = bar, !.pos = Fresh(Capital, TRUE)])

\* The last bar is done, or the account failed on the way.
EndReplay(p) ==
  /\ task[p].kind = "replay" /\ task[p].pc = "step"
  /\ task[p].pos.exists   \* at least one bar was replayed
  /\ task' = [task EXCEPT ![p].pc = "save"]
  /\ UNCHANGED <<rows, journal, today, bar, serial>>

\* Every row of the exchange, or one, is read before the first is written.
Targets == {Existing} \cup {{s} : s \in IF "unknownSlot" \in Faults THEN Slots ELSE Existing}
StartOperator(p, kind) == \E todo \in Targets :
  /\ todo # {}
  /\ Begin(p, [Idle EXCEPT !.kind = kind, !.pc = "next", !.todo = todo, !.asked = todo,
                !.snap = [s \in Slots |-> IF s \in todo THEN rows[s] ELSE NoRow]])

\* Faulty variant: the flag is toggled.
HaltToggled(r) == [r EXCEPT !.manual = ~@, !.exists = TRUE]
Halted(r) == [r EXCEPT !.manual = TRUE, !.exists = TRUE]

\* _force_close_one on the copy that was read with the list.
KillSlot(p) ==
  /\ task[p].kind = "kill" /\ task[p].pc = "next"
  /\ \E s \in task[p].todo, price \in Prices :
       LET r == task[p].snap[s]
       IN /\ ~Flat(r) => r.named   \* else: no bars for a blank symbol
          /\ Mark(r, price) <= MaxEquity
          /\ task' = [task EXCEPT ![p].slot = s, ![p].pc = "save",
                        ![p].snap[s] = NoRow,
                        ![p].pos = Halted(Flattened(r, price))]
          /\ journal' = [journal EXCEPT ![s] = Logged(@, 0, OpensOf(r))]
  /\ UNCHANGED <<rows, today, bar, serial>>

\* An open slot without a price is reported and left alone.
KillSkips(p) ==
  /\ task[p].kind = "kill" /\ task[p].pc = "next"
  /\ \E s \in task[p].todo :
       /\ ~Flat(task[p].snap[s])
       /\ "noBars" \in Faults \/ ~task[p].snap[s].named
       /\ task' = [task EXCEPT ![p] =
            IF task[p].todo = {s} THEN Idle ELSE [task[p] EXCEPT !.todo = @ \ {s}]]
  /\ UNCHANGED <<rows, journal, today, bar, serial>>

ResumeSlot(p) ==
  /\ task[p].kind = "resume" /\ task[p].pc = "next"
  /\ \E s \in task[p].todo :
       task' = [task EXCEPT ![p].slot = s, ![p].pc = "save", ![p].snap[s] = NoRow,
                  ![p].pos = [task[p].snap[s] EXCEPT !.manual = FALSE, !.exists = TRUE]]
  /\ UNCHANGED <<rows, journal, today, bar, serial>>

\* save_position writes every column; a replay dates its row by its last bar.
SaveSlot(p) ==
  /\ task[p].pc = "save"
  /\ LET t == task[p]
         left == t.todo \ {t.slot}
     IN /\ rows' = [rows EXCEPT ![t.slot] =
             [t.pos EXCEPT !.exists = TRUE,
                           !.day = IF t.kind = "replay" THEN t.asOf ELSE today]]
        /\ task' = [task EXCEPT ![p] =
             IF left = {} THEN Idle
             ELSE [t EXCEPT !.todo = left, !.pc = "next", !.asOf = 0, !.pos = NoRow,
                              !.slot = AnySlot]]
  /\ UNCHANGED <<journal, today, bar, serial>>

Crash(p) ==
  /\ "crash" \in Faults
  /\ task[p].kind # "idle"
  /\ task' = [task EXCEPT ![p] = Idle]
  /\ serial' = FALSE
  /\ UNCHANGED <<rows, journal, today, bar>>

MayTurn == "meanwhile" \in Faults \/ Busy = {}

NewDay ==
  /\ MayTurn /\ today < MaxDay
  /\ today' = today + 1
  /\ UNCHANGED <<rows, journal, bar, task, serial>>

\* _drop_open_candle keeps the bars that have closed: the latest is yesterday's.
Collect ==
  /\ MayTurn /\ bar < today - 1
  /\ bar' = today - 1
  /\ UNCHANGED <<rows, journal, today, task, serial>>

\* run_backfill up to now keeps what the exchange serves.
Backfill ==
  /\ "openBar" \in Faults
  /\ MayTurn /\ bar < today
  /\ bar' = today
  /\ UNCHANGED <<rows, journal, today, task, serial>>

-----------------------------------------------------------------------------
Init ==
  /\ rows = [s \in Slots |-> NoRow]
  /\ journal = [s \in Slots |-> 0]
  /\ today = 1 /\ bar = 0
  /\ task = [p \in Procs |-> Idle]
  /\ serial = TRUE

Next ==
  \/ \E p \in Commands :
       \/ StartCycle(p) \/ LoadSlot(p) \/ Step(p)
       \/ StartReplay(p) \/ EndReplay(p)
  \/ \E p \in Requests :
       \/ StartOperator(p, "kill") \/ KillSlot(p) \/ KillSkips(p)
       \/ StartOperator(p, "resume") \/ ResumeSlot(p)
  \/ \E p \in Procs : SaveSlot(p) \/ Crash(p)
  \/ NewDay \/ Collect \/ Backfill

Spec == Init /\ [][Next]_paperVars

-----------------------------------------------------------------------------
(* Properties.                                                             *)

TypeOK ==
  /\ rows \in [Slots -> Row]
  /\ journal \in [Slots -> Int]
  /\ today \in Nat /\ bar \in Nat
  /\ \A p \in Procs : task[p].kind \in Kinds /\ task[p].pos \in Row
  /\ serial \in BOOLEAN

\* A slot whose account failed, or that the kill switch halted, holds
\* nothing, whatever overlaps and whatever dies: the force-close of
\* _apply_paper_step and _force_close_one sit in the same save as the flag.
HaltedIsFlat == \A s \in Slots : rows[s].failed \/ rows[s].manual => Flat(rows[s])

\* No slot holds a position with its equity below the hard floor: the floor
\* is checked before a signal, and costs paid after the check are covered by
\* the headroom that max_safe_notional leaves.
OpenAboveFloor ==
  \A s \in Slots : ~Flat(rows[s]) => rows[s].equity >= Capital - HardFloor

\* As long as operations do not overlap and none dies, the two tables tell
\* one story: an OPEN without its CLOSE exactly where a row holds a position.
JournalMatchesRow ==
  serial /\ Busy = {} => \A s \in Slots : journal[s] = OpensOf(rows[s])

\* A kill switch that nothing overlapped leaves every slot of its list halted
\* ("Flatten ... and set manual_halt", force_close_now), but for an open slot
\* without a price, which it reports and does not touch.
KillHalts ==
  [][\A p \in Procs : task[p].kind = "kill" /\ task'[p].kind = "idle" /\ serial' =>
       \A s \in task[p].asked : rows'[s].manual \/ ~Flat(rows'[s])]_paperVars

\* A daily halt holds for the bars of its day: as long as nothing overlapped, a
\* save lifts the halt of a row only with a bar of a later day than the row was
\* saved on, and a row that stands halted holds no position that was opened
\* since the save before, be it by a flip.  A replay is not asked: it carries a
\* row over many bars before it saves.
DailyHaltHolds ==
  [][\A p \in Procs : LET was == rows[task[p].slot]
                         now == rows'[task[p].slot]
     IN serial /\ task[p].kind # "replay" /\ task[p].pc = "save" /\ task'[p].pc # "save"
        => /\ was.daily /\ bar <= was.day => now.daily
           /\ now.daily /\ ~Flat(now) => now.qty = was.qty]_paperVars

\* "Halted until tomorrow": the first save of a cycle on a later day leaves no
\* daily halt behind, unless the account failed.
HaltedUntilTomorrow ==
  [][\A p \in Procs, s \in Slots :
       task[p].kind = "cycle" /\ task[p].pc = "save" /\ task[p].slot = s
         /\ task'[p].pc # "save" /\ rows[s].exists /\ rows[s].day < rows'[s].day
       => ~rows'[s].daily \/ rows'[s].failed]_paperVars

\* "Realised equity (updated on close)", position.py: while a position stays
\* open its row's equity stays.
EquityIsRealised ==
  [][\A s \in Slots :
       ~Flat(rows[s]) /\ rows'[s].qty = rows[s].qty /\ rows'[s].entry = rows[s].entry
       => rows'[s].equity = rows[s].equity]_paperVars

\* The hard floor lies "below initial capital" (_update_propfirm): the first
\* cycle of a slot, which cannot have lost anything, does not fail it.
NewSlotIsAlive ==
  [][\A s \in Slots, p \in Procs :
       ~rows[s].exists /\ rows'[s].exists /\ task[p].kind = "cycle" /\ task[p].slot = s
         /\ task[p].pc = "save"
       => ~rows'[s].failed]_paperVars

\* "Max trades per day cap".
TradesCapped == \A s \in Slots : rows[s].trades <= MaxTrades
=============================================================================
