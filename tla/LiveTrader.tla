----------------------------- MODULE LiveTrader -----------------------------
(***************************************************************************)
(* Live order execution for one exchange: trading/live_trader.py on top of *)
(* trading/position.py (the row of paper_positions it loads and saves) and *)
(* trading/execution.py (the exchange adapter).                            *)
(*                                                                         *)
(* A process of Procs is one running Python process (the live job of a     *)
(* dashboard worker, a CLI call, or the request thread that serves the     *)
(* kill switch or resume endpoint).  Each operation loads the whole row,   *)
(* works on its copy while it talks to the exchange, and saves the whole   *)
(* row; nothing locks the row in between.                                  *)
(*                                                                         *)
(* Quantities are small integers, signed as a net position (LONG > 0,      *)
(* SHORT < 0, FLAT = 0).  Prices and equity are left out: what             *)
(* _update_propfirm concludes from them is a choice of Breaches.           *)
(***************************************************************************)
EXTENDS Integers

CONSTANTS
  Procs,          \* processes that may run an operation on this exchange
  Orders,         \* order ids at the exchange
  NoOrder,        \* no order id
  Strategies, Symbols,
  Accepted,       \* <<strategy, symbol>> pairs _top_accepted_strategy returns
  Blank,          \* the "" that load_position stores when no row exists
  MaxQty,         \* largest quantity one open order asks for
  MaxHolding,     \* bound on what the exchange may come to hold per symbol
  Modes,          \* values LIVE_TRADING_ENABLED may start with
  MaxDay,         \* bound on the calendar days of a behaviour
  Faults,         \* faults of the environment that may occur, from FaultKinds
  OperatorChecks  \* TRUE: resume is pressed only once the DB matches

FaultKinds == {"fetchFails", "cancelFails", "placeTimeout", "filledOmitted",
               "crash", "noBars", "modeSwitch"}

Slot == (Strategies \X Symbols) \cup {<<Blank, Blank>>}
BlankSlot == <<Blank, Blank>>
SymbolOf(slot) == slot[2]

ASSUME ConstantsAssumption ==
  /\ Accepted \subseteq Strategies \X Symbols
  /\ Blank \notin Symbols
  /\ NoOrder \notin Orders
  /\ MaxQty \in Nat \ {0}
  /\ MaxHolding \in Nat
  /\ Modes \subseteq BOOLEAN
  /\ MaxDay \in Nat
  /\ Faults \subseteq FaultKinds
  /\ OperatorChecks \in BOOLEAN

VARIABLES
  row,      \* the position row in the database
  saved,    \* the row has been inserted
  live,     \* LIVE_TRADING_ENABLED=1; FALSE is shadow mode
  day,      \* today's UTC date
  book,     \* orders at the exchange, by id
  holding,  \* net position the exchange holds, by symbol
  pc,       \* where each process is
  op,       \* the operation it runs
  pos,      \* its in-memory copy of the row (PositionState)
  sel,      \* the accepted slot its cycle selected
  target,   \* the side its signal asks for: 1, -1, or 0 for HOLD
  job,      \* the limit order it is executing
  oid       \* the exchange's id for that order

dbVars == <<row, saved>>
envVars == <<live, day>>
exchangeVars == <<book, holding>>
planVars == <<op, sel, target>>
vars == <<row, saved, live, day, book, holding, pc, op, pos, sel, target, job, oid>>

Targets == {-1, 0, 1}
Breaches == {"none", "daily", "hard"}
Reasons == {"rotation", "breach", "flip", "exit", "kill", "open"}

Position == [slot : Slot, net : Int, manual : BOOLEAN, daily : BOOLEAN,
             failed : BOOLEAN, day : Nat]
Job == [why : Reasons \cup {"none"}, symbol : Symbols \cup {Blank},
        quote : Symbols \cup {Blank}, dir : Targets, qty : Nat]
Order == [status : {"none", "open", "closed", "canceled"}, why : Reasons \cup {"none"},
          symbol : Symbols \cup {Blank}, quote : Symbols \cup {Blank},
          dir : Targets, qty : Nat, filled : Nat]

\* A fresh PositionState; last_update None never counts as a new day.
Fresh(slot) == [slot |-> slot, net |-> 0, manual |-> FALSE, daily |-> FALSE,
                failed |-> FALSE, day |-> day]
EmptyPosition == [slot |-> BlankSlot, net |-> 0, manual |-> FALSE, daily |-> FALSE,
                  failed |-> FALSE, day |-> 0]
NoJob == [why |-> "none", symbol |-> Blank, quote |-> Blank, dir |-> 0, qty |-> 0]
Unused == [status |-> "none", why |-> "none", symbol |-> Blank, quote |-> Blank,
           dir |-> 0, qty |-> 0, filled |-> 0]

\* Faulty variant: a short is closed with its signed quantity.
SignedSize(n) == n

Abs(n) == IF n < 0 THEN -n ELSE n
Against(n) == IF n > 0 THEN -1 ELSE 1

Settled == \A p \in Procs : pc[p] = "idle"
Watched(i) == \E p \in Procs : pc[p] \in {"working", "refetch"} /\ oid[p] = i
Holds(slot, net) ==
  \A s \in Symbols : holding[s] = IF s = SymbolOf(slot) THEN net ELSE 0
Matched == Holds(row.slot, row.net)

-----------------------------------------------------------------------------
(* Operations begin: each one loads the row.                               *)

Load(slot) == IF saved THEN row ELSE Fresh(slot)

\* A process returns: nothing of what it had in memory survives.
Finish(p) ==
  /\ pc' = [pc EXCEPT ![p] = "idle"]
  /\ op' = [op EXCEPT ![p] = "none"]
  /\ pos' = [pos EXCEPT ![p] = EmptyPosition]
  /\ sel' = [sel EXCEPT ![p] = BlankSlot]
  /\ target' = [target EXCEPT ![p] = 0]
  /\ job' = [job EXCEPT ![p] = NoJob]
  /\ oid' = [oid EXCEPT ![p] = NoOrder]

\* run_live_cycle up to load_position: the accepted slot, its last signal.
StartCycle(p) ==
  /\ pc[p] = "idle"
  /\ pc' = [pc EXCEPT ![p] = "decide"]
  /\ op' = [op EXCEPT ![p] = "cycle"]
  /\ \E slot \in Accepted, t \in Targets :
       /\ sel' = [sel EXCEPT ![p] = slot]
       /\ target' = [target EXCEPT ![p] = t]
       /\ pos' = [pos EXCEPT ![p] = Load(slot)]
  /\ UNCHANGED <<dbVars, envVars, exchangeVars, job, oid>>

\* force_close_now(mode="live"): load_position without a slot.
StartKill(p) ==
  /\ pc[p] = "idle"
  /\ pc' = [pc EXCEPT ![p] = "kill"]
  /\ op' = [op EXCEPT ![p] = "kill"]
  /\ pos' = [pos EXCEPT ![p] = Load(BlankSlot)]
  /\ UNCHANGED <<dbVars, envVars, exchangeVars, sel, target, job, oid>>

\* resume_trading(mode="live"): load, clear manual_halt, then save.
StartResume(p) ==
  /\ pc[p] = "idle"
  /\ (OperatorChecks /\ live) => (Settled /\ Matched)
  /\ pc' = [pc EXCEPT ![p] = "save"]
  /\ op' = [op EXCEPT ![p] = "resume"]
  /\ pos' = [pos EXCEPT ![p] = [Load(BlankSlot) EXCEPT !.manual = FALSE]]
  /\ UNCHANGED <<dbVars, envVars, exchangeVars, sel, target, job, oid>>

-----------------------------------------------------------------------------
(* The decisions of run_live_cycle, each up to its next exchange call.     *)

Rotated(p) == pos[p].net # 0 /\ pos[p].slot # sel[p]

\* Faulty variant: the new day lifts every halt.
RolledOverForgiving(x) ==
  IF x.day < day THEN [x EXCEPT !.daily = FALSE, !.failed = FALSE, !.manual = FALSE] ELSE x

RolledOver(x) == [x EXCEPT !.daily = @ /\ ~(x.day < day)]

\* Day rollover, then _update_propfirm.
Assess(x, breach) ==
  IF x.failed THEN RolledOver(x)
  ELSE [RolledOver(x) EXCEPT !.daily = @ \/ breach # "none", !.failed = breach = "hard"]

\* Faulty variant: only the operator's halt is looked at.
MayTradeUnlessManual(x) == ~x.manual

MayTrade(x) == ~x.manual /\ ~x.failed

\* Ask the exchange for a limit order.  The price comes from quote's bars.
Want(p, why, x, dir, qty, quote) ==
  /\ pos' = [pos EXCEPT ![p] = x]
  /\ job' = [job EXCEPT ![p] = [why |-> why, symbol |-> SymbolOf(x.slot),
                                quote |-> quote, dir |-> dir, qty |-> qty]]
  /\ pc' = [pc EXCEPT ![p] = "place"]

WantClose(p, why, x, quote) == Want(p, why, x, Against(x.net), Abs(x.net), quote)
WantOpen(p, x) ==
  \E q \in 1..MaxQty : Want(p, "open", x, target[p], q, SymbolOf(sel[p]))

Keep(p, x) ==
  /\ pos' = [pos EXCEPT ![p] = x]
  /\ pc' = [pc EXCEPT ![p] = "save"]
  /\ UNCHANGED job

\* Close the position of a slot that is no longer the top accepted one.
CloseRotated(p) ==
  /\ pc[p] = "decide" /\ Rotated(p)
  /\ WantClose(p, "rotation", pos[p], SymbolOf(sel[p]))
  /\ UNCHANGED <<dbVars, envVars, exchangeVars, planVars, oid>>

\* Everything from the day rollover to the first order or to save_position.
Decide(p) ==
  /\ pc[p] = "decide" /\ ~Rotated(p)
  /\ \E breach \in Breaches :
       LET x == Assess(pos[p], breach)
           trading == MayTrade(x)
       IN  \/ x.manual /\ Keep(p, x)
           \/ /\ ~x.manual /\ (x.failed \/ x.daily) /\ x.net # 0
              /\ WantClose(p, "breach", x, SymbolOf(sel[p]))
           \/ ~x.manual /\ x.failed /\ x.net = 0 /\ Keep(p, x)
           \/ /\ trading /\ x.net = 0 /\ target[p] # 0 /\ ~x.daily
              /\ WantOpen(p, x)
           \/ /\ trading /\ x.net = 0 /\ (target[p] = 0 \/ x.daily)
              /\ Keep(p, x)
           \/ /\ trading /\ ~x.daily /\ x.net # 0 /\ x.net * target[p] < 0
              /\ WantClose(p, "flip", x, SymbolOf(sel[p]))
           \/ /\ trading /\ ~x.daily /\ x.net # 0 /\ target[p] = 0
              /\ WantClose(p, "exit", x, SymbolOf(sel[p]))
           \/ /\ trading /\ ~x.daily /\ x.net * target[p] > 0
              /\ Keep(p, x)
  /\ UNCHANGED <<dbVars, envVars, exchangeVars, planVars, oid>>

\* force_close_now: flat, so only halt.
KillFlat(p) ==
  /\ pc[p] = "kill" /\ pos[p].net = 0
  /\ Keep(p, [pos[p] EXCEPT !.manual = TRUE])
  /\ UNCHANGED <<dbVars, envVars, exchangeVars, planVars, oid>>

\* force_close_live: close at the last bar of the position's own symbol.
KillClose(p) ==
  /\ pc[p] = "kill" /\ pos[p].net # 0
  /\ WantClose(p, "kill", pos[p], SymbolOf(pos[p].slot))
  /\ UNCHANGED <<dbVars, envVars, exchangeVars, planVars, oid>>

\* force_close_live: no price data, an early return with nothing saved.
KillWithoutPrice(p) ==
  /\ "noBars" \in Faults
  /\ pc[p] = "kill" /\ pos[p].net # 0
  /\ Finish(p)
  /\ UNCHANGED <<dbVars, envVars, exchangeVars>>

-----------------------------------------------------------------------------
(* _execute_limit, and what its callers do with the fill.                  *)

\* Faulty variants: the requested quantity is recorded, not the fill; and a
\* kill switch whose order went through forgets to halt.
RecordRequest(x, j, fill, sure) ==
  [x EXCEPT !.net = @ + j.dir * (IF fill > 0 THEN j.qty ELSE 0),
            !.manual = @ \/ ~sure \/ j.why = "kill"]
RecordWithoutHalt(x, j, fill, sure) ==
  [x EXCEPT !.net = @ + j.dir * fill, !.manual = @ \/ ~sure]

\* The in-memory position after a close or an open; an uncertain fill and
\* the kill switch set manual_halt.
Record(x, j, fill, sure) ==
  [x EXCEPT !.net = @ + j.dir * fill, !.manual = @ \/ ~sure \/ j.why = "kill"]

\* Faulty variant: a flip opens the new side whatever its close filled.
ReopensAnyway(j, x, sure) == j.why = "flip" /\ sure

\* A flip opens the new side only once the old one is fully closed.
Reopens(j, x, sure) == j.why = "flip" /\ sure /\ x.net = 0 /\ ~x.daily /\ ~x.manual

\* _live_close, _live_open and force_close_live after _execute_limit, then
\* the cycle up to its next order or to save_position.
Settle(p, fill, sure) ==
  LET j == job[p]
      x == Record(pos[p], j, fill, sure)
      reopen == Reopens(j, x, sure)
      move == j.why = "rotation" /\ sure /\ x.net = 0
  IN  \/ /\ move
         /\ pos' = [pos EXCEPT ![p] = [x EXCEPT !.slot = sel[p]]]
         /\ pc' = [pc EXCEPT ![p] = "decide"]
         /\ UNCHANGED job
      \/ reopen /\ WantOpen(p, x)
      \/ ~move /\ ~reopen /\ Keep(p, x)

\* The order leaves the model once nobody needs it; a resting one stays.
Release(i) == IF book[i].status = "open" THEN book ELSE [book EXCEPT ![i] = Unused]

Resting(p) == [status |-> "open", why |-> job[p].why, symbol |-> job[p].symbol,
               quote |-> job[p].quote, dir |-> job[p].dir, qty |-> job[p].qty,
               filled |-> 0]

\* Shadow mode: the caller applies the whole quantity and places nothing.
ShadowFill(p) ==
  /\ ~live /\ pc[p] = "place"
  /\ Settle(p, job[p].qty, TRUE)
  /\ UNCHANGED <<dbVars, envVars, exchangeVars, planVars, oid>>

PlaceAccepted(p) ==
  /\ live /\ pc[p] = "place" /\ job[p].symbol \in Symbols
  /\ \E i \in Orders :
       /\ book[i] = Unused
       /\ book' = [book EXCEPT ![i] = Resting(p)]
       /\ oid' = [oid EXCEPT ![p] = i]
  /\ pc' = [pc EXCEPT ![p] = "working"]
  /\ UNCHANGED <<dbVars, envVars, holding, planVars, pos, job>>

\* place_limit_order raised, so status "error": nothing filled.
PlaceRejected(p) ==
  /\ live /\ pc[p] = "place"
  /\ Settle(p, 0, TRUE)
  /\ UNCHANGED <<dbVars, envVars, exchangeVars, planVars, oid>>

\* create_limit_order raised (a timeout) after the exchange took the order.
PlaceTimeout(p) ==
  /\ "placeTimeout" \in Faults
  /\ live /\ pc[p] = "place" /\ job[p].symbol \in Symbols
  /\ \E i \in Orders : book[i] = Unused /\ book' = [book EXCEPT ![i] = Resting(p)]
  /\ Settle(p, 0, TRUE)
  /\ UNCHANGED <<dbVars, envVars, holding, planVars, oid>>

\* A poll before the fill timeout reports the order closed.
SeeClosed(p) ==
  /\ pc[p] = "working" /\ book[oid[p]].status = "closed"
  /\ Settle(p, book[oid[p]].filled, TRUE)
  /\ book' = Release(oid[p])
  /\ oid' = [oid EXCEPT ![p] = NoOrder]
  /\ UNCHANGED <<dbVars, envVars, holding, planVars>>

\* Faulty variant: a closing order is left to rest at the exchange.
CancelOpensOnly(p) ==
  /\ pc[p] = "working"
  /\ book' = [book EXCEPT ![oid[p]].status =
                 IF @ = "open" /\ job[p].why = "open" THEN "canceled" ELSE @]
  /\ pc' = [pc EXCEPT ![p] = "refetch"]
  /\ UNCHANGED <<dbVars, envVars, holding, planVars, pos, job, oid>>

\* The fill timeout passed: cancel what rests, whatever the cancel returns.
CancelOrder(p) ==
  /\ pc[p] = "working"
  /\ book' = [book EXCEPT ![oid[p]].status = IF @ = "open" THEN "canceled" ELSE @]
  /\ pc' = [pc EXCEPT ![p] = "refetch"]
  /\ UNCHANGED <<dbVars, envVars, holding, planVars, pos, job, oid>>

CancelFails(p) ==
  /\ "cancelFails" \in Faults
  /\ pc[p] = "working"
  /\ pc' = [pc EXCEPT ![p] = "refetch"]
  /\ UNCHANGED <<dbVars, envVars, exchangeVars, planVars, pos, job, oid>>

\* _fill_from_status: a venue that omits `filled` has a partial fill read as 0.
ReportedFills(o) ==
  {o.filled} \cup (IF "filledOmitted" \in Faults /\ o.status # "closed" THEN {0} ELSE {})

\* Faulty variant: what filled since the last poll is not read again.
RefetchNothing(p) ==
  /\ pc[p] = "refetch"
  /\ Settle(p, 0, TRUE)
  /\ book' = Release(oid[p])
  /\ oid' = [oid EXCEPT ![p] = NoOrder]
  /\ UNCHANGED <<dbVars, envVars, holding, planVars>>

Refetch(p) ==
  /\ pc[p] = "refetch"
  /\ \E fill \in ReportedFills(book[oid[p]]) : Settle(p, fill, TRUE)
  /\ book' = Release(oid[p])
  /\ oid' = [oid EXCEPT ![p] = NoOrder]
  /\ UNCHANGED <<dbVars, envVars, holding, planVars>>

\* The last fetch returned status "error": an uncertain fill.
RefetchFails(p) ==
  /\ "fetchFails" \in Faults
  /\ pc[p] = "refetch"
  /\ Settle(p, 0, FALSE)
  /\ book' = Release(oid[p])
  /\ oid' = [oid EXCEPT ![p] = NoOrder]
  /\ UNCHANGED <<dbVars, envVars, holding, planVars>>

\* save_position: every column of the row, last_update = NOW().
Save(p) ==
  /\ pc[p] = "save"
  /\ row' = [pos[p] EXCEPT !.day = day]
  /\ saved' = TRUE
  /\ Finish(p)
  /\ UNCHANGED <<envVars, exchangeVars>>

\* The process dies (a job killed, a container restarted) before its save.
Crash(p) ==
  /\ "crash" \in Faults
  /\ pc[p] # "idle"
  /\ book' = IF pc[p] \in {"working", "refetch"} THEN Release(oid[p]) ELSE book
  /\ Finish(p)
  /\ UNCHANGED <<dbVars, envVars, holding>>

-----------------------------------------------------------------------------
(* The exchange, the operator and the clock.                               *)

\* One unit of a resting order fills.
Fill(i) ==
  /\ book[i].status = "open"
  /\ Abs(holding[book[i].symbol] + book[i].dir) <= MaxHolding
  /\ LET filled == book[i].filled + 1
         done == filled = book[i].qty
     IN  book' = [book EXCEPT ![i] =
           IF done /\ ~Watched(i) THEN Unused
           ELSE [@ EXCEPT !.filled = filled,
                          !.status = IF done THEN "closed" ELSE "open"]]
  /\ holding' = [holding EXCEPT ![book[i].symbol] = @ + book[i].dir]
  /\ UNCHANGED <<dbVars, envVars, pc, planVars, pos, job, oid>>

\* The operator trades by hand until the exchange matches the row.
Reconcile ==
  /\ row.manual /\ Settled /\ live
  /\ holding' = [s \in Symbols |-> IF s = SymbolOf(row.slot) THEN row.net ELSE 0]
  /\ book' = [i \in Orders |-> Unused]
  /\ UNCHANGED <<dbVars, envVars, pc, planVars, pos, job, oid>>

NewDay ==
  /\ day < MaxDay
  /\ day' = day + 1
  /\ UNCHANGED <<dbVars, live, exchangeVars, pc, planVars, pos, job, oid>>

\* The process environment is redeployed with the other trading mode.
SwitchMode ==
  /\ "modeSwitch" \in Faults
  /\ Settled
  /\ live' = ~live
  /\ UNCHANGED <<dbVars, day, exchangeVars, pc, planVars, pos, job, oid>>

-----------------------------------------------------------------------------
Init ==
  /\ row = EmptyPosition
  /\ saved = FALSE
  /\ live \in Modes
  /\ day = 0
  /\ book = [i \in Orders |-> Unused]
  /\ holding = [s \in Symbols |-> 0]
  /\ pc = [p \in Procs |-> "idle"]
  /\ op = [p \in Procs |-> "none"]
  /\ pos = [p \in Procs |-> EmptyPosition]
  /\ sel = [p \in Procs |-> BlankSlot]
  /\ target = [p \in Procs |-> 0]
  /\ job = [p \in Procs |-> NoJob]
  /\ oid = [p \in Procs |-> NoOrder]

\* The steps of an operation already under way.
Advance(p) ==
  \/ CloseRotated(p) \/ Decide(p)
  \/ KillFlat(p) \/ KillClose(p) \/ KillWithoutPrice(p)
  \/ ShadowFill(p) \/ PlaceAccepted(p) \/ PlaceRejected(p) \/ PlaceTimeout(p)
  \/ SeeClosed(p) \/ CancelOrder(p) \/ CancelFails(p)
  \/ Refetch(p) \/ RefetchFails(p) \/ Save(p)

Next ==
  \/ \E p \in Procs : StartCycle(p) \/ StartKill(p) \/ StartResume(p)
  \/ \E p \in Procs : Advance(p)
  \/ \E p \in Procs : Crash(p)
  \/ \E i \in Orders : Fill(i)
  \/ Reconcile \/ NewDay \/ SwitchMode

Spec == Init /\ [][Next]_vars

(* An operation is straight-line code whose waits all time out, so it goes *)
(* on.  The rest is assumed of the exchange, not of the code: it does not  *)
(* reject, or leave unfilled, every order for ever.  Nothing is assumed of *)
(* cycles: no schedule of the repository starts a live one, a person does. *)
Fairness ==
  /\ \A p \in Procs : WF_vars(Advance(p)) /\ SF_vars(PlaceAccepted(p))
  /\ \A i \in Orders : SF_vars(Fill(i))

FairSpec == Spec /\ Fairness

-----------------------------------------------------------------------------
(* Properties.                                                             *)

TypeOK ==
  /\ row \in Position
  /\ saved \in BOOLEAN
  /\ live \in BOOLEAN
  /\ day \in Nat
  /\ book \in [Orders -> Order]
  /\ holding \in [Symbols -> Int]
  /\ pc \in [Procs -> {"idle", "decide", "kill", "place", "working", "refetch", "save"}]
  /\ op \in [Procs -> {"none", "cycle", "kill", "resume"}]
  /\ pos \in [Procs -> Position]
  /\ sel \in [Procs -> Slot]
  /\ target \in [Procs -> Targets]
  /\ job \in [Procs -> Job]
  /\ oid \in [Procs -> Orders \cup {NoOrder}]

\* With nothing in flight the database agrees with the exchange, unless it
\* is halted for reconciliation: "so the DB can't drift from the exchange"
\* (live_trader.py, _execute_limit).
NoSilentDrift == (live /\ Settled) => (row.manual \/ Matched)

\* Every order that can still fill has a process that will read its fill:
\* _execute_limit cancels "whatever is left" before it returns.
NoOrphanOrders == \A i \in Orders : book[i].status = "open" => Watched(i)

\* While an opening order rests, all the exchange holds is what that order
\* filled: nothing opens on top of a stale, rotated or half-closed position.
NoStacking ==
  \A i \in Orders : (book[i].status = "open" /\ book[i].why = "open") =>
    \A s \in Symbols :
      holding[s] = IF s = book[i].symbol THEN book[i].dir * book[i].filled ELSE 0

Placed(i) == book[i].status # "open" /\ book'[i].status = "open"

\* No opening order reaches the exchange while the row says manual_halt or
\* account_failed (safety gate 3, and the kill switch's "Trading halted").
NoOpenWhileHalted ==
  [][\A i \in Orders : Placed(i) /\ book'[i].why = "open" => ~row.manual /\ ~row.failed]_vars

\* Whatever fails around it, one process at a time clears manual_halt only
\* by resume: the kill switch holds until the operator lifts it.
ManualHaltIsSticky ==
  [][row.manual /\ ~row'.manual =>
       \E p \in Procs : op[p] = "resume" /\ pc[p] = "save"]_vars

\* No new day, save, rotation or retry brings a failed account back.
FailureIsSticky == [][row.failed => row'.failed]_vars

\* A kill switch that returns has left manual_halt set, whatever its close
\* order did (force_close_live: "and set manual_halt").
KillHalts ==
  [][\A p \in Procs : op[p] = "kill" /\ pc'[p] = "idle" => row'.manual]_vars

\* A breached account ends flat as long as somebody keeps running cycles,
\* however often its close orders fill partly or not at all, and unless it is
\* halted by hand (the retry promised where run_live_cycle force-closes).
CyclesGoOn == []<><<\E p \in Procs : StartCycle(p)>>_vars
BreachFlattens == CyclesGoOn => (row.failed ~> (row.net = 0 \/ row.manual))

\* A halted row gets no order from a cycle: _halt_unreconciled promises to
\* "stop all trading until an operator reconciles".
NoOrderWhileHalted ==
  [][\A i \in Orders : Placed(i) /\ book'[i].why # "kill" => ~row.manual]_vars

\* A closing order carries a price of the symbol it closes: an order is placed
\* "at the signal bar's close price" and is "limit orders only, never market".
ClosesPricedByOwnBars ==
  \A i \in Orders : book[i].status = "open" /\ book[i].why # "open" =>
    book[i].quote = book[i].symbol

\* What a cycle opens is the symbol of the strategy it selected.
OpensTheAcceptedSlot ==
  \A p \in Procs : pc[p] = "working" /\ job[p].why = "open" =>
    job[p].symbol = SymbolOf(sel[p])

\* What ExchangeAccount promises, read off the exchange and the row: one
\* operation at a time, a position is built from nothing and brought back to
\* nothing, and not built where trading is halted ("so the DB can't drift from
\* the exchange"; "Only open the new side once the old one is fully closed").
Account == INSTANCE ExchangeAccount WITH
             held <- holding, halted <- row.manual, failed <- row.failed
ImplementsAccount == Account!AccountSpec
=============================================================================
