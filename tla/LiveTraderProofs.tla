-------------------------- MODULE LiveTraderProofs --------------------------
(***************************************************************************)
(* Theorems about LiveTrader, for every set of processes, orders, symbols  *)
(* and strategies and every value of the bounds.                           *)
(***************************************************************************)
EXTENDS LiveTrader, TLAPS

Working(p) == pc[p] \in {"working", "refetch"}

\* A process that waits for an order knows its id.
KnowsOrder == \A p \in Procs : Working(p) => oid[p] \in Orders

\* The inductive form of the type invariant.
TypeInv == TypeOK /\ KnowsOrder

Ops == {"none", "cycle", "kill", "resume"}
Pcs == {"idle", "decide", "kill", "place", "working", "refetch", "save"}

-----------------------------------------------------------------------------
(* What the building blocks of the actions return.                         *)

LEMMA LoadType ==
  ASSUME TypeOK, NEW slot \in Slot
  PROVE  Load(slot) \in Position
BY DEF TypeOK, Load, Fresh, Position

LEMMA EmptyType ==
  /\ EmptyPosition \in Position /\ BlankSlot \in Slot /\ NoJob \in Job /\ Unused \in Order
BY DEF EmptyPosition, BlankSlot, NoJob, Unused, Position, Slot, Job, Order, Targets

LEMMA SymbolType ==
  ASSUME NEW slot \in Slot
  PROVE  SymbolOf(slot) \in Symbols \cup {Blank}
BY DEF Slot, SymbolOf

\* A returning process leaves every local in its type and waits for nothing.
LEMMA FinishType ==
  ASSUME TypeInv, NEW p \in Procs, Finish(p)
  PROVE  /\ pc' \in [Procs -> Pcs] /\ op' \in [Procs -> Ops]
         /\ pos' \in [Procs -> Position] /\ sel' \in [Procs -> Slot]
         /\ target' \in [Procs -> Targets] /\ job' \in [Procs -> Job]
         /\ oid' \in [Procs -> Orders \cup {NoOrder}]
         /\ KnowsOrder'
BY EmptyType DEF TypeInv, TypeOK, KnowsOrder, Working, Finish, Pcs, Ops, Targets

LEMMA AssessType ==
  ASSUME TypeOK, NEW x \in Position, NEW breach \in Breaches
  PROVE  /\ Assess(x, breach) \in Position
         /\ Assess(x, breach).net = x.net /\ Assess(x, breach).slot = x.slot
         /\ Assess(x, breach).manual = x.manual
         /\ x.failed => Assess(x, breach).failed
BY DEF TypeOK, Assess, RolledOver, Position, Breaches

LEMMA RecordType ==
  ASSUME NEW x \in Position, NEW j \in Job, NEW fill \in Nat, NEW sure \in BOOLEAN
  PROVE  /\ Record(x, j, fill, sure) \in Position
         /\ Record(x, j, fill, sure).net = x.net + j.dir * fill
         /\ Record(x, j, fill, sure).slot = x.slot
         /\ Record(x, j, fill, sure).manual = (x.manual \/ ~sure \/ j.why = "kill")
         /\ Record(x, j, fill, sure).failed = x.failed
         /\ Record(x, j, fill, sure).daily = x.daily
<1>1. j.dir * fill \in Int
  BY DEF Job, Targets
<1>2. (x.manual \/ ~sure \/ j.why = "kill") \in BOOLEAN
  OBVIOUS
<1> DEFINE net == x.net + j.dir * fill
           manual == x.manual \/ ~sure \/ j.why = "kill"
<1>3. net \in Int /\ manual \in BOOLEAN
  BY <1>1, <1>2 DEF Position
<1>4. Record(x, j, fill, sure) = [x EXCEPT !.net = net, !.manual = manual]
  BY DEF Record
<1> HIDE DEF net, manual
<1>5. /\ [x EXCEPT !.net = net, !.manual = manual] \in Position
      /\ [x EXCEPT !.net = net, !.manual = manual].net = net
      /\ [x EXCEPT !.net = net, !.manual = manual].slot = x.slot
      /\ [x EXCEPT !.net = net, !.manual = manual].manual = manual
      /\ [x EXCEPT !.net = net, !.manual = manual].failed = x.failed
      /\ [x EXCEPT !.net = net, !.manual = manual].daily = x.daily
  BY <1>3 DEF Position
<1> QED
  BY <1>4, <1>5 DEF net, manual

LEMMA ReleaseType ==
  ASSUME TypeOK, NEW i \in Orders
  PROVE  /\ Release(i) \in [Orders -> Order]
         /\ \A k \in Orders : k # i => Release(i)[k] = book[k]
         /\ Release(i)[i] = IF book[i].status = "open" THEN book[i] ELSE Unused
BY EmptyType DEF TypeOK, Release

LEMMA WantType ==
  ASSUME TypeOK, NEW p \in Procs, NEW why \in Reasons, NEW x \in Position,
         NEW dir \in Targets, NEW qty \in Nat, NEW quote \in Symbols \cup {Blank},
         Want(p, why, x, dir, qty, quote)
  PROVE  /\ pos' = [pos EXCEPT ![p] = x] /\ pos' \in [Procs -> Position]
         /\ job' \in [Procs -> Job]
         /\ \A q \in Procs : q # p => job'[q] = job[q]
         /\ job'[p].why = why /\ job'[p].dir = dir
         /\ job'[p].symbol = SymbolOf(x.slot)
         /\ pc' = [pc EXCEPT ![p] = "place"] /\ pc' \in [Procs -> Pcs]
<1>1. SymbolOf(x.slot) \in Symbols \cup {Blank}
  BY SymbolType DEF Position
<1> QED
  BY <1>1 DEF TypeOK, Want, Job, Pcs

\* Whatever an order filled, the process goes on deciding, asks for the next
\* order of a flip, or saves; its position stays well formed.
LEMMA SettleType ==
  ASSUME TypeOK, NEW p \in Procs, NEW fill \in Nat, NEW sure \in BOOLEAN,
         Settle(p, fill, sure)
  PROVE  /\ pos' \in [Procs -> Position] /\ job' \in [Procs -> Job]
         /\ pc' \in [Procs -> Pcs]
         /\ pc'[p] \in {"decide", "place", "save"}
         /\ \A q \in Procs : q # p => pc'[q] = pc[q]
<1> DEFINE j == job[p]
           x == Record(pos[p], j, fill, sure)
<1>1. /\ pos[p] \in Position /\ j \in Job /\ sel[p] \in Slot
      /\ pc \in [Procs -> Pcs] /\ pos \in [Procs -> Position] /\ job \in [Procs -> Job]
      /\ target[p] \in Targets
  BY DEF TypeOK, Pcs
<1>2. x \in Position
  BY <1>1, RecordType
<1> HIDE DEF x
<1>3. CASE /\ pos' = [pos EXCEPT ![p] = [x EXCEPT !.slot = sel[p]]]
           /\ pc' = [pc EXCEPT ![p] = "decide"]
           /\ UNCHANGED job
  <2>1. [x EXCEPT !.slot = sel[p]] \in Position
    BY <1>1, <1>2 DEF Position
  <2> QED
    BY <1>1, <1>3, <2>1 DEF Pcs
<1>4. CASE WantOpen(p, x)
  <2>1. PICK q \in 1..MaxQty : Want(p, "open", x, target[p], q, SymbolOf(sel[p]))
    BY <1>4 DEF WantOpen
  <2>2. q \in Nat /\ SymbolOf(sel[p]) \in Symbols \cup {Blank} /\ "open" \in Reasons
    BY <1>1, SymbolType, ConstantsAssumption DEF Reasons
  <2>3. /\ pos' \in [Procs -> Position] /\ job' \in [Procs -> Job]
        /\ pc' = [pc EXCEPT ![p] = "place"]
    BY <1>1, <1>2, <2>1, <2>2, WantType
  <2> QED
    BY <1>1, <2>3 DEF Pcs
<1>5. CASE Keep(p, x)
  BY <1>1, <1>2, <1>5 DEF Keep, Pcs
<1>6. \/ /\ pos' = [pos EXCEPT ![p] = [x EXCEPT !.slot = sel[p]]]
         /\ pc' = [pc EXCEPT ![p] = "decide"]
         /\ UNCHANGED job
      \/ WantOpen(p, x)
      \/ Keep(p, x)
  BY DEF Settle, x
<1> QED
  BY <1>3, <1>4, <1>5, <1>6

-----------------------------------------------------------------------------
(* Type correctness.                                                       *)

LEMMA TypeInit == Init => TypeInv
<1> SUFFICES ASSUME Init PROVE TypeInv
  OBVIOUS
<1>1. Unused \in Order /\ EmptyPosition \in Position /\ NoJob \in Job /\ BlankSlot \in Slot
  BY EmptyType
<1>2. live \in BOOLEAN /\ saved \in BOOLEAN
  BY ConstantsAssumption DEF Init
<1>3. /\ row \in Position /\ day \in Nat
      /\ book \in [Orders -> Order] /\ holding \in [Symbols -> Int]
  BY <1>1 DEF Init
<1>4. /\ pc \in [Procs -> Pcs] /\ op \in [Procs -> Ops]
      /\ pos \in [Procs -> Position] /\ sel \in [Procs -> Slot]
      /\ target \in [Procs -> Targets] /\ job \in [Procs -> Job]
      /\ oid \in [Procs -> Orders \cup {NoOrder}]
  BY <1>1 DEF Init, Pcs, Ops, Targets
<1>5. KnowsOrder
  BY DEF Init, KnowsOrder, Working
<1> QED
  BY <1>2, <1>3, <1>4, <1>5 DEF TypeInv, TypeOK, Pcs, Ops

\* One step of one order's life at the exchange keeps the book well formed.
LEMMA FillType ==
  ASSUME TypeOK, NEW i \in Orders, Fill(i)
  PROVE  /\ book' \in [Orders -> Order] /\ holding' \in [Symbols -> Int]
<1>1. book[i] \in Order /\ book \in [Orders -> Order] /\ holding \in [Symbols -> Int]
  BY DEF TypeOK
<1> DEFINE filled == book[i].filled + 1
           done == filled = book[i].qty
           status == IF done THEN "closed" ELSE "open"
           o == [book[i] EXCEPT !.filled = filled, !.status = status]
<1>2. o \in Order
  <2>1. filled \in Nat /\ status \in {"none", "open", "closed", "canceled"}
    BY <1>1 DEF Order
  <2> HIDE DEF filled, status
  <2> QED
    BY <1>1, <2>1 DEF Order
<1>3. book' = [book EXCEPT ![i] = IF done /\ ~Watched(i) THEN Unused ELSE o]
  BY DEF Fill
<1> HIDE DEF o, done
<1>4. book' \in [Orders -> Order]
  BY <1>1, <1>2, <1>3, EmptyType
<1>5. \A s \in Symbols : holding[s] + book[i].dir \in Int
  BY <1>1 DEF Order, Targets
<1>6. holding' = [holding EXCEPT ![book[i].symbol] = holding[book[i].symbol] + book[i].dir]
  BY DEF Fill
<1>7. holding' \in [Symbols -> Int]
  BY <1>1, <1>5, <1>6
<1> QED
  BY <1>4, <1>7

\* A process that does not wait for an order, beside others that did not move.
LEMMA KnowsOrderFrame ==
  ASSUME KnowsOrder, NEW p \in Procs, ~Working(p)',
         \A q \in Procs : q # p => pc'[q] = pc[q] /\ oid'[q] = oid[q]
  PROVE  KnowsOrder'
BY DEF KnowsOrder, Working

\* What StartCycle, StartKill and StartResume load is a position.
LEMMA StartType ==
  ASSUME TypeInv, NEW p \in Procs, StartCycle(p) \/ StartKill(p) \/ StartResume(p)
  PROVE  TypeInv'
<1> USE DEF TypeInv
<1>1. CASE StartCycle(p)
  <2>1. PICK slot \in Accepted, t \in Targets :
          /\ sel' = [sel EXCEPT ![p] = slot] /\ target' = [target EXCEPT ![p] = t]
          /\ pos' = [pos EXCEPT ![p] = Load(slot)]
    BY <1>1 DEF StartCycle
  <2>2. slot \in Slot
    BY ConstantsAssumption DEF Slot
  <2>3. Load(slot) \in Position
    BY <2>2, LoadType
  <2>4. KnowsOrder'
    BY <1>1, KnowsOrderFrame DEF StartCycle, Working, TypeOK
  <2> QED
    BY <1>1, <2>1, <2>2, <2>3, <2>4
       DEF TypeOK, StartCycle, dbVars, envVars, exchangeVars
<1>2. CASE StartKill(p)
  <2>1. Load(BlankSlot) \in Position
    BY EmptyType, LoadType
  <2>2. KnowsOrder'
    BY <1>2, KnowsOrderFrame DEF StartKill, Working, TypeOK
  <2> QED
    BY <1>2, <2>1, <2>2 DEF TypeOK, StartKill, dbVars, envVars, exchangeVars
<1>3. CASE StartResume(p)
  <2>1. [Load(BlankSlot) EXCEPT !.manual = FALSE] \in Position
    BY EmptyType, LoadType DEF Position
  <2>2. KnowsOrder'
    BY <1>3, KnowsOrderFrame DEF StartResume, Working, TypeOK
  <2> QED
    BY <1>3, <2>1, <2>2 DEF TypeOK, StartResume, dbVars, envVars, exchangeVars
<1> QED
  BY <1>1, <1>2, <1>3

\* What every decision leaves behind: a position, and an order to place or
\* nothing to do but save.
Decided(p) ==
  /\ pos' \in [Procs -> Position] /\ job' \in [Procs -> Job]
  /\ pc' \in [Procs -> Pcs] /\ pc'[p] \in {"place", "save"}
  /\ \A q \in Procs : q # p => pc'[q] = pc[q]

LEMMA WantCloseType ==
  ASSUME TypeOK, NEW p \in Procs, NEW why \in Reasons, NEW x \in Position,
         NEW quote \in Symbols \cup {Blank}, WantClose(p, why, x, quote)
  PROVE  Decided(p)
<1>1. Against(x.net) \in Targets /\ Abs(x.net) \in Nat
  BY DEF Against, Abs, Targets, Position
<1>2. Want(p, why, x, Against(x.net), Abs(x.net), quote)
  BY DEF WantClose
<1> QED
  BY <1>1, <1>2, WantType DEF Decided, TypeOK, Pcs

LEMMA WantOpenType ==
  ASSUME TypeOK, NEW p \in Procs, NEW x \in Position, WantOpen(p, x)
  PROVE  Decided(p)
<1>1. PICK q \in 1..MaxQty : Want(p, "open", x, target[p], q, SymbolOf(sel[p]))
  BY DEF WantOpen
<1>2. /\ q \in Nat /\ target[p] \in Targets /\ "open" \in Reasons
      /\ SymbolOf(sel[p]) \in Symbols \cup {Blank}
  BY SymbolType, ConstantsAssumption DEF TypeOK, Reasons
<1> QED
  BY <1>1, <1>2, WantType DEF Decided, TypeOK, Pcs

LEMMA KeepType ==
  ASSUME TypeOK, NEW p \in Procs, NEW x \in Position, Keep(p, x)
  PROVE  Decided(p)
BY DEF TypeOK, Keep, Decided, Pcs

\* The decisions of a cycle and of the kill switch.
LEMMA DecideType ==
  ASSUME TypeOK, NEW p \in Procs,
         CloseRotated(p) \/ Decide(p) \/ KillFlat(p) \/ KillClose(p)
  PROVE  Decided(p)
<1>1. pos[p] \in Position /\ pos[p].slot \in Slot /\ sel[p] \in Slot
  BY DEF TypeOK, Position
<1>2. /\ SymbolOf(sel[p]) \in Symbols \cup {Blank}
      /\ SymbolOf(pos[p].slot) \in Symbols \cup {Blank}
      /\ {"rotation", "breach", "flip", "exit", "kill"} \subseteq Reasons
  BY <1>1, SymbolType DEF Reasons
<1>3. CASE CloseRotated(p)
  BY <1>1, <1>2, <1>3, WantCloseType DEF CloseRotated
<1>4. CASE Decide(p)
  <2>1. PICK breach \in Breaches :
          \/ Keep(p, Assess(pos[p], breach))
          \/ WantOpen(p, Assess(pos[p], breach))
          \/ \E why \in {"breach", "flip", "exit"} :
               WantClose(p, why, Assess(pos[p], breach), SymbolOf(sel[p]))
    BY <1>4 DEF Decide
  <2>2. Assess(pos[p], breach) \in Position
    BY <1>1, AssessType
  <2> QED
    BY <1>2, <2>1, <2>2, KeepType, WantOpenType, WantCloseType
<1>5. CASE KillFlat(p)
  <2>1. [pos[p] EXCEPT !.manual = TRUE] \in Position
    BY <1>1 DEF Position
  <2> QED
    BY <1>5, <2>1, KeepType DEF KillFlat
<1>6. CASE KillClose(p)
  BY <1>1, <1>2, <1>6, WantCloseType DEF KillClose
<1> QED
  BY <1>3, <1>4, <1>5, <1>6

\* The steps that place, watch, cancel and read an order.
LEMMA RestingType ==
  ASSUME TypeOK, NEW p \in Procs
  PROVE  Resting(p) \in Order
BY DEF TypeOK, Resting, Order, Job

LEMMA OrderStepType ==
  ASSUME TypeInv, NEW p \in Procs,
         \/ ShadowFill(p) \/ PlaceAccepted(p) \/ PlaceRejected(p) \/ PlaceTimeout(p)
         \/ SeeClosed(p) \/ CancelOrder(p) \/ CancelFails(p)
         \/ Refetch(p) \/ RefetchFails(p)
  PROVE  TypeInv'
<1> USE DEF TypeInv
<1>1. CASE ShadowFill(p)
  <2>1. job[p].qty \in Nat
    BY DEF TypeOK, Job
  <2>2. Settle(p, job[p].qty, TRUE)
    BY <1>1 DEF ShadowFill
  <2>3. KnowsOrder'
    BY <1>1, <2>1, <2>2, SettleType, KnowsOrderFrame DEF ShadowFill, Working
  <2> QED
    BY <1>1, <2>1, <2>2, <2>3, SettleType
       DEF TypeOK, ShadowFill, dbVars, envVars, exchangeVars, planVars, Pcs
<1>2. CASE PlaceAccepted(p)
  <2>1. PICK i \in Orders : /\ book' = [book EXCEPT ![i] = Resting(p)]
                            /\ oid' = [oid EXCEPT ![p] = i]
    BY <1>2 DEF PlaceAccepted
  <2>2. KnowsOrder'
    BY <1>2, <2>1 DEF PlaceAccepted, KnowsOrder, Working, TypeOK
  <2> QED
    BY <1>2, <2>1, <2>2, RestingType DEF TypeOK, PlaceAccepted, dbVars, envVars, planVars
<1>3. CASE PlaceRejected(p)
  <2>1. KnowsOrder'
    BY <1>3, SettleType, KnowsOrderFrame DEF PlaceRejected, Working
  <2> QED
    BY <1>3, <2>1, SettleType
       DEF TypeOK, PlaceRejected, dbVars, envVars, exchangeVars, planVars, Pcs
<1>4. CASE PlaceTimeout(p)
  <2>1. PICK i \in Orders : book' = [book EXCEPT ![i] = Resting(p)]
    BY <1>4 DEF PlaceTimeout
  <2>2. KnowsOrder'
    BY <1>4, SettleType, KnowsOrderFrame DEF PlaceTimeout, Working
  <2> QED
    BY <1>4, <2>1, <2>2, SettleType, RestingType
       DEF TypeOK, PlaceTimeout, dbVars, envVars, planVars, Pcs
<1>5. ASSUME Working(p), NEW fill \in Nat, NEW sure \in BOOLEAN, Settle(p, fill, sure),
             book' = Release(oid[p]), oid' = [oid EXCEPT ![p] = NoOrder],
             UNCHANGED <<dbVars, envVars, holding, planVars>>
      PROVE  TypeInv'
  <2>1. oid[p] \in Orders
    BY <1>5 DEF KnowsOrder
  <2>2. book' \in [Orders -> Order]
    BY <1>5, <2>1, ReleaseType
  <2>3. KnowsOrder'
    BY <1>5, SettleType, KnowsOrderFrame DEF Working, TypeOK
  <2> QED
    BY <1>5, <2>2, <2>3, SettleType DEF TypeOK, dbVars, envVars, planVars, Pcs
<1>6. Working(p) => book[oid[p]] \in Order
  BY DEF KnowsOrder, TypeOK
<1>7. CASE SeeClosed(p)
  <2>1. Working(p) /\ book[oid[p]].filled \in Nat
    BY <1>6, <1>7 DEF SeeClosed, Working, Order
  <2> QED
    BY <1>5, <1>7, <2>1 DEF SeeClosed
<1>8. CASE CancelOrder(p)
  <2>1. oid[p] \in Orders
    BY <1>8 DEF CancelOrder, KnowsOrder, Working
  <2>2. book' \in [Orders -> Order]
    <3> DEFINE status == IF book[oid[p]].status = "open" THEN "canceled"
                         ELSE book[oid[p]].status
    <3>1. status \in {"none", "open", "closed", "canceled"}
      BY <2>1 DEF TypeOK, Order
    <3>2. book' = [book EXCEPT ![oid[p]].status = status]
      BY <1>8 DEF CancelOrder
    <3> HIDE DEF status
    <3>3. [book[oid[p]] EXCEPT !.status = status] \in Order
      BY <2>1, <3>1 DEF TypeOK, Order
    <3> QED
      BY <2>1, <3>2, <3>3 DEF TypeOK
  <2>3. KnowsOrder'
    BY <1>8, <2>1 DEF CancelOrder, KnowsOrder, Working, TypeOK
  <2> QED
    BY <1>8, <2>2, <2>3 DEF TypeOK, CancelOrder, dbVars, envVars, planVars
<1>9. CASE CancelFails(p)
  <2>1. KnowsOrder'
    BY <1>9 DEF CancelFails, KnowsOrder, Working, TypeOK
  <2> QED
    BY <1>9, <2>1 DEF TypeOK, CancelFails, dbVars, envVars, exchangeVars, planVars
<1>10. CASE Refetch(p)
  <2>1. PICK fill \in ReportedFills(book[oid[p]]) : Settle(p, fill, TRUE)
    BY <1>10 DEF Refetch
  <2>2. Working(p) /\ fill \in Nat
    BY <1>6, <1>10 DEF Refetch, Working, ReportedFills, Order
  <2> QED
    BY <1>5, <1>10, <2>1, <2>2 DEF Refetch
<1>11. CASE RefetchFails(p)
  BY <1>5, <1>11 DEF RefetchFails, Working
<1> QED
  BY <1>1, <1>2, <1>3, <1>4, <1>7, <1>8, <1>9, <1>10, <1>11

LEMMA TypeStep == TypeInv /\ [Next]_vars => TypeInv'
<1> SUFFICES ASSUME TypeInv, [Next]_vars PROVE TypeInv'
  OBVIOUS
<1> USE DEF TypeInv
<1>1. ASSUME NEW p \in Procs, StartCycle(p) \/ StartKill(p) \/ StartResume(p)
      PROVE  TypeInv'
  BY <1>1, StartType
<1>2. ASSUME NEW p \in Procs,
             CloseRotated(p) \/ Decide(p) \/ KillFlat(p) \/ KillClose(p)
      PROVE  TypeInv'
  <2>1. Decided(p) /\ UNCHANGED <<dbVars, envVars, exchangeVars, planVars, oid>>
    BY <1>2, DecideType DEF CloseRotated, Decide, KillFlat, KillClose
  <2>2. KnowsOrder'
    BY <2>1, KnowsOrderFrame DEF Decided, Working
  <2> QED
    BY <2>1, <2>2 DEF TypeOK, Decided, dbVars, envVars, exchangeVars, planVars, Pcs
<1>3. ASSUME NEW p \in Procs, KillWithoutPrice(p)
      PROVE  TypeInv'
  BY <1>3, FinishType
     DEF TypeOK, KillWithoutPrice, dbVars, envVars, exchangeVars, Pcs, Ops
<1>4. ASSUME NEW p \in Procs,
             \/ ShadowFill(p) \/ PlaceAccepted(p) \/ PlaceRejected(p) \/ PlaceTimeout(p)
             \/ SeeClosed(p) \/ CancelOrder(p) \/ CancelFails(p)
             \/ Refetch(p) \/ RefetchFails(p)
      PROVE  TypeInv'
  BY <1>4, OrderStepType
<1>5. ASSUME NEW p \in Procs, Save(p)
      PROVE  TypeInv'
  <2>1. [pos[p] EXCEPT !.day = day] \in Position
    BY DEF TypeOK, Position
  <2> QED
    BY <1>5, <2>1, FinishType DEF TypeOK, Save, envVars, exchangeVars, Pcs, Ops
<1>6. ASSUME NEW p \in Procs, Crash(p)
      PROVE  TypeInv'
  <2>1. book' \in [Orders -> Order]
    BY <1>6, ReleaseType DEF Crash, KnowsOrder, Working, TypeOK
  <2> QED
    BY <1>6, <2>1, FinishType DEF TypeOK, Crash, dbVars, envVars, Pcs, Ops
<1>7. ASSUME NEW i \in Orders, Fill(i)
      PROVE  TypeInv'
  BY <1>7, FillType DEF TypeOK, Fill, KnowsOrder, Working, dbVars, envVars, planVars
<1>8. CASE Reconcile
  <2>1. book' \in [Orders -> Order] /\ holding' \in [Symbols -> Int]
    BY <1>8, EmptyType DEF Reconcile, TypeOK, Position
  <2> QED
    BY <1>8, <2>1 DEF Reconcile, TypeOK, KnowsOrder, Working, dbVars, envVars, planVars
<1>9. CASE NewDay
  BY <1>9 DEF NewDay, TypeOK, KnowsOrder, Working, dbVars, exchangeVars, planVars
<1>10. CASE SwitchMode
  BY <1>10 DEF SwitchMode, TypeOK, KnowsOrder, Working, dbVars, exchangeVars, planVars
<1>11. CASE UNCHANGED vars
  BY <1>11 DEF vars, TypeOK, KnowsOrder, Working
<1> QED
  BY <1>1, <1>2, <1>3, <1>4, <1>5, <1>6, <1>7, <1>8, <1>9, <1>10, <1>11
     DEF Next, Advance

\* Every variable keeps its type, whatever fails and however many processes
\* interleave.
THEOREM TypeCorrect == Spec => []TypeOK
<1>1. Init => TypeInv
  BY TypeInit
<1>2. TypeInv /\ [Next]_vars => TypeInv'
  BY TypeStep
<1>3. TypeInv => TypeOK
  BY DEF TypeInv
<1> QED
  BY <1>1, <1>2, <1>3, PTL DEF Spec

LEMMA TypeInvariant == Spec => []TypeInv
BY TypeInit, TypeStep, PTL DEF Spec

-----------------------------------------------------------------------------
(* The safety gates of an opening order.                                   *)

OpenJob(p) == pc[p] = "place" /\ job[p].why = "open"
FlipJob(p) == pc[p] \in {"place", "working", "refetch"} /\ job[p].why = "flip"
Unhalted(x) == x.net = 0 /\ ~x.manual /\ ~x.failed /\ ~x.daily

\* A flip is only under way on an account that has not failed, so that the
\* reopening, which does not look at account_failed again, may go ahead.
Gate(p) ==
  /\ OpenJob(p) => Unhalted(pos[p])
  /\ FlipJob(p) => ~pos[p].failed
GateInv == \A p \in Procs : Gate(p)

LEMMA WantOpenGate ==
  ASSUME TypeOK, NEW p \in Procs, NEW x \in Position, WantOpen(p, x)
  PROVE  pos'[p] = x /\ job'[p].why = "open"
<1>1. PICK q \in 1..MaxQty : Want(p, "open", x, target[p], q, SymbolOf(sel[p]))
  BY DEF WantOpen
<1> QED
  BY <1>1 DEF Want, TypeOK

LEMMA WantCloseGate ==
  ASSUME TypeOK, NEW p \in Procs, NEW why, NEW x \in Position,
         NEW quote \in Symbols \cup {Blank}, WantClose(p, why, x, quote)
  PROVE  pos'[p] = x /\ job'[p].why = why
BY DEF WantClose, Want, TypeOK

LEMMA DecideGate ==
  ASSUME TypeOK, NEW p \in Procs,
         CloseRotated(p) \/ Decide(p) \/ KillFlat(p) \/ KillClose(p)
  PROVE  Gate(p)'
<1>1. pos[p] \in Position /\ pos[p].slot \in Slot /\ sel[p] \in Slot
  BY DEF TypeOK, Position
<1>2. /\ SymbolOf(sel[p]) \in Symbols \cup {Blank}
      /\ SymbolOf(pos[p].slot) \in Symbols \cup {Blank}
  BY <1>1, SymbolType
<1>3. ASSUME NEW x, Keep(p, x) PROVE Gate(p)'
  BY <1>3 DEF Keep, Gate, OpenJob, FlipJob, TypeOK
<1>4. CASE CloseRotated(p)
  BY <1>1, <1>2, <1>4, WantCloseGate DEF CloseRotated, Gate, OpenJob, FlipJob
<1>5. CASE Decide(p)
  <2>1. PICK breach \in Breaches :
          LET x == Assess(pos[p], breach) IN
          \/ Keep(p, x)
          \/ MayTrade(x) /\ x.net = 0 /\ ~x.daily /\ WantOpen(p, x)
          \/ MayTrade(x) /\ WantClose(p, "flip", x, SymbolOf(sel[p]))
          \/ \E why \in {"breach", "exit"} : WantClose(p, why, x, SymbolOf(sel[p]))
    BY <1>5 DEF Decide
  <2>2. Assess(pos[p], breach) \in Position
    BY <1>1, AssessType
  <2> QED
    BY <1>2, <1>3, <2>1, <2>2, WantOpenGate, WantCloseGate
       DEF MayTrade, Unhalted, Gate, OpenJob, FlipJob
<1>6. CASE KillFlat(p)
  BY <1>3, <1>6 DEF KillFlat
<1>7. CASE KillClose(p)
  BY <1>1, <1>2, <1>7, WantCloseGate DEF KillClose, Gate, OpenJob, FlipJob
<1> QED
  BY <1>4, <1>5, <1>6, <1>7

LEMMA SettleGate ==
  ASSUME TypeOK, NEW p \in Procs, NEW fill \in Nat, NEW sure \in BOOLEAN,
         Settle(p, fill, sure), Gate(p), pc[p] \in {"place", "working", "refetch"}
  PROVE  Gate(p)'
<1> DEFINE x == Record(pos[p], job[p], fill, sure)
<1>1. pos[p] \in Position /\ job[p] \in Job
  BY DEF TypeOK
<1>2. x \in Position /\ x.failed = pos[p].failed
  BY <1>1, RecordType
<1>3. \/ pc' = [pc EXCEPT ![p] = "decide"]
      \/ Reopens(job[p], x, sure) /\ WantOpen(p, x)
      \/ Keep(p, x)
  BY DEF Settle
<1>4. job[p].why = "flip" => ~pos[p].failed
  BY DEF Gate, FlipJob
<1> HIDE DEF x
<1>5. CASE Reopens(job[p], x, sure) /\ WantOpen(p, x)
  BY <1>1, <1>2, <1>4, <1>5, WantOpenGate DEF Reopens, OpenJob, FlipJob, Gate, Unhalted
<1> QED
  BY <1>3, <1>5 DEF Keep, OpenJob, FlipJob, Gate, TypeOK

LEMMA GateStep == TypeInv /\ GateInv /\ [Next]_vars => GateInv'
<1> SUFFICES ASSUME TypeInv, GateInv, [Next]_vars PROVE GateInv'
  OBVIOUS
<1> USE DEF TypeInv
<1>1. ASSUME NEW p \in Procs, Gate(p)',
             \A q \in Procs : q # p => pc'[q] = pc[q] /\ job'[q] = job[q] /\ pos'[q] = pos[q]
      PROVE  GateInv'
  BY <1>1 DEF GateInv, Gate, OpenJob, FlipJob
<1>2. ASSUME NEW p \in Procs,
             StartCycle(p) \/ StartKill(p) \/ StartResume(p)
      PROVE  GateInv'
  <2>1. pc'[p] \in {"decide", "kill", "save"}
    BY <1>2 DEF StartCycle, StartKill, StartResume, TypeOK
  <2>2. Gate(p)'
    BY <2>1 DEF Gate, OpenJob, FlipJob
  <2> QED
    BY <1>1, <1>2, <2>2 DEF StartCycle, StartKill, StartResume, TypeOK
<1>3. ASSUME NEW p \in Procs,
             CloseRotated(p) \/ Decide(p) \/ KillFlat(p) \/ KillClose(p)
      PROVE  GateInv'
  <2>1. ASSUME NEW q \in Procs, q # p
        PROVE  pc'[q] = pc[q] /\ job'[q] = job[q] /\ pos'[q] = pos[q]
    BY <1>3, <2>1
       DEF TypeOK, CloseRotated, Decide, KillFlat, KillClose, WantClose, WantOpen, Want, Keep
  <2> QED
    BY <1>1, <1>3, <2>1, DecideGate
<1>4. ASSUME NEW p \in Procs, NEW fill \in Nat, NEW sure \in BOOLEAN,
             Settle(p, fill, sure), pc[p] \in {"place", "working", "refetch"}
      PROVE  GateInv'
  <2>1. ASSUME NEW q \in Procs, q # p
        PROVE  pc'[q] = pc[q] /\ job'[q] = job[q] /\ pos'[q] = pos[q]
    BY <1>4, <2>1 DEF TypeOK, Settle, WantOpen, Want, Keep
  <2> QED
    BY <1>1, <1>4, <2>1, SettleGate DEF GateInv
<1>5. ASSUME NEW p \in Procs, ShadowFill(p) \/ PlaceRejected(p) \/ PlaceTimeout(p)
      PROVE  GateInv'
  <2>1. job[p].qty \in Nat
    BY DEF TypeOK, Job
  <2> QED
    BY <1>4, <1>5, <2>1 DEF ShadowFill, PlaceRejected, PlaceTimeout
<1>6. ASSUME NEW p \in Procs, PlaceAccepted(p) \/ CancelOrder(p) \/ CancelFails(p)
      PROVE  GateInv'
  BY <1>6 DEF PlaceAccepted, CancelOrder, CancelFails, GateInv, Gate, OpenJob, FlipJob,
              Unhalted, TypeOK
<1>7. ASSUME NEW p \in Procs, SeeClosed(p) \/ Refetch(p) \/ RefetchFails(p)
      PROVE  GateInv'
  <2>1. pc[p] \in {"working", "refetch"}
    BY <1>7 DEF SeeClosed, Refetch, RefetchFails
  <2>2. book[oid[p]].filled \in Nat
    BY <2>1 DEF KnowsOrder, Working, TypeOK, Order
  <2>3. ReportedFills(book[oid[p]]) \subseteq Nat
    BY <2>2 DEF ReportedFills
  <2> QED
    BY <1>4, <1>7, <2>1, <2>2, <2>3 DEF SeeClosed, Refetch, RefetchFails
<1>8. ASSUME NEW p \in Procs, Finish(p)
      PROVE  GateInv'
  BY <1>8 DEF Finish, GateInv, Gate, OpenJob, FlipJob, TypeOK
<1>9. CASE UNCHANGED <<pc, job, pos>>
  BY <1>9 DEF GateInv, Gate, OpenJob, FlipJob
<1>10. ASSUME NEW p \in Procs, KillWithoutPrice(p) \/ Save(p) \/ Crash(p)
       PROVE  GateInv'
  BY <1>8, <1>10 DEF KillWithoutPrice, Save, Crash
<1>11. ASSUME NEW i \in Orders, Fill(i) PROVE GateInv'
  BY <1>9, <1>11 DEF Fill
<1>12. CASE Reconcile \/ NewDay \/ SwitchMode \/ UNCHANGED vars
  BY <1>9, <1>12 DEF Reconcile, NewDay, SwitchMode, vars
<1> QED
  BY <1>2, <1>3, <1>5, <1>6, <1>7, <1>10, <1>11, <1>12 DEF Next, Advance

\* A process about to open has a flat copy of the row that no halt covers
\* (safety gates 3 and 4), also when it reopens after a flip.
OpensOnlyUnhalted ==
  \A p \in Procs : pc[p] = "place" /\ job[p].why = "open" =>
    pos[p].net = 0 /\ ~pos[p].manual /\ ~pos[p].failed /\ ~pos[p].daily

\* An opening order always starts from a flat position that nothing halts:
\* gates 3 and 4, for any number of processes and whatever fails.
THEOREM GatesHold == Spec => []OpensOnlyUnhalted
<1>1. Init => GateInv
  BY DEF Init, GateInv, Gate, OpenJob, FlipJob
<1>2. GateInv => OpensOnlyUnhalted
  BY DEF GateInv, Gate, OpenJob, Unhalted, OpensOnlyUnhalted
<1> QED
  BY <1>1, <1>2, GateStep, TypeInvariant, PTL DEF Spec

-----------------------------------------------------------------------------
(* No orphan orders, for any number of processes.                          *)

\* The exchange carries out cancels, answers every placement, and no process
\* dies while it waits.
ReliableCancels == Faults \cap {"cancelFails", "placeTimeout", "crash"} = {}

\* Orders and the processes that wait for them correspond one to one, and
\* what is read last has been cancelled.
WatchInv ==
  /\ \A p \in Procs : Working(p) => book[oid[p]].status # "none"
  /\ \A p, q \in Procs : Working(p) /\ Working(q) /\ p # q => oid[p] # oid[q]
  /\ \A i \in Orders : book[i].status # "none" => Watched(i)
  /\ \A p \in Procs : pc[p] = "refetch" => book[oid[p]].status # "open"

LEMMA UnusedStatus == Unused.status = "none"
BY DEF Unused

\* Steps of p outside the exchange, before it has an order.
LEMMA WatchFrame ==
  ASSUME TypeInv, WatchInv, NEW p \in Procs, ~Working(p), ~Working(p)',
         UNCHANGED book,
         \A q \in Procs : q # p => pc'[q] = pc[q] /\ oid'[q] = oid[q]
  PROVE  WatchInv'
BY DEF TypeInv, TypeOK, KnowsOrder, WatchInv, Working, Watched

\* The step in which p has read the last of its order.
LEMMA WatchDone ==
  ASSUME TypeInv, WatchInv, NEW p \in Procs, Working(p), ~Working(p)',
         book[oid[p]].status # "open", book' = Release(oid[p]),
         \A q \in Procs : q # p => pc'[q] = pc[q] /\ oid'[q] = oid[q]
  PROVE  WatchInv'
<1>1. oid[p] \in Orders
  BY DEF TypeInv, KnowsOrder
<1>2. \A k \in Orders : book'[k] = IF k = oid[p] THEN Unused ELSE book[k]
  BY <1>1, ReleaseType DEF TypeInv
<1>3. ASSUME NEW q \in Procs, Working(q)'
      PROVE  q # p /\ Working(q) /\ oid'[q] = oid[q] /\ oid[q] # oid[p] /\ oid[q] \in Orders
  BY <1>3 DEF WatchInv, Working, TypeInv, KnowsOrder
<1>4. \A q \in Procs : Working(q)' => book'[oid'[q]].status # "none"
  BY <1>2, <1>3 DEF WatchInv
<1>5. \A q, r \in Procs : Working(q)' /\ Working(r)' /\ q # r => oid'[q] # oid'[r]
  BY <1>3 DEF WatchInv
<1>6. ASSUME NEW k \in Orders, book'[k].status # "none"
      PROVE  Watched(k)'
  <2>1. k # oid[p] /\ book[k].status # "none"
    BY <1>2, <1>6, UnusedStatus
  <2>2. PICK q \in Procs : Working(q) /\ oid[q] = k
    BY <2>1 DEF WatchInv, Watched, Working
  <2> QED
    BY <2>1, <2>2 DEF Watched, Working
<1>7. \A q \in Procs : pc'[q] = "refetch" => book'[oid'[q]].status # "open"
  BY <1>2, <1>3 DEF WatchInv, Working
<1> QED
  BY <1>4, <1>5, <1>6, <1>7 DEF WatchInv

LEMMA WatchStep ==
  ASSUME ReliableCancels
  PROVE  TypeInv /\ WatchInv /\ [Next]_vars => WatchInv'
<1> SUFFICES ASSUME TypeInv, WatchInv, [Next]_vars PROVE WatchInv'
  OBVIOUS
<1> USE DEF TypeInv
<1>1. ASSUME NEW p \in Procs,
             \/ StartCycle(p) \/ StartKill(p) \/ StartResume(p)
             \/ CloseRotated(p) \/ Decide(p) \/ KillFlat(p) \/ KillClose(p)
      PROVE  WatchInv'
  <2>1. ~Working(p) /\ ~Working(p)' /\ UNCHANGED <<book, oid>>
    BY <1>1 DEF StartCycle, StartKill, StartResume, CloseRotated, Decide, KillFlat, KillClose,
                WantClose, WantOpen, Want, Keep, Working, TypeOK, exchangeVars
  <2>2. \A q \in Procs : q # p => pc'[q] = pc[q]
    BY <1>1 DEF StartCycle, StartKill, StartResume, CloseRotated, Decide, KillFlat, KillClose,
                WantClose, WantOpen, Want, Keep, TypeOK
  <2> QED
    BY <2>1, <2>2, WatchFrame
<1>2. ASSUME NEW p \in Procs, KillWithoutPrice(p) \/ Save(p)
      PROVE  WatchInv'
  <2>1. ~Working(p) /\ ~Working(p)' /\ UNCHANGED book
    BY <1>2 DEF KillWithoutPrice, Save, Finish, Working, TypeOK, exchangeVars
  <2>2. \A q \in Procs : q # p => pc'[q] = pc[q] /\ oid'[q] = oid[q]
    BY <1>2 DEF KillWithoutPrice, Save, Finish, TypeOK
  <2> QED
    BY <2>1, <2>2, WatchFrame
<1>3. ASSUME NEW p \in Procs, ShadowFill(p) \/ PlaceRejected(p)
      PROVE  WatchInv'
  <2>1. job[p].qty \in Nat
    BY DEF TypeOK, Job
  <2>2. /\ ~Working(p) /\ UNCHANGED <<book, oid>>
        /\ \E fill \in Nat : Settle(p, fill, TRUE)
    BY <1>3, <2>1 DEF ShadowFill, PlaceRejected, Working, exchangeVars
  <2> QED
    BY <2>2, SettleType, WatchFrame DEF Working
<1>4. ASSUME NEW p \in Procs, PlaceAccepted(p)
      PROVE  WatchInv'
  <2>1. PICK i \in Orders : /\ book[i] = Unused
                            /\ book' = [book EXCEPT ![i] = Resting(p)]
                            /\ oid' = [oid EXCEPT ![p] = i]
    BY <1>4 DEF PlaceAccepted
  <2>2. Resting(p).status = "open"
    BY DEF Resting
  <2>3. ~Working(p) /\ pc' = [pc EXCEPT ![p] = "working"]
    BY <1>4 DEF PlaceAccepted, Working
  <2>4. \A q \in Procs : Working(q) => oid[q] # i
    BY <2>1, UnusedStatus DEF WatchInv
  <2>5. \A q \in Procs : Working(q)' /\ q # p => Working(q) /\ oid'[q] = oid[q]
    BY <2>1, <2>3 DEF Working, TypeOK
  <2>6. oid'[p] = i /\ pc'[p] = "working"
    BY <2>1, <2>3 DEF TypeOK
  <2>7. /\ \A q \in Procs : Working(q)' => book'[oid'[q]].status # "none"
        /\ \A q, r \in Procs : Working(q)' /\ Working(r)' /\ q # r => oid'[q] # oid'[r]
    BY <2>1, <2>2, <2>4, <2>5, <2>6 DEF WatchInv, TypeOK, KnowsOrder
  <2>8. \A k \in Orders : book'[k].status # "none" => Watched(k)'
    BY <2>1, <2>3, <2>6 DEF WatchInv, Watched, TypeOK, Working
  <2>9. \A q \in Procs : pc'[q] = "refetch" => book'[oid'[q]].status # "open"
    BY <2>1, <2>3, <2>4, <2>5 DEF WatchInv, TypeOK, KnowsOrder, Working
  <2> QED
    BY <2>7, <2>8, <2>9 DEF WatchInv
<1>5. ASSUME NEW p \in Procs, SeeClosed(p) \/ Refetch(p) \/ RefetchFails(p)
      PROVE  WatchInv'
  <2>1. /\ Working(p) /\ book[oid[p]].status # "open" /\ book' = Release(oid[p])
        /\ oid' = [oid EXCEPT ![p] = NoOrder]
    BY <1>5 DEF SeeClosed, Refetch, RefetchFails, Working, WatchInv
  <2>2. book[oid[p]].filled \in Nat
    BY <2>1 DEF KnowsOrder, TypeOK, Order
  <2>3. ReportedFills(book[oid[p]]) \subseteq Nat
    BY <2>2 DEF ReportedFills
  <2>4. \E fill \in Nat, sure \in BOOLEAN : Settle(p, fill, sure)
    BY <1>5, <2>2, <2>3 DEF SeeClosed, Refetch, RefetchFails
  <2> QED
    BY <2>1, <2>4, SettleType, WatchDone DEF Working, TypeOK
<1>6. ASSUME NEW p \in Procs, CancelOrder(p)
      PROVE  WatchInv'
  <2>1. oid[p] \in Orders /\ Working(p)
    BY <1>6 DEF CancelOrder, KnowsOrder, Working
  <2>2. \A k \in Orders : k # oid[p] => book'[k] = book[k]
    BY <1>6, <2>1 DEF CancelOrder, TypeOK
  <2>3. book'[oid[p]].status = IF book[oid[p]].status = "open" THEN "canceled"
                               ELSE book[oid[p]].status
    BY <1>6, <2>1 DEF CancelOrder, TypeOK, Order
  <2>4. \A q \in Procs : Working(q)' <=> Working(q)
    BY <1>6 DEF CancelOrder, Working, TypeOK
  <2>5. UNCHANGED oid
    BY <1>6 DEF CancelOrder
  <2>6. \A k \in Orders : (book'[k].status # "none") <=> (book[k].status # "none")
    BY <2>1, <2>2, <2>3
  <2>7. \A k \in Orders : Watched(k) => Watched(k)'
    BY <2>4, <2>5 DEF Watched, Working
  <2>8. \A q \in Procs : pc'[q] = "refetch" => book'[oid'[q]].status # "open"
    BY <1>6, <2>1, <2>2, <2>3, <2>5 DEF CancelOrder, WatchInv, Working, KnowsOrder, TypeOK
  <2> QED
    BY <2>4, <2>5, <2>6, <2>7, <2>8 DEF WatchInv, KnowsOrder
<1>7. ASSUME NEW i \in Orders, Fill(i)
      PROVE  WatchInv'
  <2>1. Watched(i)
    BY <1>7 DEF Fill, WatchInv
  <2>2. /\ \A k \in Orders : k # i => book'[k] = book[k]
        /\ book'[i].status \in {"open", "closed"}
    BY <1>7, <2>1 DEF Fill, TypeOK, Order
  <2>3. book[i].status = "open" /\ UNCHANGED <<pc, oid>>
    BY <1>7 DEF Fill
  <2> QED
    BY <2>1, <2>2, <2>3 DEF WatchInv, Watched, Working, KnowsOrder
<1>8. CASE Reconcile
  BY <1>8, UnusedStatus DEF Reconcile, Settled, WatchInv, Watched, Working
<1>9. CASE NewDay \/ SwitchMode \/ UNCHANGED vars
  BY <1>9 DEF NewDay, SwitchMode, vars, exchangeVars, WatchInv, Watched, Working
<1>10. \A p \in Procs : ~PlaceTimeout(p) /\ ~CancelFails(p) /\ ~Crash(p)
  BY ReliableCancels DEF ReliableCancels, PlaceTimeout, CancelFails, Crash
<1> QED
  BY <1>1, <1>2, <1>3, <1>4, <1>5, <1>6, <1>7, <1>8, <1>9, <1>10 DEF Next, Advance

LEMMA WatchInvariant ==
  ASSUME ReliableCancels
  PROVE  Spec => []WatchInv
<1>1. Init => WatchInv
  BY UnusedStatus DEF Init, WatchInv, Working
<1> QED
  BY <1>1, WatchStep, TypeInvariant, PTL DEF Spec

\* When cancels are carried out, placements answered and nothing crashes, no
\* process ever walks away from an order that can still fill, whatever the
\* other processes do.
THEOREM OrdersAreWatched ==
  ASSUME ReliableCancels
  PROVE  Spec => []NoOrphanOrders
<1>1. WatchInv => NoOrphanOrders
  BY DEF WatchInv, NoOrphanOrders
<1> QED
  BY <1>1, WatchInvariant, PTL

-----------------------------------------------------------------------------
(* One operation at a time: the row does not drift from the exchange, and  *)
(* no halt is lost.                                                        *)


\* Operations do not overlap, the only faults are failing reads, and the
\* operator resumes only a row that matches the exchange.
Sequential ==
  /\ \A p, q \in Procs : p = q
  /\ Faults \subseteq {"fetchFails", "noBars"}
  /\ OperatorChecks

\* The copy x accounts for all the exchange holds, with the fills of the order
\* under way, or is halted; shadow mode promises nothing.
Accounted(x, filled) == live => x.manual \/ Holds(x.slot, x.net + filled)

OrderFill(p) == IF Working(p) THEN job[p].dir * book[oid[p]].filled ELSE 0

BeforeWork == {"idle", "kill"}

DriftInv ==
  /\ ~saved => row.net = 0 /\ ~row.manual
  /\ (\A p \in Procs : pc[p] \in BeforeWork) => Accounted(row, 0)
  /\ \A p \in Procs : pc[p] # "idle" => Accounted(pos[p], OrderFill(p))
  /\ \A p \in Procs : pc[p] = "place" \/ Working(p) =>
       job[p].symbol = SymbolOf(pos[p].slot)
  /\ \A p \in Procs : Working(p) =>
       book[oid[p]].symbol = job[p].symbol /\ book[oid[p]].dir = job[p].dir

LEMMA SequentialIsReliable == Sequential => ReliableCancels
BY DEF Sequential, ReliableCancels

\* A flat position matches the exchange or not whatever its slot.
LEMMA FlatHolds ==
  ASSUME NEW slot1, NEW slot2
  PROVE  Holds(slot1, 0) <=> Holds(slot2, 0)
BY DEF Holds

\* What load_position returns accounts for the exchange as the row does.
LEMMA AccountedRow ==
  ASSUME TypeOK, DriftInv, Accounted(row, 0), NEW slot \in Slot
  PROVE  Accounted(Load(slot), 0)
<1>1. CASE saved
  BY <1>1 DEF TypeOK, Position, Load
<1>2. CASE ~saved
  <2>1. live => Holds(row.slot, 0)
    BY <1>2 DEF DriftInv, Accounted
  <2>2. live => Holds(slot, 0)
    BY <2>1, FlatHolds
  <2> QED
    BY <1>2, <2>2 DEF Load, Fresh, Accounted
<1> QED
  BY <1>1, <1>2 DEF TypeOK

\* A row that matches the exchange is still matched by the copy loaded from
\* it with manual_halt cleared.
LEMMA MatchedRow ==
  ASSUME TypeOK, DriftInv, live => Matched
  PROVE  Accounted([Load(BlankSlot) EXCEPT !.manual = FALSE], 0)
<1> DEFINE x == [Load(BlankSlot) EXCEPT !.manual = FALSE]
<1>1. Load(BlankSlot) \in Position
  BY LoadType, EmptyType
<1>2. /\ x.net = Load(BlankSlot).net /\ x.slot = Load(BlankSlot).slot
      /\ x.net \in Int
  BY <1>1 DEF Position
<1>3. live => Holds(Load(BlankSlot).slot, Load(BlankSlot).net)
  <2>1. CASE saved
    BY <2>1 DEF Load, Matched
  <2>2. CASE ~saved
    BY <2>2, FlatHolds DEF Load, Fresh, Matched, DriftInv
  <2> QED
    BY <2>1, <2>2 DEF TypeOK
<1> HIDE DEF x
<1>4. x.net + 0 = x.net
  BY <1>2
<1>5. Accounted(x, 0)
  BY <1>2, <1>3, <1>4 DEF Accounted
<1> QED
  BY <1>5 DEF x

\* A step after which the only process waits for no order.
LEMMA DriftFrame ==
  ASSUME Sequential, TypeInv, DriftInv, NEW p \in Procs,
         UNCHANGED <<row, saved, holding, live>>,
         pc'[p] \in {"decide", "kill", "place", "save"},
         pc'[p] = "kill" => Accounted(row, 0),
         live => pos'[p].manual \/ Holds(pos'[p].slot, pos'[p].net + 0),
         pc'[p] = "place" => job'[p].symbol = SymbolOf(pos'[p].slot)
  PROVE  DriftInv'
<1>1. \A q \in Procs : q = p
  BY DEF Sequential
<1>2. \A q \in Procs : ~Working(q)' /\ OrderFill(q)' = 0
  BY <1>1 DEF Working, OrderFill
<1>3. (~saved => row.net = 0 /\ ~row.manual)'
  BY DEF DriftInv
<1>4. ((\A q \in Procs : pc[q] \in BeforeWork) => Accounted(row, 0))'
  BY DEF BeforeWork, Accounted, Holds
<1>5. Accounted(pos[p], 0)'
  BY DEF Accounted, Holds
<1>6. (\A q \in Procs : pc[q] # "idle" => Accounted(pos[q], OrderFill(q)))'
  <2> SUFFICES ASSUME NEW q \in Procs PROVE Accounted(pos[q], OrderFill(q))'
    OBVIOUS
  <2>1. q = p /\ OrderFill(q)' = 0
    BY <1>1, <1>2
  <2> QED
    BY <1>5, <2>1 DEF Accounted
<1>7. (\A q \in Procs : pc[q] = "place" \/ Working(q) =>
         job[q].symbol = SymbolOf(pos[q].slot))'
  BY <1>1, <1>2 DEF SymbolOf
<1> QED
  BY <1>2, <1>3, <1>4, <1>6, <1>7 DEF DriftInv

\* The process leaves with x: to place an order for x's symbol, or to save it.
Leaves(p, x) ==
  /\ pos'[p] = x
  /\ pc'[p] \in {"place", "save"}
  /\ pc'[p] = "place" => job'[p].symbol = SymbolOf(x.slot)

LEMMA WantOpenLeaves ==
  ASSUME TypeOK, NEW p \in Procs, NEW x \in Position, WantOpen(p, x)
  PROVE  Leaves(p, x)
<1>1. PICK q \in 1..MaxQty : Want(p, "open", x, target[p], q, SymbolOf(sel[p]))
  BY DEF WantOpen
<1> QED
  BY <1>1 DEF Leaves, Want, TypeOK

LEMMA WantCloseLeaves ==
  ASSUME TypeOK, NEW p \in Procs, NEW why, NEW x \in Position, NEW quote,
         WantClose(p, why, x, quote)
  PROVE  Leaves(p, x)
BY DEF Leaves, WantClose, Want, TypeOK

LEMMA KeepLeaves ==
  ASSUME TypeOK, NEW p \in Procs, NEW x \in Position, Keep(p, x)
  PROVE  Leaves(p, x)
BY DEF Leaves, Keep, TypeOK

\* A decision changes nothing of what the copy says about the exchange.
LEMMA DecideLeaves ==
  ASSUME TypeOK, NEW p \in Procs,
         CloseRotated(p) \/ Decide(p) \/ KillFlat(p) \/ KillClose(p)
  PROVE  \E x \in Position :
           /\ Leaves(p, x) /\ x.net = pos[p].net /\ x.slot = pos[p].slot
           /\ pos[p].manual => x.manual
<1>1. pos[p] \in Position
  BY DEF TypeOK
<1>2. CASE CloseRotated(p) \/ KillClose(p)
  BY <1>1, <1>2, WantCloseLeaves DEF CloseRotated, KillClose
<1>3. CASE Decide(p)
  <2>1. PICK breach \in Breaches :
          LET x == Assess(pos[p], breach) IN
          Keep(p, x) \/ WantOpen(p, x) \/ \E why, quote : WantClose(p, why, x, quote)
    BY <1>3 DEF Decide
  <2>2. /\ Assess(pos[p], breach) \in Position
        /\ Assess(pos[p], breach).net = pos[p].net
        /\ Assess(pos[p], breach).slot = pos[p].slot
        /\ Assess(pos[p], breach).manual = pos[p].manual
    BY <1>1, AssessType
  <2> QED
    BY <2>1, <2>2, KeepLeaves, WantOpenLeaves, WantCloseLeaves
<1>4. CASE KillFlat(p)
  <2>1. /\ [pos[p] EXCEPT !.manual = TRUE] \in Position
        /\ [pos[p] EXCEPT !.manual = TRUE].net = pos[p].net
        /\ [pos[p] EXCEPT !.manual = TRUE].slot = pos[p].slot
        /\ [pos[p] EXCEPT !.manual = TRUE].manual
    BY <1>1 DEF Position
  <2> QED
    BY <1>4, <2>1, KeepLeaves DEF KillFlat
<1> QED
  BY <1>2, <1>3, <1>4

\* The fill a process records is what its copy lacked: recorded with certainty
\* the copy accounts for the exchange, recorded in doubt it is halted.
LEMMA SettleDrift ==
  ASSUME Sequential, TypeInv, DriftInv, NEW p \in Procs,
         NEW fill \in Nat, NEW sure \in BOOLEAN, Settle(p, fill, sure),
         UNCHANGED <<row, saved, holding, live>>,
         pc[p] = "place" \/ Working(p),
         live /\ sure => Accounted(pos[p], job[p].dir * fill)
  PROVE  DriftInv'
<1> DEFINE x == Record(pos[p], job[p], fill, sure)
<1>1. pos[p] \in Position /\ job[p] \in Job /\ sel[p] \in Slot
  BY DEF TypeInv, TypeOK
<1>2. /\ x \in Position /\ x.slot = pos[p].slot
      /\ x.net = pos[p].net + job[p].dir * fill
      /\ x.manual = (pos[p].manual \/ ~sure \/ job[p].why = "kill")
  <2>1. x = Record(pos[p], job[p], fill, sure)
    OBVIOUS
  <2> HIDE DEF x
  <2> QED
    BY <1>1, <2>1, RecordType
<1>3. live => x.manual \/ Holds(x.slot, x.net)
  <2> HIDE DEF x
  <2> QED
    BY <1>2 DEF Accounted
<1>4. \/ /\ x.net = 0 /\ sure
         /\ pos' = [pos EXCEPT ![p] = [x EXCEPT !.slot = sel[p]]]
         /\ pc' = [pc EXCEPT ![p] = "decide"]
      \/ WantOpen(p, x) \/ Keep(p, x)
  BY DEF Settle
<1> HIDE DEF x
<1>5. x.net + 0 = x.net
  BY <1>2 DEF Position
<1>6. ASSUME Leaves(p, x) PROVE DriftInv'
  BY <1>3, <1>5, <1>6, DriftFrame DEF Leaves
<1>7. CASE WantOpen(p, x) \/ Keep(p, x)
  BY <1>2, <1>6, <1>7, WantOpenLeaves, KeepLeaves DEF TypeInv
<1>8. CASE /\ x.net = 0
           /\ pos' = [pos EXCEPT ![p] = [x EXCEPT !.slot = sel[p]]]
           /\ pc' = [pc EXCEPT ![p] = "decide"]
  <2>1. /\ pos'[p].slot = sel[p] /\ pos'[p].net = 0 /\ pos'[p].manual = x.manual
        /\ pc'[p] = "decide"
    BY <1>1, <1>2, <1>8 DEF TypeInv, TypeOK, Position
  <2>2. live => x.manual \/ Holds(sel[p], 0)
    BY <1>3, <1>8, FlatHolds
  <2>3. live => pos'[p].manual \/ Holds(pos'[p].slot, pos'[p].net + 0)
    BY <2>1, <2>2
  <2> QED
    BY <2>1, <2>3, DriftFrame
<1> QED
  BY <1>4, <1>7, <1>8

\* The exchange takes the order: it starts with nothing filled.
LEMMA PlaceDrift ==
  ASSUME Sequential, TypeInv, DriftInv, NEW p \in Procs, PlaceAccepted(p)
  PROVE  DriftInv'
<1>1. PICK i \in Orders : /\ book' = [book EXCEPT ![i] = Resting(p)]
                          /\ oid' = [oid EXCEPT ![p] = i]
  BY DEF PlaceAccepted
<1>2. \A q \in Procs : q = p
  BY DEF Sequential
<1>3. /\ pc'[p] = "working" /\ oid'[p] = i /\ book'[i] = Resting(p)
      /\ pc[p] = "place" /\ ~Working(p)
      /\ UNCHANGED <<row, saved, holding, live, pos, job>>
  BY <1>1 DEF PlaceAccepted, TypeInv, TypeOK, Working, dbVars, envVars
<1>4. /\ Resting(p).symbol = job[p].symbol /\ Resting(p).dir = job[p].dir
      /\ Resting(p).filled = 0
  BY DEF Resting
<1>5. job[p].dir \in Int
  BY DEF TypeInv, TypeOK, Job, Targets
<1>6. OrderFill(p)' = 0 /\ OrderFill(p) = 0
  BY <1>3, <1>4, <1>5 DEF OrderFill, Working
<1>7. Accounted(pos[p], 0)
  BY <1>3, <1>6 DEF DriftInv
<1>8. (\A q \in Procs : pc[q] # "idle" => Accounted(pos[q], OrderFill(q)))'
  <2> SUFFICES ASSUME NEW q \in Procs PROVE Accounted(pos[q], OrderFill(q))'
    OBVIOUS
  <2>1. q = p
    BY <1>2
  <2> QED
    BY <1>3, <1>6, <1>7, <2>1 DEF Accounted, Holds
<1>9. (\A q \in Procs : Working(q) =>
         book[oid[q]].symbol = job[q].symbol /\ book[oid[q]].dir = job[q].dir)'
  BY <1>2, <1>3, <1>4
<1>10. ~(\A q \in Procs : pc'[q] \in BeforeWork)
  BY <1>3 DEF BeforeWork
<1>11. (~saved => row.net = 0 /\ ~row.manual)'
  BY <1>3 DEF DriftInv
<1>12. (\A q \in Procs : pc[q] = "place" \/ Working(q) =>
          job[q].symbol = SymbolOf(pos[q].slot))'
  BY <1>2, <1>3 DEF DriftInv
<1> QED
  BY <1>8, <1>9, <1>10, <1>11, <1>12 DEF DriftInv

\* Cancelling leaves what the order filled.
LEMMA CancelDrift ==
  ASSUME Sequential, TypeInv, DriftInv, NEW p \in Procs, CancelOrder(p)
  PROVE  DriftInv'
<1>1. \A q \in Procs : q = p
  BY DEF Sequential
<1>2. /\ pc[p] = "working" /\ pc'[p] = "refetch" /\ Working(p) /\ Working(p)'
      /\ UNCHANGED <<row, saved, holding, live, pos, job, oid>>
  BY DEF CancelOrder, TypeInv, TypeOK, Working, dbVars, envVars
<1>3. oid[p] \in Orders
  BY <1>2 DEF TypeInv, KnowsOrder
<1>4. /\ book'[oid[p]].filled = book[oid[p]].filled
      /\ book'[oid[p]].symbol = book[oid[p]].symbol
      /\ book'[oid[p]].dir = book[oid[p]].dir
  BY <1>3 DEF CancelOrder, TypeInv, TypeOK, Order
<1>5. OrderFill(p)' = OrderFill(p)
  BY <1>2, <1>4 DEF OrderFill
<1>6. Accounted(pos[p], OrderFill(p))
  BY <1>2 DEF DriftInv
<1>7. (\A q \in Procs : pc[q] # "idle" => Accounted(pos[q], OrderFill(q)))'
  <2> SUFFICES ASSUME NEW q \in Procs PROVE Accounted(pos[q], OrderFill(q))'
    OBVIOUS
  <2>1. q = p
    BY <1>1
  <2> QED
    BY <1>2, <1>5, <1>6, <2>1 DEF Accounted, Holds
<1>8. ~(\A q \in Procs : pc'[q] \in BeforeWork)
  BY <1>2 DEF BeforeWork
<1>9. (\A q \in Procs : Working(q) =>
         book[oid[q]].symbol = job[q].symbol /\ book[oid[q]].dir = job[q].dir)'
  BY <1>1, <1>2, <1>4 DEF DriftInv
<1>10. (~saved => row.net = 0 /\ ~row.manual)'
  BY <1>2 DEF DriftInv
<1>11. (\A q \in Procs : pc[q] = "place" \/ Working(q) =>
          job[q].symbol = SymbolOf(pos[q].slot))'
  BY <1>1, <1>2 DEF DriftInv
<1> QED
  BY <1>7, <1>8, <1>9, <1>10, <1>11 DEF DriftInv

\* One more unit fills: the exchange and the order grow by the same amount.
LEMMA FillDrift ==
  ASSUME Sequential, TypeInv, WatchInv, DriftInv, NEW i \in Orders, Fill(i)
  PROVE  DriftInv'
<1>1. PICK p \in Procs : Working(p) /\ oid[p] = i
  BY DEF Fill, WatchInv, Watched, Working
<1>2. \A q \in Procs : q = p
  BY DEF Sequential
<1>3. Watched(i)
  BY <1>1 DEF Watched, Working
<1>4. /\ book'[i].filled = book[i].filled + 1
      /\ book'[i].symbol = book[i].symbol /\ book'[i].dir = book[i].dir
  BY <1>3 DEF Fill, TypeInv, TypeOK, Order
<1>5. /\ UNCHANGED <<row, saved, live, pos, job, oid, pc>>
      /\ holding' = [holding EXCEPT ![book[i].symbol] = holding[book[i].symbol] + book[i].dir]
  BY DEF Fill, dbVars, envVars
<1>6. /\ book[i].symbol = job[p].symbol /\ book[i].dir = job[p].dir
      /\ job[p].symbol = SymbolOf(pos[p].slot)
  BY <1>1 DEF DriftInv
<1>7. Working(p)' /\ pc'[p] # "idle"
  BY <1>1, <1>5 DEF Working
<1>8. /\ job[p].dir \in {-1, 0, 1} /\ book[i].filled \in Nat /\ pos[p].net \in Int
  BY DEF TypeInv, TypeOK, Job, Targets, Order, Position
<1>9. OrderFill(p)' = OrderFill(p) + job[p].dir /\ OrderFill(p) \in Int
  <2>1. /\ OrderFill(p)' = job[p].dir * (book[i].filled + 1)
        /\ OrderFill(p) = job[p].dir * book[i].filled
    BY <1>1, <1>4, <1>5, <1>7 DEF OrderFill
  <2>2. CASE job[p].dir = -1
    BY <1>8, <2>1, <2>2
  <2>3. CASE job[p].dir = 0
    BY <1>8, <2>1, <2>3
  <2>4. CASE job[p].dir = 1
    BY <1>8, <2>1, <2>4
  <2> QED
    BY <1>8, <2>2, <2>3, <2>4
<1>10. Accounted(pos[p], OrderFill(p))
  BY <1>1 DEF DriftInv, Working
<1>11. ASSUME Holds(pos[p].slot, pos[p].net + OrderFill(p))
       PROVE  Holds(pos[p].slot, pos[p].net + OrderFill(p))'
  <2> DEFINE n == pos[p].net + OrderFill(p)
  <2>1. n \in Int /\ (pos[p].net + OrderFill(p))' = n + job[p].dir
    BY <1>5, <1>8, <1>9
  <2>2. \A s \in Symbols : holding[s] = IF s = SymbolOf(pos[p].slot) THEN n ELSE 0
    BY <1>11 DEF Holds
  <2> HIDE DEF n
  <2>3. \A s \in Symbols :
          holding'[s] = IF s = SymbolOf(pos[p].slot) THEN n + job[p].dir ELSE 0
    BY <1>5, <1>6, <2>2 DEF TypeInv, TypeOK
  <2> QED
    BY <1>5, <2>1, <2>3 DEF Holds, SymbolOf
<1>12. Accounted(pos[p], OrderFill(p))'
  <2>1. (live' => live) /\ (pos[p].manual => pos'[p].manual)
    BY <1>5
  <2> QED
    BY <1>10, <1>11, <2>1 DEF Accounted
<1>13. (\A q \in Procs : pc[q] # "idle" => Accounted(pos[q], OrderFill(q)))'
  <2> SUFFICES ASSUME NEW q \in Procs PROVE Accounted(pos[q], OrderFill(q))'
    OBVIOUS
  <2>1. q = p
    BY <1>2
  <2> QED
    BY <1>12, <2>1
<1>14. (\A q \in Procs : Working(q) =>
          book[oid[q]].symbol = job[q].symbol /\ book[oid[q]].dir = job[q].dir)'
  BY <1>1, <1>2, <1>4, <1>5, <1>6
<1>15. ~(\A q \in Procs : pc'[q] \in BeforeWork)
  BY <1>7 DEF BeforeWork, Working
<1>16. (~saved => row.net = 0 /\ ~row.manual)'
  BY <1>5 DEF DriftInv
<1>17. (\A q \in Procs : pc[q] = "place" \/ Working(q) =>
          job[q].symbol = SymbolOf(pos[q].slot))'
  BY <1>2, <1>5, <1>6
<1> QED
  BY <1>13, <1>14, <1>15, <1>16, <1>17 DEF DriftInv

\* An operation that loads the row starts from what the row accounts for.
LEMMA StartDrift ==
  ASSUME Sequential, TypeInv, DriftInv, NEW p \in Procs,
         StartCycle(p) \/ StartKill(p) \/ StartResume(p)
  PROVE  DriftInv'
<1>1. \A q \in Procs : q = p
  BY DEF Sequential
<1>2. pc[p] = "idle" /\ UNCHANGED <<row, saved, holding, live>>
  BY DEF StartCycle, StartKill, StartResume, dbVars, envVars, exchangeVars
<1>3. Accounted(row, 0)
  BY <1>1, <1>2 DEF DriftInv, BeforeWork
<1>4. ASSUME NEW x, Accounted(x, 0), pos' = [pos EXCEPT ![p] = x]
      PROVE  live => pos'[p].manual \/ Holds(pos'[p].slot, pos'[p].net + 0)
  BY <1>4 DEF Accounted, TypeInv, TypeOK
<1>5. CASE StartCycle(p)
  <2>1. PICK slot \in Accepted : pos' = [pos EXCEPT ![p] = Load(slot)]
    BY <1>5 DEF StartCycle
  <2>2. Accounted(Load(slot), 0)
    BY <1>3, AccountedRow, ConstantsAssumption DEF Slot, TypeInv
  <2>3. pc'[p] = "decide"
    BY <1>5 DEF StartCycle, TypeInv, TypeOK
  <2> QED
    BY <1>2, <1>4, <2>1, <2>2, <2>3, DriftFrame
<1>6. CASE StartKill(p)
  <2>1. Accounted(Load(BlankSlot), 0)
    BY <1>3, AccountedRow, EmptyType DEF TypeInv
  <2>2. pc'[p] = "kill" /\ pos' = [pos EXCEPT ![p] = Load(BlankSlot)]
    BY <1>6 DEF StartKill, TypeInv, TypeOK
  <2> QED
    BY <1>2, <1>3, <1>4, <2>1, <2>2, DriftFrame
<1>7. CASE StartResume(p)
  <2>1. live => Matched
    BY <1>7 DEF StartResume, Sequential
  <2>2. Accounted([Load(BlankSlot) EXCEPT !.manual = FALSE], 0)
    BY <2>1, MatchedRow DEF TypeInv
  <2>3. /\ pc'[p] = "save"
        /\ pos' = [pos EXCEPT ![p] = [Load(BlankSlot) EXCEPT !.manual = FALSE]]
    BY <1>7 DEF StartResume, TypeInv, TypeOK
  <2> QED
    BY <1>2, <1>4, <2>2, <2>3, DriftFrame
<1> QED
  BY <1>5, <1>6, <1>7

\* An operation that returns leaves a row that accounts for the exchange.
LEMMA ReturnDrift ==
  ASSUME Sequential, TypeInv, DriftInv, NEW p \in Procs, KillWithoutPrice(p) \/ Save(p)
  PROVE  DriftInv'
<1>1. \A q \in Procs : q = p
  BY DEF Sequential
<1>2. pc'[p] = "idle" /\ UNCHANGED <<holding, live>>
  BY DEF KillWithoutPrice, Save, Finish, TypeInv, TypeOK, envVars, exchangeVars
<1>3. Accounted(row, 0)'
  <2>1. CASE KillWithoutPrice(p)
    <3>1. Accounted(row, 0)
      BY <1>1, <2>1 DEF KillWithoutPrice, DriftInv, BeforeWork
    <3> QED
      BY <1>2, <2>1, <3>1 DEF KillWithoutPrice, Accounted, Holds, dbVars
  <2>2. CASE Save(p)
    <3>1. pc[p] = "save" /\ OrderFill(p) = 0
      BY <2>2 DEF Save, OrderFill, Working
    <3>2. Accounted(pos[p], 0)
      BY <3>1 DEF DriftInv
    <3>3. /\ row'.manual = pos[p].manual /\ row'.slot = pos[p].slot
          /\ row'.net = pos[p].net
      BY <2>2 DEF Save, TypeInv, TypeOK, Position
    <3> QED
      BY <1>2, <3>2, <3>3 DEF Accounted, Holds
  <2> QED
    BY <2>1, <2>2
<1>4. (~saved => row.net = 0 /\ ~row.manual)'
  BY DEF KillWithoutPrice, Save, dbVars, DriftInv
<1>5. \A q \in Procs : pc'[q] = "idle" /\ ~Working(q)'
  BY <1>1, <1>2 DEF Working
<1> QED
  BY <1>3, <1>4, <1>5 DEF DriftInv

LEMMA DriftStep ==
  ASSUME Sequential
  PROVE  TypeInv /\ WatchInv /\ DriftInv /\ [Next]_vars => DriftInv'
<1> SUFFICES ASSUME TypeInv, WatchInv, DriftInv, [Next]_vars PROVE DriftInv'
  OBVIOUS
<1>1. ASSUME NEW p \in Procs,
             CloseRotated(p) \/ Decide(p) \/ KillFlat(p) \/ KillClose(p)
      PROVE  DriftInv'
  <2>1. /\ pc[p] \in {"decide", "kill"}
        /\ UNCHANGED <<row, saved, holding, live>>
    BY <1>1 DEF CloseRotated, Decide, KillFlat, KillClose, dbVars, envVars, exchangeVars
  <2>2. PICK x \in Position :
          /\ Leaves(p, x) /\ x.net = pos[p].net /\ x.slot = pos[p].slot
          /\ pos[p].manual => x.manual
    BY <1>1, DecideLeaves DEF TypeInv
  <2>3. OrderFill(p) = 0 /\ Accounted(pos[p], OrderFill(p))
    BY <2>1 DEF OrderFill, Working, DriftInv
  <2>4. live => x.manual \/ Holds(x.slot, x.net + 0)
    BY <2>2, <2>3 DEF Accounted
  <2> QED
    BY <2>1, <2>2, <2>4, DriftFrame DEF Leaves
<1>2. ASSUME NEW p \in Procs, ShadowFill(p) \/ PlaceRejected(p)
      PROVE  DriftInv'
  <2>1. pc[p] = "place" /\ UNCHANGED <<row, saved, holding, live>>
    BY <1>2 DEF ShadowFill, PlaceRejected, dbVars, envVars, exchangeVars
  <2>2. job[p].qty \in Nat /\ job[p].dir * 0 = 0
    BY DEF TypeInv, TypeOK, Job, Targets
  <2>3. OrderFill(p) = job[p].dir * 0 /\ Accounted(pos[p], OrderFill(p))
    BY <2>1, <2>2 DEF OrderFill, Working, DriftInv
  <2>4. CASE ShadowFill(p)
    BY <2>1, <2>2, <2>4, SettleDrift DEF ShadowFill
  <2>5. CASE PlaceRejected(p)
    <3>1. Accounted(pos[p], job[p].dir * 0) /\ Settle(p, 0, TRUE)
      BY <2>3, <2>5 DEF PlaceRejected
    <3> QED
      BY <2>1, <3>1, SettleDrift
  <2> QED
    BY <1>2, <2>4, <2>5
<1>3. ASSUME NEW p \in Procs, SeeClosed(p) \/ Refetch(p) \/ RefetchFails(p)
      PROVE  DriftInv'
  <2>1. Working(p) /\ UNCHANGED <<row, saved, holding, live>>
    BY <1>3 DEF SeeClosed, Refetch, RefetchFails, Working, dbVars, envVars
  <2>2. book[oid[p]].filled \in Nat
    BY <2>1 DEF TypeInv, KnowsOrder, TypeOK, Order
  <2>3. Accounted(pos[p], job[p].dir * book[oid[p]].filled)
    BY <2>1 DEF OrderFill, Working, DriftInv
  <2>4. ReportedFills(book[oid[p]]) = {book[oid[p]].filled}
    BY DEF Sequential, ReportedFills
  <2>5. \/ Settle(p, book[oid[p]].filled, TRUE)
        \/ Settle(p, 0, FALSE)
    BY <1>3, <2>4 DEF SeeClosed, Refetch, RefetchFails
  <2> QED
    BY <2>1, <2>2, <2>3, <2>5, SettleDrift
<1>4. CASE Reconcile
  BY <1>4 DEF Reconcile, Settled, DriftInv, BeforeWork, Accounted, Working, dbVars, envVars
<1>5. CASE NewDay \/ UNCHANGED vars
  BY <1>5 DEF NewDay, vars, dbVars, exchangeVars, planVars, DriftInv, BeforeWork, Accounted,
              Holds, OrderFill, Working
<1>6. /\ \A p \in Procs : ~PlaceTimeout(p) /\ ~CancelFails(p) /\ ~Crash(p)
      /\ ~SwitchMode
  BY DEF Sequential, PlaceTimeout, CancelFails, Crash, SwitchMode
<1> QED
  BY <1>1, <1>2, <1>3, <1>4, <1>5, <1>6, StartDrift, ReturnDrift, PlaceDrift, CancelDrift,
     FillDrift DEF Next, Advance

\* One operation at a time, whatever the partial fills, rejections, flips,
\* rotations and failing reads, the row the last operation saved matches the
\* exchange or is halted for reconciliation.
THEOREM NoDrift ==
  ASSUME Sequential
  PROVE  Spec => []NoSilentDrift
<1>1. Init => DriftInv
  BY DEF Init, DriftInv, BeforeWork, Accounted, Holds, EmptyPosition, Working
<1>2. TypeInv /\ DriftInv => NoSilentDrift
  <2> SUFFICES ASSUME TypeInv, DriftInv, live, Settled PROVE row.manual \/ Matched
    BY DEF NoSilentDrift
  <2>1. Accounted(row, 0)
    BY DEF DriftInv, Settled, BeforeWork
  <2>2. row.net + 0 = row.net
    BY DEF TypeInv, TypeOK, Position
  <2> QED
    BY <2>1, <2>2 DEF Accounted, Matched
<1>3. Spec => []WatchInv
  BY SequentialIsReliable, WatchInvariant
<1> QED
  BY <1>1, <1>2, <1>3, DriftStep, TypeInvariant, PTL DEF Spec

-----------------------------------------------------------------------------
(* No halt is lost, one operation at a time, whatever fails around it.     *)

OneAtATime == \A p, q \in Procs : p = q

\* The copy y of the row x keeps the halts of x; resume alone may drop one.
KeepsHalts(x, y, resuming) ==
  /\ x.failed => y.failed
  /\ x.manual => y.manual \/ resuming

HaltInv ==
  /\ ~saved => ~row.failed /\ ~row.manual
  /\ \A p \in Procs : pc[p] # "idle" => KeepsHalts(row, pos[p], op[p] = "resume")
  /\ \A p \in Procs : op[p] = "resume" => pc[p] = "save"

\* A step of the only process that leaves the row alone.
LEMMA HaltFrame ==
  ASSUME OneAtATime, HaltInv, NEW p \in Procs, UNCHANGED <<row, saved>>,
         pc'[p] # "idle", KeepsHalts(row, pos'[p], op'[p] = "resume"),
         op'[p] = "resume" => pc'[p] = "save"
  PROVE  HaltInv'
BY DEF OneAtATime, HaltInv, KeepsHalts

\* Loading the row keeps its halts, resume's halt excepted.
LEMMA HaltStart ==
  ASSUME OneAtATime, TypeInv, HaltInv, NEW p \in Procs,
         StartCycle(p) \/ StartKill(p) \/ StartResume(p)
  PROVE  HaltInv'
<1>1. UNCHANGED <<row, saved>>
  BY DEF StartCycle, StartKill, StartResume, dbVars
<1>2. ASSUME NEW slot \in Slot PROVE KeepsHalts(row, Load(slot), FALSE)
  BY DEF Load, Fresh, KeepsHalts, HaltInv, TypeInv, TypeOK
<1>3. CASE StartCycle(p)
  <2>1. PICK slot \in Accepted : pos'[p] = Load(slot)
    BY <1>3 DEF StartCycle, TypeInv, TypeOK
  <2>2. pc'[p] = "decide" /\ op'[p] = "cycle"
    BY <1>3 DEF StartCycle, TypeInv, TypeOK
  <2> QED
    BY <1>1, <1>2, <2>1, <2>2, HaltFrame, ConstantsAssumption DEF Slot, KeepsHalts
<1>4. CASE StartKill(p)
  <2>1. pc'[p] = "kill" /\ op'[p] = "kill" /\ pos'[p] = Load(BlankSlot)
    BY <1>4 DEF StartKill, TypeInv, TypeOK
  <2> QED
    BY <1>1, <1>2, <2>1, HaltFrame, EmptyType DEF KeepsHalts
<1>5. CASE StartResume(p)
  <2>1. Load(BlankSlot) \in Position
    BY EmptyType, LoadType DEF TypeInv
  <2>2. [Load(BlankSlot) EXCEPT !.manual = FALSE].failed = Load(BlankSlot).failed
    BY <2>1 DEF Position
  <2>3. pc'[p] = "save" /\ op'[p] = "resume"
        /\ pos'[p] = [Load(BlankSlot) EXCEPT !.manual = FALSE]
    BY <1>5 DEF StartResume, TypeInv, TypeOK
  <2> QED
    BY <1>1, <1>2, <2>2, <2>3, HaltFrame, EmptyType DEF KeepsHalts
<1> QED
  BY <1>3, <1>4, <1>5

\* A decision keeps the halts of the copy.
LEMMA HaltDecide ==
  ASSUME OneAtATime, TypeInv, HaltInv, NEW p \in Procs,
         CloseRotated(p) \/ Decide(p) \/ KillFlat(p) \/ KillClose(p)
  PROVE  HaltInv'
<1>1. /\ UNCHANGED <<row, saved, op>> /\ pos[p] \in Position
      /\ pc[p] \in {"decide", "kill"}
  BY DEF CloseRotated, Decide, KillFlat, KillClose, dbVars, planVars, TypeInv, TypeOK
<1>2. KeepsHalts(row, pos[p], FALSE) /\ op[p] # "resume"
  BY <1>1 DEF HaltInv, KeepsHalts
<1>3. ASSUME NEW x \in Position, KeepsHalts(pos[p], x, FALSE),
             \/ Keep(p, x) \/ WantOpen(p, x)
             \/ \E why, quote : WantClose(p, why, x, quote)
      PROVE  HaltInv'
  <2>1. Leaves(p, x)
    BY <1>3, KeepLeaves, WantOpenLeaves, WantCloseLeaves DEF TypeInv
  <2> QED
    BY <1>1, <1>2, <1>3, <2>1, HaltFrame DEF Leaves, KeepsHalts
<1>4. KeepsHalts(pos[p], pos[p], FALSE)
  BY DEF KeepsHalts
<1>5. CASE CloseRotated(p) \/ KillClose(p)
  BY <1>1, <1>3, <1>4, <1>5 DEF CloseRotated, KillClose
<1>6. CASE Decide(p)
  <2>1. PICK breach \in Breaches :
          LET x == Assess(pos[p], breach) IN
          Keep(p, x) \/ WantOpen(p, x) \/ \E why, quote : WantClose(p, why, x, quote)
    BY <1>6 DEF Decide
  <2> DEFINE x == Assess(pos[p], breach)
  <2>2. x \in Position /\ KeepsHalts(pos[p], x, FALSE)
    BY <1>1, AssessType DEF KeepsHalts, TypeInv
  <2> QED
    BY <1>3, <2>1, <2>2
<1>7. CASE KillFlat(p)
  <2> DEFINE x == [pos[p] EXCEPT !.manual = TRUE]
  <2>1. x \in Position /\ KeepsHalts(pos[p], x, FALSE)
    BY <1>1 DEF Position, KeepsHalts
  <2> QED
    BY <1>3, <1>7, <2>1 DEF KillFlat
<1> QED
  BY <1>5, <1>6, <1>7

\* So does recording a fill.
LEMMA HaltSettle ==
  ASSUME OneAtATime, TypeInv, HaltInv, NEW p \in Procs,
         NEW fill \in Nat, NEW sure \in BOOLEAN, Settle(p, fill, sure),
         UNCHANGED <<row, saved, op>>, pc[p] = "place" \/ Working(p)
  PROVE  HaltInv'
<1> DEFINE x == Record(pos[p], job[p], fill, sure)
<1>1. pos[p] \in Position /\ job[p] \in Job
  BY DEF TypeInv, TypeOK
<1>2. x = Record(pos[p], job[p], fill, sure)
  OBVIOUS
<1>3. \/ /\ pos' = [pos EXCEPT ![p] = [x EXCEPT !.slot = sel[p]]]
         /\ pc' = [pc EXCEPT ![p] = "decide"]
      \/ WantOpen(p, x) \/ Keep(p, x)
  BY DEF Settle
<1> HIDE DEF x
<1>4. x \in Position /\ KeepsHalts(pos[p], x, FALSE)
  BY <1>1, <1>2, RecordType DEF KeepsHalts
<1>5. KeepsHalts(row, pos[p], FALSE) /\ op[p] # "resume"
  BY DEF HaltInv, KeepsHalts, Working
<1>6. CASE WantOpen(p, x) \/ Keep(p, x)
  <2>1. Leaves(p, x)
    BY <1>4, <1>6, KeepLeaves, WantOpenLeaves DEF TypeInv
  <2> QED
    BY <1>4, <1>5, <2>1, HaltFrame DEF Leaves, KeepsHalts
<1>7. CASE /\ pos' = [pos EXCEPT ![p] = [x EXCEPT !.slot = sel[p]]]
           /\ pc' = [pc EXCEPT ![p] = "decide"]
  <2>1. /\ pos'[p].failed = x.failed /\ pos'[p].manual = x.manual
        /\ pc'[p] = "decide"
    BY <1>4, <1>7 DEF TypeInv, TypeOK, Position
  <2> QED
    BY <1>4, <1>5, <2>1, HaltFrame DEF KeepsHalts
<1> QED
  BY <1>3, <1>6, <1>7

\* A process that returns has dropped its copy.
LEMMA HaltFinish ==
  ASSUME OneAtATime, TypeInv, HaltInv, NEW p \in Procs, Finish(p),
         ~saved' => ~row'.failed /\ ~row'.manual
  PROVE  HaltInv'
BY DEF OneAtATime, TypeInv, TypeOK, HaltInv, Finish

LEMMA HaltStep ==
  ASSUME OneAtATime
  PROVE  TypeInv /\ HaltInv /\ [Next]_vars => HaltInv'
<1> SUFFICES ASSUME TypeInv, HaltInv, [Next]_vars PROVE HaltInv'
  OBVIOUS
<1>1. ASSUME NEW p \in Procs,
             \/ ShadowFill(p) \/ PlaceRejected(p) \/ PlaceTimeout(p)
             \/ SeeClosed(p) \/ Refetch(p) \/ RefetchFails(p)
      PROVE  HaltInv'
  <2>1. /\ UNCHANGED <<row, saved, op>>
        /\ pc[p] = "place" \/ Working(p)
    BY <1>1 DEF ShadowFill, PlaceRejected, PlaceTimeout, SeeClosed, Refetch, RefetchFails,
                Working, dbVars, planVars
  <2>2. job[p].qty \in Nat /\ (Working(p) => book[oid[p]].filled \in Nat)
    BY DEF TypeInv, KnowsOrder, TypeOK, Job, Order
  <2>3. Working(p) => ReportedFills(book[oid[p]]) \subseteq Nat
    BY <2>2 DEF ReportedFills
  <2>4. \E fill \in Nat, sure \in BOOLEAN : Settle(p, fill, sure)
    BY <1>1, <2>2, <2>3 DEF ShadowFill, PlaceRejected, PlaceTimeout, SeeClosed, Refetch,
                            RefetchFails, Working
  <2> QED
    BY <2>1, <2>4, HaltSettle
<1>2. ASSUME NEW p \in Procs, PlaceAccepted(p) \/ CancelOrder(p) \/ CancelFails(p)
      PROVE  HaltInv'
  <2>1. /\ UNCHANGED <<row, saved, op, pos>>
        /\ pc'[p] \in {"working", "refetch"} /\ pc[p] \in {"place", "working"}
    BY <1>2 DEF PlaceAccepted, CancelOrder, CancelFails, dbVars, planVars, TypeInv, TypeOK
  <2>2. KeepsHalts(row, pos[p], FALSE) /\ op[p] # "resume"
    BY <2>1 DEF HaltInv, KeepsHalts
  <2> QED
    BY <2>1, <2>2, HaltFrame DEF KeepsHalts
<1>3. ASSUME NEW p \in Procs, KillWithoutPrice(p) \/ Save(p) \/ Crash(p)
      PROVE  HaltInv'
  <2>1. Finish(p) /\ (~saved' => ~row'.failed /\ ~row'.manual)
    BY <1>3 DEF KillWithoutPrice, Save, Crash, dbVars, HaltInv
  <2> QED
    BY <2>1, HaltFinish
<1>4. CASE (\E i \in Orders : Fill(i)) \/ Reconcile \/ NewDay \/ SwitchMode \/ UNCHANGED vars
  BY <1>4 DEF Fill, Reconcile, NewDay, SwitchMode, vars, dbVars, planVars, HaltInv
<1> QED
  BY <1>1, <1>2, <1>3, <1>4, HaltStart, HaltDecide DEF Next, Advance

\* What one step may do to the halts of the row.
LEMMA RowStep ==
  ASSUME TypeInv, HaltInv, [Next]_vars
  PROVE  /\ row.failed => row'.failed
         /\ row.manual /\ ~row'.manual =>
              \E p \in Procs : op[p] = "resume" /\ pc[p] = "save"
<1>1. ASSUME NEW p \in Procs, Save(p)
      PROVE  /\ row.failed => row'.failed
             /\ row.manual /\ ~row'.manual => op[p] = "resume" /\ pc[p] = "save"
  <2>1. /\ row'.failed = pos[p].failed /\ row'.manual = pos[p].manual
        /\ pc[p] = "save"
    BY <1>1 DEF Save, TypeInv, TypeOK, Position
  <2> QED
    BY <2>1 DEF HaltInv, KeepsHalts
<1>2. CASE UNCHANGED row
  BY <1>2
<1>3. (\E p \in Procs : Save(p)) \/ UNCHANGED row
  BY DEF Next, Advance, StartCycle, StartKill, StartResume, CloseRotated, Decide, KillFlat,
         KillClose, KillWithoutPrice, ShadowFill, PlaceAccepted, PlaceRejected, PlaceTimeout,
         SeeClosed, CancelOrder, CancelFails, Refetch, RefetchFails, Crash, Fill, Reconcile,
         NewDay, SwitchMode, dbVars, vars
<1> QED
  BY <1>1, <1>2, <1>3

LEMMA HaltInvariant ==
  ASSUME OneAtATime
  PROVE  Spec => []HaltInv
<1>1. Init => HaltInv
  BY DEF Init, HaltInv, EmptyPosition
<1> QED
  BY <1>1, HaltStep, TypeInvariant, PTL DEF Spec

\* One operation at a time, an account that failed stays failed: no rollover,
\* crash, rotation, resume or mode switch brings it back.
THEOREM FailureSticks ==
  ASSUME OneAtATime
  PROVE  Spec => FailureIsSticky
<1>1. TypeInv /\ HaltInv /\ [Next]_vars => [row.failed => row'.failed]_vars
  BY RowStep
<1> QED
  BY <1>1, HaltInvariant, TypeInvariant, PTL DEF Spec, FailureIsSticky

\* One operation at a time, manual_halt is lifted by resume_trading alone.
THEOREM ManualHaltSticks ==
  ASSUME OneAtATime
  PROVE  Spec => ManualHaltIsSticky
<1>1. TypeInv /\ HaltInv /\ [Next]_vars =>
        [row.manual /\ ~row'.manual =>
           \E p \in Procs : op[p] = "resume" /\ pc[p] = "save"]_vars
  BY RowStep
<1> QED
  BY <1>1, HaltInvariant, TypeInvariant, PTL DEF Spec, ManualHaltIsSticky
-----------------------------------------------------------------------------
(* Nothing opens on top of what is held, or past a halt.                   *)

\* An order at the exchange is the one its process asked for, in live mode;
\* an opening one went out from a flat copy that nothing halts.
Asked(p) ==
  Working(p) => /\ live
                /\ book[oid[p]].why = job[p].why
                /\ job[p].why = "open" => Unhalted(pos[p])
StackInv == \A p \in Procs : Asked(p)

LEMMA StackStep ==
  ASSUME Sequential
  PROVE  TypeInv /\ WatchInv /\ GateInv /\ StackInv /\ [Next]_vars => StackInv'
<1> SUFFICES ASSUME TypeInv, WatchInv, GateInv, StackInv, [Next]_vars PROVE StackInv'
  OBVIOUS
<1>1. ASSUME NEW p \in Procs, ~Working(p)' PROVE StackInv'
  BY <1>1 DEF StackInv, Asked, Sequential, Working
<1>2. ASSUME NEW p \in Procs,
             \/ StartCycle(p) \/ StartKill(p) \/ StartResume(p)
             \/ CloseRotated(p) \/ Decide(p) \/ KillFlat(p) \/ KillClose(p)
             \/ KillWithoutPrice(p) \/ Save(p)
      PROVE  StackInv'
  <2>1. ~Working(p)'
    BY <1>2 DEF StartCycle, StartKill, StartResume, CloseRotated, Decide, KillFlat, KillClose,
                WantClose, WantOpen, Want, Keep, KillWithoutPrice, Save, Finish, Working,
                TypeInv, TypeOK
  <2> QED
    BY <1>1, <2>1
<1>3. ASSUME NEW p \in Procs,
             ShadowFill(p) \/ PlaceRejected(p) \/ SeeClosed(p) \/ Refetch(p) \/ RefetchFails(p)
      PROVE  StackInv'
  <2>1. job[p].qty \in Nat /\ (Working(p) => book[oid[p]].filled \in Nat)
    BY DEF TypeInv, KnowsOrder, TypeOK, Job, Order
  <2>2. Working(p) => ReportedFills(book[oid[p]]) \subseteq Nat
    BY <2>1 DEF ReportedFills
  <2>3. \E fill \in Nat, sure \in BOOLEAN : Settle(p, fill, sure)
    BY <1>3, <2>1, <2>2 DEF ShadowFill, PlaceRejected, SeeClosed, Refetch, RefetchFails, Working
  <2> QED
    BY <1>1, <2>3, SettleType DEF TypeInv, Working
<1>4. ASSUME NEW p \in Procs, PlaceAccepted(p) PROVE StackInv'
  <2>1. PICK i \in Orders : /\ book' = [book EXCEPT ![i] = Resting(p)]
                            /\ oid' = [oid EXCEPT ![p] = i]
    BY <1>4 DEF PlaceAccepted
  <2>2. /\ live' /\ UNCHANGED <<job, pos>> /\ book'[oid'[p]].why = job[p].why
        /\ pc[p] = "place"
    BY <1>4, <2>1 DEF PlaceAccepted, envVars, TypeInv, TypeOK, Resting
  <2>3. job[p].why = "open" => Unhalted(pos[p])
    BY <2>2 DEF GateInv, Gate, OpenJob
  <2> QED
    BY <2>2, <2>3 DEF Sequential, StackInv, Asked, Unhalted
<1>5. ASSUME NEW p \in Procs, CancelOrder(p) PROVE StackInv'
  <2>1. /\ Working(p) /\ oid[p] \in Orders /\ UNCHANGED <<job, pos, oid, live>>
    BY <1>5 DEF CancelOrder, Working, TypeInv, KnowsOrder, envVars
  <2>2. book'[oid[p]].why = book[oid[p]].why
    BY <1>5, <2>1 DEF CancelOrder, TypeInv, TypeOK, Order
  <2> QED
    BY <2>1, <2>2 DEF Sequential, StackInv, Asked, Unhalted
<1>6. ASSUME NEW i \in Orders, Fill(i) PROVE StackInv'
  <2>1. PICK p \in Procs : Working(p) /\ oid[p] = i
    BY <1>6 DEF Fill, WatchInv, Watched, Working
  <2>2. book'[i].why = book[i].why
    BY <1>6, <2>1 DEF Fill, Watched, Working, TypeInv, TypeOK, Order
  <2>3. UNCHANGED <<job, pos, oid, pc, live>>
    BY <1>6 DEF Fill, envVars
  <2> QED
    BY <2>1, <2>2, <2>3 DEF Sequential, StackInv, Asked, Working, Unhalted
<1>7. CASE Reconcile \/ SwitchMode
  BY <1>7 DEF Reconcile, SwitchMode, Settled, StackInv, Asked, Working
<1>8. CASE NewDay \/ UNCHANGED vars
  BY <1>8 DEF NewDay, vars, exchangeVars, StackInv, Asked, Working, Unhalted
<1>9. \A p \in Procs : ~PlaceTimeout(p) /\ ~CancelFails(p) /\ ~Crash(p)
  BY DEF Sequential, PlaceTimeout, CancelFails, Crash
<1> QED
  BY <1>2, <1>3, <1>4, <1>5, <1>6, <1>7, <1>8, <1>9 DEF Next, Advance

LEMMA GateInvariant == Spec => []GateInv
<1>1. Init => GateInv
  BY DEF Init, GateInv, Gate, OpenJob, FlipJob
<1> QED
  BY <1>1, GateStep, TypeInvariant, PTL DEF Spec

LEMMA DriftInvariant == ASSUME Sequential PROVE Spec => []DriftInv
<1>1. Init => DriftInv
  BY DEF Init, DriftInv, BeforeWork, Accounted, Holds, EmptyPosition, Working
<1>2. Spec => []WatchInv
  BY SequentialIsReliable, WatchInvariant
<1> QED
  BY <1>1, <1>2, DriftStep, TypeInvariant, PTL DEF Spec

\* One operation at a time, an opening order never goes on top of a stale,
\* rotated or half-closed position: the copy it started from was flat and
\* accounted for the exchange, so that the exchange holds the order's own
\* fills and nothing else.
THEOREM NothingStacks ==
  ASSUME Sequential
  PROVE  Spec => []NoStacking
<1>1. Init => StackInv
  BY DEF Init, StackInv, Asked, Working
<1>2. TypeInv /\ WatchInv /\ DriftInv /\ StackInv => NoStacking
  <2> SUFFICES ASSUME TypeInv, WatchInv, DriftInv, StackInv,
                      NEW i \in Orders, book[i].status = "open", book[i].why = "open",
                      NEW s \in Symbols
               PROVE  holding[s] =
                        IF s = book[i].symbol THEN book[i].dir * book[i].filled ELSE 0
    BY DEF NoStacking
  <2>1. PICK p \in Procs : Working(p) /\ oid[p] = i
    BY DEF WatchInv, Watched, Working
  <2>2. live /\ Unhalted(pos[p])
    BY <2>1 DEF StackInv, Asked
  <2>3. Accounted(pos[p], OrderFill(p))
    BY <2>1 DEF DriftInv, Working
  <2>4. /\ book[i].symbol = SymbolOf(pos[p].slot)
        /\ OrderFill(p) = book[i].dir * book[i].filled
    BY <2>1 DEF DriftInv, OrderFill
  <2>5. book[i].dir * book[i].filled \in Int
    BY DEF TypeInv, TypeOK, Order, Targets
  <2>6. holding[s] = IF s = SymbolOf(pos[p].slot) THEN pos[p].net + OrderFill(p) ELSE 0
    BY <2>2, <2>3 DEF Accounted, Unhalted, Holds
  <2> QED
    BY <2>2, <2>4, <2>5, <2>6 DEF Unhalted
<1>3. Spec => []WatchInv
  BY SequentialIsReliable, WatchInvariant
<1> QED
  BY <1>1, <1>2, <1>3, StackStep, GateInvariant, DriftInvariant, TypeInvariant, PTL DEF Spec

\* Which steps put an order at the exchange.
LEMMA PlacedBy ==
  ASSUME TypeInv, [Next]_vars, NEW i \in Orders, Placed(i)
  PROVE  \E p \in Procs : /\ PlaceAccepted(p) \/ PlaceTimeout(p)
                          /\ book'[i] = Resting(p)
<1>1. ASSUME NEW p \in Procs, PlaceAccepted(p) \/ PlaceTimeout(p)
      PROVE  book'[i] = Resting(p)
  BY <1>1 DEF Placed, PlaceAccepted, PlaceTimeout, TypeInv, TypeOK
<1>2. ASSUME NEW k \in Orders, book' = Release(k) PROVE FALSE
  BY <1>2, ReleaseType, UnusedStatus DEF Placed, TypeInv
<1>3. ASSUME NEW p \in Procs, CancelOrder(p) PROVE FALSE
  <2>1. oid[p] \in Orders
    BY <1>3 DEF CancelOrder, TypeInv, KnowsOrder, Working
  <2> QED
    BY <1>3, <2>1 DEF CancelOrder, Placed, TypeInv, TypeOK, Order
<1>4. ASSUME NEW k \in Orders, Fill(k) PROVE FALSE
  BY <1>4, UnusedStatus DEF Fill, Placed, TypeInv, TypeOK, Order
<1>5. ASSUME NEW p \in Procs, SeeClosed(p) \/ Refetch(p) \/ RefetchFails(p) \/ Crash(p)
      PROVE  FALSE
  <2>1. Working(p) => oid[p] \in Orders
    BY DEF TypeInv, KnowsOrder
  <2>2. book' = book \/ (Working(p) /\ book' = Release(oid[p]))
    BY <1>5 DEF SeeClosed, Refetch, RefetchFails, Crash, Working
  <2> QED
    BY <2>1, <2>2, <1>2 DEF Placed
<1>6. CASE Reconcile
  BY <1>6, UnusedStatus DEF Reconcile, Placed
<1>7. CASE UNCHANGED book
  BY <1>7 DEF Placed
<1>8. \/ \E p \in Procs : PlaceAccepted(p) \/ PlaceTimeout(p)
      \/ \E p \in Procs : CancelOrder(p)
      \/ \E p \in Procs : SeeClosed(p) \/ Refetch(p) \/ RefetchFails(p) \/ Crash(p)
      \/ \E k \in Orders : Fill(k)
      \/ Reconcile \/ UNCHANGED book
  BY DEF Next, Advance, StartCycle, StartKill, StartResume, CloseRotated, Decide, KillFlat,
         KillClose, KillWithoutPrice, ShadowFill, PlaceRejected, CancelFails, Save,
         NewDay, SwitchMode, exchangeVars, vars
<1> QED
  BY <1>1, <1>3, <1>4, <1>5, <1>6, <1>7, <1>8

\* One operation at a time, whatever fails around it, safety gate 3 holds at
\* the exchange: no opening order is placed while the stored row says
\* manual_halt or account_failed.
THEOREM HaltedOpensNothing ==
  ASSUME OneAtATime
  PROVE  Spec => NoOpenWhileHalted
<1>1. ASSUME TypeInv, GateInv, HaltInv, [Next]_vars
      PROVE  [\A i \in Orders : Placed(i) /\ book'[i].why = "open" =>
                ~row.manual /\ ~row.failed]_vars
  <2> SUFFICES ASSUME NEW i \in Orders, Placed(i), book'[i].why = "open"
               PROVE  ~row.manual /\ ~row.failed
    OBVIOUS
  <2>1. PICK p \in Procs : /\ PlaceAccepted(p) \/ PlaceTimeout(p)
                           /\ book'[i] = Resting(p)
    BY <1>1, PlacedBy
  <2>2. pc[p] = "place" /\ job[p].why = "open"
    <3>1. Resting(p).why = job[p].why
      BY DEF Resting
    <3>2. pc[p] = "place"
      BY <2>1 DEF PlaceAccepted, PlaceTimeout
    <3> QED
      BY <2>1, <3>1, <3>2
  <2>3. ~pos[p].manual /\ ~pos[p].failed
    BY <1>1, <2>2 DEF GateInv, Gate, OpenJob, Unhalted
  <2>4. KeepsHalts(row, pos[p], op[p] = "resume") /\ op[p] # "resume"
    BY <1>1, <2>2 DEF HaltInv
  <2> QED
    BY <2>3, <2>4 DEF KeepsHalts
<1> QED
  BY <1>1, HaltInvariant, GateInvariant, TypeInvariant, PTL DEF Spec, NoOpenWhileHalted

-----------------------------------------------------------------------------
(* The kill switch, for any number of processes.                           *)

\* Every close that the kill switch settles, and every flat copy it halts.
KillInv ==
  \A p \in Procs : op[p] = "kill" =>
    /\ pc[p] \in {"kill", "place", "working", "refetch", "save"}
    /\ pc[p] \in {"place", "working", "refetch"} => job[p].why = "kill"
    /\ pc[p] = "save" => pos[p].manual
\* What a process that does not run the kill switch does is of no account.
LEMMA KillFrame ==
  ASSUME KillInv, NEW p \in Procs,
         \A q \in Procs : q # p =>
           op'[q] = op[q] /\ pc'[q] = pc[q] /\ job'[q] = job[q] /\ pos'[q] = pos[q],
         op'[p] = "kill" =>
           /\ pc'[p] \in {"kill", "place", "working", "refetch", "save"}
           /\ pc'[p] \in {"place", "working", "refetch"} => job'[p].why = "kill"
           /\ pc'[p] = "save" => pos'[p].manual
  PROVE  KillInv'
BY DEF KillInv

LEMMA KillStep ==
  ASSUME TypeInv, KillInv, [Next]_vars
  PROVE  KillInv'
<1>1. ASSUME NEW p \in Procs, StartCycle(p) \/ StartKill(p) \/ StartResume(p)
      PROVE  KillInv'
  BY <1>1 DEF StartCycle, StartKill, StartResume, KillInv, TypeInv, TypeOK
<1>2. ASSUME NEW p \in Procs, Finish(p) PROVE KillInv'
  BY <1>2 DEF Finish, KillInv, TypeInv, TypeOK
<1>3. ASSUME NEW p \in Procs, CloseRotated(p) \/ Decide(p)
      PROVE  KillInv'
  <2>1. op[p] # "kill" \/ pc[p] = "kill"
    BY <1>3 DEF CloseRotated, Decide, KillInv
  <2>2. pc[p] = "decide" /\ op' = op
    BY <1>3 DEF CloseRotated, Decide, planVars
  <2>3. \A q \in Procs : q # p => pc'[q] = pc[q] /\ job'[q] = job[q] /\ pos'[q] = pos[q]
    BY <1>3 DEF CloseRotated, Decide, WantClose, WantOpen, Want, Keep, TypeInv, TypeOK
  <2> QED
    BY <2>1, <2>2, <2>3, KillFrame
<1>4. ASSUME NEW p \in Procs, KillFlat(p) \/ KillClose(p)
      PROVE  KillInv'
  <2>1. op' = op
    BY <1>4 DEF KillFlat, KillClose, planVars
  <2>2. \A q \in Procs : q # p => pc'[q] = pc[q] /\ job'[q] = job[q] /\ pos'[q] = pos[q]
    BY <1>4 DEF KillFlat, KillClose, WantClose, Want, Keep, TypeInv, TypeOK
  <2>3. \/ pc'[p] = "save" /\ pos'[p].manual
        \/ pc'[p] = "place" /\ job'[p].why = "kill"
    <3>1. CASE KillFlat(p)
      BY <3>1 DEF KillFlat, Keep, TypeInv, TypeOK, Position
    <3>2. CASE KillClose(p)
      BY <3>2 DEF KillClose, WantClose, Want, TypeInv, TypeOK
    <3> QED
      BY <1>4, <3>1, <3>2
  <2> QED
    BY <2>1, <2>2, <2>3, KillFrame
<1>5. ASSUME NEW p \in Procs, NEW fill \in Nat, NEW sure \in BOOLEAN, Settle(p, fill, sure),
             op' = op, pc[p] \in {"place", "working", "refetch"}
      PROVE  KillInv'
  <2> DEFINE x == Record(pos[p], job[p], fill, sure)
  <2>1. \A q \in Procs : q # p => pc'[q] = pc[q] /\ job'[q] = job[q] /\ pos'[q] = pos[q]
    BY <1>5 DEF Settle, WantOpen, Want, Keep, TypeInv, TypeOK
  <2>2. pos[p] \in Position /\ job[p] \in Job
    BY DEF TypeInv, TypeOK
  <2>3. job[p].why = "kill" => x.manual
    BY <2>2 DEF Record, Position
  <2>4. job[p].why = "kill" => Keep(p, x)
    BY <1>5 DEF Settle, Reopens
  <2> HIDE DEF x
  <2>5. op[p] = "kill" => pc'[p] = "save" /\ pos'[p].manual
    BY <1>5, <2>3, <2>4 DEF KillInv, Keep, TypeInv, TypeOK
  <2> QED
    BY <1>5, <2>1, <2>5, KillFrame
<1>6. ASSUME NEW p \in Procs,
             \/ ShadowFill(p) \/ PlaceRejected(p) \/ PlaceTimeout(p)
             \/ SeeClosed(p) \/ Refetch(p) \/ RefetchFails(p)
      PROVE  KillInv'
  <2>1. op' = op /\ pc[p] \in {"place", "working", "refetch"}
    BY <1>6 DEF ShadowFill, PlaceRejected, PlaceTimeout, SeeClosed, Refetch, RefetchFails, planVars
  <2>2. job[p].qty \in Nat /\ (Working(p) => book[oid[p]].filled \in Nat)
    BY DEF TypeInv, KnowsOrder, TypeOK, Job, Order
  <2>3. Working(p) => ReportedFills(book[oid[p]]) \subseteq Nat
    BY <2>2 DEF ReportedFills
  <2>4. \E fill \in Nat, sure \in BOOLEAN : Settle(p, fill, sure)
    BY <1>6, <2>2, <2>3 DEF ShadowFill, PlaceRejected, PlaceTimeout, SeeClosed, Refetch,
                            RefetchFails, Working
  <2> QED
    BY <1>5, <2>1, <2>4
<1>7. ASSUME NEW p \in Procs, PlaceAccepted(p) \/ CancelOrder(p) \/ CancelFails(p)
      PROVE  KillInv'
  BY <1>7 DEF PlaceAccepted, CancelOrder, CancelFails, planVars, KillInv, TypeInv, TypeOK
<1>8. ASSUME NEW p \in Procs, KillWithoutPrice(p) \/ Save(p) \/ Crash(p)
      PROVE  KillInv'
  BY <1>2, <1>8 DEF KillWithoutPrice, Save, Crash
<1>9. CASE (\E i \in Orders : Fill(i)) \/ Reconcile \/ NewDay \/ SwitchMode \/ UNCHANGED vars
  BY <1>9 DEF Fill, Reconcile, NewDay, SwitchMode, vars, planVars, KillInv
<1> QED
  BY <1>1, <1>3, <1>4, <1>6, <1>7, <1>8, <1>9 DEF Next, Advance

\* A kill switch that has a price and is not itself killed returns with
\* manual_halt stored, whatever its close order filled, timed out or failed to
\* report, and whatever the other processes save at the same time.
THEOREM KillSwitchHalts ==
  ASSUME Faults \cap {"crash", "noBars"} = {}
  PROVE  Spec => KillHalts
<1>1. Init => KillInv
  BY DEF Init, KillInv
<1>2. ASSUME TypeInv, KillInv, [Next]_vars
      PROVE  [\A p \in Procs : op[p] = "kill" /\ pc'[p] = "idle" => row'.manual]_vars
  <2> SUFFICES ASSUME NEW p \in Procs, op[p] = "kill", pc'[p] = "idle", Next
               PROVE  row'.manual
    BY <1>2
  <2>1. pc[p] # "idle"
    BY <1>2 DEF KillInv
  <2>2. Save(p)
    <3>1. ASSUME NEW q \in Procs,
                 \/ StartCycle(q) \/ StartKill(q) \/ StartResume(q)
                 \/ CloseRotated(q) \/ Decide(q) \/ KillFlat(q) \/ KillClose(q)
                 \/ PlaceAccepted(q) \/ CancelOrder(q) \/ CancelFails(q)
          PROVE  FALSE
      BY <1>2, <2>1, <3>1 DEF StartCycle, StartKill, StartResume, CloseRotated, Decide, KillFlat,
           KillClose, WantClose, WantOpen, Want, Keep, PlaceAccepted, CancelOrder, CancelFails,
           TypeInv, TypeOK
    <3>2. ASSUME NEW q \in Procs, NEW fill \in Nat, NEW sure \in BOOLEAN, Settle(q, fill, sure)
          PROVE  FALSE
      BY <1>2, <2>1, <3>2, SettleType DEF TypeInv
    <3>3. ASSUME NEW q \in Procs,
                 \/ ShadowFill(q) \/ PlaceRejected(q) \/ PlaceTimeout(q)
                 \/ SeeClosed(q) \/ Refetch(q) \/ RefetchFails(q)
          PROVE  FALSE
      <4>1. job[q].qty \in Nat /\ (Working(q) => book[oid[q]].filled \in Nat)
        BY <1>2 DEF TypeInv, KnowsOrder, TypeOK, Job, Order
      <4>2. Working(q) => ReportedFills(book[oid[q]]) \subseteq Nat
        BY <4>1 DEF ReportedFills
      <4>3. \E fill \in Nat, sure \in BOOLEAN : Settle(q, fill, sure)
        BY <3>3, <4>1, <4>2 DEF ShadowFill, PlaceRejected, PlaceTimeout, SeeClosed, Refetch,
                                RefetchFails, Working
      <4> QED
        BY <3>2, <4>3
    <3>4. ~UNCHANGED pc
      BY <2>1
    <3>5. ~(\E i \in Orders : Fill(i)) /\ ~Reconcile /\ ~NewDay /\ ~SwitchMode
      BY <3>4 DEF Fill, Reconcile, NewDay, SwitchMode
    <3>6. \A q \in Procs : ~KillWithoutPrice(q) /\ ~Crash(q)
      BY DEF KillWithoutPrice, Crash
    <3>7. PICK q \in Procs : Save(q)
      BY <3>1, <3>3, <3>5, <3>6 DEF Next, Advance
    <3>8. q = p
      BY <1>2, <2>1, <3>7 DEF Save, Finish, TypeInv, TypeOK
    <3> QED
      BY <3>7, <3>8
  <2>3. pos[p].manual /\ pos[p] \in Position
    BY <1>2, <2>2 DEF Save, KillInv, TypeInv, TypeOK
  <2> QED
    BY <2>2, <2>3 DEF Save, Position
<1> QED
  BY <1>1, <1>2, KillStep, TypeInvariant, PTL DEF Spec, KillHalts

-----------------------------------------------------------------------------
(* The account at the exchange.                                            *)

\* A closing order asks for what the copy holds, against its side.
Closes(x, j) == x.net # 0 /\ j.dir = Against(x.net) /\ j.qty = Abs(x.net)

\* The order a process is about to place or waits for.
Ordering(x, j) == j.qty \in Nat \ {0} /\ (j.why # "open" => Closes(x, j))

\* A copy in hand is halted only where the row is, until it is saved; an order
\* that still rests is not filled to the end.
Handled(p) ==
  /\ pc[p] \in {"decide", "kill", "place", "working", "refetch"} /\ pos[p].manual => row.manual
  /\ pc[p] \in {"place", "working", "refetch"} => Ordering(pos[p], job[p])
  /\ Working(p) =>
       /\ book[oid[p]].qty = job[p].qty
       /\ book[oid[p]].status = "open" => book[oid[p]].filled < book[oid[p]].qty
HandInv == \A p \in Procs : Handled(p)

\* The process leaves its step without an order at the exchange.
HandsOn(p) ==
  /\ pc'[p] \in {"decide", "kill", "place", "save"}
  /\ pc'[p] # "save" /\ pos'[p].manual => row.manual
  /\ pc'[p] = "place" => Ordering(pos'[p], job'[p])

LEMMA HandFrame ==
  ASSUME Sequential, NEW p \in Procs, row' = row, HandsOn(p)
  PROVE  HandInv'
<1>1. Handled(p)'
  BY DEF HandsOn, Handled, Working, Ordering, Closes
<1> QED
  BY <1>1, Zenon DEF Sequential, HandInv

LEMMA WantCloseHands ==
  ASSUME TypeOK, NEW p \in Procs, NEW why, NEW x \in Position, NEW quote,
         WantClose(p, why, x, quote), x.net # 0, x.manual => row.manual
  PROVE  HandsOn(p)
<1>1. /\ pos'[p] = x /\ pc'[p] = "place"
      /\ job'[p].dir = Against(x.net) /\ job'[p].qty = Abs(x.net)
  BY DEF WantClose, Want, TypeOK
<1>2. Abs(x.net) \in Nat \ {0}
  BY DEF Abs, Position
<1> QED
  BY <1>1, <1>2 DEF HandsOn, Ordering, Closes

LEMMA WantOpenHands ==
  ASSUME TypeOK, NEW p \in Procs, NEW x \in Position, WantOpen(p, x), ~x.manual
  PROVE  HandsOn(p)
<1>1. PICK q \in 1..MaxQty : Want(p, "open", x, target[p], q, SymbolOf(sel[p]))
  BY DEF WantOpen
<1>2. pos'[p] = x /\ pc'[p] = "place" /\ job'[p].why = "open" /\ job'[p].qty = q
  BY <1>1 DEF Want, TypeOK
<1>3. q \in Nat \ {0}
  BY ConstantsAssumption
<1> QED
  BY <1>2, <1>3 DEF HandsOn, Ordering

LEMMA KeepHands ==
  ASSUME TypeOK, NEW p \in Procs, NEW x, Keep(p, x)
  PROVE  HandsOn(p)
BY DEF Keep, HandsOn, TypeOK

LEMMA DecideHands ==
  ASSUME TypeOK, NEW p \in Procs, Handled(p),
         CloseRotated(p) \/ Decide(p) \/ KillFlat(p) \/ KillClose(p)
  PROVE  HandsOn(p)
<1>1. pos[p] \in Position
  BY DEF TypeOK
<1>2. pos[p].manual => row.manual
  BY DEF Handled, CloseRotated, Decide, KillFlat, KillClose
<1>3. CASE CloseRotated(p) \/ KillClose(p)
  BY <1>1, <1>2, <1>3, WantCloseHands DEF CloseRotated, Rotated, KillClose
<1>4. CASE KillFlat(p)
  BY <1>4, KeepHands DEF KillFlat
<1>5. CASE Decide(p)
  <2>1. PICK breach \in Breaches :
          LET x == Assess(pos[p], breach) IN
          \/ Keep(p, x)
          \/ MayTrade(x) /\ WantOpen(p, x)
          \/ x.net # 0 /\ \E why, quote : WantClose(p, why, x, quote)
    BY <1>5 DEF Decide
  <2>2. /\ Assess(pos[p], breach) \in Position
        /\ Assess(pos[p], breach).manual = pos[p].manual
    BY <1>1, AssessType
  <2> QED
    BY <1>2, <2>1, <2>2, KeepHands, WantOpenHands, WantCloseHands DEF MayTrade
<1> QED
  BY <1>3, <1>4, <1>5

LEMMA SettleHands ==
  ASSUME TypeOK, NEW p \in Procs, NEW fill \in Nat, NEW sure \in BOOLEAN,
         Settle(p, fill, sure), Handled(p), pc[p] \in {"place", "working", "refetch"}
  PROVE  HandsOn(p)
<1> DEFINE x == Record(pos[p], job[p], fill, sure)
<1>1. pos[p] \in Position /\ job[p] \in Job
  BY DEF TypeOK
<1>2. x \in Position /\ x.manual = (pos[p].manual \/ ~sure \/ job[p].why = "kill")
  BY <1>1, RecordType
<1> HIDE DEF x
<1>3. CASE /\ job[p].why = "rotation" /\ sure
           /\ pos' = [pos EXCEPT ![p] = [x EXCEPT !.slot = sel[p]]]
           /\ pc' = [pc EXCEPT ![p] = "decide"]
  <2>1. pc'[p] = "decide" /\ pos'[p].manual = x.manual
    BY <1>2, <1>3 DEF TypeOK, Position
  <2>2. x.manual => row.manual
    BY <1>2, <1>3 DEF Handled
  <2> QED
    BY <2>1, <2>2 DEF HandsOn
<1>4. CASE Reopens(job[p], x, sure) /\ WantOpen(p, x)
  BY <1>2, <1>4, WantOpenHands DEF Reopens
<1>5. CASE Keep(p, x)
  BY <1>5, KeepHands
<1> QED
  BY <1>3, <1>4, <1>5 DEF Settle, x

LEMMA LoadHands ==
  ASSUME TypeOK, HaltInv, NEW slot
  PROVE  Load(slot).manual => row.manual
BY DEF TypeOK, Load, Fresh

LEMMA StartHands ==
  ASSUME TypeOK, HaltInv, NEW p \in Procs, StartCycle(p) \/ StartKill(p) \/ StartResume(p)
  PROVE  HandsOn(p)
<1>1. CASE StartCycle(p) \/ StartKill(p)
  <2>1. PICK slot : pos' = [pos EXCEPT ![p] = Load(slot)]
    BY <1>1 DEF StartCycle, StartKill
  <2>2. pos'[p].manual => row.manual
    BY <2>1, LoadHands DEF TypeOK
  <2>3. pc'[p] \in {"decide", "kill"}
    BY <1>1 DEF StartCycle, StartKill, TypeOK
  <2> QED
    BY <2>2, <2>3 DEF HandsOn
<1>2. CASE StartResume(p)
  BY <1>2 DEF StartResume, HandsOn, TypeOK
<1> QED
  BY <1>1, <1>2

LEMMA HandStep ==
  ASSUME Sequential
  PROVE  TypeInv /\ WatchInv /\ HaltInv /\ HandInv /\ [Next]_vars => HandInv'
<1> SUFFICES ASSUME TypeInv, WatchInv, HaltInv, HandInv, [Next]_vars PROVE HandInv'
  OBVIOUS
<1>1. ASSUME NEW p \in Procs,
             \/ StartCycle(p) \/ StartKill(p) \/ StartResume(p)
             \/ CloseRotated(p) \/ Decide(p) \/ KillFlat(p) \/ KillClose(p)
      PROVE  HandInv'
  <2>1. row' = row
    BY <1>1 DEF StartCycle, StartKill, StartResume, CloseRotated, Decide, KillFlat, KillClose,
                dbVars
  <2>2. HandsOn(p)
    BY <1>1, StartHands, DecideHands DEF TypeInv, HandInv
  <2> QED
    BY <2>1, <2>2, HandFrame
<1>2. ASSUME NEW p \in Procs,
             ShadowFill(p) \/ PlaceRejected(p) \/ SeeClosed(p) \/ Refetch(p) \/ RefetchFails(p)
      PROVE  HandInv'
  <2>1. job[p].qty \in Nat /\ (Working(p) => book[oid[p]].filled \in Nat)
    BY DEF TypeInv, KnowsOrder, TypeOK, Job, Order
  <2>2. Working(p) => ReportedFills(book[oid[p]]) \subseteq Nat
    BY <2>1 DEF ReportedFills
  <2>3. \E fill \in Nat, sure \in BOOLEAN : Settle(p, fill, sure)
    BY <1>2, <2>1, <2>2 DEF ShadowFill, PlaceRejected, SeeClosed, Refetch, RefetchFails, Working
  <2>4. pc[p] \in {"place", "working", "refetch"} /\ row' = row
    BY <1>2 DEF ShadowFill, PlaceRejected, SeeClosed, Refetch, RefetchFails, dbVars
  <2> QED
    BY <2>3, <2>4, SettleHands, HandFrame DEF TypeInv, HandInv
<1>3. ASSUME NEW p \in Procs, PlaceAccepted(p) PROVE HandInv'
  <2>1. PICK i \in Orders : /\ book' = [book EXCEPT ![i] = Resting(p)]
                            /\ oid' = [oid EXCEPT ![p] = i]
    BY <1>3 DEF PlaceAccepted
  <2>2. /\ UNCHANGED <<row, job, pos>> /\ pc[p] = "place" /\ pc'[p] = "working"
        /\ book'[oid'[p]] = Resting(p)
    BY <1>3, <2>1 DEF PlaceAccepted, dbVars, TypeInv, TypeOK
  <2>3. Ordering(pos[p], job[p]) /\ (pos[p].manual => row.manual)
    BY <2>2 DEF HandInv, Handled
  <2>4. Resting(p).qty = job[p].qty /\ Resting(p).filled = 0
    BY DEF Resting
  <2>5. Handled(p)'
    BY <2>2, <2>3, <2>4 DEF Handled, Ordering, Closes, Working
  <2> QED
    BY <2>5, Zenon DEF Sequential, HandInv
<1>4. ASSUME NEW p \in Procs, CancelOrder(p) PROVE HandInv'
  <2>1. /\ pc[p] = "working" /\ oid[p] \in Orders /\ UNCHANGED <<row, job, pos, oid>>
        /\ pc'[p] = "refetch"
    BY <1>4 DEF CancelOrder, Working, TypeInv, KnowsOrder, TypeOK, dbVars
  <2>2. /\ book'[oid[p]].qty = book[oid[p]].qty /\ book'[oid[p]].filled = book[oid[p]].filled
        /\ book'[oid[p]].status = "open" => book[oid[p]].status = "open"
    BY <1>4, <2>1 DEF CancelOrder, TypeInv, TypeOK, Order
  <2>3. Handled(p)
    BY DEF HandInv
  <2>4. Handled(p)'
    BY <2>1, <2>2, <2>3 DEF Handled, Ordering, Closes, Working
  <2> QED
    BY <2>4, Zenon DEF Sequential, HandInv
<1>5. ASSUME NEW i \in Orders, Fill(i) PROVE HandInv'
  <2>1. PICK p \in Procs : Working(p) /\ oid[p] = i
    BY <1>5 DEF Fill, WatchInv, Watched, Working
  <2>2. /\ book'[i].qty = book[i].qty /\ book'[i].filled = book[i].filled + 1
        /\ book'[i].status = "open" => book'[i].filled # book[i].qty
        /\ book[i].status = "open" /\ book[i].filled \in Nat /\ book[i].qty \in Nat
    BY <1>5, <2>1 DEF Fill, Watched, Working, TypeInv, TypeOK, Order
  <2>3. UNCHANGED <<row, job, pos, oid, pc>>
    BY <1>5 DEF Fill, dbVars
  <2>4. Handled(p)
    BY DEF HandInv
  <2>5. Handled(p)'
    BY <2>1, <2>2, <2>3, <2>4 DEF Handled, Ordering, Closes, Working
  <2> QED
    BY <2>5, Zenon DEF Sequential, HandInv
<1>6. ASSUME NEW p \in Procs, KillWithoutPrice(p) \/ Save(p) PROVE HandInv'
  <2>1. pc'[p] = "idle"
    BY <1>6 DEF KillWithoutPrice, Save, Finish, TypeInv, TypeOK
  <2>2. Handled(p)'
    BY <2>1 DEF Handled, Working
  <2> QED
    BY <2>2, Zenon DEF Sequential, HandInv
<1>7. CASE Reconcile \/ SwitchMode
  BY <1>7 DEF Reconcile, SwitchMode, Settled, HandInv, Handled, Working
<1>8. CASE NewDay \/ UNCHANGED vars
  BY <1>8 DEF NewDay, vars, dbVars, exchangeVars, HandInv, Handled, Working, Ordering, Closes
<1>9. \A p \in Procs : ~PlaceTimeout(p) /\ ~CancelFails(p) /\ ~Crash(p)
  BY DEF Sequential, PlaceTimeout, CancelFails, Crash
<1> QED
  BY <1>1, <1>2, <1>3, <1>4, <1>5, <1>6, <1>7, <1>8, <1>9 DEF Next, Advance

\* A unit of an order fills: the account grows by it only where nothing is
\* halted and nothing else is held, or it gives the unit up.
LEMMA FillIsMove ==
  ASSUME Sequential, TypeInv, WatchInv, DriftInv, HaltInv, StackInv, HandInv,
         NEW i \in Orders, Fill(i)
  PROVE  [Account!AccountNext]_<<holding, row.manual, row.failed>>
<1>1. PICK p \in Procs : Working(p) /\ oid[p] = i
  BY DEF Fill, WatchInv, Watched, Working
<1>2. /\ book[i].symbol = SymbolOf(pos[p].slot) /\ book[i].dir = job[p].dir
      /\ book[i].qty = job[p].qty /\ book[i].filled < book[i].qty
  BY <1>1 DEF DriftInv, HandInv, Handled, Fill
<1> DEFINE s == SymbolOf(pos[p].slot)
           dir == job[p].dir
           filled == book[i].filled
           net == pos[p].net
<1>3. /\ row' = row /\ holding' = [holding EXCEPT ![s] = @ + dir]
      /\ dir \in {-1, 0, 1} /\ filled \in Nat /\ net \in Int /\ job[p].qty \in Nat
      /\ holding \in [Symbols -> Int]
  BY <1>2 DEF Fill, dbVars, TypeInv, TypeOK, Job, Targets, Order, Position
<1>4. CASE dir = 0 \/ s \notin Symbols
  BY <1>3, <1>4
<1>5. CASE row.manual /\ s \in Symbols
  <2>1. holding[s] + dir \in Int
    BY <1>3, <1>5
  <2>2. holding' \in [Symbols -> Int]
    BY <1>3, <2>1
  <2> QED
    BY <1>3, <1>5, <2>2 DEF Account!AccountNext, Account!Intervene
<1>6. CASE ~row.manual /\ dir # 0 /\ s \in Symbols
  <2>1. live /\ ~pos[p].manual /\ (job[p].why = "open" => Unhalted(pos[p]))
    BY <1>1, <1>6 DEF HandInv, Handled, StackInv, Asked, Working
  <2>2. OrderFill(p) = dir * filled
    BY <1>1, <1>2 DEF OrderFill
  <2>3. \A t \in Symbols : holding[t] = IF t = s THEN net + dir * filled ELSE 0
    BY <1>1, <2>1, <2>2 DEF DriftInv, Working, Accounted, Holds
  <2>4. /\ dir = 1 => dir * filled = filled
        /\ dir = -1 => dir * filled = -filled
    BY <1>3
  <2>5. CASE job[p].why = "open"
    <3>1. net = 0 /\ ~row.failed
      <4>1. KeepsHalts(row, pos[p], op[p] = "resume") /\ op[p] # "resume"
        BY <1>1 DEF HaltInv, Working
      <4> QED
        BY <2>1, <2>5, <4>1 DEF KeepsHalts, Unhalted
    <3>2. \A t \in Symbols \ {s} : holding[t] = 0
      BY <2>3
    <3>3. (dir = 1 /\ holding[s] >= 0) \/ (dir = -1 /\ holding[s] <= 0)
      BY <1>3, <1>6, <2>3, <2>4, <3>1
    <3>4. Account!Bought(s) \/ Account!Sold(s)
      BY <1>3, <3>3 DEF Account!Bought, Account!Sold
    <3>5. Account!Grow(s)
      BY <1>3, <1>6, <3>1, <3>2, <3>3 DEF Account!Grow, Account!Bought, Account!Sold
    <3> QED
      BY <1>6, <3>5 DEF Account!AccountNext
  <2>6. CASE job[p].why # "open"
    <3>1. net # 0 /\ dir = Against(net) /\ job[p].qty = Abs(net)
      BY <1>1, <2>6 DEF HandInv, Handled, Working, Ordering, Closes
    <3>2. CASE net > 0
      <4>1. dir = -1 /\ filled < net
        BY <1>2, <1>3, <3>1, <3>2 DEF Against, Abs
      <4>2. holding[s] > 0
        BY <1>3, <1>6, <2>3, <2>4, <4>1
      <4> QED
        BY <1>3, <1>6, <4>1, <4>2 DEF Account!AccountNext, Account!Shrink, Account!Sold
    <3>3. CASE net < 0
      <4>1. dir = 1 /\ filled < -net
        BY <1>2, <1>3, <3>1, <3>3 DEF Against, Abs
      <4>2. holding[s] < 0
        BY <1>3, <1>6, <2>3, <2>4, <4>1
      <4> QED
        BY <1>3, <1>6, <4>1, <4>2 DEF Account!AccountNext, Account!Shrink, Account!Bought
    <3> QED
      BY <1>3, <3>1, <3>2, <3>3
  <2> QED
    BY <2>5, <2>6
<1> QED
  BY <1>3, <1>4, <1>5, <1>6

\* Only fills and the operator move what the exchange holds.
LEMMA HoldingStays ==
  ASSUME [Next]_vars
  PROVE  (\E i \in Orders : Fill(i)) \/ Reconcile \/ holding' = holding
BY DEF Next, Advance, StartCycle, StartKill, StartResume, CloseRotated, Decide, KillFlat,
       KillClose, KillWithoutPrice, ShadowFill, PlaceAccepted, PlaceRejected, PlaceTimeout,
       SeeClosed, CancelOrder, CancelFails, Refetch, RefetchFails, Save, Crash,
       NewDay, SwitchMode, exchangeVars, vars

\* One operation at a time, the account at the exchange is the one
\* ExchangeAccount promises, for any symbols, quantities, partial fills, flips
\* and rotations: no position is built on another or past a halt, a close never
\* overshoots, and a failed account only shrinks.
THEOREM AccountImplemented ==
  ASSUME Sequential
  PROVE  Spec => ImplementsAccount
<1>1. Init => Account!AccountInit
  BY DEF Init, Account!AccountInit, EmptyPosition
<1>2. Init => StackInv /\ HandInv
  BY DEF Init, StackInv, Asked, HandInv, Handled, Working
<1>3. ASSUME TypeInv, TypeInv', WatchInv, DriftInv, HaltInv, StackInv, HandInv, [Next]_vars
      PROVE  [Account!AccountNext]_<<holding, row.manual, row.failed>>
  <2>1. CASE \E i \in Orders : Fill(i)
    BY <1>3, <2>1, FillIsMove
  <2>2. CASE Reconcile
    <3>1. row' = row /\ row.manual /\ holding' \in [Symbols -> Int]
      BY <1>3, <2>2 DEF Reconcile, dbVars, TypeInv, TypeOK
    <3> QED
      BY <3>1 DEF Account!AccountNext, Account!Intervene
  <2>3. CASE holding' = holding
    <3>1. /\ row'.manual \in BOOLEAN /\ row'.failed \in BOOLEAN
          /\ row.failed => row'.failed
      BY <1>3, RowStep DEF TypeInv, TypeOK, Position
    <3> QED
      BY <2>3, <3>1 DEF Account!AccountNext, Account!Govern
  <2> QED
    BY <1>3, <2>1, <2>2, <2>3, HoldingStays
<1>4. Spec => []WatchInv
  BY SequentialIsReliable, WatchInvariant
<1>5. Spec => []HaltInv
  BY HaltInvariant DEF Sequential, OneAtATime
<1> QED
  BY <1>1, <1>2, <1>3, <1>4, <1>5, StackStep, HandStep, GateInvariant, DriftInvariant,
     TypeInvariant, PTL
     DEF Spec, ImplementsAccount, Account!AccountSpec, Account!accountVars
=============================================================================
