--------------------------- MODULE PaperTraderProofs ---------------------------
(***************************************************************************)
(* What the kill switch and a failed account leave in paper_positions,     *)
(* for every set of slots, processes and prices, whatever overlaps and     *)
(* whatever dies.                                                          *)
(***************************************************************************)
EXTENDS PaperTrader, TLAPS

\* A row, stored or in a process's hands, that is halted for good is flat.
Sound(r) == r.failed \/ r.manual => Flat(r)

\* The inductive invariant: every copy of a row is sound, since any of them
\* may be the next to be saved over the row.
PaperInv ==
  /\ TypeOK
  /\ task \in [Procs -> Task]
  /\ \A s \in Slots : Sound(rows[s])
  /\ \A p \in Procs : Sound(task[p].pos) /\ \A s \in Slots : Sound(task[p].snap[s])

-----------------------------------------------------------------------------
(* The operators on rows.                                                  *)

LEMMA MinMax ==
  ASSUME NEW a \in Int, NEW b \in Int
  PROVE  /\ Larger(a, b) \in {a, b} /\ Larger(a, b) >= a
         /\ Smaller(a, b) \in {a, b} /\ Smaller(a, b) <= b
  BY DEF Larger, Smaller

LEMMA FreshIsSound ==
  ASSUME NEW equity \in Int, NEW named \in BOOLEAN
  PROVE  Fresh(equity, named) \in Row /\ Sound(Fresh(equity, named))
  BY DEF Fresh, Row, Never, Sound, Flat

LEMMA MarkIsInt == ASSUME NEW r \in Row, NEW price \in Prices PROVE Mark(r, price) \in Int
<1>1. r.equity \in Int /\ r.qty \in Int /\ r.entry \in Int /\ price \in Int
  BY PaperConstants DEF Row
<1> QED BY <1>1 DEF Mark

\* What a close leaves: no quantity, and the flags as they were.
LEMMA CloseFlattens ==
  ASSUME NEW r \in Row, NEW price \in Prices
  PROVE  /\ Closed(r, price) \in Row /\ Flat(Closed(r, price))
         /\ Closed(r, price).failed = r.failed /\ Closed(r, price).manual = r.manual
         /\ Flattened(r, price) \in Row /\ Flat(Flattened(r, price))
         /\ Flattened(r, price).failed = r.failed /\ Flattened(r, price).manual = r.manual
<1>1. Mark(r, price) - Cost \in Int
  BY MarkIsInt, PaperConstants
<1>2. /\ Closed(r, price) \in Row /\ Closed(r, price).qty = 0
      /\ Closed(r, price).failed = r.failed /\ Closed(r, price).manual = r.manual
  <2>1. ASSUME NEW equity \in Int
        PROVE  LET after == [r EXCEPT !.equity = equity, !.qty = 0, !.entry = 0, !.stop = 0]
               IN after \in Row /\ after.qty = 0 /\ after.failed = r.failed /\ after.manual = r.manual
    <3> DEFINE after == [r EXCEPT !.equity = equity, !.qty = 0, !.entry = 0, !.stop = 0]
    <3>0. ASSUME NEW zero \in Nat, NEW none \in Int
          PROVE  [r EXCEPT !.equity = equity, !.qty = none, !.entry = zero, !.stop = zero] \in Row
      BY DEF Row
    <3>1. after \in Row
      <4>1. \A zero \in Nat, none \in Int :
              [r EXCEPT !.equity = equity, !.qty = none, !.entry = zero, !.stop = zero] \in Row
        BY <3>0
      <4>2. 0 \in Nat /\ 0 \in Int
        OBVIOUS
      <4> QED BY <4>1, <4>2, Zenon
    <3>2. after.qty = 0
      BY DEF Row
    <3>3. after.failed = r.failed /\ after.manual = r.manual
      BY DEF Row
    <3> QED BY <3>1, <3>2, <3>3
  <2> QED BY <1>1, <2>1 DEF Closed
<1> QED BY <1>2 DEF Flattened, Flat

LEMMA OpenKeepsFlags ==
  ASSUME NEW r \in Row, NEW dir \in {-1, 1}, NEW price \in Prices, NEW stop \in Nat
  PROVE  /\ Opened(r, dir, price, stop) \in Row
         /\ Opened(r, dir, price, stop).failed = r.failed
         /\ Opened(r, dir, price, stop).manual = r.manual
<1>1. Size(r) \in Int
  <2>1. FullSize \div 2 \in Nat /\ FullSize \in Nat
    BY PaperConstants
  <2> QED BY <2>1 DEF Size, UncappedSize
<1>2. dir * Size(r) \in Int
  BY <1>1
<1>3. Counted(r.trades) \in Nat
  BY PaperConstants DEF Counted, Smaller, Row
<1>4. price \in Nat /\ r.equity - Cost \in Int
  BY PaperConstants DEF Row
<1>5. CASE Size(r) = 0
  BY <1>3, <1>5 DEF Opened, Row
<1>6. CASE Size(r) # 0
  BY <1>2, <1>3, <1>4, <1>6 DEF Opened, Row
<1> QED BY <1>5, <1>6

\* Rotation, rollover and the floors: they may fail the account of an open
\* row, and never lift a flag that holds or open a flat row.
LEMMA PreparedRow ==
  ASSUME NEW r \in Row, NEW price \in Prices, NEW asOf \in Nat
  PROVE  /\ Prepared(r, price, asOf) \in Row
         /\ Prepared(r, price, asOf).manual = r.manual
         /\ Flat(r) => Flat(Prepared(r, price, asOf))
<1> DEFINE a == Rotated(r, price)
           b == RolledOver(a, price, asOf)
<1>1. a \in Row /\ a.manual = r.manual /\ (Flat(r) => Flat(a))
  <2>1. CASE Rotates(r)
    <3>1. Closed(r, price) \in Row /\ Flat(Closed(r, price)) /\ Closed(r, price).manual = r.manual
      BY CloseFlattens
    <3> QED BY <2>1, <3>1 DEF Rotated, Row, Flat
  <2>2. CASE ~Rotates(r)
    BY <2>2 DEF Rotated
  <2> QED BY <2>1, <2>2
<1> HIDE DEF a
<1>2. b \in Row /\ b.manual = a.manual /\ b.qty = a.qty
  <2>1. Mark(a, price) \in Int
    BY <1>1, MarkIsInt
  <2> QED BY <1>1, <2>1 DEF RolledOver, Row
<1> HIDE DEF b
<1>3. Checked(b, price) \in Row /\ Checked(b, price).manual = b.manual /\ Checked(b, price).qty = b.qty
  <2>1. CASE b.failed
    BY <1>2, <2>1 DEF Checked
  <2>2. CASE ~b.failed
    <3> DEFINE failed == Mark(b, price) <= Capital - HardFloor
               lost == Mark(b, price) - b.dayStart <= -DailyLoss
               daily == b.daily \/ lost \/ failed
    <3>0. b.daily \in BOOLEAN
      BY <1>2 DEF Row
    <3>1. failed \in BOOLEAN /\ daily \in BOOLEAN
      <4>1. failed \in BOOLEAN /\ lost \in BOOLEAN
        OBVIOUS
      <4> HIDE DEF failed, lost
      <4> QED BY <3>0, <4>1
    <3>2. Checked(b, price) = [b EXCEPT !.failed = failed, !.daily = daily]
      BY <2>2 DEF Checked
    <3> HIDE DEF failed, daily
    <3> QED BY <1>2, <3>1, <3>2 DEF Row
  <2> QED BY <2>1, <2>2
<1>4. Prepared(r, price, asOf) = Checked(b, price)
  BY DEF Prepared, a, b
<1> QED BY <1>1, <1>2, <1>3, <1>4 DEF Flat

LEMMA RemarkKeeps ==
  ASSUME NEW r \in Row, NEW price \in Prices
  PROVE  /\ Remarked(r, price) \in Row /\ Remarked(r, price).failed = r.failed
         /\ Remarked(r, price).manual = r.manual
  BY MarkIsInt DEF Remarked, Row

-----------------------------------------------------------------------------
LEMMA PaperStarts == Init => PaperInv
<1> SUFFICES ASSUME Init PROVE PaperInv
  OBVIOUS
<1>1. NoRow \in Row /\ Sound(NoRow)
  BY PaperConstants DEF NoRow, Fresh, Row, Never, Sound, Flat
<1>2. AnySlot \in Slots
  BY PaperConstants DEF AnySlot
<1>3. NoSnap \in [Slots -> Row] /\ \A s \in Slots : Sound(NoSnap[s])
  BY <1>1 DEF NoSnap
<1>4. Idle \in Task
  BY <1>1, <1>2, <1>3 DEF Idle, Task, Kinds
<1>5. /\ Idle.pos = NoRow /\ Idle.snap = NoSnap /\ Idle.kind = "idle"
  BY DEF Idle
<1> QED
  BY <1>1, <1>3, <1>4, <1>5 DEF Init, PaperInv, TypeOK, Kinds

LEMMA IdleIsSound ==
  /\ Idle \in Task /\ Sound(Idle.pos) /\ NoRow \in Row /\ Sound(NoRow) /\ AnySlot \in Slots
  /\ \A s \in Slots : Sound(Idle.snap[s])
<1>1. NoRow \in Row /\ Sound(NoRow)
  BY PaperConstants DEF NoRow, Fresh, Row, Never, Sound, Flat
<1>2. AnySlot \in Slots
  BY PaperConstants DEF AnySlot
<1> QED BY <1>1, <1>2 DEF Idle, Task, Kinds, NoSnap

\* What a step of one process must show: its new task is of the type and
\* holds sound copies, and the rows stay sound.
SoundTask(t) == t \in Task /\ Sound(t.pos) /\ \A s \in Slots : Sound(t.snap[s])

LEMMA TaskKeeps ==
  ASSUME PaperInv, NEW p \in Procs, NEW t, SoundTask(t),
         task' = [task EXCEPT ![p] = t],
         rows' \in [Slots -> Row], \A s \in Slots : Sound(rows'[s]),
         journal' \in [Slots -> Int], today' \in Nat, bar' \in Nat, serial' \in BOOLEAN
  PROVE  PaperInv'
<1>1. task' \in [Procs -> Task]
  BY DEF PaperInv, SoundTask
<1>2. \A q \in Procs : Sound(task'[q].pos) /\ \A s \in Slots : Sound(task'[q].snap[s])
  BY DEF PaperInv, SoundTask
<1>3. \A q \in Procs : task'[q].kind \in Kinds /\ task'[q].pos \in Row
  BY <1>1 DEF Task
<1> QED BY <1>1, <1>2, <1>3 DEF PaperInv, TypeOK, Sound, Flat

LEMMA LoggedIsInt ==
  ASSUME NEW n \in Int, NEW opens \in Int, NEW closes \in Int
  PROVE  Logged(n, opens, closes) \in Int
  BY DEF Logged, Larger, Smaller

\* A task of the type with one field or two set stays of the type.
LEMMA AppliedKeeps ==
  ASSUME PaperInv, NEW p \in Procs, NEW pos \in Row, Sound(pos),
         NEW opens \in Int, NEW closes \in Int, Applied(p, pos, opens, closes)
  PROVE  PaperInv'
<1> DEFINE saved == [pos EXCEPT !.exists = TRUE]
           t == [task[p] EXCEPT !.pos = saved,
                   !.pc = IF task[p].kind = "cycle" THEN "save" ELSE "step"]
<1>1. saved \in Row /\ Sound(saved)
  BY DEF Row, Sound, Flat
<1>2. task[p] \in Task /\ \A s \in Slots : Sound(task[p].snap[s])
  BY DEF PaperInv
<1> HIDE DEF saved
<1>3. t \in Task /\ t.pos = saved /\ t.snap = task[p].snap
  BY <1>1, <1>2 DEF Task
<1>4. task' = [task EXCEPT ![p] = t]
  BY DEF Applied, saved, PaperInv
<1>5. journal' \in [Slots -> Int]
  <2>1. journal \in [Slots -> Int] /\ task[p].slot \in Slots
    BY <1>2 DEF PaperInv, TypeOK, Task
  <2>2. Logged(journal[task[p].slot], opens, closes) \in Int
    BY <2>1, LoggedIsInt
  <2> QED BY <2>1, <2>2 DEF Applied
<1>6. SoundTask(t)
  BY <1>1, <1>2, <1>3 DEF SoundTask
<1> HIDE DEF t
<1> QED
  BY <1>4, <1>5, <1>6, TaskKeeps DEF Applied, PaperInv, TypeOK

\* One observation: only a row that no flag halts is left open.
LEMMA StepKeeps ==
  ASSUME PaperInv, NEW p \in Procs, Step(p)
  PROVE  PaperInv'
<1>1. PICK price \in Prices :
        LET r == Prepared(task[p].pos, price, task[p].asOf)
        IN \/ StepFailed(p, r, price)
           \/ StepHalted(p, r, price)
           \/ StepStopped(p, r, price)
           \/ StepExit(p, r, price)
           \/ StepHold(p, r, price)
           \/ \E dir \in {-1, 1}, blocked \in BOOLEAN :
                \E stop \in StopsFor(dir, price) : StepEnter(p, r, price, dir, stop, blocked)
  BY DEF Step
<1> DEFINE before == task[p].pos
           r == Prepared(before, price, task[p].asOf)
<1>2. before \in Row /\ Sound(before) /\ task[p].asOf \in Nat
  BY DEF PaperInv, TypeOK, Task
<1>3. r \in Row /\ r.manual = before.manual /\ (Flat(before) => Flat(r))
  BY <1>2, PreparedRow
<1>4. \A x \in Row : OpensOf(x) \in Int /\ ExitLogged(x) \in Int /\ Closes(x, price) \in Int
  BY DEF OpensOf, ExitLogged, Closes
<1>5. Closes(before, price) \in Int /\ OpensOf(r) \in Int /\ ExitLogged(r) \in Int
  BY <1>2, <1>3, <1>4
<1>6. /\ Closed(r, price) \in Row /\ Flattened(r, price) \in Row
      /\ Sound(Closed(r, price)) /\ Sound(Flattened(r, price))
      /\ Flattened(r, price).failed = r.failed /\ Flattened(r, price).manual = r.manual
  BY <1>3, CloseFlattens DEF Sound
<1>7. CASE \/ StepFailed(p, r, price) \/ StepHalted(p, r, price) \/ StepStopped(p, r, price)
           \/ StepExit(p, r, price) \/ StepHold(p, r, price)
  <2>1. CASE StepFailed(p, r, price)
    BY <2>1, <1>5, <1>6, AppliedKeeps DEF StepFailed
  <2>2. CASE StepHalted(p, r, price)
    <3>1. Sound(r)
      BY <2>2, <1>2, <1>3 DEF StepHalted, Sound
    <3> QED BY <2>2, <3>1, <1>3, <1>5, AppliedKeeps DEF StepHalted
  <2>3. CASE StepStopped(p, r, price)
    BY <2>3, <1>5, <1>6, AppliedKeeps DEF StepStopped
  <2>4. CASE StepExit(p, r, price)
    BY <2>4, <1>5, <1>6, AppliedKeeps DEF StepExit
  <2>5. CASE StepHold(p, r, price)
    <3>1. Remarked(r, price) \in Row /\ Sound(Remarked(r, price))
      BY <2>5, <1>3, RemarkKeeps DEF StepHold, Acts, MayAct, Sound
    <3> QED BY <2>5, <3>1, <1>5, AppliedKeeps DEF StepHold
  <2> QED BY <1>7, <2>1, <2>2, <2>3, <2>4, <2>5
<1>8. ASSUME NEW dir \in {-1, 1}, NEW blocked \in BOOLEAN, NEW stop \in StopsFor(dir, price),
             StepEnter(p, r, price, dir, stop, blocked)
      PROVE  PaperInv'
  <2> DEFINE flat == Flattened(r, price)
             done == IF Barred(r, blocked) THEN flat ELSE Opened(flat, dir, price, stop)
  <2>1. stop \in Nat
    BY PaperConstants DEF StopsFor
  <2>2. done \in Row /\ done.failed = r.failed /\ done.manual = r.manual
    <3>1. /\ Opened(flat, dir, price, stop) \in Row
          /\ Opened(flat, dir, price, stop).failed = flat.failed
          /\ Opened(flat, dir, price, stop).manual = flat.manual
      BY <1>6, <2>1, OpenKeepsFlags
    <3> QED BY <1>6, <3>1
  <2> HIDE DEF done
  <2>3. Remarked(done, price) \in Row /\ Sound(Remarked(done, price))
    BY <1>8, <2>2, RemarkKeeps DEF StepEnter, Acts, MayAct, Sound
  <2>4. OpensOf(done) \in Int /\ Closes(before, price) + OpensOf(r) \in Int
    BY <2>2, <1>4, <1>5
  <2>5. Applied(p, Remarked(done, price), OpensOf(done), Closes(before, price) + OpensOf(r))
    BY <1>8 DEF StepEnter, done
  <2> QED BY <2>3, <2>4, <2>5, AppliedKeeps
<1> QED BY <1>1, <1>7, <1>8

-----------------------------------------------------------------------------
(* The operations.                                                         *)

LEMMA CommandKeeps ==
  ASSUME PaperInv, NEW p \in Procs,
         StartCycle(p) \/ LoadSlot(p) \/ StartReplay(p) \/ EndReplay(p)
  PROVE  PaperInv'
<1>0. task[p] \in Task /\ SoundTask(task[p])
  BY DEF PaperInv, SoundTask
<1>1. CASE StartCycle(p)
  <2>1. PICK todo \in Candidates : Begin(p, [Idle EXCEPT !.kind = "cycle", !.pc = "next", !.todo = todo])
    BY <1>1 DEF StartCycle
  <2> DEFINE t == [Idle EXCEPT !.kind = "cycle", !.pc = "next", !.todo = todo]
  <2>2. SoundTask(t)
    BY IdleIsSound DEF SoundTask, Task, Kinds, Candidates
  <2> HIDE DEF t
  <2>3. serial' \in BOOLEAN
    BY <2>1 DEF Begin, PaperInv, TypeOK
  <2> QED BY <2>1, <2>2, <2>3, TaskKeeps DEF Begin, PaperInv, TypeOK, t
<1>2. CASE LoadSlot(p)
  <2>1. PICK s \in task[p].todo, equity \in StartEquity :
          task' = [task EXCEPT ![p].slot = s, ![p].pc = "step", ![p].asOf = bar,
                    ![p].pos = IF rows[s].exists THEN rows[s] ELSE Fresh(equity, TRUE)]
    BY <1>2 DEF LoadSlot
  <2> DEFINE pos == IF rows[s].exists THEN rows[s] ELSE Fresh(equity, TRUE)
             t == [task[p] EXCEPT !.slot = s, !.pc = "step", !.asOf = bar, !.pos = pos]
  <2>2. s \in Slots /\ equity \in Int /\ bar \in Nat
    BY <1>0, PaperConstants DEF Task, PaperInv, TypeOK
  <2>3. pos \in Row /\ Sound(pos)
    BY <2>2, FreshIsSound DEF PaperInv, TypeOK
  <2> HIDE DEF pos
  <2>4. SoundTask(t)
    BY <1>0, <2>2, <2>3 DEF SoundTask, Task
  <2>5. task' = [task EXCEPT ![p] = t]
    BY <2>1 DEF pos, PaperInv
  <2> HIDE DEF t
  <2> QED BY <1>2, <2>4, <2>5, TaskKeeps DEF LoadSlot, PaperInv, TypeOK
<1>3. CASE StartReplay(p)
  <2>1. PICK s \in Slots :
          Begin(p, [Idle EXCEPT !.kind = "replay", !.pc = "step", !.slot = s, !.todo = {s},
                                !.asOf = bar, !.pos = Fresh(Capital, TRUE)])
    BY <1>3 DEF StartReplay
  <2> DEFINE t == [Idle EXCEPT !.kind = "replay", !.pc = "step", !.slot = s, !.todo = {s},
                               !.asOf = bar, !.pos = Fresh(Capital, TRUE)]
  <2>2. Fresh(Capital, TRUE) \in Row /\ Sound(Fresh(Capital, TRUE))
    BY PaperConstants DEF Fresh, Row, Never, Sound, Flat
  <2>3. SoundTask(t)
    BY IdleIsSound, <2>2 DEF SoundTask, Task, Kinds, PaperInv, TypeOK
  <2> HIDE DEF t
  <2>4. serial' \in BOOLEAN
    BY <2>1 DEF Begin, PaperInv, TypeOK
  <2> QED BY <2>1, <2>3, <2>4, TaskKeeps DEF Begin, PaperInv, TypeOK, t
<1>4. CASE EndReplay(p)
  <2> DEFINE t == [task[p] EXCEPT !.pc = "save"]
  <2>1. SoundTask(t)
    BY <1>0 DEF SoundTask, Task
  <2>2. task' = [task EXCEPT ![p] = t]
    BY <1>4 DEF EndReplay, PaperInv
  <2> HIDE DEF t
  <2> QED BY <1>4, <2>1, <2>2, TaskKeeps DEF EndReplay, PaperInv, TypeOK
<1> QED BY <1>1, <1>2, <1>3, <1>4

LEMMA StartOperatorKeeps ==
  ASSUME PaperInv, NEW p \in Procs, NEW kind \in {"kill", "resume"}, StartOperator(p, kind)
  PROVE  PaperInv'
<1>1. PICK todo \in Targets :
        Begin(p, [Idle EXCEPT !.kind = kind, !.pc = "next", !.todo = todo, !.asked = todo,
                    !.snap = [s \in Slots |-> IF s \in todo THEN rows[s] ELSE NoRow]])
  BY DEF StartOperator
<1> DEFINE snap == [s \in Slots |-> IF s \in todo THEN rows[s] ELSE NoRow]
           t == [Idle EXCEPT !.kind = kind, !.pc = "next", !.todo = todo, !.asked = todo,
                   !.snap = snap]
<1>2. todo \subseteq Slots
  BY DEF Targets, Existing
<1>3. snap \in [Slots -> Row] /\ \A s \in Slots : Sound(snap[s])
  BY IdleIsSound DEF PaperInv, TypeOK
<1>4. Begin(p, t)
  BY <1>1
<1> HIDE DEF snap
<1>5. SoundTask(t)
  BY IdleIsSound, <1>2, <1>3 DEF SoundTask, Task, Kinds
<1> HIDE DEF t
<1>6. serial' \in BOOLEAN
  BY <1>4 DEF Begin, PaperInv, TypeOK
<1> QED BY <1>4, <1>5, <1>6, TaskKeeps DEF Begin, PaperInv, TypeOK

LEMMA OperatorKeeps ==
  ASSUME PaperInv, NEW p \in Procs, KillSlot(p) \/ KillSkips(p) \/ ResumeSlot(p)
  PROVE  PaperInv'
<1>0. task[p] \in Task /\ SoundTask(task[p])
  BY DEF PaperInv, SoundTask
<1>1. CASE KillSlot(p)
  <2>1. PICK s \in task[p].todo, price \in Prices :
          LET r == task[p].snap[s]
          IN /\ task' = [task EXCEPT ![p].slot = s, ![p].pc = "save", ![p].snap[s] = NoRow,
                           ![p].pos = Halted(Flattened(r, price))]
             /\ journal' = [journal EXCEPT ![s] = Logged(@, 0, OpensOf(r))]
    BY <1>1 DEF KillSlot
  <2> DEFINE r == task[p].snap[s]
             pos == Halted(Flattened(r, price))
             snap == [task[p].snap EXCEPT ![s] = NoRow]
             t == [task[p] EXCEPT !.slot = s, !.pc = "save", !.snap = snap, !.pos = pos]
  <2>2. s \in Slots /\ r \in Row
    BY <1>0 DEF Task
  <2>3. pos \in Row /\ Sound(pos)
    <3>1. Flattened(r, price) \in Row /\ Flat(Flattened(r, price))
      BY <2>2, CloseFlattens
    <3> QED BY <3>1 DEF Halted, Row, Sound, Flat
  <2>4. snap \in [Slots -> Row] /\ \A q \in Slots : Sound(snap[q])
    BY <1>0, IdleIsSound DEF Task, SoundTask
  <2>5. task' = [task EXCEPT ![p] = t]
    BY <2>1, <1>0 DEF PaperInv, Task
  <2> HIDE DEF pos, snap
  <2>6. SoundTask(t)
    BY <1>0, <2>2, <2>3, <2>4 DEF SoundTask, Task
  <2>7. journal' \in [Slots -> Int]
    <3>1. journal \in [Slots -> Int] /\ OpensOf(r) \in Int
      BY DEF PaperInv, TypeOK, OpensOf
    <3>2. Logged(journal[s], 0, OpensOf(r)) \in Int
      BY <2>2, <3>1, LoggedIsInt
    <3> QED BY <2>1, <3>1, <3>2
  <2> HIDE DEF t
  <2> QED BY <1>1, <2>5, <2>6, <2>7, TaskKeeps DEF KillSlot, PaperInv, TypeOK
<1>2. CASE KillSkips(p)
  <2>1. PICK s \in task[p].todo :
          task' = [task EXCEPT ![p] =
            IF task[p].todo = {s} THEN Idle ELSE [task[p] EXCEPT !.todo = task[p].todo \ {s}]]
    BY <1>0, <1>2 DEF KillSkips, PaperInv
  <2> DEFINE t == IF task[p].todo = {s} THEN Idle ELSE [task[p] EXCEPT !.todo = task[p].todo \ {s}]
  <2>2. SoundTask(t)
    BY <1>0, IdleIsSound DEF SoundTask, Task
  <2> HIDE DEF t
  <2> QED BY <1>2, <2>1, <2>2, TaskKeeps DEF KillSkips, PaperInv, TypeOK, t
<1>3. CASE ResumeSlot(p)
  <2>1. PICK s \in task[p].todo :
          task' = [task EXCEPT ![p].slot = s, ![p].pc = "save", ![p].snap[s] = NoRow,
                    ![p].pos = [task[p].snap[s] EXCEPT !.manual = FALSE, !.exists = TRUE]]
    BY <1>3 DEF ResumeSlot
  <2> DEFINE pos == [task[p].snap[s] EXCEPT !.manual = FALSE, !.exists = TRUE]
             snap == [task[p].snap EXCEPT ![s] = NoRow]
             t == [task[p] EXCEPT !.slot = s, !.pc = "save", !.snap = snap, !.pos = pos]
  <2>2. s \in Slots /\ task[p].snap[s] \in Row /\ Sound(task[p].snap[s])
    BY <1>0 DEF Task, SoundTask
  <2>3. pos \in Row /\ Sound(pos)
    BY <2>2 DEF Row, Sound, Flat
  <2>4. snap \in [Slots -> Row] /\ \A q \in Slots : Sound(snap[q])
    BY <1>0, IdleIsSound DEF Task, SoundTask
  <2>5. task' = [task EXCEPT ![p] = t]
    BY <2>1, <1>0 DEF PaperInv, Task
  <2> HIDE DEF pos, snap
  <2>6. SoundTask(t)
    BY <1>0, <2>2, <2>3, <2>4 DEF SoundTask, Task
  <2> HIDE DEF t
  <2> QED BY <1>3, <2>5, <2>6, TaskKeeps DEF ResumeSlot, PaperInv, TypeOK
<1> QED BY <1>1, <1>2, <1>3

\* A save writes the copy, flags and quantity together.
LEMMA SaveKeeps ==
  ASSUME PaperInv, NEW p \in Procs, SaveSlot(p)
  PROVE  PaperInv'
<1> DEFINE t == task[p]
           left == t.todo \ {t.slot}
           day == IF t.kind = "replay" THEN t.asOf ELSE today
           row == [t.pos EXCEPT !.exists = TRUE, !.day = day]
           next == IF left = {} THEN Idle
                   ELSE [t EXCEPT !.todo = left, !.pc = "next", !.asOf = 0, !.pos = NoRow,
                                  !.slot = AnySlot]
<1>1. t \in Task /\ SoundTask(t) /\ t.slot \in Slots /\ t.pos \in Row
  BY DEF PaperInv, SoundTask, Task
<1>2. day \in Nat
  BY DEF PaperInv, TypeOK, Task
<1>3. row \in Row /\ Sound(row)
  <2> HIDE DEF day
  <2> QED BY <1>1, <1>2 DEF Row, SoundTask, Sound, Flat
<1>4. SoundTask(next)
  BY <1>1, IdleIsSound DEF SoundTask, Task
<1>5. rows' = [rows EXCEPT ![t.slot] = row] /\ task' = [task EXCEPT ![p] = next]
  BY DEF SaveSlot
<1> HIDE DEF row, next
<1>6. rows' \in [Slots -> Row] /\ \A s \in Slots : Sound(rows'[s])
  BY <1>1, <1>3, <1>5 DEF PaperInv, TypeOK
<1> QED BY <1>4, <1>5, <1>6, TaskKeeps DEF SaveSlot, PaperInv, TypeOK

LEMMA CrashKeeps ==
  ASSUME PaperInv, NEW p \in Procs, Crash(p)
  PROVE  PaperInv'
<1>1. SoundTask(Idle)
  BY IdleIsSound DEF SoundTask
<1> QED BY <1>1, TaskKeeps DEF Crash, PaperInv, TypeOK

LEMMA DayKeeps ==
  ASSUME PaperInv, NewDay \/ Collect \/ Backfill \/ UNCHANGED paperVars
  PROVE  PaperInv'
<1>1. today' \in Nat /\ bar' \in Nat
  BY PaperConstants DEF NewDay, Collect, Backfill, paperVars, PaperInv, TypeOK
<1>2. rows' = rows /\ journal' = journal /\ task' = task /\ serial' = serial
  BY DEF NewDay, Collect, Backfill, paperVars
<1> QED BY <1>1, <1>2 DEF PaperInv, TypeOK, Sound, Flat

LEMMA PaperStays == PaperInv /\ [Next]_paperVars => PaperInv'
<1> SUFFICES ASSUME PaperInv, [Next]_paperVars PROVE PaperInv'
  OBVIOUS
<1>1. ASSUME NEW p \in Commands,
             StartCycle(p) \/ LoadSlot(p) \/ Step(p) \/ StartReplay(p) \/ EndReplay(p)
      PROVE  PaperInv'
  BY <1>1, CommandKeeps, StepKeeps DEF Procs
<1>2. ASSUME NEW p \in Requests,
             \/ StartOperator(p, "kill") \/ KillSlot(p) \/ KillSkips(p)
             \/ StartOperator(p, "resume") \/ ResumeSlot(p)
      PROVE  PaperInv'
  BY <1>2, StartOperatorKeeps, OperatorKeeps DEF Procs
<1>3. ASSUME NEW p \in Procs, SaveSlot(p) \/ Crash(p) PROVE PaperInv'
  BY <1>3, SaveKeeps, CrashKeeps
<1>4. CASE NewDay \/ Collect \/ Backfill \/ UNCHANGED paperVars
  BY <1>4, DayKeeps
<1> QED BY <1>1, <1>2, <1>3, <1>4 DEF Next

\* Rows and tasks keep the shape that paper_positions and the operations have.
THEOREM PaperTypeCorrect == Spec => []TypeOK
<1>1. PaperInv => TypeOK
  BY DEF PaperInv
<1> QED BY PaperStarts, PaperStays, <1>1, PTL DEF Spec

\* "Flatten ... and set manual_halt" (force_close_now) and the force-close of a
\* failed account: no interleaving of whole-row saves and no crash leaves a row
\* that is halted for good with a position.
THEOREM PaperHaltsFlat == Spec => []HaltedIsFlat
<1>1. PaperInv => HaltedIsFlat
  BY DEF PaperInv, HaltedIsFlat, Sound
<1> QED BY PaperStarts, PaperStays, <1>1, PTL DEF Spec
-----------------------------------------------------------------------------
(* Equity above the floor, the journal, and the days.                      *)

Floor == Capital - HardFloor

\* A position is held above the hard floor.
Secure(r) == ~Flat(r) => r.equity >= Floor
SecureInv ==
  /\ \A s \in Slots : Secure(rows[s])
  /\ \A p \in Procs : Secure(task[p].pos) /\ \A s \in Slots : Secure(task[p].snap[s])

Operating(p) == task[p].kind \in {"kill", "resume"}
HoldsSlot(p) == task[p].pc \in {"step", "save"}

\* The slots an operator still has to write, from the list it read.
Listed(p) == task[p].todo \ (IF HoldsSlot(p) THEN {task[p].slot} ELSE {})

\* What the journal and an operator's list say while only p works: the slot in
\* its hands is ahead of its row, all others are at their rows.  The journal
\* says so as long as it is kept, which a replay over a position puts an end to.
TellsOneStory(p, kept) ==
  /\ kept => \A s \in Slots : journal[s] =
       IF HoldsSlot(p) /\ s = task[p].slot THEN OpensOf(task[p].pos) ELSE OpensOf(rows[s])
  /\ Operating(p) => \A s \in Listed(p) : OpensOf(task[p].snap[s]) = OpensOf(rows[s])

\* What a kill switch has done so far.
HaltsSoFar(p) ==
  task[p].kind = "kill" =>
    /\ \A s \in task[p].asked \ task[p].todo : rows[s].manual \/ ~Flat(rows[s])
    /\ task[p].pc = "save" => task[p].pos.manual

SerialInv(kept) ==
  /\ \A p \in Procs :
       /\ task[p].kind = "idle" => task[p].pc = "idle" /\ task[p].todo = {}
       /\ task[p].pc = "save" /\ Operating(p) => task[p].slot \in task[p].todo
       /\ task[p].kind = "kill" => task[p].asked \subseteq Slots
  /\ \A s \in Slots : ~rows[s].exists => Flat(rows[s])
  /\ serial =>
       /\ \A p, q \in Busy : p = q
       /\ kept /\ Busy = {} => \A s \in Slots : journal[s] = OpensOf(rows[s])
       /\ \A p \in Busy : TellsOneStory(p, kept) /\ HaltsSoFar(p)

\* A close keeps what day the row is of and what its flags say.
LEMMA CloseKeeps ==
  ASSUME NEW r \in Row, NEW price \in Prices
  PROVE  /\ Closed(r, price).daily = r.daily /\ Closed(r, price).day = r.day
         /\ Closed(r, price).dayStart = r.dayStart
         /\ Flattened(r, price).daily = r.daily
<1>1. /\ Closed(r, price).daily = r.daily /\ Closed(r, price).day = r.day
      /\ Closed(r, price).dayStart = r.dayStart
  BY DEF Closed, Row
<1> QED BY <1>1 DEF Flattened

\* A flat row marks at its equity.
LEMMA FlatMark ==
  ASSUME NEW r \in Row, NEW price \in Prices
  PROVE  /\ Flat(r) => Mark(r, price) = r.equity
         /\ r.entry = price => Mark(r, price) = r.equity
<1>1. r.equity \in Int /\ r.qty \in Int /\ r.entry \in Int /\ price \in Int
  BY PaperConstants DEF Row
<1>2. r.qty = 0 => r.qty * (price - r.entry) = 0
  BY <1>1
<1>3. r.entry = price => r.qty * (price - r.entry) = 0
  BY <1>1
<1> QED BY <1>1, <1>2, <1>3 DEF Mark, Flat

\* Opening from flat: a position is only opened with headroom, and an order
\* costs no more than that.
LEMMA OpenIsSecure ==
  ASSUME NEW r \in Row, Flat(r), NEW dir \in {-1, 1}, NEW price \in Prices, NEW stop \in Nat,
         Cost <= 1
  PROVE  LET done == Opened(r, dir, price, stop)
         IN /\ done.daily = r.daily
            /\ ~Flat(done) => done.equity >= Floor /\ done.entry = price
<1> DEFINE done == Opened(r, dir, price, stop)
<1>1. r.equity \in Int /\ r.dayStart \in Int /\ Cost \in Nat /\ Capital \in Int /\ HardFloor \in Int
      /\ DailyLoss \in Int
  BY PaperConstants DEF Row
<1>2. CASE Size(r) = 0
  <2>1. done = [r EXCEPT !.trades = Counted(r.trades)]
    BY <1>2 DEF Opened
  <2>2. done.daily = r.daily /\ done.qty = r.qty
    BY <2>1 DEF Row
  <2> QED BY <2>2 DEF Flat
<1>3. CASE Size(r) # 0
  <2>1. done = [r EXCEPT !.qty = dir * Size(r), !.entry = price, !.stop = stop,
                         !.equity = r.equity - Cost, !.trades = Counted(r.trades)]
    BY <1>3 DEF Opened
  <2>2. done.daily = r.daily /\ done.entry = price /\ done.equity = r.equity - Cost
    BY <2>1 DEF Row
  <2>3. Headroom(r) # 0
    BY <1>3 DEF Size
  <2>4. r.equity - Floor >= 1
    BY <1>1, <2>3 DEF Headroom, Larger, Smaller, Floor
  <2>5. r.equity - Cost >= Floor
    BY <1>1, <2>4 DEF Floor
  <2> QED BY <2>2, <2>5
<1> QED BY <1>2, <1>3

\* What rotation, rollover and the floors leave of a row.
LEMMA PreparedKeeps ==
  ASSUME NEW r \in Row, NEW price \in Prices, NEW asOf \in Nat
  PROVE  LET x == Prepared(r, price, asOf)
         IN /\ OpensOf(r) = Closes(r, price) + OpensOf(x)
            /\ ~x.failed => Mark(x, price) > Floor
            /\ Secure(r) => Secure(x)
            /\ x.qty \in {0, r.qty}
            /\ r.daily /\ ~DayRolled(r, asOf) => x.daily
<1> DEFINE a == Rotated(r, price)
           b == RolledOver(a, price, asOf)
           x == Checked(b, price)
<1>0. x = Prepared(r, price, asOf)
  BY DEF Prepared
<1>1. /\ a \in Row /\ a.day = r.day /\ a.dayStart = r.dayStart /\ a.daily = r.daily
      /\ OpensOf(r) = Closes(r, price) + OpensOf(a)
      /\ Flat(a) \/ a = r
      /\ Flat(r) => a = r
  <2>1. CASE Rotates(r)
    <3>1. /\ Closed(r, price) \in Row /\ Flat(Closed(r, price))
          /\ Closed(r, price).day = r.day /\ Closed(r, price).dayStart = r.dayStart
          /\ Closed(r, price).daily = r.daily
      BY CloseFlattens, CloseKeeps
    <3>2. a = [Closed(r, price) EXCEPT !.named = TRUE]
      BY <2>1 DEF Rotated
    <3>3. a \in Row /\ Flat(a) /\ a.day = r.day /\ a.dayStart = r.dayStart /\ a.daily = r.daily
      <4> DEFINE c == Closed(r, price)
      <4> HIDE DEF c
      <4>1. a = [c EXCEPT !.named = TRUE] /\ c \in Row /\ c.qty = 0
        BY <3>1, <3>2 DEF c, Flat
      <4>2. a \in Row /\ a.qty = 0 /\ a.day = c.day /\ a.dayStart = c.dayStart /\ a.daily = c.daily
        BY <4>1 DEF Row
      <4> QED BY <3>1, <4>2 DEF c, Flat
    <3> QED BY <2>1, <3>3 DEF Rotates, OpensOf, Closes
  <2>2. CASE ~Rotates(r)
    BY <2>2 DEF Rotated, Closes, OpensOf
  <2> QED BY <2>1, <2>2 DEF Rotates
<1> HIDE DEF a
<1>2. Mark(a, price) \in Int
  BY <1>1, MarkIsInt
<1>3. /\ b \in Row /\ b.qty = a.qty /\ b.entry = a.entry /\ b.equity = a.equity
      /\ DayRolled(a, asOf) => ~b.daily /\ b.dayStart = Mark(a, price)
      /\ ~DayRolled(a, asOf) => b = a
  BY <1>1, <1>2 DEF RolledOver, Row
<1>4. Mark(b, price) = Mark(a, price)
  BY <1>3 DEF Mark
<1> HIDE DEF b
<1>5. /\ x.qty = b.qty /\ x.entry = b.entry /\ x.equity = b.equity
      /\ b.failed => x = b
      /\ ~b.failed => /\ x.failed <=> Mark(b, price) <= Floor
                      /\ x.daily <=> (b.daily \/ Mark(b, price) - b.dayStart <= -DailyLoss \/ x.failed)
  <2>1. CASE b.failed
    BY <2>1 DEF Checked
  <2>2. CASE ~b.failed
    <3> DEFINE failed == Mark(b, price) <= Capital - HardFloor
               lost == Mark(b, price) - b.dayStart <= -DailyLoss
               daily == b.daily \/ lost \/ failed
    <3>1. x = [b EXCEPT !.failed = failed, !.daily = daily]
      BY <2>2 DEF Checked
    <3>2. x.failed = failed /\ x.daily = daily
          /\ x.qty = b.qty /\ x.entry = b.entry /\ x.equity = b.equity
      <4> HIDE DEF failed, daily
      <4> QED BY <3>1, <1>3 DEF Row
    <3> QED BY <2>2, <3>2 DEF Floor
  <2> QED BY <2>1, <2>2
<1> HIDE DEF x
<1>6. Mark(x, price) = Mark(b, price)
  BY <1>5 DEF Mark
<1>7. OpensOf(r) = Closes(r, price) + OpensOf(x)
  BY <1>1, <1>3, <1>5 DEF OpensOf, Flat
<1>8. ~x.failed => Mark(x, price) > Floor
  <2>1. Mark(b, price) \in Int /\ Floor \in Int
    BY <1>2, <1>4, PaperConstants DEF Floor
  <2> QED BY <2>1, <1>5, <1>6
<1>9. Secure(r) => Secure(x)
  BY <1>1, <1>3, <1>5 DEF Secure, Flat
<1>10. x.qty \in {0, r.qty}
  BY <1>1, <1>3, <1>5 DEF Flat
<1>11. ASSUME r.daily, ~DayRolled(r, asOf) PROVE x.daily
  <2>1. b = a /\ b.daily
    BY <1>1, <1>3, <1>11 DEF DayRolled
  <2> QED BY <2>1, <1>5
<1> QED BY <1>0, <1>7, <1>8, <1>9, <1>10, <1>11

\* One observation in full: the copy a step leaves behind, and the orders it logs.
Observed(p, pos) ==
  LET x == [pos EXCEPT !.exists = TRUE]
  IN /\ task' = [task EXCEPT ![p] =
                   [task[p] EXCEPT !.pos = x,
                                   !.pc = IF task[p].kind = "cycle" THEN "save" ELSE "step"]]
     /\ journal' = [journal EXCEPT ![task[p].slot] = journal'[task[p].slot]]
     /\ journal[task[p].slot] = OpensOf(task[p].pos) => journal'[task[p].slot] = OpensOf(pos)
     /\ UNCHANGED <<rows, today, bar, serial>>

\* The count of a slot stays exact when exactly what was open is closed.
LEMMA LoggedExactly ==
  ASSUME NEW n \in {0, 1}, NEW m \in {0, 1}
  PROVE  Logged(n, m, n) = m
  BY DEF Logged, Larger, Smaller

LEMMA AppliedObserved ==
  ASSUME PaperInv, NEW p \in Procs, NEW pos \in Row, NEW opens, NEW closes,
         Applied(p, pos, opens, closes),
         Logged(OpensOf(task[p].pos), opens, closes) = OpensOf(pos)
  PROVE  Observed(p, pos)
<1>1. task[p] \in Task /\ task[p].slot \in Slots /\ journal \in [Slots -> Int] /\ p \in DOMAIN task
  BY DEF PaperInv, Task, TypeOK
<1>2. journal' = [journal EXCEPT ![task[p].slot] = Logged(journal[task[p].slot], opens, closes)]
  BY DEF Applied
<1> DEFINE x == [pos EXCEPT !.exists = TRUE]
           pc == IF task[p].kind = "cycle" THEN "save" ELSE "step"
<1>3. task' = [task EXCEPT ![p].pos = x, ![p].pc = pc]
  BY DEF Applied
<1> HIDE DEF x, pc
<1>4. task' = [task EXCEPT ![p] = [task[p] EXCEPT !.pos = x, !.pc = pc]]
  BY <1>1, <1>3
<1> QED BY <1>1, <1>2, <1>4 DEF Observed, Applied, x, pc

\* What one observation makes of a copy: it is as secure as the copy, as halted
\* as the rollover and the floors left it, and a halted one opens nothing.
Taken(p, pos, r) ==
  /\ pos \in Row /\ pos.daily = r.daily /\ pos.failed = r.failed
  /\ pos.daily => pos.qty \in {0, r.qty}
  /\ Cost <= 1 /\ Secure(task[p].pos) => Secure(pos)

LEMMA StepShape ==
  ASSUME PaperInv, NEW p \in Procs, Step(p)
  PROVE  \E price \in Prices, pos \in Row :
           /\ Observed(p, pos)
           /\ Taken(p, pos, Prepared(task[p].pos, price, task[p].asOf))
<1>1. PICK price \in Prices :
        LET r == Prepared(task[p].pos, price, task[p].asOf)
        IN \/ StepFailed(p, r, price)
           \/ StepHalted(p, r, price)
           \/ StepStopped(p, r, price)
           \/ StepExit(p, r, price)
           \/ StepHold(p, r, price)
           \/ \E dir \in {-1, 1}, blocked \in BOOLEAN :
                \E stop \in StopsFor(dir, price) : StepEnter(p, r, price, dir, stop, blocked)
  BY DEF Step
<1> DEFINE before == task[p].pos
           r == Prepared(before, price, task[p].asOf)
<1>2. before \in Row /\ task[p].asOf \in Nat
  BY DEF PaperInv, TypeOK, Task
<1>3. /\ r \in Row /\ OpensOf(before) = Closes(before, price) + OpensOf(r)
      /\ ~r.failed => Mark(r, price) > Floor
      /\ Secure(before) => Secure(r)
  BY <1>2, PreparedRow, PreparedKeeps
<1> HIDE DEF r
<1>4. \A y : OpensOf(y) \in {0, 1} /\ (Flat(y) => OpensOf(y) = 0)
  BY DEF OpensOf
<1>5. /\ Closed(r, price) \in Row /\ Flattened(r, price) \in Row
      /\ Flat(Closed(r, price)) /\ Flat(Flattened(r, price))
      /\ Flattened(r, price).failed = r.failed /\ Closed(r, price).failed = r.failed
      /\ Flattened(r, price).daily = r.daily /\ Closed(r, price).daily = r.daily
  BY <1>3, CloseFlattens, CloseKeeps
<1>6. ASSUME NEW pos \in Row, NEW opens, NEW closes, Applied(p, pos, opens, closes),
             opens = OpensOf(pos), closes = OpensOf(before),
             pos.daily = r.daily, pos.failed = r.failed,
             pos.daily => pos.qty \in {0, r.qty},
             Cost <= 1 /\ Secure(before) => Secure(pos)
      PROVE  Observed(p, pos) /\ Taken(p, pos, r)
  <2>1. Logged(OpensOf(before), opens, closes) = OpensOf(pos)
    BY <1>4, <1>6, LoggedExactly
  <2> QED BY <2>1, <1>6, AppliedObserved DEF Taken
\* A step that leaves what is open as it was logs at most the rotation.
<1>7. ASSUME NEW pos \in Row, Applied(p, pos, 0, Closes(before, price)), pos.qty = r.qty,
             pos.daily = r.daily, pos.failed = r.failed,
             Cost <= 1 /\ Secure(before) => Secure(pos)
      PROVE  Observed(p, pos) /\ Taken(p, pos, r)
  <2>1. OpensOf(pos) = OpensOf(r)
    BY <1>7 DEF OpensOf, Flat
  <2>2. Closes(before, price) \in {0, 1} /\ OpensOf(r) \in {0, 1} /\ OpensOf(before) \in {0, 1}
    BY <1>4 DEF Closes
  <2>3. Logged(OpensOf(before), 0, Closes(before, price)) = OpensOf(pos)
    BY <2>1, <2>2, <1>3 DEF Logged, Larger, Smaller
  <2> QED BY <2>3, <1>7, AppliedObserved DEF Taken
<1>8. ASSUME NEW pos \in Row, Flat(pos) PROVE Secure(pos) /\ OpensOf(pos) = 0 /\ pos.qty = 0
  BY <1>8 DEF Secure, OpensOf, Flat
<1>9. CASE StepFailed(p, r, price)
  BY <1>3, <1>5, <1>6, <1>8, <1>9 DEF StepFailed, r
<1>10. CASE StepHalted(p, r, price)
  BY <1>3, <1>7, <1>10 DEF StepHalted, r
<1>11. CASE StepStopped(p, r, price)
  <2>1. OpensOf(r) = 1
    BY <1>11 DEF StepStopped, StopBreached, OpensOf
  <2> QED BY <2>1, <1>3, <1>5, <1>6, <1>8, <1>11 DEF StepStopped, r
<1>12. CASE StepExit(p, r, price)
  BY <1>3, <1>5, <1>6, <1>8, <1>12 DEF StepExit, ExitLogged, r
<1>13. CASE StepHold(p, r, price)
  <2> DEFINE pos == Remarked(r, price)
  <2>1. /\ pos \in Row /\ pos.failed = r.failed /\ pos.daily = r.daily
        /\ pos.qty = r.qty /\ pos.equity = Mark(r, price)
    BY <1>3, RemarkKeeps DEF Remarked, Row
  <2>2. Secure(pos)
    <3>1. Mark(r, price) \in Int /\ Floor \in Int
      BY <1>3, MarkIsInt, PaperConstants DEF Floor
    <3> QED BY <3>1, <2>1, <1>3, <1>13 DEF StepHold, Acts, MayAct, Secure
  <2> QED BY <2>1, <2>2, <1>7, <1>13 DEF StepHold, r
<1>14. ASSUME NEW dir \in {-1, 1}, NEW blocked \in BOOLEAN, NEW stop \in StopsFor(dir, price),
              StepEnter(p, r, price, dir, stop, blocked)
       PROVE  \E pos \in Row : Observed(p, pos) /\ Taken(p, pos, r)
  <2> DEFINE flat == Flattened(r, price)
             done == IF Barred(r, blocked) THEN flat ELSE Opened(flat, dir, price, stop)
             pos == Remarked(done, price)
  <2>1. stop \in Nat
    BY PaperConstants DEF StopsFor
  <2>2. /\ done \in Row /\ done.failed = r.failed /\ done.daily = r.daily
        /\ r.daily => done.qty = 0
        /\ Cost <= 1 /\ ~Flat(done) => done.equity >= Floor /\ done.entry = price
    <3>1. /\ Opened(flat, dir, price, stop) \in Row
          /\ Opened(flat, dir, price, stop).failed = flat.failed
          /\ Cost <= 1 => /\ Opened(flat, dir, price, stop).daily = flat.daily
                          /\ ~Flat(Opened(flat, dir, price, stop)) =>
                               /\ Opened(flat, dir, price, stop).equity >= Floor
                               /\ Opened(flat, dir, price, stop).entry = price
      BY <1>5, <2>1, OpenKeepsFlags, OpenIsSecure
    <3>2. Opened(flat, dir, price, stop).daily = flat.daily
      BY <1>5 DEF Opened, Row
    <3> QED BY <1>5, <3>1, <3>2 DEF Barred, Flat
  <2> HIDE DEF done
  <2>3. /\ pos \in Row /\ pos.failed = done.failed /\ pos.daily = done.daily
        /\ pos.qty = done.qty /\ pos.equity = Mark(done, price)
    BY <2>2, RemarkKeeps DEF Remarked, Row
  <2> HIDE DEF pos
  <2>4. Cost <= 1 => Secure(pos)
    BY <2>2, <2>3, FlatMark DEF Secure, Flat
  <2>5. Applied(p, pos, OpensOf(pos), Closes(before, price) + OpensOf(r))
    BY <1>14, <2>3 DEF StepEnter, done, pos, OpensOf, Flat
  <2> QED BY <2>2, <2>3, <2>4, <2>5, <1>3, <1>6
<1> QED BY <1>1, <1>9, <1>10, <1>11, <1>12, <1>13, <1>14 DEF r, Observed, Taken

-----------------------------------------------------------------------------
(* What each operation does to its process, field by field.                *)

OthersKept(p) == \A q \in Procs \ {p} : task'[q] = task[q]
TablesKept == UNCHANGED <<rows, journal, today, bar, serial>>

Started(p) ==
  /\ task[p].kind = "idle" /\ UNCHANGED <<rows, journal, today, bar>>
  /\ serial' = (serial /\ Busy = {})
  /\ \/ /\ task'[p].kind = "cycle" /\ task'[p].pc = "next"
        /\ task'[p].pos = NoRow /\ task'[p].snap = NoSnap
     \/ /\ task'[p].kind = "replay" /\ task'[p].pc = "step"
        /\ "reReplay" \in Faults \/ ~rows[task'[p].slot].exists
        /\ task'[p].pos = Fresh(Capital, TRUE) /\ task'[p].snap = NoSnap
     \/ /\ task'[p].kind \in {"kill", "resume"} /\ task'[p].pc = "next"
        /\ task'[p].todo \subseteq Slots /\ task'[p].asked = task'[p].todo
        /\ task'[p].pos = NoRow
        /\ \A s \in Slots : task'[p].snap[s] = IF s \in task'[p].todo THEN rows[s] ELSE NoRow

Loaded(p) ==
  /\ task[p].kind = "cycle" /\ task[p].pc = "next" /\ TablesKept
  /\ task'[p].kind = "cycle" /\ task'[p].pc = "step" /\ task'[p].snap = task[p].snap
  /\ task'[p].asOf = bar
  /\ \/ rows[task'[p].slot].exists /\ task'[p].pos = rows[task'[p].slot]
     \/ /\ ~rows[task'[p].slot].exists
        /\ \E equity \in StartEquity : task'[p].pos = Fresh(equity, TRUE)

Watched(p) ==
  /\ task[p].kind \in {"cycle", "replay"} /\ task[p].pc = "step"
  /\ task'[p].kind = task[p].kind /\ task'[p].slot = task[p].slot /\ task'[p].snap = task[p].snap
  /\ task'[p].pc = IF task[p].kind = "cycle" THEN "save" ELSE "step"
  /\ UNCHANGED <<rows, today, bar, serial>>
  /\ \A s \in Slots \ {task[p].slot} : journal'[s] = journal[s]
  /\ journal[task[p].slot] = OpensOf(task[p].pos) =>
       journal'[task[p].slot] = OpensOf(task'[p].pos)
  /\ \E price \in Prices : Taken(p, task'[p].pos, Prepared(task[p].pos, price, task[p].asOf))

Finished(p) ==
  /\ task[p].kind = "replay" /\ task[p].pc = "step" /\ TablesKept
  /\ task'[p].pc = "save" /\ task'[p].kind = task[p].kind /\ task'[p].slot = task[p].slot
  /\ task'[p].pos = task[p].pos /\ task'[p].snap = task[p].snap

\* An operator takes the next slot of its list in hand.
TakesUp(p) ==
  /\ task[p].pc = "next" /\ task'[p].pc = "save"
  /\ UNCHANGED <<rows, today, bar, serial>>
  /\ task'[p].kind = task[p].kind /\ task'[p].todo = task[p].todo
  /\ task'[p].asked = task[p].asked /\ task'[p].slot \in task[p].todo
  /\ task'[p].snap[task'[p].slot] = NoRow
  /\ \A s \in Slots \ {task'[p].slot} :
       task'[p].snap[s] = task[p].snap[s] /\ journal'[s] = journal[s]
  /\ LET s == task'[p].slot
     IN /\ journal[s] = OpensOf(task[p].snap[s]) => journal'[s] = OpensOf(task'[p].pos)
        /\ task'[p].pos.daily = task[p].snap[s].daily

Killed(p) ==
  task[p].kind = "kill" /\ TakesUp(p) /\ Flat(task'[p].pos) /\ task'[p].pos.manual

Skipped(p) ==
  /\ task[p].kind = "kill" /\ task[p].pc = "next" /\ TablesKept
  /\ \E s \in task[p].todo :
       /\ ~Flat(task[p].snap[s])
       /\ \/ task[p].todo = {s} /\ task'[p] = Idle
          \/ /\ task'[p].kind = task[p].kind /\ task'[p].pc = task[p].pc
             /\ task'[p].todo = task[p].todo \ {s} /\ task'[p].asked = task[p].asked
             /\ task'[p].pos = task[p].pos /\ task'[p].snap = task[p].snap

Resumed(p) ==
  /\ task[p].kind = "resume" /\ TakesUp(p)
  /\ LET was == task[p].snap[task'[p].slot]
     IN task'[p].pos.qty = was.qty /\ task'[p].pos.equity = was.equity

Saved(p) ==
  /\ task[p].pc = "save" /\ UNCHANGED <<journal, today, bar, serial>>
  /\ \A s \in Slots \ {task[p].slot} : rows'[s] = rows[s]
  /\ LET row == rows'[task[p].slot]
     IN /\ row.exists /\ row.qty = task[p].pos.qty /\ row.equity = task[p].pos.equity
        /\ row.daily = task[p].pos.daily /\ row.failed = task[p].pos.failed
        /\ row.manual = task[p].pos.manual
        /\ row.day = IF task[p].kind = "replay" THEN task[p].asOf ELSE today
  /\ \/ task[p].todo \ {task[p].slot} = {} /\ task'[p] = Idle
     \/ /\ task'[p].kind = task[p].kind /\ task'[p].pc = "next"
        /\ task'[p].todo = task[p].todo \ {task[p].slot} /\ task'[p].asked = task[p].asked
        /\ task'[p].pos = NoRow /\ task'[p].snap = task[p].snap

Died(p) ==
  /\ "crash" \in Faults /\ task'[p] = Idle /\ ~serial'
  /\ UNCHANGED <<rows, journal, today, bar>>

Dated ==
  /\ \/ NewDay \/ Collect \/ Backfill
     \/ UNCHANGED <<today, bar>>
  /\ UNCHANGED <<rows, journal, task, serial>>

Acted(p) ==
  \/ Started(p) \/ Loaded(p) \/ Watched(p) \/ Finished(p)
  \/ Killed(p) \/ Skipped(p) \/ Resumed(p) \/ Saved(p) \/ Died(p)

LEMMA BeginShape ==
  ASSUME PaperInv, NEW p \in Procs, NEW t, Begin(p, t)
  PROVE  /\ task'[p] = t /\ OthersKept(p) /\ task[p].kind = "idle"
         /\ UNCHANGED <<rows, journal, today, bar>> /\ serial' = (serial /\ Busy = {})
BY DEF Begin, OthersKept, PaperInv

LEMMA CommandShape ==
  ASSUME PaperInv, NEW p \in Procs,
         StartCycle(p) \/ LoadSlot(p) \/ Step(p) \/ StartReplay(p) \/ EndReplay(p)
  PROVE  OthersKept(p) /\ Acted(p)
<1>0. task \in [Procs -> Task] /\ task[p] \in Task
  BY DEF PaperInv
<1>1. CASE StartCycle(p)
  <2>1. PICK todo \in Candidates :
          Begin(p, [Idle EXCEPT !.kind = "cycle", !.pc = "next", !.todo = todo])
    BY <1>1 DEF StartCycle
  <2> DEFINE t == [Idle EXCEPT !.kind = "cycle", !.pc = "next", !.todo = todo]
  <2>2. t.kind = "cycle" /\ t.pc = "next" /\ t.pos = NoRow /\ t.snap = NoSnap
    BY DEF Idle
  <2> HIDE DEF t
  <2> QED BY <2>1, <2>2, BeginShape DEF Acted, Started, t
<1>2. CASE LoadSlot(p)
  <2>1. PICK s \in task[p].todo, equity \in StartEquity :
          task' = [task EXCEPT ![p].slot = s, ![p].pc = "step", ![p].asOf = bar,
                    ![p].pos = IF rows[s].exists THEN rows[s] ELSE Fresh(equity, TRUE)]
    BY <1>2 DEF LoadSlot
  <2>2. /\ task'[p].slot = s /\ task'[p].pc = "step" /\ task'[p].kind = task[p].kind
        /\ task'[p].snap = task[p].snap /\ task'[p].asOf = bar
        /\ task'[p].pos = IF rows[s].exists THEN rows[s] ELSE Fresh(equity, TRUE)
    BY <1>0, <2>1 DEF Task
  <2>3. OthersKept(p)
    BY <1>0, <2>1 DEF OthersKept
  <2> QED BY <1>2, <2>2, <2>3 DEF Acted, Loaded, LoadSlot, TablesKept
<1>3. CASE Step(p)
  <2>1. PICK price \in Prices, pos \in Row :
          /\ Observed(p, pos)
          /\ Taken(p, pos, Prepared(task[p].pos, price, task[p].asOf))
    BY <1>3, StepShape
  <2> DEFINE x == [pos EXCEPT !.exists = TRUE]
             r == Prepared(task[p].pos, price, task[p].asOf)
             pc == IF task[p].kind = "cycle" THEN "save" ELSE "step"
  <2>2. /\ x \in Row /\ x.qty = pos.qty /\ x.equity = pos.equity /\ x.daily = pos.daily
        /\ x.failed = pos.failed
    BY DEF Row
  <2>3. Taken(p, x, r) /\ OpensOf(x) = OpensOf(pos)
    BY <2>1, <2>2 DEF Taken, Secure, OpensOf, Flat
  <2>4. task' = [task EXCEPT ![p] = [task[p] EXCEPT !.pos = x, !.pc = pc]]
    BY <2>1 DEF Observed
  <2> HIDE DEF x, r, pc
  <2>5. /\ OthersKept(p) /\ task'[p].pos = x /\ task'[p].pc = pc
        /\ task'[p].kind = task[p].kind /\ task'[p].slot = task[p].slot
        /\ task'[p].snap = task[p].snap
    BY <2>4, <1>0 DEF OthersKept, Task
  <2>6. /\ UNCHANGED <<rows, today, bar, serial>>
        /\ \A s \in Slots \ {task[p].slot} : journal'[s] = journal[s]
        /\ journal[task[p].slot] = OpensOf(task[p].pos) => journal'[task[p].slot] = OpensOf(x)
    BY <2>1, <2>3 DEF Observed, PaperInv, TypeOK
  <2>7. task[p].kind \in {"cycle", "replay"} /\ task[p].pc = "step"
    BY <1>3 DEF Step
  <2> QED BY <2>3, <2>5, <2>6, <2>7 DEF Acted, Watched, r, pc
<1>4. CASE StartReplay(p)
  <2>1. PICK s \in Slots :
          /\ "reReplay" \in Faults \/ ~rows[s].exists
          /\ Begin(p, [Idle EXCEPT !.kind = "replay", !.pc = "step", !.slot = s, !.todo = {s},
                                !.asOf = bar, !.pos = Fresh(Capital, TRUE)])
    BY <1>4 DEF StartReplay
  <2> DEFINE t == [Idle EXCEPT !.kind = "replay", !.pc = "step", !.slot = s, !.todo = {s},
                               !.asOf = bar, !.pos = Fresh(Capital, TRUE)]
  <2>2. /\ t.kind = "replay" /\ t.pc = "step" /\ t.slot = s /\ t.pos = Fresh(Capital, TRUE)
        /\ t.snap = NoSnap
    BY DEF Idle
  <2> HIDE DEF t
  <2> QED BY <2>1, <2>2, BeginShape DEF Acted, Started, t
<1>5. CASE EndReplay(p)
  <2>1. /\ task'[p].pc = "save" /\ task'[p].kind = task[p].kind /\ task'[p].slot = task[p].slot
        /\ task'[p].pos = task[p].pos /\ task'[p].snap = task[p].snap
    BY <1>0, <1>5 DEF EndReplay, Task
  <2>2. OthersKept(p)
    BY <1>0, <1>5 DEF EndReplay, OthersKept
  <2> QED BY <1>5, <2>1, <2>2 DEF Acted, Finished, EndReplay, TablesKept
<1> QED BY <1>1, <1>2, <1>3, <1>4, <1>5

LEMMA OperatorShape ==
  ASSUME PaperInv, NEW p \in Procs,
         \/ StartOperator(p, "kill") \/ KillSlot(p) \/ KillSkips(p)
         \/ StartOperator(p, "resume") \/ ResumeSlot(p)
  PROVE  OthersKept(p) /\ Acted(p)
<1>0. /\ task \in [Procs -> Task] /\ task[p] \in Task /\ journal \in [Slots -> Int]
      /\ task[p].todo \subseteq Slots /\ task[p].snap \in [Slots -> Row]
  BY DEF PaperInv, TypeOK, Task
<1>1. ASSUME NEW kind \in {"kill", "resume"}, StartOperator(p, kind)
      PROVE  OthersKept(p) /\ Acted(p)
  <2>1. PICK todo \in Targets :
          Begin(p, [Idle EXCEPT !.kind = kind, !.pc = "next", !.todo = todo, !.asked = todo,
                      !.snap = [s \in Slots |-> IF s \in todo THEN rows[s] ELSE NoRow]])
    BY <1>1 DEF StartOperator
  <2> DEFINE snap == [s \in Slots |-> IF s \in todo THEN rows[s] ELSE NoRow]
             t == [Idle EXCEPT !.kind = kind, !.pc = "next", !.todo = todo, !.asked = todo,
                     !.snap = snap]
  <2>2. todo \subseteq Slots
    BY DEF Targets, Existing
  <2>3. \A s \in Slots : snap[s] = IF s \in todo THEN rows[s] ELSE NoRow
    OBVIOUS
  <2>4. Begin(p, t)
    BY <2>1
  <2> HIDE DEF snap
  <2>5. t.kind = kind /\ t.pc = "next" /\ t.todo = todo /\ t.asked = todo /\ t.pos = NoRow /\ t.snap = snap
    BY DEF Idle
  <2> HIDE DEF t
  <2>6. /\ task'[p] = t /\ OthersKept(p) /\ task[p].kind = "idle"
        /\ UNCHANGED <<rows, journal, today, bar>> /\ serial' = (serial /\ Busy = {})
    BY <2>4, BeginShape
  <2> QED BY <2>2, <2>3, <2>5, <2>6 DEF Acted, Started
<1>2. CASE KillSlot(p)
  <2>1. PICK s \in task[p].todo, price \in Prices :
          LET r == task[p].snap[s]
          IN /\ task' = [task EXCEPT ![p].slot = s, ![p].pc = "save", ![p].snap[s] = NoRow,
                           ![p].pos = Halted(Flattened(r, price))]
             /\ journal' = [journal EXCEPT ![s] = Logged(@, 0, OpensOf(r))]
    BY <1>2 DEF KillSlot
  <2> DEFINE r == task[p].snap[s]
             pos == Halted(Flattened(r, price))
             snap == [task[p].snap EXCEPT ![s] = NoRow]
  <2>2. Flat(pos) /\ pos.manual /\ OpensOf(pos) = 0 /\ pos.daily = r.daily
    <3>1. /\ Flattened(r, price) \in Row /\ Flat(Flattened(r, price))
          /\ Flattened(r, price).daily = r.daily
      BY <1>0, CloseFlattens, CloseKeeps
    <3> QED BY <3>1 DEF Halted, Row, Flat, OpensOf
  <2> HIDE DEF pos
  <2>3. task' = [task EXCEPT ![p] = [task[p] EXCEPT !.slot = s, !.pc = "save", !.snap = snap, !.pos = pos]]
    BY <2>1, <1>0 DEF Task, pos
  <2>4. \A c \in Slots \ {s} : snap[c] = task[p].snap[c]
    BY <1>0
  <2>5. snap[s] = NoRow
    BY <1>0
  <2> HIDE DEF snap
  <2>6. /\ OthersKept(p) /\ task'[p].slot = s /\ task'[p].pc = "save" /\ task'[p].snap = snap
        /\ task'[p].pos = pos /\ task'[p].kind = task[p].kind /\ task'[p].todo = task[p].todo
        /\ task'[p].asked = task[p].asked
    BY <2>3, <1>0 DEF OthersKept, Task
  <2>7. /\ \A c \in Slots \ {s} : journal'[c] = journal[c]
        /\ journal[s] = OpensOf(r) => journal'[s] = 0
    <3>1. journal'[s] = Logged(journal[s], 0, OpensOf(r)) /\ \A c \in Slots \ {s} : journal'[c] = journal[c]
      BY <2>1, <1>0
    <3>2. OpensOf(r) \in {0, 1} /\ Logged(OpensOf(r), 0, OpensOf(r)) = 0
      BY LoggedExactly DEF OpensOf
    <3> QED BY <3>1, <3>2
  <2> QED BY <1>2, <2>2, <2>4, <2>5, <2>6, <2>7 DEF Acted, Killed, TakesUp, KillSlot
<1>3. CASE KillSkips(p)
  <2>1. PICK s \in task[p].todo :
          /\ ~Flat(task[p].snap[s])
          /\ task' = [task EXCEPT ![p] =
               IF task[p].todo = {s} THEN Idle ELSE [task[p] EXCEPT !.todo = task[p].todo \ {s}]]
    BY <1>0, <1>3 DEF KillSkips
  <2>2. OthersKept(p)
    BY <1>0, <2>1 DEF OthersKept
  <2>3. task'[p] = IF task[p].todo = {s} THEN Idle ELSE [task[p] EXCEPT !.todo = task[p].todo \ {s}]
    BY <1>0, <2>1
  <2>4. task[p].todo # {s} =>
          /\ task'[p].kind = task[p].kind /\ task'[p].pc = task[p].pc
          /\ task'[p].todo = task[p].todo \ {s} /\ task'[p].asked = task[p].asked
          /\ task'[p].pos = task[p].pos /\ task'[p].snap = task[p].snap
    BY <1>0, <2>3 DEF Task
  <2> QED BY <1>3, <2>1, <2>2, <2>3, <2>4 DEF Acted, Skipped, KillSkips, TablesKept
<1>4. CASE ResumeSlot(p)
  <2>1. PICK s \in task[p].todo :
          task' = [task EXCEPT ![p].slot = s, ![p].pc = "save", ![p].snap[s] = NoRow,
                    ![p].pos = [task[p].snap[s] EXCEPT !.manual = FALSE, !.exists = TRUE]]
    BY <1>4 DEF ResumeSlot
  <2> DEFINE r == task[p].snap[s]
             pos == [r EXCEPT !.manual = FALSE, !.exists = TRUE]
             snap == [task[p].snap EXCEPT ![s] = NoRow]
  <2>2. /\ pos.qty = r.qty /\ pos.equity = r.equity /\ OpensOf(pos) = OpensOf(r)
        /\ pos.daily = r.daily
    <3>1. r \in Row
      BY <1>0
    <3> QED BY <3>1 DEF Row, OpensOf, Flat
  <2> HIDE DEF pos
  <2>3. task' = [task EXCEPT ![p] = [task[p] EXCEPT !.slot = s, !.pc = "save", !.snap = snap, !.pos = pos]]
    BY <2>1, <1>0 DEF Task, pos
  <2>4. snap[s] = NoRow /\ \A c \in Slots \ {s} : snap[c] = task[p].snap[c]
    BY <1>0
  <2> HIDE DEF snap
  <2>5. /\ OthersKept(p) /\ task'[p].slot = s /\ task'[p].pc = "save" /\ task'[p].snap = snap
        /\ task'[p].pos = pos /\ task'[p].kind = task[p].kind /\ task'[p].todo = task[p].todo
        /\ task'[p].asked = task[p].asked
    BY <2>3, <1>0 DEF OthersKept, Task
  <2> QED BY <1>4, <2>2, <2>4, <2>5 DEF Acted, Resumed, TakesUp, ResumeSlot
<1> QED BY <1>1, <1>2, <1>3, <1>4

LEMMA SaveShape ==
  ASSUME PaperInv, NEW p \in Procs, SaveSlot(p) \/ Crash(p)
  PROVE  OthersKept(p) /\ Acted(p)
<1>0. /\ task \in [Procs -> Task] /\ task[p] \in Task /\ rows \in [Slots -> Row]
      /\ task[p].slot \in Slots /\ task[p].pos \in Row
  BY DEF PaperInv, TypeOK, Task
<1>1. CASE SaveSlot(p)
  <2> DEFINE t == task[p]
             left == t.todo \ {t.slot}
             day == IF t.kind = "replay" THEN t.asOf ELSE today
             row == [t.pos EXCEPT !.exists = TRUE, !.day = day]
             next == [t EXCEPT !.todo = left, !.pc = "next", !.asOf = 0, !.pos = NoRow,
                               !.slot = AnySlot]
  <2>1. rows' = [rows EXCEPT ![t.slot] = row] /\ task' = [task EXCEPT ![p] = IF left = {} THEN Idle ELSE next]
    BY <1>1 DEF SaveSlot
  <2>2. /\ row.exists /\ row.qty = t.pos.qty /\ row.equity = t.pos.equity /\ row.daily = t.pos.daily
        /\ row.failed = t.pos.failed /\ row.manual = t.pos.manual /\ row.day = day
    <3> HIDE DEF day
    <3> QED BY <1>0 DEF Row
  <2>3. /\ next.kind = t.kind /\ next.pc = "next" /\ next.todo = left /\ next.asked = t.asked
        /\ next.pos = NoRow /\ next.snap = t.snap
    BY <1>0 DEF Task
  <2> HIDE DEF row, next
  <2>4. /\ rows'[t.slot] = row /\ \A s \in Slots \ {t.slot} : rows'[s] = rows[s]
        /\ OthersKept(p) /\ task'[p] = IF left = {} THEN Idle ELSE next
    BY <1>0, <2>1 DEF OthersKept
  <2>5. Saved(p)
    BY <1>1, <2>2, <2>3, <2>4 DEF Saved, SaveSlot
  <2> QED BY <2>4, <2>5 DEF Acted
<1>2. CASE Crash(p)
  BY <1>0, <1>2 DEF Acted, Died, Crash, OthersKept
<1> QED BY <1>1, <1>2

\* Every step is one of these of a single process, or the calendar's.
LEMMA Shapes ==
  ASSUME PaperInv, [Next]_paperVars
  PROVE  Dated \/ \E p \in Procs : OthersKept(p) /\ Acted(p)
<1>1. ASSUME NEW p \in Commands,
             StartCycle(p) \/ LoadSlot(p) \/ Step(p) \/ StartReplay(p) \/ EndReplay(p)
      PROVE  p \in Procs /\ OthersKept(p) /\ Acted(p)
  BY <1>1, CommandShape DEF Procs
<1>2. ASSUME NEW p \in Requests,
             \/ StartOperator(p, "kill") \/ KillSlot(p) \/ KillSkips(p)
             \/ StartOperator(p, "resume") \/ ResumeSlot(p)
      PROVE  p \in Procs /\ OthersKept(p) /\ Acted(p)
  BY <1>2, OperatorShape DEF Procs
<1>3. CASE NewDay \/ Collect \/ Backfill \/ UNCHANGED paperVars
  BY <1>3 DEF Dated, NewDay, Collect, Backfill, paperVars
<1> QED BY <1>1, <1>2, <1>3, SaveShape DEF Next
-----------------------------------------------------------------------------
(* Nothing is held below the hard floor.                                   *)

\* One process moves; the copies of the others are what they were.
LEMMA SecureMoves ==
  ASSUME SecureInv, NEW p \in Procs, OthersKept(p),
         \A s \in Slots : Secure(rows'[s]),
         Secure(task'[p].pos), \A s \in Slots : Secure(task'[p].snap[s])
  PROVE  SecureInv'
<1>1. \A q \in Procs : Secure(task'[q].pos) /\ \A s \in Slots : Secure(task'[q].snap[s])
  BY DEF SecureInv, OthersKept
<1> QED BY <1>1 DEF SecureInv, Secure, Flat, Floor

LEMMA FlatIsSecure ==
  /\ Secure(NoRow) /\ Secure(Idle.pos) /\ \A s \in Slots : Secure(Idle.snap[s]) /\ Secure(NoSnap[s])
  /\ \A equity : Secure(Fresh(equity, TRUE))
  BY DEF NoRow, Fresh, Secure, Flat, Idle, NoSnap

LEMMA SecureStays ==
  ASSUME PaperInv, SecureInv, Cost <= 1, [Next]_paperVars
  PROVE  SecureInv'
<1>1. CASE Dated
  BY <1>1 DEF Dated, SecureInv, Secure, Flat, Floor
<1>2. ASSUME NEW p \in Procs, OthersKept(p), Acted(p) PROVE SecureInv'
  <2>0. /\ \A s \in Slots : Secure(rows[s]) /\ Secure(task[p].snap[s])
        /\ Secure(task[p].pos) /\ task[p].todo \subseteq Slots /\ task[p].slot \in Slots
        /\ task'[p].slot \in Slots
    <3>1. task'[p] \in Task /\ task[p] \in Task
      BY PaperStays DEF PaperInv
    <3> QED BY <3>1 DEF SecureInv, Task
  <2>1. CASE Started(p)
    BY <1>2, <2>0, <2>1, FlatIsSecure, SecureMoves DEF Started
  <2>2. CASE Loaded(p)
    BY <1>2, <2>0, <2>2, FlatIsSecure, SecureMoves DEF Loaded, TablesKept
  <2>3. CASE Watched(p)
    BY <1>2, <2>0, <2>3, SecureMoves DEF Watched, Taken
  <2>4. CASE Finished(p)
    BY <1>2, <2>0, <2>4, SecureMoves DEF Finished, TablesKept
  <2>5. CASE Killed(p) \/ Resumed(p)
    <3>1. Secure(task'[p].pos)
      BY <2>0, <2>5 DEF Killed, Resumed, TakesUp, Secure, Flat
    <3> QED BY <1>2, <2>0, <2>5, <3>1, FlatIsSecure, SecureMoves DEF Killed, Resumed, TakesUp
  <2>6. CASE Skipped(p)
    BY <1>2, <2>0, <2>6, FlatIsSecure, SecureMoves DEF Skipped, TablesKept
  <2>7. CASE Saved(p)
    <3>1. Secure(rows'[task[p].slot])
      BY <2>0, <2>7 DEF Saved, Secure, Flat
    <3>2. \A s \in Slots : Secure(rows'[s])
      BY <2>0, <2>7, <3>1 DEF Saved
    <3> QED BY <1>2, <2>0, <2>7, <3>2, FlatIsSecure, SecureMoves DEF Saved
  <2>8. CASE Died(p)
    BY <1>2, <2>0, <2>8, FlatIsSecure, SecureMoves DEF Died
  <2> QED BY <1>2, <2>1, <2>2, <2>3, <2>4, <2>5, <2>6, <2>7, <2>8 DEF Acted
<1> QED BY <1>1, <1>2, Shapes

\* No slot holds a position with its equity below the hard floor: whatever
\* commands and requests overlap or die, the floor is checked on the copy that
\* is saved (_update_propfirm), and the headroom that max_safe_notional leaves
\* covers what an order costs.  That it does is the hypothesis: an order's
\* notional is the headroom over the largest adverse move, of which commission
\* and funding are a small fraction, so that an order never costs more than
\* the least headroom it is placed with.
THEOREM OpensAboveFloor == ASSUME Cost <= 1 PROVE Spec => []OpenAboveFloor
<1>1. Init => SecureInv
  BY FlatIsSecure DEF Init, SecureInv
<1>2. PaperInv /\ SecureInv /\ [Next]_paperVars => SecureInv'
  BY SecureStays
<1>3. SecureInv => OpenAboveFloor
  BY DEF SecureInv, OpenAboveFloor, Secure, Floor
<1> QED BY PaperStarts, PaperStays, <1>1, <1>2, <1>3, PTL DEF Spec
-----------------------------------------------------------------------------
(* The journal and the kill switch, while one process works at a time.     *)

\* What holds of each process whatever overlaps.
Placed(t) ==
  /\ t.kind = "idle" => t.pc = "idle" /\ t.todo = {}
  /\ t.pc = "save" /\ t.kind \in {"kill", "resume"} => t.slot \in t.todo
  /\ t.kind = "kill" => t.asked \subseteq Slots

\* A replay that starts finds no position in its slot.
StartsFlat(p) ==
  task[p].kind = "idle" /\ task'[p].kind = "replay" => Flat(rows[task'[p].slot])
ReplaysFromFlat == [][\A p \in Procs : StartsFlat(p)]_paperVars

LEMMA IdleIsPlaced == Placed(Idle)
  BY DEF Placed, Idle

\* One process moves from where nothing overlaps, and works on: the others are
\* idle, before and after.
LEMMA WorksOn ==
  ASSUME NEW kept, SerialInv(kept), NEW p \in Procs, OthersKept(p), p \in Busy,
         \A s \in Slots : ~rows'[s].exists => Flat(rows'[s]),
         Placed(task'[p]), serial' = serial,
         serial => IF task'[p].kind = "idle"
                   THEN kept => \A s \in Slots : journal'[s] = OpensOf(rows'[s])
                   ELSE TellsOneStory(p, kept)' /\ HaltsSoFar(p)'
  PROVE  SerialInv(kept)'
<1>1. \A q \in Procs : Placed(task'[q])
  BY DEF SerialInv, OthersKept, Placed, Operating
<1>2. ASSUME serial
      PROVE  \A q \in Procs : task'[q].kind # "idle" => q = p
  BY <1>2 DEF SerialInv, OthersKept, Busy
<1>3. ASSUME serial
      PROVE  /\ \A q, r \in Busy' : q = r
             /\ kept /\ Busy' = {} => \A s \in Slots : journal'[s] = OpensOf(rows'[s])
             /\ \A q \in Busy' : TellsOneStory(q, kept)' /\ HaltsSoFar(q)'
  <2>1. \A q \in Busy' : q = p /\ task'[p].kind # "idle"
    BY <1>2, <1>3 DEF Busy
  <2>2. \A q, r \in Busy' : q = r
    BY <2>1
  <2>3. Busy' = {} => task'[p].kind = "idle"
    BY DEF Busy
  <2>4. kept /\ Busy' = {} => \A s \in Slots : journal'[s] = OpensOf(rows'[s])
    BY <2>3, <1>3
  <2>5. ASSUME NEW q \in Busy' PROVE TellsOneStory(q, kept)' /\ HaltsSoFar(q)'
    <3>1. TellsOneStory(p, kept)' /\ HaltsSoFar(p)' /\ q = p
      BY <2>1, <1>3
    <3> QED BY <3>1, Zenon DEF TellsOneStory, HaltsSoFar, HoldsSlot, Operating, Listed
  <2> QED BY <2>2, <2>4, <2>5
<1> QED BY <1>1, <1>3 DEF SerialInv, Placed, Operating, Flat
\* An operation that ends the serial run, or begins it.
LEMMA StartsAlone ==
  ASSUME NEW kept, PaperInv, SerialInv(kept), NEW p \in Procs, OthersKept(p), Started(p),
         kept => StartsFlat(p)
  PROVE  SerialInv(kept)'
<1>1. Placed(task'[p]) /\ task'[p].kind # "idle"
  BY DEF Started, Placed
<1>2. \A q \in Procs : Placed(task'[q])
  BY <1>1 DEF SerialInv, OthersKept, Placed, Operating
<1>3. rows' = rows /\ journal' = journal
  BY DEF Started
<1>4. ASSUME serial'
      PROVE  /\ \A q \in Busy' : q = p
             /\ TellsOneStory(p, kept)' /\ HaltsSoFar(p)'
  <2>1. serial /\ Busy = {}
    BY <1>4 DEF Started
  <2>2. kept => \A s \in Slots : journal[s] = OpensOf(rows[s])
    BY <2>1 DEF SerialInv
  <2>3. \A q \in Busy' : q = p
    BY <2>1 DEF Busy, OthersKept
  <2>4. kept /\ task'[p].kind = "replay" => OpensOf(rows[task'[p].slot]) = 0
    BY DEF Started, StartsFlat, OpensOf
  <2>5. OpensOf(Fresh(Capital, TRUE)) = 0
    BY DEF OpensOf, Fresh, Flat
  <2>6. ASSUME kept, NEW s \in Slots
        PROVE  journal'[s] =
                 IF task'[p].pc \in {"step", "save"} /\ s = task'[p].slot
                 THEN OpensOf(task'[p].pos) ELSE OpensOf(rows'[s])
    BY <1>3, <2>2, <2>4, <2>5, <2>6 DEF Started
  <2>7. task'[p].kind \in {"kill", "resume"} =>
          \A s \in Slots : s \in task'[p].todo =>
            OpensOf(task'[p].snap[s]) = OpensOf(rows'[s])
    BY <1>3 DEF Started
  <2>8. TellsOneStory(p, kept)'
    <3>1. kept => \A s \in Slots : journal'[s] =
             IF task'[p].pc \in {"step", "save"} /\ s = task'[p].slot
             THEN OpensOf(task'[p].pos) ELSE OpensOf(rows'[s])
      BY <2>6
    <3>2. task'[p].kind \in {"kill", "resume"} =>
            task'[p].todo \subseteq Slots /\ task'[p].pc = "next"
      BY DEF Started
    <3> HIDE DEF Started
    <3> QED BY <3>1, <3>2, <2>7 DEF TellsOneStory, HoldsSlot, Operating, Listed, OpensOf, Flat
  <2>9. HaltsSoFar(p)'
    BY DEF Started, HaltsSoFar
  <2> QED BY <2>3, <2>8, <2>9
<1>5. serial' =>
        /\ \A q, r \in Busy' : q = r
        /\ Busy' # {}
        /\ \A q \in Busy' : TellsOneStory(q, kept)' /\ HaltsSoFar(q)'
  <2>1. ASSUME serial', NEW q \in Busy' PROVE TellsOneStory(q, kept)' /\ HaltsSoFar(q)'
    <3>1. TellsOneStory(p, kept)' /\ HaltsSoFar(p)' /\ q = p
      BY <1>4, <2>1
    <3> QED BY <3>1, Zenon DEF TellsOneStory, HaltsSoFar, HoldsSlot, Operating, Listed
  <2>2. Busy' # {}
    BY <1>1 DEF Busy
  <2> QED BY <1>4, <2>1, <2>2
<1> QED BY <1>2, <1>3, <1>5 DEF SerialInv, Placed, Operating, Flat

LEMMA SerialStays ==
  ASSUME NEW kept, PaperInv, SerialInv(kept), [Next]_paperVars,
         kept => \A p \in Procs : StartsFlat(p)
  PROVE  SerialInv(kept)'
<1>1. CASE Dated
  <2>1. rows' = rows /\ journal' = journal /\ task' = task /\ serial' = serial
    BY <1>1 DEF Dated
  <2> QED BY <2>1 DEF SerialInv, Busy, TellsOneStory, HaltsSoFar, HoldsSlot, Listed, Operating,
                      OpensOf, Flat
<1>2. ASSUME NEW p \in Procs, OthersKept(p), Acted(p) PROVE SerialInv(kept)'
  <2>0. /\ task[p] \in Task /\ task'[p] \in Task /\ task[p].slot \in Slots
        /\ task[p].todo \subseteq Slots /\ Placed(task[p])
        /\ \A s \in Slots : ~rows[s].exists => Flat(rows[s])
        /\ \A s \in Slots : ~rows[s].exists => OpensOf(rows[s]) = 0
    <3>1. task'[p] \in Task /\ task[p] \in Task
      BY PaperStays DEF PaperInv
    <3> QED BY <3>1 DEF Task, SerialInv, Placed, Operating, OpensOf
  <2>1. task[p].pc # "idle" => task[p].kind # "idle"
    BY <2>0 DEF Placed
  <2>2. ASSUME serial, task[p].kind # "idle"
        PROVE  /\ kept => \A s \in Slots : journal[s] =
                    IF task[p].pc \in {"step", "save"} /\ s = task[p].slot
                    THEN OpensOf(task[p].pos) ELSE OpensOf(rows[s])
               /\ task[p].kind \in {"kill", "resume"} =>
                    \A s \in task[p].todo :
                      \/ task[p].pc \in {"step", "save"} /\ s = task[p].slot
                      \/ OpensOf(task[p].snap[s]) = OpensOf(rows[s])
               /\ task[p].kind = "kill" =>
                    /\ \A s \in task[p].asked \ task[p].todo : rows[s].manual \/ ~Flat(rows[s])
                    /\ task[p].pc = "save" => task[p].pos.manual
    BY <2>2 DEF SerialInv, Busy, TellsOneStory, HaltsSoFar, HoldsSlot, Listed, Operating
\* What is to be shown of a step that works on.
  <2>3. ASSUME task[p].kind # "idle", serial' = serial, Placed(task'[p]),
               \A s \in Slots : ~rows'[s].exists => Flat(rows'[s]),
               serial /\ kept => \A s \in Slots : journal'[s] =
                    IF task'[p].pc \in {"step", "save"} /\ s = task'[p].slot
                    THEN OpensOf(task'[p].pos) ELSE OpensOf(rows'[s]),
               serial /\ task'[p].kind \in {"kill", "resume"} =>
                    \A s \in task'[p].todo :
                      \/ task'[p].pc \in {"step", "save"} /\ s = task'[p].slot
                      \/ OpensOf(task'[p].snap[s]) = OpensOf(rows'[s]),
               serial /\ task'[p].kind = "kill" =>
                    /\ \A s \in task'[p].asked \ task'[p].todo : rows'[s].manual \/ ~Flat(rows'[s])
                    /\ task'[p].pc = "save" => task'[p].pos.manual
        PROVE  SerialInv(kept)'
    <3>1. p \in Busy
      BY <2>3 DEF Busy
    <3>2. task'[p].kind = "idle" => task'[p].pc = "idle"
      BY <2>3 DEF Placed
    <3>3. serial => HaltsSoFar(p)'
      BY <2>3 DEF HaltsSoFar, Flat
    <3>4. serial => TellsOneStory(p, kept)'
      BY <2>3 DEF TellsOneStory, HoldsSlot, Operating, Listed, OpensOf, Flat
    <3>5. serial /\ kept /\ task'[p].kind = "idle" => \A s \in Slots : journal'[s] = OpensOf(rows'[s])
      BY <3>2, <2>3
    <3> QED BY <1>2, <2>3, <3>1, <3>3, <3>4, <3>5, WorksOn
  <2>4. CASE Started(p)
    BY <1>2, <2>4, StartsAlone
  <2>5. CASE Loaded(p)
    <3>1. \A equity : OpensOf(Fresh(equity, TRUE)) = 0
      BY DEF OpensOf, Fresh, Flat
    <3>2. /\ rows' = rows /\ journal' = journal /\ serial' = serial /\ task[p].kind = "cycle"
          /\ task'[p].kind = "cycle" /\ task'[p].pc = "step" /\ task[p].pc = "next"
          /\ \/ task'[p].pos = rows[task'[p].slot]
             \/ ~rows[task'[p].slot].exists /\ OpensOf(task'[p].pos) = 0
      BY <2>5, <3>1 DEF Loaded, TablesKept
    <3> QED BY <2>0, <2>2, <2>3, <3>2 DEF Placed
  <2>6. CASE Watched(p)
    BY <2>0, <2>2, <2>3, <2>6 DEF Watched, Placed
  <2>7. CASE Finished(p)
    BY <2>0, <2>2, <2>3, <2>7 DEF Finished, TablesKept, Placed
  <2>8. CASE Killed(p) \/ Resumed(p)
    <3>1. /\ TakesUp(p) /\ task[p].kind \in {"kill", "resume"}
          /\ task[p].kind = "kill" => task'[p].pos.manual
      BY <2>8 DEF Killed, Resumed
    <3>2. Placed(task'[p])
      BY <2>0, <3>1 DEF Placed, TakesUp
    <3>3. serial /\ kept => \A s \in Slots : journal'[s] =
                    IF task'[p].pc \in {"step", "save"} /\ s = task'[p].slot
                    THEN OpensOf(task'[p].pos) ELSE OpensOf(rows'[s])
      BY <2>0, <2>2, <3>1 DEF TakesUp
    <3>4. serial => \A s \in task'[p].todo :
                      \/ task'[p].pc \in {"step", "save"} /\ s = task'[p].slot
                      \/ OpensOf(task'[p].snap[s]) = OpensOf(rows'[s])
      BY <2>0, <2>2, <3>1 DEF TakesUp
    <3>5. serial /\ task'[p].kind = "kill" =>
             \A s \in task'[p].asked \ task'[p].todo : rows'[s].manual \/ ~Flat(rows'[s])
      BY <2>0, <2>2, <3>1 DEF TakesUp
    <3> QED BY <2>0, <2>3, <3>1, <3>2, <3>3, <3>4, <3>5 DEF TakesUp
  <2>9. CASE Skipped(p)
    <3>1. PICK s \in task[p].todo :
            /\ ~Flat(task[p].snap[s])
            /\ \/ task[p].todo = {s} /\ task'[p] = Idle
               \/ /\ task'[p].kind = task[p].kind /\ task'[p].pc = task[p].pc
                  /\ task'[p].todo = task[p].todo \ {s} /\ task'[p].asked = task[p].asked
                  /\ task'[p].pos = task[p].pos /\ task'[p].snap = task[p].snap
      BY <2>9 DEF Skipped
    <3>2. /\ rows' = rows /\ journal' = journal /\ serial' = serial
          /\ task[p].kind = "kill" /\ task[p].pc = "next"
      BY <2>9 DEF Skipped, TablesKept
    <3>3. serial => ~Flat(rows[s])
      BY <2>2, <3>1, <3>2 DEF OpensOf
    <3>4. CASE task[p].todo = {s} /\ task'[p] = Idle
      <4>1. Idle.kind = "idle" /\ Idle.pc = "idle" /\ Idle.todo = {}
        BY DEF Idle
      <4> QED BY <2>0, <2>2, <2>3, <3>2, <3>4, <4>1, IdleIsPlaced
    <3>5. CASE /\ task'[p].kind = task[p].kind /\ task'[p].pc = task[p].pc
               /\ task'[p].todo = task[p].todo \ {s} /\ task'[p].asked = task[p].asked
               /\ task'[p].pos = task[p].pos /\ task'[p].snap = task[p].snap
      BY <2>0, <2>2, <2>3, <3>2, <3>3, <3>5 DEF Placed
    <3> QED BY <3>1, <3>4, <3>5
  <2>10. CASE Saved(p)
    <3> DEFINE slot == task[p].slot
    <3>1. /\ journal' = journal /\ serial' = serial /\ task[p].pc = "save"
          /\ \A s \in Slots \ {slot} : rows'[s] = rows[s]
          /\ rows'[slot].exists /\ rows'[slot].manual = task[p].pos.manual
          /\ OpensOf(rows'[slot]) = OpensOf(task[p].pos)
      BY <2>10 DEF Saved, OpensOf, Flat
    <3>2. \/ task[p].todo \ {slot} = {} /\ task'[p] = Idle
          \/ /\ task'[p].kind = task[p].kind /\ task'[p].pc = "next"
             /\ task'[p].todo = task[p].todo \ {slot} /\ task'[p].asked = task[p].asked
             /\ task'[p].pos = NoRow /\ task'[p].snap = task[p].snap
      BY <2>10 DEF Saved
    <3>3. \A s \in Slots : ~rows'[s].exists => Flat(rows'[s])
      BY <2>0, <3>1
    <3>4. serial /\ kept => \A s \in Slots : journal'[s] = OpensOf(rows'[s])
      BY <2>0, <2>1, <2>2, <3>1
    <3>5. CASE task'[p] = Idle
      <4>1. Idle.kind = "idle" /\ Idle.pc = "idle" /\ Idle.todo = {}
        BY DEF Idle
      <4> QED BY <2>1, <2>3, <3>1, <3>3, <3>4, <3>5, <4>1, IdleIsPlaced
    <3>6. CASE /\ task'[p].kind = task[p].kind /\ task'[p].pc = "next"
               /\ task'[p].todo = task[p].todo \ {slot} /\ task'[p].asked = task[p].asked
               /\ task'[p].pos = NoRow /\ task'[p].snap = task[p].snap
      <4>1. Placed(task'[p])
        BY <2>0, <2>1, <3>1, <3>6 DEF Placed
      <4>2. serial /\ task'[p].kind \in {"kill", "resume"} =>
              \A s \in task'[p].todo : OpensOf(task'[p].snap[s]) = OpensOf(rows'[s])
        BY <2>0, <2>1, <2>2, <3>1, <3>6
      <4>3. serial /\ task'[p].kind = "kill" =>
              \A s \in task'[p].asked \ task'[p].todo : rows'[s].manual \/ ~Flat(rows'[s])
        <5>1. ASSUME serial, task'[p].kind = "kill", NEW s \in task'[p].asked \ task'[p].todo
              PROVE  rows'[s].manual \/ ~Flat(rows'[s])
          <6>1. s \in Slots
            BY <2>0, <3>6, <5>1 DEF Placed
          <6>2. CASE s = slot
            BY <2>1, <2>2, <3>1, <3>6, <5>1, <6>2
          <6>3. CASE s # slot
            BY <2>1, <2>2, <3>1, <3>6, <5>1, <6>1, <6>3
          <6> QED BY <6>2, <6>3
        <5> QED BY <5>1
      <4> QED BY <2>1, <2>3, <3>1, <3>3, <3>4, <3>6, <4>1, <4>2, <4>3
    <3> QED BY <3>2, <3>5, <3>6
  <2>11. CASE Died(p)
    <3>1. rows' = rows /\ ~serial' /\ task'[p] = Idle
      BY <2>11 DEF Died
    <3>2. \A q \in Procs : Placed(task'[q])
      BY <1>2, <3>1, IdleIsPlaced DEF SerialInv, OthersKept, Placed, Operating
    <3> QED BY <3>1, <3>2 DEF SerialInv, Placed, Operating, Flat
  <2> QED BY <1>2, <2>4, <2>5, <2>6, <2>7, <2>8, <2>9, <2>10, <2>11 DEF Acted
<1> QED BY <1>1, <1>2, Shapes

LEMMA SerialStarts ==
  ASSUME NEW kept, Init
  PROVE  SerialInv(kept)
<1>1. OpensOf(NoRow) = 0 /\ Flat(NoRow)
  BY DEF OpensOf, NoRow, Fresh, Flat
<1>2. \A p \in Procs : Placed(task[p]) /\ task[p].kind = "idle"
  BY IdleIsPlaced DEF Init, Idle
<1> QED BY <1>1, <1>2 DEF Init, SerialInv, Placed, Operating, Busy

\* As long as operations do not overlap and none dies, paper_orders holds an
\* OPEN without its CLOSE exactly where paper_positions holds a position: the
\* steps log what they do to their copy (log_order), so that the journal runs
\* ahead of the row in hand and of no other, until save_position catches up.
\* A replay starts from nothing, without a look at the row: that it starts over
\* no position is the hypothesis, and over a flat row it may.
THEOREM JournalIsTrue == Spec /\ ReplaysFromFlat => []JournalMatchesRow
<1>1. ASSUME PaperInv, SerialInv(TRUE), [Next]_paperVars, [\A p \in Procs : StartsFlat(p)]_paperVars
      PROVE  SerialInv(TRUE)'
  <2>1. \A p \in Procs : StartsFlat(p)
    BY <1>1 DEF paperVars, StartsFlat
  <2> QED BY <1>1, <2>1, SerialStays
<1>2. SerialInv(TRUE) => JournalMatchesRow
  BY DEF SerialInv, JournalMatchesRow
<1>3. Init => SerialInv(TRUE)
  BY SerialStarts
<1> QED BY PaperStarts, PaperStays, <1>1, <1>2, <1>3, PTL DEF Spec, ReplaysFromFlat

\* The hypothesis holds where a slot is replayed once, when it is created, as
\* backfill_paper_slot has it: no row, no position.
THEOREM ReplayedOnceIsFlat ==
  ASSUME "reReplay" \notin Faults
  PROVE  Spec => ReplaysFromFlat
<1>1. ASSUME PaperInv, SerialInv(FALSE), [Next]_paperVars
      PROVE  [\A p \in Procs : StartsFlat(p)]_paperVars
  <2> SUFFICES ASSUME NEW p \in Procs, task[p].kind = "idle", task'[p].kind = "replay"
               PROVE  Flat(rows[task'[p].slot])
    BY DEF StartsFlat
  <2>1. OthersKept(p) /\ Acted(p)
    <3>1. ~Dated
      BY DEF Dated
    <3>2. PICK q \in Procs : OthersKept(q) /\ Acted(q)
      BY <1>1, <3>1, Shapes
    <3> QED BY <3>2 DEF OthersKept
  <2>2. task'[p].slot \in Slots
    BY <1>1, PaperStays DEF PaperInv, Task
  <2>3. task[p].pc # "save" /\ task'[p] # Idle
    BY <1>1 DEF SerialInv, Idle
  <2>4. Started(p)
    BY <2>1, <2>3 DEF Acted, Loaded, Watched, Finished, Killed, Resumed, Skipped, Saved, Died
  <2>5. ~rows[task'[p].slot].exists
    BY <2>4 DEF Started
  <2> QED BY <1>1, <2>2, <2>5 DEF SerialInv
<1>2. ASSUME PaperInv, SerialInv(FALSE), [Next]_paperVars PROVE SerialInv(FALSE)'
  BY <1>2, SerialStays
<1>3. Init => SerialInv(FALSE)
  BY SerialStarts
<1> QED BY PaperStarts, PaperStays, <1>1, <1>2, <1>3, PTL DEF Spec, ReplaysFromFlat

\* "Flatten ... and set manual_halt" (force_close_now): a kill switch that
\* nothing overlapped ends with every slot of the list it read halted, but for
\* an open slot it had no price for.
THEOREM KillSwitchHalts == Spec => KillHalts
<1>1. ASSUME PaperInv, SerialInv(FALSE), [Next]_paperVars
      PROVE  [\A p \in Procs : task[p].kind = "kill" /\ task'[p].kind = "idle" /\ serial' =>
                \A s \in task[p].asked : rows'[s].manual \/ ~Flat(rows'[s])]_paperVars
  <2> SUFFICES ASSUME NEW p \in Procs, task[p].kind = "kill", task'[p].kind = "idle", serial',
                      NEW s \in task[p].asked
               PROVE  rows'[s].manual \/ ~Flat(rows'[s])
    OBVIOUS
  <2>1. OthersKept(p) /\ Acted(p)
    <3>1. ~Dated
      BY DEF Dated
    <3>2. PICK q \in Procs : OthersKept(q) /\ Acted(q)
      BY <1>1, <3>1, Shapes
    <3> QED BY <3>2 DEF OthersKept
  <2>2. Saved(p) \/ Skipped(p)
    BY <2>1 DEF Acted, Started, Loaded, Watched, Finished, Killed, TakesUp, Resumed, Died
  <2>3. serial
    BY <2>2 DEF Saved, Skipped, TablesKept
  <2>4. TellsOneStory(p, FALSE) /\ HaltsSoFar(p) /\ s \in Slots
    BY <1>1, <2>3 DEF SerialInv, Busy
  <2>5. CASE Saved(p)
    <3>1. task[p].pc = "save" /\ task[p].todo \subseteq {task[p].slot}
          /\ rows'[task[p].slot].manual = task[p].pos.manual
          /\ \A q \in Slots \ {task[p].slot} : rows'[q] = rows[q]
      BY <2>5 DEF Saved
    <3> QED BY <2>4, <3>1 DEF HaltsSoFar, Flat
  <2>6. CASE Skipped(p)
    <3>1. PICK q \in task[p].todo : ~Flat(task[p].snap[q]) /\ task[p].todo = {q}
      BY <2>6 DEF Skipped
    <3>2. rows' = rows /\ task[p].pc = "next"
      BY <2>6 DEF Skipped, TablesKept
    <3>3. ~Flat(rows[q])
      BY <2>4, <3>1, <3>2 DEF TellsOneStory, Operating, Listed, HoldsSlot, OpensOf
    <3> QED BY <2>4, <3>1, <3>2, <3>3 DEF HaltsSoFar, Flat
  <2> QED BY <2>2, <2>5, <2>6
<1>2. ASSUME PaperInv, SerialInv(FALSE), [Next]_paperVars PROVE SerialInv(FALSE)'
  BY <1>2, SerialStays
<1>3. Init => SerialInv(FALSE)
  BY SerialStarts
<1> QED BY PaperStarts, PaperStays, <1>1, <1>2, <1>3, PTL DEF Spec, KillHalts

-----------------------------------------------------------------------------
(* The daily halt.                                                         *)

\* How the copy that one process works on stands to the row it is saved over.
Follows(p) ==
  LET row == rows[task[p].slot]
      pos == task[p].pos
  IN /\ task[p].kind = "cycle" /\ task[p].pc = "step" =>
          pos.qty = row.qty /\ pos.daily = row.daily /\ pos.day = row.day
     /\ task[p].kind = "cycle" /\ task[p].pc = "save" =>
          /\ row.daily /\ bar <= row.day => pos.daily
          /\ pos.daily /\ ~Flat(pos) => pos.qty = row.qty
     /\ Operating(p) => \A s \in Listed(p) :
          task[p].snap[s].qty = rows[s].qty /\ task[p].snap[s].daily = rows[s].daily
     /\ Operating(p) /\ task[p].pc = "save" =>
          pos.daily = row.daily /\ (Flat(pos) \/ pos.qty = row.qty)

HoldInv ==
  /\ \A s \in Slots : ~rows[s].exists => rows[s].qty = 0 /\ ~rows[s].daily /\ rows[s].day = Never
  /\ \A p \in Procs : task[p].kind = "cycle" /\ task[p].pc = "step" => task[p].asOf <= bar
  /\ serial => \A p \in Busy : Follows(p)

\* While nothing overlaps, what is to be shown of a step is shown of its process.
LEMMA HoldMoves ==
  ASSUME SerialInv(FALSE), HoldInv, NEW p \in Procs, OthersKept(p), bar' = bar,
         serial' => serial /\ (p \in Busy \/ Busy = {}),
         \A s \in Slots : rows'[s] = rows[s] \/ rows'[s].exists,
         task'[p].kind = "cycle" /\ task'[p].pc = "step" => task'[p].asOf <= bar,
         serial' /\ task'[p].kind # "idle" => Follows(p)'
  PROVE  HoldInv'
<1>1. \A s \in Slots :
        ~rows'[s].exists => rows'[s].qty = 0 /\ ~rows'[s].daily /\ rows'[s].day = Never
  BY DEF HoldInv
<1>2. \A q \in Procs : task'[q].kind = "cycle" /\ task'[q].pc = "step" => task'[q].asOf <= bar'
  BY DEF HoldInv, OthersKept
<1>3. ASSUME serial', NEW q \in Busy' PROVE Follows(q)'
  <2>1. \A x, y \in Busy : x = y
    BY <1>3 DEF SerialInv
  <2>2. q = p /\ task'[p].kind # "idle"
    BY <1>3, <2>1 DEF Busy, OthersKept
  <2>3. Follows(p)'
    BY <1>3, <2>2
  <2> QED BY <2>2, <2>3, Zenon DEF Follows, HoldsSlot, Operating, Listed
<1> QED BY <1>1, <1>2, <1>3 DEF HoldInv, Never

LEMMA HoldStays ==
  ASSUME PaperInv, SerialInv(FALSE), HoldInv, [Next]_paperVars
  PROVE  HoldInv'
<1>0. /\ today \in Nat /\ bar \in Nat /\ today' \in Nat /\ bar' \in Nat
      /\ \A s \in Slots : rows[s] \in Row /\ rows[s].day \in Int
  BY PaperStays DEF PaperInv, TypeOK, Row, Never
<1>1. CASE Dated
  <2>1. bar <= bar' /\ UNCHANGED <<rows, task, serial>>
    BY <1>0, <1>1 DEF Dated, NewDay, Collect, Backfill
  <2>2. Busy' = Busy
    BY <2>1 DEF Busy
  <2>3. \A p \in Procs : task[p].kind = "cycle" /\ task[p].pc = "step" => task[p].asOf <= bar'
    <3>1. \A p \in Procs : task[p].asOf \in Int
      BY DEF PaperInv, Task
    <3> QED BY <1>0, <2>1, <3>1 DEF HoldInv
  <2>4. ASSUME serial, NEW p \in Busy PROVE Follows(p)'
    <3>1. Follows(p) /\ task[p].slot \in Slots
      BY <2>4 DEF HoldInv, Busy, PaperInv, Task
    <3>2. rows[task[p].slot].daily /\ bar' <= rows[task[p].slot].day => bar <= rows[task[p].slot].day
      BY <1>0, <2>1, <3>1
    <3> QED BY <2>1, <3>1, <3>2 DEF Follows, HoldsSlot, Operating, Listed, Flat
  <2> QED BY <2>1, <2>2, <2>3, <2>4 DEF HoldInv, Never
<1>2. ASSUME NEW p \in Procs, OthersKept(p), Acted(p) PROVE HoldInv'
  <2> DEFINE t == task'[p]
  <2>0. /\ task[p] \in Task /\ t \in Task /\ t.slot \in Slots /\ task[p].slot \in Slots
        /\ task[p].todo \subseteq Slots /\ task[p].asOf \in Int /\ Placed(task[p])
        /\ task[p].pos \in Row /\ t.pos \in Row
        /\ task[p].kind = "cycle" /\ task[p].pc = "step" => task[p].asOf <= bar
    <3>1. t \in Task /\ task[p] \in Task
      BY PaperStays DEF PaperInv
    <3> QED BY <3>1 DEF Task, HoldInv, SerialInv, Placed, Operating
  <2>1. task[p].pc # "idle" => p \in Busy
    BY <2>0 DEF Placed, Busy
  <2>2. serial /\ task[p].pc # "idle" => Follows(p)
    BY <2>1 DEF HoldInv
  <2>3. CASE Started(p)
    <3>1. rows' = rows /\ bar' = bar /\ (serial' => serial /\ Busy = {})
      BY <2>3 DEF Started
    <3>2. ~(t.kind = "cycle" /\ t.pc = "step") /\ Follows(p)'
      <4>1. CASE t.kind \notin {"kill", "resume"}
        BY <2>3, <4>1 DEF Started, Follows, Operating
      <4>2. CASE t.kind \in {"kill", "resume"}
        <5>1. /\ t.pc = "next" /\ t.todo \subseteq Slots
              /\ \A s \in t.todo : t.snap[s] = rows[s]
          BY <2>3, <4>2 DEF Started
        <5> QED BY <3>1, <4>2, <5>1 DEF Follows, Operating, Listed, HoldsSlot, Flat
      <4> QED BY <4>1, <4>2
    <3> QED BY <1>2, <3>1, <3>2, HoldMoves
  <2>4. CASE Loaded(p)
    <3>1. /\ rows' = rows /\ bar' = bar /\ serial' = serial /\ task[p].pc = "next"
          /\ t.kind = "cycle" /\ t.pc = "step" /\ t.asOf = bar
      BY <2>4 DEF Loaded, TablesKept
    <3>2. LET row == rows[t.slot]
          IN t.pos.qty = row.qty /\ t.pos.daily = row.daily /\ t.pos.day = row.day
      <4>1. CASE rows[t.slot].exists
        BY <2>4, <4>1 DEF Loaded
      <4>2. CASE ~rows[t.slot].exists
        <5>1. PICK equity \in StartEquity : t.pos = Fresh(equity, TRUE)
          BY <2>4, <4>2 DEF Loaded
        <5>2. rows[t.slot].qty = 0 /\ ~rows[t.slot].daily /\ rows[t.slot].day = Never
          BY <2>0, <4>2 DEF HoldInv
        <5>3. t.pos.qty = 0 /\ t.pos.daily = FALSE /\ t.pos.day = Never
          BY <5>1 DEF Fresh
        <5>4. rows[t.slot].daily \in BOOLEAN
          BY <1>0, <2>0 DEF Row
        <5> QED BY <5>2, <5>3, <5>4
      <4> QED BY <4>1, <4>2
    <3>3. Follows(p)'
      BY <3>1, <3>2 DEF Follows, Operating, Flat, Listed, HoldsSlot
    <3> QED BY <1>0, <1>2, <2>1, <3>1, <3>3, HoldMoves
  <2>5. CASE Watched(p)
    <3>1. PICK price \in Prices : Taken(p, t.pos, Prepared(task[p].pos, price, task[p].asOf))
      BY <2>5 DEF Watched
    <3>2. /\ t.kind = task[p].kind /\ t.slot = task[p].slot /\ rows' = rows
          /\ bar' = bar /\ serial' = serial /\ task[p].pc = "step"
          /\ t.pc = IF task[p].kind = "cycle" THEN "save" ELSE "step"
          /\ task[p].kind \in {"cycle", "replay"}
      BY <2>5 DEF Watched
    <3> DEFINE r == Prepared(task[p].pos, price, task[p].asOf)
               row == rows[task[p].slot]
    <3>3. /\ r.qty \in {0, task[p].pos.qty}
          /\ task[p].pos.daily /\ ~DayRolled(task[p].pos, task[p].asOf) => r.daily
      BY <2>0, PreparedKeeps DEF Task
    <3>4. t.pos.daily = r.daily /\ (t.pos.daily => t.pos.qty \in {0, r.qty})
      BY <3>1 DEF Taken
    <3> HIDE DEF r
    <3>5. ASSUME serial, task[p].kind = "cycle"
          PROVE  /\ row.daily /\ bar <= row.day => t.pos.daily
                 /\ t.pos.daily /\ ~Flat(t.pos) => t.pos.qty = row.qty
      <4>1. /\ task[p].pos.qty = row.qty /\ task[p].pos.daily = row.daily
            /\ task[p].pos.day = row.day
        BY <2>2, <3>2, <3>5 DEF Follows
      <4>2. bar <= row.day => ~DayRolled(task[p].pos, task[p].asOf)
        BY <1>0, <2>0, <3>2, <3>5, <4>1 DEF DayRolled
      <4>3. row.daily /\ bar <= row.day => t.pos.daily
        BY <3>3, <3>4, <4>1, <4>2
      <4>4. t.pos.daily /\ ~Flat(t.pos) => t.pos.qty = row.qty
        BY <3>3, <3>4, <4>1 DEF Flat
      <4> QED BY <4>3, <4>4
    <3> HIDE DEF t
    <3>6. serial' => Follows(p)'
      BY <3>2, <3>5 DEF Follows, Operating, Flat, Listed, HoldsSlot, t
    <3>7. ~(task'[p].kind = "cycle" /\ task'[p].pc = "step")
      BY <3>2 DEF t
    <3> QED BY <1>2, <2>1, <3>2, <3>6, <3>7, HoldMoves
  <2>6. CASE Finished(p)
    <3>1. /\ rows' = rows /\ bar' = bar /\ serial' = serial /\ task[p].pc = "step"
          /\ t.kind = "replay"
      BY <2>6 DEF Finished, TablesKept
    <3> QED BY <1>2, <2>1, <3>1, HoldMoves DEF Follows, Operating
  <2>7. CASE Killed(p) \/ Resumed(p)
    <3>1. /\ rows' = rows /\ bar' = bar /\ serial' = serial /\ task[p].pc = "next"
          /\ task[p].kind \in {"kill", "resume"} /\ t.kind = task[p].kind /\ t.pc = "save"
          /\ t.todo = task[p].todo /\ t.slot \in task[p].todo
          /\ \A s \in Slots \ {t.slot} : t.snap[s] = task[p].snap[s]
          /\ t.pos.daily = task[p].snap[t.slot].daily
          /\ Flat(t.pos) \/ t.pos.qty = task[p].snap[t.slot].qty
      BY <2>7 DEF Killed, Resumed, TakesUp
    <3>2. serial => \A s \in task[p].todo :
            task[p].snap[s].qty = rows[s].qty /\ task[p].snap[s].daily = rows[s].daily
      BY <2>2, <3>1 DEF Follows, Operating, Listed, HoldsSlot
    <3> HIDE DEF t
    <3>3. serial => Follows(p)'
      BY <2>0, <3>1, <3>2 DEF Follows, Operating, Listed, HoldsSlot, Flat, t
    <3> QED BY <1>2, <2>1, <3>1, <3>3, HoldMoves DEF t
  <2>8. CASE Skipped(p)
    <3>1. /\ rows' = rows /\ bar' = bar /\ serial' = serial /\ task[p].pc = "next"
          /\ task[p].kind = "kill"
      BY <2>8 DEF Skipped, TablesKept
    <3>2. CASE t.kind = "idle"
      BY <1>2, <2>1, <3>1, <3>2, HoldMoves
    <3>3. CASE t.kind # "idle"
      <4>1. PICK s \in task[p].todo :
              /\ t.kind = task[p].kind /\ t.pc = task[p].pc /\ t.todo = task[p].todo \ {s}
              /\ t.pos = task[p].pos /\ t.snap = task[p].snap
        BY <2>8, <3>3 DEF Skipped, Idle
      <4>2. serial => Follows(p)'
        BY <2>0, <2>2, <3>1, <4>1 DEF Follows, Operating, Listed, HoldsSlot, Flat
      <4> QED BY <1>2, <2>1, <3>1, <4>1, <4>2, HoldMoves
    <3> QED BY <3>2, <3>3
  <2>9. CASE Saved(p)
    <3>1. /\ bar' = bar /\ serial' = serial /\ task[p].pc = "save"
          /\ \A s \in Slots \ {task[p].slot} : rows'[s] = rows[s]
          /\ rows'[task[p].slot].exists
          /\ t.kind = "idle" \/ (t.kind = task[p].kind /\ t.pc = "next")
      BY <2>9 DEF Saved, Idle
    <3>2. \A s \in Slots : rows'[s] = rows[s] \/ rows'[s].exists
      BY <3>1
    <3>3. CASE t.kind = "idle"
      BY <1>2, <2>1, <3>1, <3>2, <3>3, HoldMoves
    <3>4. CASE t.kind # "idle"
      <4>1. /\ t.kind = task[p].kind /\ t.pc = "next" /\ t.snap = task[p].snap
            /\ t.todo = task[p].todo \ {task[p].slot}
        BY <2>9, <3>4 DEF Saved, Idle
      <4>2. serial => Follows(p)'
        BY <2>0, <2>2, <3>1, <4>1 DEF Follows, Operating, Listed, HoldsSlot, Flat
      <4> QED BY <1>2, <2>1, <3>1, <3>2, <4>1, <4>2, HoldMoves
    <3> QED BY <3>3, <3>4
  <2>10. CASE Died(p)
    <3>1. rows' = rows /\ bar' = bar /\ ~serial' /\ t.kind = "idle"
      BY <2>10 DEF Died, Idle
    <3> QED BY <1>2, <3>1, HoldMoves
  <2> QED BY <1>2, <2>3, <2>4, <2>5, <2>6, <2>7, <2>8, <2>9, <2>10 DEF Acted
<1> QED BY <1>1, <1>2, Shapes

\* A daily halt holds for the bars of its day (day_rolled, the halted_daily test
\* of the entry): while nothing overlaps, a save lifts it only with a bar of a
\* later day than its row was saved on, and what a halted row holds was held
\* before.
THEOREM DailyHaltHoldsForItsBars == Spec => DailyHaltHolds
<1>1. Init => HoldInv
  <2> SUFFICES ASSUME Init PROVE HoldInv
    OBVIOUS
  <2>1. /\ NoRow.day = Never /\ ~NoRow.exists /\ ~NoRow.daily /\ NoRow.qty = 0
        /\ Idle.kind = "idle"
    BY DEF NoRow, Fresh, Idle
  <2> QED BY <2>1 DEF Init, HoldInv, Busy
<1>2. ASSUME PaperInv, SerialInv(FALSE), HoldInv, [Next]_paperVars
      PROVE  [\A p \in Procs : LET was == rows[task[p].slot]
                                   now == rows'[task[p].slot]
                IN serial /\ task[p].kind # "replay" /\ task[p].pc = "save" /\ task'[p].pc # "save"
                   => /\ was.daily /\ bar <= was.day => now.daily
                      /\ now.daily /\ ~Flat(now) => now.qty = was.qty]_paperVars
  <2> SUFFICES ASSUME NEW p \in Procs, serial, task[p].kind # "replay", task[p].pc = "save",
                      task'[p].pc # "save"
               PROVE  LET was == rows[task[p].slot]
                          now == rows'[task[p].slot]
                      IN /\ was.daily /\ bar <= was.day => now.daily
                         /\ now.daily /\ ~Flat(now) => now.qty = was.qty
    OBVIOUS
  <2>1. OthersKept(p) /\ Acted(p)
    <3>1. ~Dated
      BY DEF Dated
    <3>2. PICK q \in Procs : OthersKept(q) /\ Acted(q)
      BY <1>2, <3>1, Shapes
    <3> QED BY <3>2 DEF OthersKept
  <2>2. task[p].kind \in {"cycle", "kill", "resume"} /\ p \in Busy
    BY <1>2 DEF PaperInv, TypeOK, Kinds, SerialInv, Busy
  <2>3. Follows(p)
    BY <1>2, <2>2 DEF HoldInv
  <2>4. CASE Saved(p)
    <3>1. /\ rows'[task[p].slot].qty = task[p].pos.qty
          /\ rows'[task[p].slot].daily = task[p].pos.daily
      BY <2>4 DEF Saved
    <3> QED BY <2>2, <2>3, <3>1 DEF Follows, Operating, Flat
  <2>5. CASE Died(p)
    BY <2>5 DEF Died
  <2> QED BY <2>1, <2>4, <2>5
       DEF Acted, Started, Loaded, Watched, Finished, Killed, TakesUp, Resumed, Skipped
<1>3. ASSUME PaperInv, SerialInv(FALSE), [Next]_paperVars PROVE SerialInv(FALSE)'
  BY <1>3, SerialStays
<1>4. Init => SerialInv(FALSE)
  BY SerialStarts
<1> QED BY PaperStarts, PaperStays, HoldStays, <1>1, <1>2, <1>3, <1>4, PTL DEF Spec, DailyHaltHolds
=============================================================================
