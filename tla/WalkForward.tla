------------------------------ MODULE WalkForward ------------------------------
(***************************************************************************)
(* backtesting/splitter.py: the train and test windows of a walk-forward   *)
(* run, rolling or anchored, on the calendar.                              *)
(*                                                                         *)
(* A date is a month counted from a January and a day of it; adding months *)
(* keeps the day, or takes the last one of a shorter month, as pandas'     *)
(* DateOffset does.  Every date keeps the time of the first row.  Leap     *)
(* years are left out, and no window is without a row.                     *)
(***************************************************************************)
EXTENDS Integers, Sequences

CONSTANTS
  TrainMonths, TestMonths, StepMonths,  \* sets of the parameters
  MinTrainMonths,
  FirstDates,   \* dates of the first row
  MaxMonth      \* bound: the data ends within this month

ASSUME SplitterConstants ==
  /\ TrainMonths \cup TestMonths \cup StepMonths \subseteq Nat \ {0} /\ MinTrainMonths \in Nat
  /\ MaxMonth \in Nat

VARIABLES
  split,       \* the parameters and the first and last date
  foldStart,   \* where the next rolling window begins
  trainEnd,    \* where the next anchored training window ends
  folds,       \* the folds found
  splitPc      \* "loop" or "done"
splitVars == <<split, foldStart, trainEnd, folds, splitPc>>

Days(month) ==
  CASE month % 12 = 1 -> 28
    [] month % 12 \in {3, 5, 8, 10} -> 30
    [] OTHER -> 31
Lower(m, n) == IF m < n THEN m ELSE n

AddMonths(date, n) == <<date[1] + n, Lower(date[2], Days(date[1] + n))>>
NextDay(date) ==
  IF date[2] < Days(date[1]) THEN <<date[1], date[2] + 1>> ELSE <<date[1] + 1, 1>>
DayBefore(date) ==
  IF date[2] > 1 THEN <<date[1], date[2] - 1>> ELSE <<date[1] - 1, Days(date[1] - 1)>>
Before(d, e) == d[1] < e[1] \/ (d[1] = e[1] /\ d[2] < e[2])

\* One pass of the loop.
TrainStart == IF split.anchored THEN split.first ELSE foldStart
TrainEnd == IF split.anchored THEN trainEnd ELSE DayBefore(AddMonths(foldStart, split.train))
TestStart == NextDay(TrainEnd)
TestEnd == DayBefore(AddMonths(TestStart, split.test))
SpanMonths == TrainEnd[1] - TrainStart[1] + 1

Exhausted ==
  /\ splitPc = "loop" /\ Before(split.last, TestEnd)
  /\ splitPc' = "done"
  /\ UNCHANGED <<split, foldStart, trainEnd, folds>>

\* A training window that is too short moves on by one step.
TooShort ==
  /\ splitPc = "loop" /\ ~Before(split.last, TestEnd)
  /\ SpanMonths < MinTrainMonths
  /\ IF split.anchored
     THEN trainEnd' = AddMonths(trainEnd, split.step) /\ UNCHANGED foldStart
     ELSE foldStart' = AddMonths(foldStart, split.step) /\ UNCHANGED trainEnd
  /\ UNCHANGED <<split, folds, splitPc>>

\* The next window: a step on, but past the test window just emitted.  Faulty
\* variant: a step on.
SteppedEnd(testEnd) == AddMonths(trainEnd, split.step)
NextTrainEnd(testEnd) ==
  IF Before(testEnd, AddMonths(trainEnd, split.step)) THEN AddMonths(trainEnd, split.step) ELSE testEnd
NextFoldStart(testEnd) ==
  IF Before(testEnd, AddMonths(foldStart, split.step)) THEN AddMonths(foldStart, split.step)
  ELSE NextDay(testEnd)
Emit ==
  /\ splitPc = "loop" /\ ~Before(split.last, TestEnd)
  /\ SpanMonths >= MinTrainMonths
  /\ folds' = Append(folds, [trainStart |-> TrainStart, trainEnd |-> TrainEnd,
                             testStart |-> TestStart, testEnd |-> TestEnd])
  /\ IF split.anchored
     THEN trainEnd' = NextTrainEnd(TestEnd) /\ UNCHANGED foldStart
     ELSE foldStart' = NextFoldStart(TestEnd) /\ UNCHANGED trainEnd
  /\ UNCHANGED <<split, splitPc>>

SplitParameters ==
  [train : TrainMonths, test : TestMonths, step : StepMonths, anchored : BOOLEAN,
   first : FirstDates, last : {<<m, 28>> : m \in 0..MaxMonth}]
SplitInit ==
  /\ split \in SplitParameters
  /\ Before(split.first, split.last)
  /\ foldStart = split.first
  /\ trainEnd = DayBefore(AddMonths(split.first, split.train))
  /\ folds = <<>> /\ splitPc = "loop"

SplitNext == Exhausted \/ TooShort \/ Emit

SplitSpec == SplitInit /\ [][SplitNext]_splitVars

-----------------------------------------------------------------------------
\* No fold tests on a day it trained on or on an earlier one, and no two folds
\* test on the same day: no choice of months, steps and first day makes the
\* splitter raise its error for overlapping test periods.
SplitIsClean ==
  \A i \in DOMAIN folds :
    /\ Before(folds[i].trainEnd, folds[i].testStart)
    /\ ~Before(folds[i].testEnd, folds[i].testStart)
    /\ \A j \in 1..(i - 1) : Before(folds[j].testEnd, folds[i].testStart)

\* A rolling walk-forward advances by its step.
StepIsHonoured ==
  \A i \in 2..Len(folds) :
    split.step >= split.test =>
      folds[i].testStart[1] <= folds[i - 1].testStart[1] + split.step + 1
=============================================================================
