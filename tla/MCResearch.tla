------------------------------ MODULE MCResearch ------------------------------
(* The research side in one instance: collecting prices and funding rates  *)
(* (DataCollection), splitting and backtesting (WalkForward,               *)
(* BacktestEngine, PairEvaluation), the record the leaderboard reads       *)
(* (TrackRecord), the signals of a pair (PairSignals), the life of a model *)
(* (ModelLifecycle) and the dashboard's jobs that start them               *)
(* (DashboardJobs).  They meet in tables each models as far as it reads    *)
(* them, so a behaviour follows one.                                       *)
EXTENDS ModelLifecycle, DataCollection, MCTrackRecord, BacktestEngine, PairEvaluation,
        WalkForward, PairSignals, DashboardJobs

CONSTANTS ta, tb, pr, ca, cb

VARIABLE side   \* the side this behaviour follows

MCSpreads == {-5, -2, 0, 2, 5}
MCFirstDates == {<<0, 1>>, <<0, 31>>, <<1, 28>>, <<2, 30>>}

MCVars ==
  <<side, lifeVars, collectVars, recordVars, engineVars, evalVars, splitVars,
    pairVars, jobVars>>
Frame(s) ==
  /\ side = s /\ UNCHANGED side
  /\ s # "models" => UNCHANGED lifeVars
  /\ s \notin {"bars", "funding"} => UNCHANGED collectVars
  /\ s # "record" => UNCHANGED recordVars
  /\ s # "engine" => UNCHANGED engineVars
  /\ s # "evaluation" => UNCHANGED evalVars
  /\ s # "split" => UNCHANGED splitVars
  /\ s # "pair" => UNCHANGED pairVars
  /\ s # "jobs" => UNCHANGED jobVars

Sides == {"models", "bars", "funding", "record", "engine", "evaluation", "split", "pair", "jobs"}

\* Of the sides not followed, one initial state is enough.
MCInit ==
  /\ side \in Sides
  /\ IF side = "record" THEN TRUE ELSE sources = [s \in Symbols |-> {}] /\ results = {}
  /\ IF side = "engine" THEN TRUE ELSE legs = "pair"
  /\ IF side = "evaluation" THEN TRUE ELSE beta = 100
  /\ IF side = "split" THEN TRUE
     ELSE split = CHOOSE p \in SplitParameters : Before(p.first, p.last)
  /\ IF side = "pair" THEN TRUE ELSE frozen = [hedge |-> 10, constant |-> FALSE, stationary |-> TRUE]
  /\ LifeInit /\ CollectInit /\ RecordInit /\ EngineInit /\ EvalInit /\ SplitInit
  /\ PairInit /\ JobsInit
MCNext ==
  \/ Frame("models") /\ LifeNext
  \/ Frame("bars") /\ (BarsNext \/ CloseBar)
  \/ Frame("funding") /\ (FundingNext \/ CloseBar)
  \/ Frame("record") /\ RecordNext
  \/ Frame("engine") /\ EngineNext
  \/ Frame("evaluation") /\ EvalNext
  \/ Frame("split") /\ SplitNext
  \/ Frame("pair") /\ PairNext
  \/ Frame("jobs") /\ JobsNext
MCSpec == MCInit /\ [][MCNext]_MCVars

\* What tells two states apart.  A stored bar stays, so that a copy of it in
\* memory and what excused it are dead; `since' is after the loop, and the
\* end of the run after the insert.
MCView ==
  LET missing == Bars \ Stored(prices)
      live(c) == [c EXCEPT !.since = IF c.pc = "fetch" THEN @ ELSE 0,
                           !.until = IF c.pc = "derive" THEN 0 ELSE @,
                           !.rows = [b \in missing \cap DOMAIN c.rows |-> c.rows[b]]]
  IN <<side, lifeVars, now, prices, derived, funding, excused \cap missing,
       [p \in Collectors |-> live(collector[p])],
       recordVars, engineVars, evalVars, splitVars, pairVars, jobVars>>
MCSymmetry == Permutations(Trainers) \cup Permutations(Collectors)
=============================================================================
