---------------------------- MODULE ModelLifecycle ----------------------------
(***************************************************************************)
(* Training, promoting, blocking and using a model of one (model_name,     *)
(* symbol): models/train.py, validator.py, blocker.py, predict.py,         *)
(* retraining_scheduler.py, monitoring/drift_detector.py and the tables    *)
(* model_registry, drift_reports and model_blocks of data/db.py.           *)
(*                                                                         *)
(* MLflow is external: a stage per version.  Time passes in ticks longer   *)
(* than the two hours a drift report counts.  Of a validation, the Sharpe  *)
(* ratio in hundredths and whether the other gates pass are what matters.  *)
(***************************************************************************)
EXTENDS Integers, Sequences, FiniteSetsExt

CONSTANTS
  Trainers,     \* jobs that train and validate: a loop, CLI calls, requests
  Predictors,   \* processes that predict
  Sharpes,      \* out-of-sample Sharpe ratios, in hundredths
  FoldSpan,     \* ticks of features one walk-forward fold needs
  MaxAge,       \* ticks after which a model is stale
  LifeFaults,   \* {"saveFails", "readFails", "archiveFails", "promoteFails", "crash"}
  MaxVersion, MaxClock  \* bounds

ASSUME LifecycleConstants ==
  /\ Sharpes \subseteq Nat /\ FoldSpan \in Nat \ {0} /\ MaxAge \in Nat
  /\ MaxVersion \in Nat /\ MaxClock \in Nat

VARIABLES
  clock,
  features,   \* the tick of the latest row of the features table
  registry,   \* model_registry, oldest row first
  mlflow,     \* stage of every version
  report,     \* the latest row of drift_reports
  blocked,    \* a row in model_blocks
  trainer,    \* what a job holds in memory
  predictor,  \* the version a Predictor cached, and its check
  passed      \* versions whose validation passed every gate and the guard

lifeVars == <<clock, features, registry, mlflow, report, blocked, trainer, predictor, passed>>

Versions == 1..MaxVersion
NoRow == [version |-> 0, stage |-> "none", active |-> FALSE, sharpe |-> 0, trainedAt |-> 0]
NoTrainer == [pc |-> "idle", version |-> 0, trainedAt |-> 0, trainEnd |-> 0,
              sharpe |-> 0, incumbent |-> NoRow, seen |-> {}]

-----------------------------------------------------------------------------
(* data/db.py                                                              *)

ActiveIn(rows) == {i \in DOMAIN rows : rows[i].active /\ rows[i].stage = "Production"}

\* get_active_production_model: an error reads as no model.
ActiveModel == IF ActiveIn(registry) = {} THEN NoRow ELSE registry[Max(ActiveIn(registry))]
ReadActive ==
  {ActiveModel} \cup (IF "readFails" \in LifeFaults THEN {NoRow} ELSE {})

\* save_model_registry_entry, as one transaction.  Faulty variant: what was
\* deactivated stays so when the INSERT fails.
Deactivated(rows, ids) == [i \in DOMAIN rows |-> [rows[i] EXCEPT !.active = @ /\ i \notin ids]]
HalfRolledBack(rows, ids) == Deactivated(rows, ids)
RolledBack(rows, ids) == rows

-----------------------------------------------------------------------------
(* train.py and retraining_scheduler.py                                    *)

NextVersion == 1 + Cardinality({v \in Versions : mlflow[v] # "none"})

\* train(): the model learns from every row but the last, and is registered
\* in MLflow before its stage is set.
Train(t) ==
  /\ trainer[t].pc = "idle" /\ NextVersion <= MaxVersion /\ features > 0
  /\ mlflow' = [mlflow EXCEPT ![NextVersion] = "None"]
  /\ trainer' = [trainer EXCEPT ![t] =
       [NoTrainer EXCEPT !.pc = "registered", !.version = NextVersion,
                         !.trainedAt = clock, !.trainEnd = features - 1]]
  /\ UNCHANGED <<clock, features, registry, report, blocked, predictor, passed>>

Stage(t) ==
  /\ trainer[t].pc = "registered"
  /\ mlflow' = [mlflow EXCEPT ![trainer[t].version] = "Staging"]
  /\ trainer' = [trainer EXCEPT ![t].pc = "trained"]
  /\ UNCHANGED <<clock, features, registry, report, blocked, predictor, passed>>

\* validate_for_promotion.  Only rows after the training window count; none,
\* or too few for a fold, ends the validation without a row in the registry.
ValidationSpan(t) == features - 1 - trainer[t].trainEnd
NoFold(t) ==
  /\ trainer[t].pc = "trained"
  /\ ValidationSpan(t) < FoldSpan
  /\ trainer' = [trainer EXCEPT ![t] = NoTrainer]
  /\ UNCHANGED <<clock, features, registry, mlflow, report, blocked, predictor, passed>>

\* The gate on Sharpe and drawdown, the significance gate and the regression
\* guard.  Faulty variant: without an incumbent there is nothing to compare.
Regressed(sharpe, incumbent) ==
  incumbent # NoRow /\ 100 * sharpe < 85 * incumbent.sharpe
WavedThrough(sharpe, ok, incumbent) ==
  IF incumbent = NoRow THEN sharpe >= 100 ELSE ok /\ ~Regressed(sharpe, incumbent)
Approves(sharpe, ok, incumbent) ==
  sharpe >= 100 /\ ok /\ ~Regressed(sharpe, incumbent)

\* ok: the drawdown and the significance gate pass.
Validate(t, sharpe, ok) ==
  /\ trainer[t].pc = "trained"
  /\ ValidationSpan(t) >= FoldSpan
  /\ \E incumbent \in ReadActive :
       /\ trainer' = [trainer EXCEPT ![t] =
            [@ EXCEPT !.sharpe = sharpe, !.incumbent = incumbent,
                      !.pc = IF Approves(sharpe, ok, incumbent) THEN "archive" ELSE "reject"]]
       /\ passed' = IF sharpe >= 100 /\ ok /\ ~Regressed(sharpe, incumbent)
                    THEN passed \cup {trainer[t].version} ELSE passed
  /\ UNCHANGED <<clock, features, registry, mlflow, report, blocked, predictor>>

\* _promote_candidate: a failure to archive is logged, a failure to promote
\* raises and ends the retraining of this pair.
Archive(t) ==
  /\ trainer[t].pc = "archive"
  /\ LET v == trainer[t].incumbent.version
     IN \/ mlflow' = IF v = 0 THEN mlflow ELSE [mlflow EXCEPT ![v] = "Archived"]
        \/ "archiveFails" \in LifeFaults /\ UNCHANGED mlflow
  /\ trainer' = [trainer EXCEPT ![t].pc = "promote"]
  /\ UNCHANGED <<clock, features, registry, report, blocked, predictor, passed>>

Promote(t) ==
  /\ trainer[t].pc = "promote"
  /\ mlflow' = [mlflow EXCEPT ![trainer[t].version] = "Production"]
  /\ trainer' = [trainer EXCEPT ![t].pc = "save"]
  /\ UNCHANGED <<clock, features, registry, report, blocked, predictor, passed>>

PromoteFails(t) ==
  /\ trainer[t].pc = "promote" /\ "promoteFails" \in LifeFaults
  /\ trainer' = [trainer EXCEPT ![t] = NoTrainer]
  /\ UNCHANGED <<clock, features, registry, mlflow, report, blocked, predictor, passed>>

Row(t, stage) ==
  [version |-> trainer[t].version, stage |-> stage, active |-> stage = "Production",
   sharpe |-> trainer[t].sharpe, trainedAt |-> trainer[t].trainedAt]

\* The UPDATE of an approved model's transaction: it sees the rows that are
\* committed as it starts.
BeginSave(t) ==
  /\ trainer[t].pc = "save"
  /\ trainer' = [trainer EXCEPT ![t].pc = "insert", ![t].seen = ActiveIn(registry)]
  /\ UNCHANGED <<clock, features, registry, mlflow, report, blocked, predictor, passed>>

\* The INSERT and the commit; uq_model_registry_active_true refuses a second
\* active row, and the caller ignores that the save returned False.
InsertRow(t) ==
  LET ids == trainer[t].seen
      rows == Deactivated(registry, ids)
  IN /\ trainer[t].pc = "insert"
     /\ \/ /\ ActiveIn(rows) = {}
           /\ registry' = Append(rows, Row(t, "Production"))
        \/ /\ ActiveIn(rows) # {} \/ "saveFails" \in LifeFaults
           /\ registry' = RolledBack(registry, ids)
     /\ trainer' = [trainer EXCEPT ![t] = NoTrainer]
     /\ UNCHANGED <<clock, features, mlflow, report, blocked, predictor, passed>>

\* A rejected candidate is recorded as well.
Reject(t) ==
  /\ trainer[t].pc = "reject"
  /\ \/ registry' = Append(registry, Row(t, "Staging"))
     \/ "saveFails" \in LifeFaults /\ UNCHANGED registry
  /\ trainer' = [trainer EXCEPT ![t] = NoTrainer]
  /\ UNCHANGED <<clock, features, mlflow, report, blocked, predictor, passed>>

TrainerCrash(t) ==
  /\ "crash" \in LifeFaults /\ trainer[t].pc # "idle"
  /\ trainer' = [trainer EXCEPT ![t] = NoTrainer]
  /\ UNCHANGED <<clock, features, registry, mlflow, report, blocked, predictor, passed>>

-----------------------------------------------------------------------------
(* Drift.                                                                  *)

\* detect(): the worst feature decides.
Severity(psi) == IF psi < 10 THEN "none" ELSE IF psi <= 25 THEN "warning" ELSE "critical"

\* check_drift and run_drift_check, for a registered model: a report, and a
\* block where the caller asks for one.  Neither write reports its failure.
Saving(new, old) == {new} \cup (IF "saveFails" \in LifeFaults THEN {old} ELSE {})
CheckDrift(psi, block) ==
  /\ ActiveModel # NoRow
  /\ report' \in Saving([severity |-> Severity(psi), at |-> clock], report)
  /\ blocked' \in Saving(blocked \/ (block /\ Severity(psi) = "critical"), blocked)
  /\ UNCHANGED <<clock, features, registry, mlflow, trainer, predictor, passed>>

\* unblock_model: its failure is logged and the block stays.
Cleared == Saving(FALSE, blocked)
Unblock ==
  /\ blocked /\ blocked' \in Cleared
  /\ UNCHANGED <<clock, features, registry, mlflow, report, trainer, predictor, passed>>

-----------------------------------------------------------------------------
(* predict.py                                                              *)

\* is_blocked: model_blocks is not consulted, and a report that cannot be
\* read counts as none.
DriftOpen == report.severity # "critical" \/ report.at # clock \/ "readFails" \in LifeFaults
IsOpen ==
  /\ ActiveModel # NoRow
  /\ clock - ActiveModel.trainedAt <= MaxAge
  /\ DriftOpen

NoPredictor == [pc |-> "idle", cached |-> 0, served |-> 0]

\* predict(): the gate is asked, then the model is taken from the cache.
AskGate(p) ==
  /\ predictor[p].pc = "idle"
  /\ IsOpen
  /\ predictor' = [predictor EXCEPT ![p].pc = "open"]
  /\ UNCHANGED <<clock, features, registry, mlflow, report, blocked, trainer, passed>>

InProduction == {v \in Versions : mlflow[v] = "Production"}

\* The cache, or the newest version MLflow has in Production; without one
\* predict raises.
Loaded(p) ==
  IF predictor[p].cached # 0 THEN predictor[p].cached
  ELSE IF InProduction = {} THEN 0 ELSE Max(InProduction)
Using(v) == [pc |-> "idle", cached |-> v, served |-> v]
Serve(p) ==
  /\ predictor[p].pc = "open"
  /\ predictor' = [predictor EXCEPT ![p] = Using(Loaded(p))]
  /\ UNCHANGED <<clock, features, registry, mlflow, report, blocked, trainer, passed>>

\* predict_proba, get_feature_importance and the benchmark take the model
\* without asking the gate.
ServeUngated(p) ==
  /\ predictor[p].pc = "idle" /\ Loaded(p) # 0
  /\ predictor' = [predictor EXCEPT ![p] = Using(Loaded(p))]
  /\ UNCHANGED <<clock, features, registry, mlflow, report, blocked, trainer, passed>>

Restart(p) ==
  /\ predictor[p] # NoPredictor
  /\ predictor' = [predictor EXCEPT ![p] = NoPredictor]
  /\ UNCHANGED <<clock, features, registry, mlflow, report, blocked, trainer, passed>>

-----------------------------------------------------------------------------
\* Features are computed up to now, after a collection that may have lagged.
ComputeFeatures ==
  /\ features' = clock
  /\ UNCHANGED <<clock, registry, mlflow, report, blocked, trainer, predictor, passed>>

Later ==
  /\ clock < MaxClock
  /\ clock' = clock + 1
  /\ UNCHANGED <<features, registry, mlflow, report, blocked, trainer, predictor, passed>>

LifeInit ==
  /\ clock = 1 /\ features = 1 /\ registry = <<>>
  /\ mlflow = [v \in Versions |-> "none"]
  /\ report = [severity |-> "none", at |-> 0] /\ blocked = FALSE
  /\ trainer = [t \in Trainers |-> NoTrainer]
  /\ predictor = [p \in Predictors |-> NoPredictor]
  /\ passed = {}

LifeNext ==
  \/ \E t \in Trainers :
       \/ Train(t) \/ Stage(t) \/ NoFold(t)
       \/ \E sharpe \in Sharpes, ok \in BOOLEAN : Validate(t, sharpe, ok)
       \/ Archive(t) \/ Promote(t) \/ PromoteFails(t)
       \/ BeginSave(t) \/ InsertRow(t) \/ Reject(t) \/ TrainerCrash(t)
  \/ \E psi \in {0, 20, 30}, block \in BOOLEAN : CheckDrift(psi, block)
  \/ Unblock
  \/ \E p \in Predictors : AskGate(p) \/ Serve(p) \/ ServeUngated(p) \/ Restart(p)
  \/ ComputeFeatures \/ Later

LifeSpec == LifeInit /\ [][LifeNext]_lifeVars

-----------------------------------------------------------------------------
\* Once a model is in production there is one: no promotion, whichever of its
\* steps fails, races with another or is cut short, leaves the gate shut.
ProductionIsKept == [][ActiveModel # NoRow => ActiveModel' # NoRow]_lifeVars

\* Whatever a predictor serves has passed its validation, the guard against
\* the incumbent that validation read included, although MLflow is told before
\* the registry, the predictor asks the one and loads from the other, and some
\* of its calls ask nobody.
ServedHasPassed ==
  \A p \in Predictors : predictor[p].served # 0 => predictor[p].served \in passed

\* A blocked model does not trade.
BlockedIsSilent ==
  [][\A p \in Predictors : AskGate(p) => ~blocked]_lifeVars

\* The gate and the predictor speak of one model.
ServedIsActive ==
  [][\A p \in Predictors : Serve(p) => Loaded(p) \in {0, ActiveModel.version}]_lifeVars

\* Every validation has at least one walk-forward fold.
EveryValidationHasAFold == [][\A t \in Trainers : ~NoFold(t)]_lifeVars
=============================================================================
