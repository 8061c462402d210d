-------------------------- MODULE ModelLifecycleProofs --------------------------
(***************************************************************************)
(* What ModelLifecycle keeps for any number of trainers, predictors and    *)
(* versions and under any faults: the gate stays open once a model is in   *)
(* production, and what is served has passed its validation.               *)
(***************************************************************************)
EXTENDS ModelLifecycle, FiniteSetTheorems, WellFoundedInduction, TLAPS

LEMMA MaxOfSome ==
  ASSUME NEW n \in Nat, NEW S, S \subseteq 1..n, S # {}
  PROVE  Max(S) \in S
<1> DEFINE T == {n - k : k \in S}
<1>1. T \subseteq Nat
  <2>1. \A k \in S : n - k \in Nat
    OBVIOUS
  <2> QED BY <2>1
<1>2. PICK some \in S : TRUE
  OBVIOUS
<1>3. n - some \in T
  OBVIOUS
<1>4. PICK x \in T : \A y \in T : ~(<<y, x>> \in OpToRel(<, Nat))
  <2> HIDE DEF T
  <2> QED BY <1>1, <1>3, WFMin, NatLessThanWellFounded
<1>5. \A y \in T : ~(y < x)
  BY <1>1, <1>4 DEF OpToRel
<1>6. PICK m \in S : x = n - m
  BY <1>4
<1>7. ASSUME NEW k \in S PROVE m >= k
  <2>1. n - k \in T
    OBVIOUS
  <2>2. ~(n - k < n - m)
    BY <1>5, <1>6, <2>1
  <2> HIDE DEF T
  <2> QED BY <2>2
<1> QED BY <1>7 DEF Max

-----------------------------------------------------------------------------
(* Types.                                                                  *)

RowStages == {"none", "Staging", "Production"}
VersionStages == {"none", "None", "Staging", "Production", "Archived"}
JobSteps ==
  {"idle", "registered", "trained", "archive", "reject", "promote", "save", "insert"}

RowType == [version : Nat, stage : RowStages, active : BOOLEAN, sharpe : Nat, trainedAt : Nat]
JobType ==
  [pc : JobSteps, version : Nat, trainedAt : Nat, trainEnd : Int, sharpe : Nat,
   incumbent : RowType, seen : SUBSET Nat]
ServerType == [pc : {"idle", "open"}, cached : Nat, served : Nat]

LifeType ==
  /\ clock \in Nat /\ features \in Nat
  /\ registry \in Seq(RowType)
  /\ mlflow \in [Versions -> VersionStages]
  /\ trainer \in [Trainers -> JobType]
  /\ predictor \in [Predictors -> ServerType]

LEMMA NothingTyped == NoRow \in RowType /\ NoTrainer \in JobType /\ NoPredictor \in ServerType
<1>1. NoRow \in RowType
  BY DEF NoRow, RowType, RowStages
<1>2. NoTrainer \in JobType
  BY <1>1 DEF NoTrainer, JobType, JobSteps
<1>3. NoPredictor \in ServerType
  BY DEF NoPredictor, ServerType
<1> QED BY <1>1, <1>2, <1>3

LEMMA RowsOfRegistry ==
  ASSUME registry \in Seq(RowType)
  PROVE  /\ Len(registry) \in Nat /\ DOMAIN registry = 1..Len(registry)
         /\ \A i \in 1..Len(registry) : registry[i] \in RowType
         /\ ActiveIn(registry) \subseteq 1..Len(registry)
<1>1. /\ Len(registry) \in Nat /\ DOMAIN registry = 1..Len(registry)
      /\ \A i \in 1..Len(registry) : registry[i] \in RowType
  OBVIOUS
<1> QED BY <1>1 DEF ActiveIn

\* The newest active row is a row, and one in production.
LEMMA NewestActive ==
  ASSUME registry \in Seq(RowType)
  PROVE  /\ ActiveModel \in RowType
         /\ (ActiveModel # NoRow) <=> (ActiveIn(registry) # {})
<1>1. CASE ActiveIn(registry) = {}
  BY <1>1, NothingTyped DEF ActiveModel
<1>2. CASE ActiveIn(registry) # {}
  <2>1. Max(ActiveIn(registry)) \in ActiveIn(registry)
    BY <1>2, RowsOfRegistry, MaxOfSome
  <2>2. ActiveModel = registry[Max(ActiveIn(registry))]
    BY <1>2 DEF ActiveModel
  <2>3. ActiveModel \in RowType
    BY <2>1, <2>2, RowsOfRegistry
  <2>4. ActiveModel.stage = "Production"
    BY <2>1, <2>2 DEF ActiveIn
  <2>5. NoRow.stage = "none"
    BY DEF NoRow
  <2> QED BY <1>2, <2>3, <2>4, <2>5
<1> QED BY <1>1, <1>2

LEMMA VersionsCounted == ASSUME LifeType PROVE NextVersion \in Nat /\ NextVersion >= 1
<1>1. IsFiniteSet(Versions)
  BY LifecycleConstants, FS_Interval DEF Versions
<1>2. IsFiniteSet({v \in Versions : mlflow[v] # "none"})
  BY <1>1, FS_Subset
<1> QED BY <1>2, FS_CardinalityType DEF NextVersion

LEMMA LoadedTyped ==
  ASSUME LifeType, NEW p \in Predictors
  PROVE  /\ Loaded(p) \in Nat
         /\ Loaded(p) \in {0, predictor[p].cached} \cup InProduction
<1>1. predictor[p].cached \in Nat
  BY DEF LifeType, ServerType
<1>2. CASE predictor[p].cached # 0 \/ InProduction = {}
  BY <1>1, <1>2 DEF Loaded
<1>3. CASE predictor[p].cached = 0 /\ InProduction # {}
  <2>1. InProduction \subseteq 1..MaxVersion
    BY DEF InProduction, Versions
  <2>2. Max(InProduction) \in InProduction
    BY <1>3, <2>1, MaxOfSome, LifecycleConstants
  <2>3. Loaded(p) = Max(InProduction)
    BY <1>3 DEF Loaded
  <2>4. Max(InProduction) \in Nat
    <3>1. \A S, x : S \subseteq 1..MaxVersion /\ x \in S => x \in Nat
      BY LifecycleConstants
    <3> QED BY <2>1, <2>2, <3>1
  <2> QED BY <2>2, <2>3, <2>4
<1> QED BY <1>2, <1>3

\* The row a job saves, and what a save makes of the registry.
LEMMA RowTyped ==
  ASSUME LifeType, NEW t \in Trainers, NEW stage \in RowStages
  PROVE  /\ Row(t, stage) \in RowType
         /\ Row(t, stage).active = (stage = "Production") /\ Row(t, stage).stage = stage
<1>1. trainer[t] \in JobType
  BY DEF LifeType
<1> DEFINE active == stage = "Production"
<1>2. active \in BOOLEAN
  OBVIOUS
<1>3. Row(t, stage) = [version |-> trainer[t].version, stage |-> stage, active |-> active,
                       sharpe |-> trainer[t].sharpe, trainedAt |-> trainer[t].trainedAt]
  BY DEF Row
<1> HIDE DEF active
<1>4. Row(t, stage) \in RowType /\ Row(t, stage).active = active /\ Row(t, stage).stage = stage
  BY <1>1, <1>2, <1>3 DEF RowType, JobType
<1> QED BY <1>4 DEF active

LEMMA DeactivatedTyped ==
  ASSUME NEW rows \in Seq(RowType), NEW ids
  PROVE  Deactivated(rows, ids) \in Seq(RowType)
<1>1. ASSUME NEW row \in RowType, NEW i PROVE [row EXCEPT !.active = @ /\ i \notin ids] \in RowType
  <2>1. (row.active /\ i \notin ids) \in BOOLEAN
    OBVIOUS
  <2> DEFINE b == row.active /\ i \notin ids
  <2>2. b \in BOOLEAN
    BY <2>1
  <2> HIDE DEF b
  <2>3. [row EXCEPT !.active = b] \in RowType
    BY <2>2 DEF RowType
  <2> QED BY <2>3 DEF b
<1>2. Len(rows) \in Nat /\ DOMAIN rows = 1..Len(rows) /\ \A i \in 1..Len(rows) : rows[i] \in RowType
  OBVIOUS
<1>3. Deactivated(rows, ids) \in [1..Len(rows) -> RowType]
  BY <1>1, <1>2 DEF Deactivated
<1> QED BY <1>2, <1>3

-----------------------------------------------------------------------------
(* Who has passed.  Between the verdict and the registry, what is promoted *)
(* lives in the memory of the job alone.                                   *)

Promoting == {"archive", "promote", "save", "insert"}

PassedInv ==
  /\ \A v \in Versions : mlflow[v] = "Production" => v \in passed
  /\ \A t \in Trainers : trainer[t].pc \in Promoting => trainer[t].version \in passed
  /\ \A p \in Predictors : predictor[p].cached \in {0} \cup passed
                           /\ predictor[p].served \in {0} \cup passed

LifeInv == LifeType /\ PassedInv

LEMMA LifeStarts == ASSUME LifeInit PROVE LifeInv
<1>1. LifeType
  <2>1. clock \in Nat /\ features \in Nat /\ registry \in Seq(RowType)
    BY DEF LifeInit
  <2>2. mlflow \in [Versions -> VersionStages]
    BY DEF LifeInit, VersionStages
  <2>3. trainer \in [Trainers -> JobType] /\ predictor \in [Predictors -> ServerType]
    BY NothingTyped DEF LifeInit
  <2> QED BY <2>1, <2>2, <2>3 DEF LifeType
<1>2. PassedInv
  BY DEF LifeInit, PassedInv, Promoting, NoTrainer, NoPredictor
<1> QED BY <1>1, <1>2 DEF LifeInv

\* A step of job t that leaves the other jobs alone.
LEMMA JobMoves ==
  ASSUME LifeInv, NEW t \in Trainers, NEW job \in JobType,
         job.pc \in Promoting => job.version \in passed \/ job.version \in passed',
         passed \subseteq passed',
         trainer' = [trainer EXCEPT ![t] = job]
  PROVE  /\ trainer' \in [Trainers -> JobType]
         /\ \A u \in Trainers : trainer'[u].pc \in Promoting => trainer'[u].version \in passed'
<1>1. trainer \in [Trainers -> JobType]
  BY DEF LifeInv, LifeType
<1>2. \A u \in Trainers : trainer[u].pc \in Promoting => trainer[u].version \in passed
  BY DEF LifeInv, PassedInv
<1> QED BY <1>1, <1>2

\* What a step keeps of jobs, predictors and stages makes up the invariant.
LEMMA InvFromParts ==
  ASSUME LifeInv, passed \subseteq passed',
         clock' \in Nat, features' \in Nat, registry' \in Seq(RowType),
         mlflow' \in [Versions -> VersionStages],
         \A v \in Versions : mlflow'[v] = "Production" => mlflow[v] = "Production" \/ v \in passed,
         trainer' \in [Trainers -> JobType],
         \A u \in Trainers : trainer'[u].pc \in Promoting => trainer'[u].version \in passed',
         predictor' \in [Predictors -> ServerType],
         \A p \in Predictors : predictor'[p].cached \in {0} \cup passed
                               /\ predictor'[p].served \in {0} \cup passed
  PROVE  LifeInv'
<1>1. LifeType'
  BY DEF LifeType, RowType, JobType, ServerType
<1>2. PassedInv'
  BY DEF LifeInv, PassedInv
<1> QED BY <1>1, <1>2 DEF LifeInv

-----------------------------------------------------------------------------
(* The jobs.                                                               *)

LEMMA JobsKeep ==
  ASSUME LifeInv, NEW t \in Trainers,
         \/ Train(t) \/ Stage(t) \/ NoFold(t)
         \/ \E sharpe \in Sharpes, ok \in BOOLEAN : Validate(t, sharpe, ok)
         \/ Archive(t) \/ Promote(t) \/ PromoteFails(t)
         \/ BeginSave(t) \/ InsertRow(t) \/ Reject(t) \/ TrainerCrash(t)
  PROVE  LifeInv'
<1>1. /\ LifeType /\ clock \in Nat /\ features \in Nat /\ registry \in Seq(RowType)
      /\ mlflow \in [Versions -> VersionStages] /\ trainer[t] \in JobType
      /\ predictor \in [Predictors -> ServerType]
  BY DEF LifeInv, LifeType
<1>2. /\ \A v \in Versions : mlflow[v] = "Production" => v \in passed
      /\ trainer[t].pc \in Promoting => trainer[t].version \in passed
      /\ \A p \in Predictors : predictor[p].cached \in {0} \cup passed
                               /\ predictor[p].served \in {0} \cup passed
  BY DEF LifeInv, PassedInv
<1>3. /\ clock' = clock /\ features' = features /\ predictor' = predictor
      /\ passed \subseteq passed'
  BY DEF Train, Stage, NoFold, Validate, Archive, Promote, PromoteFails, BeginSave, InsertRow,
         Reject, TrainerCrash
<1> DEFINE Kept(job) == job \in JobType /\ trainer' = [trainer EXCEPT ![t] = job]
           Quiet(job) == job.pc \in Promoting => job.version \in passed \/ job.version \in passed'
<1>4. ASSUME NEW job, Kept(job), Quiet(job), registry' \in Seq(RowType),
             mlflow' \in [Versions -> VersionStages],
             \A v \in Versions : mlflow'[v] = "Production" => mlflow[v] = "Production" \/ v \in passed
      PROVE  LifeInv'
  <2>1. /\ trainer' \in [Trainers -> JobType]
        /\ \A u \in Trainers : trainer'[u].pc \in Promoting => trainer'[u].version \in passed'
    BY <1>3, <1>4, JobMoves
  <2> QED BY <1>1, <1>2, <1>3, <1>4, <2>1, InvFromParts
<1>5. CASE trainer' = [trainer EXCEPT ![t] = NoTrainer] /\ UNCHANGED <<registry, mlflow>>
  BY <1>1, <1>4, <1>5, NothingTyped DEF NoTrainer, Promoting
<1>6. CASE Train(t)
  <2> DEFINE job == [NoTrainer EXCEPT !.pc = "registered", !.version = NextVersion,
                                      !.trainedAt = clock, !.trainEnd = features - 1]
  <2>1. job \in JobType
    <3>1. NextVersion \in Nat /\ features - 1 \in Int /\ "registered" \in JobSteps
      BY <1>1, VersionsCounted DEF JobSteps
    <3>2. NoTrainer \in JobType
      BY NothingTyped
    <3> QED BY <1>1, <3>1, <3>2 DEF JobType
  <2>2. job.pc = "registered"
    BY NothingTyped DEF JobType
  <2>3. Kept(job) /\ Quiet(job)
    BY <1>6, <2>1, <2>2 DEF Train, Promoting
  <2>4. /\ mlflow' \in [Versions -> VersionStages] /\ registry' = registry
        /\ \A v \in Versions : mlflow'[v] = "Production" => mlflow[v] = "Production"
    BY <1>1, <1>6 DEF Train, VersionStages
  <2> HIDE DEF job, Kept, Quiet
  <2> QED BY <1>1, <1>4, <2>3, <2>4
<1>7. CASE Stage(t)
  <2> DEFINE job == [trainer[t] EXCEPT !.pc = "trained"]
  <2>1. job \in JobType /\ job.pc = "trained"
    BY <1>1 DEF JobType, JobSteps
  <2>2. Kept(job) /\ Quiet(job)
    BY <1>7, <2>1 DEF Stage, Promoting
  <2>3. /\ mlflow' \in [Versions -> VersionStages] /\ registry' = registry
        /\ \A v \in Versions : mlflow'[v] = "Production" => mlflow[v] = "Production"
    BY <1>1, <1>7 DEF Stage, VersionStages
  <2> HIDE DEF job, Kept, Quiet
  <2> QED BY <1>1, <1>4, <2>2, <2>3
<1>8. CASE \E sharpe \in Sharpes, ok \in BOOLEAN : Validate(t, sharpe, ok)
  <2>1. PICK sharpe \in Sharpes, ok \in BOOLEAN : Validate(t, sharpe, ok)
    BY <1>8
  <2>2. PICK incumbent \in ReadActive :
          /\ trainer' = [trainer EXCEPT ![t] =
            [@ EXCEPT !.sharpe = sharpe, !.incumbent = incumbent,
                      !.pc = IF Approves(sharpe, ok, incumbent) THEN "archive" ELSE "reject"]]
          /\ passed' = IF sharpe >= 100 /\ ok /\ ~Regressed(sharpe, incumbent)
                       THEN passed \cup {trainer[t].version} ELSE passed
    BY <2>1 DEF Validate
  <2> DEFINE step == IF Approves(sharpe, ok, incumbent) THEN "archive" ELSE "reject"
             job == [trainer[t] EXCEPT !.sharpe = sharpe, !.incumbent = incumbent, !.pc = step]
  <2>3. incumbent \in RowType /\ sharpe \in Nat /\ step \in JobSteps
    BY <1>1, NewestActive, NothingTyped, LifecycleConstants DEF ReadActive, JobSteps
  <2>4. step \in Promoting => trainer[t].version \in passed'
    BY <2>2 DEF Approves, Promoting
  <2>5. trainer' = [trainer EXCEPT ![t] = job]
    BY <2>2
  <2> HIDE DEF step
  <2>6. job \in JobType /\ job.pc = step /\ job.version = trainer[t].version
    BY <1>1, <2>3 DEF JobType
  <2> HIDE DEF job
  <2>7. Kept(job) /\ Quiet(job)
    BY <2>4, <2>5, <2>6
  <2>8. mlflow' = mlflow /\ registry' = registry
    BY <2>1 DEF Validate
  <2> HIDE DEF Kept, Quiet
  <2> QED BY <1>1, <1>4, <2>7, <2>8
<1>9. CASE Archive(t)
  <2> DEFINE job == [trainer[t] EXCEPT !.pc = "promote"]
  <2>1. job \in JobType /\ job.pc = "promote" /\ job.version = trainer[t].version
    BY <1>1 DEF JobType, JobSteps
  <2>2. Kept(job) /\ Quiet(job)
    BY <1>2, <1>9, <2>1 DEF Archive, Promoting
  <2>3. /\ mlflow' \in [Versions -> VersionStages] /\ registry' = registry
        /\ \A v \in Versions : mlflow'[v] = "Production" => mlflow[v] = "Production"
    BY <1>1, <1>9 DEF Archive, VersionStages
  <2> HIDE DEF job, Kept, Quiet
  <2> QED BY <1>1, <1>4, <2>2, <2>3
<1>10. CASE Promote(t)
  <2> DEFINE job == [trainer[t] EXCEPT !.pc = "save"]
  <2>1. job \in JobType /\ job.pc = "save" /\ job.version = trainer[t].version
    BY <1>1 DEF JobType, JobSteps
  <2>2. Kept(job) /\ Quiet(job)
    BY <1>2, <1>10, <2>1 DEF Promote, Promoting
  <2>3. /\ mlflow' \in [Versions -> VersionStages] /\ registry' = registry
        /\ \A v \in Versions : mlflow'[v] = "Production" => mlflow[v] = "Production" \/ v \in passed
    BY <1>1, <1>2, <1>10 DEF Promote, VersionStages, Promoting
  <2> HIDE DEF job, Kept, Quiet
  <2> QED BY <1>1, <1>4, <2>2, <2>3
<1>11. CASE BeginSave(t)
  <2> DEFINE job == [trainer[t] EXCEPT !.pc = "insert", !.seen = ActiveIn(registry)]
  <2>1. ActiveIn(registry) \in SUBSET Nat
    BY <1>1, RowsOfRegistry
  <2>2. job \in JobType /\ job.pc = "insert" /\ job.version = trainer[t].version
    BY <1>1, <2>1 DEF JobType, JobSteps
  <2>3. Kept(job) /\ Quiet(job) /\ registry' = registry /\ mlflow' = mlflow
    BY <1>1, <1>2, <1>11, <2>2 DEF BeginSave, Promoting
  <2> HIDE DEF job, Kept, Quiet
  <2> QED BY <1>1, <1>4, <2>3
<1>12. CASE InsertRow(t) \/ Reject(t)
  <2>1. Kept(NoTrainer) /\ Quiet(NoTrainer)
    BY <1>12, NothingTyped DEF InsertRow, Reject, NoTrainer, Promoting
  <2>2. mlflow' = mlflow
    BY <1>12 DEF InsertRow, Reject
  <2>3. Row(t, "Production") \in RowType /\ Row(t, "Staging") \in RowType
    BY <1>1, RowTyped DEF RowStages
  <2>4. Deactivated(registry, trainer[t].seen) \in Seq(RowType)
    BY <1>1, DeactivatedTyped
  <2>5. registry' \in Seq(RowType)
    <3>1. ASSUME NEW rows \in Seq(RowType), NEW row \in RowType PROVE Append(rows, row) \in Seq(RowType)
      OBVIOUS
    <3>2. \/ registry' = registry
          \/ registry' = Append(registry, Row(t, "Staging"))
          \/ registry' = Append(Deactivated(registry, trainer[t].seen), Row(t, "Production"))
      BY <1>12 DEF InsertRow, Reject, RolledBack
    <3> QED BY <1>1, <2>3, <2>4, <3>1, <3>2
  <2> HIDE DEF Kept, Quiet
  <2> QED BY <1>1, <1>4, <2>1, <2>2, <2>5
<1>13. CASE NoFold(t) \/ PromoteFails(t) \/ TrainerCrash(t)
  BY <1>5, <1>13 DEF NoFold, PromoteFails, TrainerCrash
<1> QED BY <1>6, <1>7, <1>8, <1>9, <1>10, <1>11, <1>12, <1>13

-----------------------------------------------------------------------------
(* The other steps.                                                        *)

LEMMA OthersKeep ==
  ASSUME LifeInv,
         \/ \E psi \in {0, 20, 30}, block \in BOOLEAN : CheckDrift(psi, block)
         \/ Unblock
         \/ \E p \in Predictors : AskGate(p) \/ Serve(p) \/ ServeUngated(p) \/ Restart(p)
         \/ ComputeFeatures \/ Later
         \/ UNCHANGED lifeVars
  PROVE  LifeInv'
<1>1. /\ LifeType /\ clock \in Nat /\ features \in Nat /\ registry \in Seq(RowType)
      /\ mlflow \in [Versions -> VersionStages] /\ trainer \in [Trainers -> JobType]
      /\ predictor \in [Predictors -> ServerType]
  BY DEF LifeInv, LifeType
<1>2. /\ \A v \in Versions : mlflow[v] = "Production" => v \in passed
      /\ \A u \in Trainers : trainer[u].pc \in Promoting => trainer[u].version \in passed
      /\ \A p \in Predictors : predictor[p].cached \in {0} \cup passed
                               /\ predictor[p].served \in {0} \cup passed
  BY DEF LifeInv, PassedInv
<1>3. /\ registry' = registry /\ mlflow' = mlflow /\ trainer' = trainer /\ passed' = passed
      /\ clock' \in Nat /\ features' \in Nat
  BY <1>1 DEF CheckDrift, Unblock, AskGate, Serve, ServeUngated, Restart, ComputeFeatures, Later, lifeVars
<1> DEFINE Served == /\ predictor' \in [Predictors -> ServerType]
                     /\ \A q \in Predictors : /\ predictor'[q].cached \in {0} \cup passed
                                              /\ predictor'[q].served \in {0} \cup passed
<1>4. Served
  <2>1. CASE predictor' = predictor
    BY <1>1, <1>2, <2>1
  <2>2. ASSUME NEW p \in Predictors, NEW server \in ServerType,
               server.cached \in {0} \cup passed /\ server.served \in {0} \cup passed,
               predictor' = [predictor EXCEPT ![p] = server]
        PROVE  Served
    BY <1>1, <1>2, <2>2
  <2>3. ASSUME NEW p \in Predictors, AskGate(p) PROVE Served
    <3> DEFINE server == [predictor[p] EXCEPT !.pc = "open"]
    <3>1. /\ server \in ServerType
          /\ server.cached = predictor[p].cached /\ server.served = predictor[p].served
      BY <1>1 DEF ServerType
    <3>2. predictor' = [predictor EXCEPT ![p] = server]
      BY <2>3 DEF AskGate
    <3> HIDE DEF server
    <3> QED BY <1>2, <2>2, <3>1, <3>2
  <2>4. ASSUME NEW p \in Predictors, Serve(p) \/ ServeUngated(p) PROVE Served
    <3> DEFINE server == Using(Loaded(p))
    <3>1. Loaded(p) \in Nat /\ Loaded(p) \in {0, predictor[p].cached} \cup InProduction
      BY <1>1, LoadedTyped
    <3>2. Loaded(p) \in {0} \cup passed
      BY <1>2, <3>1 DEF InProduction
    <3>3. server \in ServerType /\ server.cached = Loaded(p) /\ server.served = Loaded(p)
      BY <3>1 DEF ServerType, Using
    <3>4. predictor' = [predictor EXCEPT ![p] = server]
      BY <2>4 DEF Serve, ServeUngated
    <3> HIDE DEF server
    <3> QED BY <2>2, <3>2, <3>3, <3>4
  <2>5. ASSUME NEW p \in Predictors, Restart(p) PROVE Served
    <3>1. NoPredictor \in ServerType /\ NoPredictor.cached = 0 /\ NoPredictor.served = 0
      BY NothingTyped DEF NoPredictor
    <3>2. predictor' = [predictor EXCEPT ![p] = NoPredictor]
      BY <2>5 DEF Restart
    <3> QED BY <2>2, <3>1, <3>2
  <2>6. CASE ~\E p \in Predictors : AskGate(p) \/ Serve(p) \/ ServeUngated(p) \/ Restart(p)
    <3>1. predictor' = predictor
      BY <2>6 DEF CheckDrift, Unblock, ComputeFeatures, Later, lifeVars
    <3> QED BY <2>1, <3>1
  <2> QED BY <2>3, <2>4, <2>5, <2>6
<1> QED BY <1>1, <1>2, <1>3, <1>4, InvFromParts

LEMMA LifeStays == ASSUME LifeInv, [LifeNext]_lifeVars PROVE LifeInv'
  BY JobsKeep, OthersKeep DEF LifeNext

-----------------------------------------------------------------------------
\* A Predictor of models/predict.py serves only versions whose validation
\* passed, for any number of jobs and predictors and any faults, although MLflow
\* hears of a promotion before the registry does and the cache outlives both.
THEOREM OnlyPassedServed == LifeSpec => []ServedHasPassed
<1>1. LifeInit => LifeInv
  BY LifeStarts
<1>2. LifeInv /\ [LifeNext]_lifeVars => LifeInv'
  BY LifeStays
<1>3. LifeInv => ServedHasPassed
  BY DEF LifeInv, PassedInv, ServedHasPassed
<1> QED BY <1>1, <1>2, <1>3, PTL DEF LifeSpec

\* What a step makes of the active rows.
LEMMA ActiveRowsKept ==
  ASSUME LifeInv, [LifeNext]_lifeVars, ActiveIn(registry) # {}
  PROVE  ActiveIn(registry') # {}
<1>1. registry \in Seq(RowType)
  BY DEF LifeInv, LifeType
<1>2. CASE registry' = registry
  BY <1>2
<1>3. ASSUME NEW rows \in Seq(RowType), NEW row \in RowType,
             ActiveIn(rows) # {} \/ (row.active /\ row.stage = "Production")
      PROVE  ActiveIn(Append(rows, row)) # {}
  <2> DEFINE more == Append(rows, row)
  <2>1. /\ Len(rows) \in Nat /\ DOMAIN rows = 1..Len(rows) /\ DOMAIN more = 1..(Len(rows) + 1)
        /\ \A i \in 1..Len(rows) : more[i] = rows[i]
        /\ more[Len(rows) + 1] = row
    OBVIOUS
  <2> HIDE DEF more
  <2>2. CASE ActiveIn(rows) # {}
    <3>1. PICK i \in ActiveIn(rows) : TRUE
      BY <2>2
    <3>2. i \in ActiveIn(more)
      BY <2>1, <3>1 DEF ActiveIn
    <3> QED BY <3>2 DEF more
  <2>3. CASE row.active /\ row.stage = "Production"
    <3>1. Len(rows) + 1 \in ActiveIn(more)
      BY <2>1, <2>3 DEF ActiveIn
    <3> QED BY <3>1 DEF more
  <2> QED BY <1>3, <2>2, <2>3
<1>4. ASSUME NEW t \in Trainers, InsertRow(t) PROVE ActiveIn(registry') # {}
  <2> DEFINE rows == Deactivated(registry, trainer[t].seen)
             row == Row(t, "Production")
  <2>1. rows \in Seq(RowType)
    BY <1>1, DeactivatedTyped
  <2>2. row \in RowType /\ row.active /\ row.stage = "Production"
    BY RowTyped DEF LifeInv, RowStages
  <2>3. registry' = registry \/ registry' = Append(rows, row)
    BY <1>4 DEF InsertRow, RolledBack
  <2> HIDE DEF rows, row
  <2> QED BY <1>2, <1>3, <2>1, <2>2, <2>3
<1>5. ASSUME NEW t \in Trainers, Reject(t) PROVE ActiveIn(registry') # {}
  <2>1. Row(t, "Staging") \in RowType
    BY RowTyped DEF LifeInv, RowStages
  <2>2. registry' = registry \/ registry' = Append(registry, Row(t, "Staging"))
    BY <1>5 DEF Reject
  <2> QED BY <1>1, <1>2, <1>3, <2>1, <2>2
<1>6. CASE ~\E t \in Trainers : InsertRow(t) \/ Reject(t)
  <2>1. registry' = registry
    BY <1>6 DEF LifeNext, Train, Stage, NoFold, Validate, Archive, Promote, PromoteFails,
                BeginSave, TrainerCrash, CheckDrift, Unblock, AskGate, Serve, ServeUngated, Restart,
                ComputeFeatures, Later, lifeVars
  <2> QED BY <1>2, <2>1
<1> QED BY <1>4, <1>5, <1>6

\* Once model_registry has an active production model it has one for ever, for
\* any number of overlapping jobs and whichever of their steps fail: a save
\* deactivates the old row and inserts the new one in one transaction.
THEOREM ProductionStays == LifeSpec => ProductionIsKept
<1>1. LifeInit => LifeInv
  BY LifeStarts
<1>2. LifeInv /\ [LifeNext]_lifeVars => LifeInv'
  BY LifeStays
<1>3. LifeInv /\ LifeInv' /\ [LifeNext]_lifeVars => [ActiveModel # NoRow => ActiveModel' # NoRow]_lifeVars
  <2> SUFFICES ASSUME LifeInv, LifeInv', [LifeNext]_lifeVars, ActiveModel # NoRow
               PROVE  ActiveModel' # NoRow
    OBVIOUS
  <2>1. ActiveIn(registry) # {}
    BY NewestActive DEF LifeInv, LifeType
  <2>2. ActiveIn(registry') # {}
    BY <2>1, ActiveRowsKept
  <2>3. ActiveModel' # NoRow
    <3>1. registry' \in Seq(RowType)
      BY DEF LifeInv, LifeType, RowType
    <3>2. /\ Len(registry') \in Nat /\ DOMAIN registry' = 1..Len(registry')
      BY <3>1
    <3>3. ActiveIn(registry') \subseteq 1..Len(registry')
      BY <3>2 DEF ActiveIn
    <3>4. Max(ActiveIn(registry')) \in ActiveIn(registry')
      BY <2>2, <3>2, <3>3, MaxOfSome
    <3>5. registry'[Max(ActiveIn(registry'))].stage = "Production"
      BY <3>4 DEF ActiveIn
    <3>6. ActiveModel' = registry'[Max(ActiveIn(registry'))]
      BY <2>2 DEF ActiveModel, ActiveIn
    <3>7. NoRow.stage = "none"
      BY DEF NoRow
    <3> QED BY <3>5, <3>6, <3>7
  <2> QED BY <2>3
<1> QED BY <1>1, <1>2, <1>3, PTL DEF LifeSpec, ProductionIsKept
=============================================================================
