----------------------------- MODULE DashboardJobs -----------------------------
(***************************************************************************)
(* The dashboard's job system, monitoring/jobs.py, and the routes that use *)
(* it (pipeline.py, trading_routes.py).  Each WSGI worker has a registry   *)
(* of its own in memory; a job is a thread of the worker and a process it  *)
(* started.  A sync worker answers one request at a time.                  *)
(***************************************************************************)
EXTENDS Naturals, FiniteSets

CONSTANTS
  Workers,          \* gunicorn -w
  Requests,         \* handlers a worker can be in at once (one, if sync)
  Tickets,          \* job ids
  Types,            \* "live_cycle", "collect", ...
  KeepFor,          \* hours a finished job is kept
  Garbled,          \* may reading the output raise (bytes that do not decode)?
  MaxHour           \* bound

ASSUME JobConstants ==
  IsFiniteSet(Tickets) /\ KeepFor \in Nat /\ MaxHour \in Nat /\ Garbled \in BOOLEAN

NoType == "none"

VARIABLES
  jobs,       \* _JOBS of each worker
  handler,    \* the type a request has found free, between its two lock sections
  process,    \* of a ticket: the job's process, "orphan" once its worker is gone
  hour
jobVars == <<jobs, handler, process, hour>>

NoEntry == [type |-> NoType, status |-> "unknown", finished |-> 0]
Unfinished == {"pending", "running"}
Over == {"done", "failed"}
Unused == {j \in Tickets : process[j] = "none" /\ \A w \in Workers : jobs[w][j] = NoEntry}

HasRunning(w, type) == \E j \in Tickets : jobs[w][j].type = type /\ jobs[w][j].status \in Unfinished

\* _evict_old_jobs; Faulty variant: the status is not looked at.
EvictsAll(registry) == [j \in Tickets |-> IF hour > KeepFor THEN NoEntry ELSE registry[j]]
Evicted(registry) ==
  [j \in Tickets |->
     IF registry[j].status \in Over /\ registry[j].finished + KeepFor < hour
     THEN NoEntry ELSE registry[j]]

\* A POST: 409 when has_running_job, and nothing changes.
AcceptJob(w, r, type) ==
  /\ handler[w][r] = NoType /\ ~HasRunning(w, type)
  /\ handler' = [handler EXCEPT ![w][r] = type]
  /\ UNCHANGED <<jobs, process, hour>>

\* submit_job: evicts, stores the pending job, starts the thread, answers 202.
SubmitJob(w, r, j) ==
  /\ handler[w][r] # NoType /\ j \in Unused
  /\ jobs' = [jobs EXCEPT ![w] =
       [Evicted(jobs[w]) EXCEPT ![j] = [NoEntry EXCEPT !.type = handler[w][r], !.status = "pending"]]]
  /\ handler' = [handler EXCEPT ![w][r] = NoType]
  /\ UNCHANGED <<process, hour>>

\* _run_job: the thread starts, the process starts or Popen raises, and when
\* it has ended its status is stored.
BeginJob(w, j) ==
  /\ jobs[w][j].status = "pending"
  /\ jobs' = [jobs EXCEPT ![w][j].status = "running"]
  /\ UNCHANGED <<handler, process, hour>>
SpawnJob(w, j) ==
  /\ jobs[w][j].status = "running" /\ process[j] = "none"
  /\ process' = [process EXCEPT ![j] = "alive"]
  /\ UNCHANGED <<jobs, handler, hour>>
EndProcess(j) ==
  /\ process[j] \in {"alive", "orphan"}
  /\ \E code \in {"zero", "nonzero"} : process' = [process EXCEPT ![j] = code]
  /\ UNCHANGED <<jobs, handler, hour>>
Finish(w, j, status) ==
  /\ jobs' = [jobs EXCEPT ![w][j].status = status, ![w][j].finished = hour]
  /\ UNCHANGED <<handler, process, hour>>
FinishJob(w, j) ==
  /\ jobs[w][j].status = "running"
  /\ \/ process[j] \in {"zero", "nonzero"}
        /\ Finish(w, j, IF process[j] = "zero" THEN "done" ELSE "failed")
     \/ process[j] = "none" /\ Finish(w, j, "failed")
     \/ Garbled /\ process[j] = "alive" /\ Finish(w, j, "failed")

\* A worker past its timeout is killed and replaced: the registry and the
\* threads are gone, the processes are not.
WorkerRestarts(w) ==
  /\ jobs' = [jobs EXCEPT ![w] = [j \in Tickets |-> NoEntry]]
  /\ handler' = [handler EXCEPT ![w] = [r \in Requests |-> NoType]]
  /\ process' = [j \in Tickets |->
       IF process[j] = "alive" /\ jobs[w][j] # NoEntry THEN "orphan" ELSE process[j]]
  /\ UNCHANGED hour

HourPasses == hour < MaxHour /\ hour' = hour + 1 /\ UNCHANGED <<jobs, handler, process>>

JobsInit ==
  /\ jobs = [w \in Workers |-> [j \in Tickets |-> NoEntry]]
  /\ handler = [w \in Workers |-> [r \in Requests |-> NoType]]
  /\ process = [j \in Tickets |-> "none"] /\ hour = 0

JobsNext ==
  \/ \E w \in Workers, r \in Requests, type \in Types : AcceptJob(w, r, type)
  \/ \E w \in Workers, r \in Requests, j \in Tickets : SubmitJob(w, r, j)
  \/ \E w \in Workers, j \in Tickets : BeginJob(w, j) \/ SpawnJob(w, j) \/ FinishJob(w, j)
  \/ \E j \in Tickets : EndProcess(j)
  \/ \E w \in Workers : WorkerRestarts(w)
  \/ HourPasses

JobsSpec == JobsInit /\ [][JobsNext]_jobVars

-----------------------------------------------------------------------------
\* The worker that answers "already running" is right about its own jobs: of
\* one type it never runs two, and no process it started and still follows is
\* called over or forgotten, however long it runs and whatever was evicted.
Followed(w, j) == jobs[w][j].status \in Unfinished
WorkerRunsOne ==
  \A w \in Workers, j, k \in Tickets :
    /\ Followed(w, j) /\ Followed(w, k) /\ jobs[w][j].type = jobs[w][k].type => j = k
    /\ jobs[w][j].status \in Over => process[j] # "alive"
    /\ process[j] = "alive" => \E v \in Workers : Followed(v, j)

\* At most one job of a type runs ("live cycle already running", 409).
OneJobPerType ==
  \A j, k \in Tickets : \A w, v \in Workers :
    Followed(w, j) /\ Followed(v, k) /\ jobs[w][j].type = jobs[v][k].type => j = k
=============================================================================
