-------------------------- MODULE DashboardJobsProofs --------------------------
(***************************************************************************)
(* What one worker of the dashboard promises of its own jobs, for every    *)
(* number of workers, tickets and job types, whoever is killed when.       *)
(***************************************************************************)
EXTENDS DashboardJobs, TLAPS

Status == {"unknown", "pending", "running", "done", "failed"}
Job == [type : Types \cup {NoType}, status : Status, finished : Nat]

JobType ==
  /\ jobs \in [Workers -> [Tickets -> Job]]
  /\ handler \in [Workers -> [Requests -> Types \cup {NoType}]]
  /\ process \in [Tickets -> {"none", "alive", "zero", "nonzero", "orphan"}]
  /\ hour \in Nat

\* A type a request has found free stays free until that request submits: the
\* request is the only one its worker answers.
FreeStaysFree ==
  \A w \in Workers, r \in Requests :
    handler[w][r] # NoType => ~HasRunning(w, handler[w][r])

\* A worker's thread is where the registry says it is, and a process alive is
\* one whose thread still waits for it.
ThreadsAreTold ==
  \A w \in Workers, j \in Tickets :
    /\ jobs[w][j].status = "pending" => process[j] = "none"
    /\ jobs[w][j].status \in Over => process[j] # "alive"
AliveIsRunning ==
  \A j \in Tickets : process[j] = "alive" => \E w \in Workers : jobs[w][j].status = "running"
OneOfAType ==
  \A w \in Workers : \A j, k \in Tickets :
    Followed(w, j) /\ Followed(w, k) /\ jobs[w][j].type = jobs[w][k].type => j = k

\* A ticket is a uuid: one worker knows it.
OneOwner ==
  \A w, v \in Workers, j \in Tickets : jobs[w][j] # NoEntry /\ jobs[v][j] # NoEntry => w = v

JobInv ==
  JobType /\ FreeStaysFree /\ ThreadsAreTold /\ AliveIsRunning /\ OneOfAType /\ OneOwner

LEMMA JobsStart == JobsInit => JobInv
  BY DEF JobsInit, JobInv, JobType, Job, Status, NoEntry, NoType, FreeStaysFree, ThreadsAreTold,
         AliveIsRunning, OneOfAType, OneOwner, Followed, Unfinished, Over

LEMMA JobInvSuffices == JobInv => WorkerRunsOne
  BY DEF JobInv, WorkerRunsOne, OneOfAType, ThreadsAreTold, AliveIsRunning, Followed, Unfinished

\* A sync worker is in one request at a time.
SyncWorkers == \A r, q \in Requests : r = q

\* Eviction touches only what is over.
LEMMA EvictionForgetsTheOver ==
  ASSUME JobType, NEW w \in Workers, NEW j \in Tickets
  PROVE  /\ Evicted(jobs[w]) \in [Tickets -> Job]
         /\ \/ Evicted(jobs[w])[j] = jobs[w][j]
            \/ Evicted(jobs[w])[j] = NoEntry /\ jobs[w][j].status \in Over
  BY DEF JobType, Evicted, Job, NoEntry, NoType, Status, Over

LEMMA AcceptKeeps ==
  ASSUME JobInv, SyncWorkers, NEW w \in Workers, NEW r \in Requests, NEW type \in Types,
         AcceptJob(w, r, type)
  PROVE  JobInv'
<1>1. JobType'
  BY DEF JobInv, JobType, AcceptJob
<1>2. FreeStaysFree'
  BY DEF JobInv, JobType, FreeStaysFree, AcceptJob, HasRunning
<1> QED
  BY <1>1, <1>2 DEF JobInv, AcceptJob, ThreadsAreTold, AliveIsRunning, OneOfAType, OneOwner, Followed

LEMMA SubmitKeeps ==
  ASSUME JobInv, SyncWorkers, NEW w \in Workers, NEW r \in Requests, NEW j \in Tickets,
         SubmitJob(w, r, j)
  PROVE  JobInv'
<1> DEFINE new == [NoEntry EXCEPT !.type = handler[w][r], !.status = "pending"]
<1>1. new \in Job /\ new.type = handler[w][r] /\ new.status = "pending"
  BY DEF JobInv, JobType, Job, NoEntry, Status
<1>2. Evicted(jobs[w]) \in [Tickets -> Job]
  BY EvictionForgetsTheOver DEF JobInv
<1>3. /\ jobs'[w][j] = new
      /\ \A k \in Tickets \ {j} :
           \/ jobs'[w][k] = jobs[w][k]
           \/ jobs'[w][k] = NoEntry /\ jobs[w][k].status \in Over
      /\ \A v \in Workers \ {w} : jobs'[v] = jobs[v]
  BY <1>2, EvictionForgetsTheOver DEF JobInv, JobType, SubmitJob
<1>4. process[j] = "none" /\ \A v \in Workers : jobs[v][j] = NoEntry
  BY DEF SubmitJob, Unused
<1>5. process' = process
  BY DEF SubmitJob
<1>6. JobType'
  BY <1>1, <1>2 DEF JobInv, JobType, SubmitJob, NoType
<1>7. \A k \in Tickets \ {j} : Followed(w, k)' => Followed(w, k) /\ jobs'[w][k] = jobs[w][k]
  BY <1>3 DEF Followed, Unfinished, NoEntry
<1>8. FreeStaysFree'
  <2> SUFFICES ASSUME NEW v \in Workers, NEW q \in Requests, handler'[v][q] # NoType
               PROVE  ~HasRunning(v, handler[v][q])' /\ handler'[v][q] = handler[v][q]
    BY DEF FreeStaysFree, HasRunning
  <2>1. v # w
    <3>1. handler'[w][r] = NoType
      BY DEF SubmitJob, JobInv, JobType
    <3>2. q = r
      BY DEF SyncWorkers
    <3> QED BY <3>1, <3>2
  <2>2. handler'[v][q] = handler[v][q] /\ jobs'[v] = jobs[v]
    BY <2>1, <1>3 DEF SubmitJob, JobInv, JobType
  <2> QED BY <2>2 DEF JobInv, FreeStaysFree, HasRunning
<1>9. ThreadsAreTold'
  BY <1>1, <1>3, <1>4, <1>5 DEF JobInv, ThreadsAreTold, Over, NoEntry
<1>10. AliveIsRunning'
  <2> SUFFICES ASSUME NEW k \in Tickets, process[k] = "alive"
               PROVE  \E v \in Workers : jobs'[v][k].status = "running"
    BY <1>5 DEF AliveIsRunning
  <2>1. PICK v \in Workers : jobs[v][k].status = "running"
    BY DEF JobInv, AliveIsRunning
  <2>2. k # j
    BY <1>4
  <2> QED BY <2>1, <2>2, <1>3 DEF Over
<1>11. OneOfAType'
  <2> SUFFICES ASSUME NEW v \in Workers, NEW k \in Tickets, NEW l \in Tickets,
                      Followed(v, k)', Followed(v, l)', jobs'[v][k].type = jobs'[v][l].type
               PROVE  k = l
    BY DEF OneOfAType
  <2>1. CASE v # w
    BY <2>1, <1>3 DEF JobInv, OneOfAType, Followed
  <2>2. CASE v = w /\ k # j /\ l # j
    BY <2>2, <1>7 DEF JobInv, OneOfAType
  <2>3. ASSUME NEW m \in Tickets \ {j}, Followed(w, m)' PROVE jobs'[w][m].type # handler[w][r]
    BY <2>3, <1>7 DEF JobInv, FreeStaysFree, HasRunning, Followed, SubmitJob
  <2>4. CASE v = w /\ (k = j \/ l = j)
    <3>1. Followed(w, k)' /\ Followed(w, l)' /\ jobs'[w][k].type = jobs'[w][l].type
      BY <2>4
    <3>2. jobs'[w][j].type = handler[w][r]
      BY <1>1, <1>3
    <3> QED BY <2>3, <2>4, <3>1, <3>2
  <2> QED BY <2>1, <2>2, <2>4
<1>12. OneOwner'
  BY <1>3, <1>4 DEF JobInv, OneOwner
<1> QED BY <1>6, <1>8, <1>9, <1>10, <1>11, <1>12 DEF JobInv

\* A step of one thread: the registry entry of one ticket changes its status
\* and nothing else, from unfinished.
LEMMA StatusKeeps ==
  ASSUME JobInv, NEW w \in Workers, NEW j \in Tickets, NEW job \in Job,
         jobs[w][j].status \in Unfinished, job.status \in Status \ {"unknown", "pending"},
         job.type = jobs[w][j].type,
         jobs' = [jobs EXCEPT ![w] = [jobs[w] EXCEPT ![j] = job]],
         handler' = handler, process' = process, hour' = hour,
         job.status \in Over => process[j] # "alive"
  PROVE  JobInv'
<1>1. /\ jobs'[w][j] = job
      /\ \A k \in Tickets \ {j} : jobs'[w][k] = jobs[w][k]
      /\ \A v \in Workers \ {w} : jobs'[v] = jobs[v]
  BY DEF JobInv, JobType
<1>2. JobType'
  BY DEF JobInv, JobType
<1>3. \A v \in Workers, k \in Tickets :
        Followed(v, k)' => Followed(v, k) /\ jobs'[v][k].type = jobs[v][k].type
  BY <1>1 DEF Followed
<1>4. FreeStaysFree'
  BY <1>3 DEF JobInv, FreeStaysFree, HasRunning, Followed
<1>5. ThreadsAreTold'
  BY <1>1 DEF JobInv, ThreadsAreTold
<1>6. jobs[w][j] # NoEntry
  BY DEF Unfinished, NoEntry
<1>7. AliveIsRunning'
  <2> SUFFICES ASSUME NEW k \in Tickets, process[k] = "alive"
               PROVE  \E v \in Workers : jobs'[v][k].status = "running"
    BY DEF AliveIsRunning
  <2>1. PICK v \in Workers : jobs[v][k].status = "running"
    BY DEF JobInv, AliveIsRunning
  <2>2. CASE k = j /\ v = w
    BY <2>2, <1>1 DEF Status, Over
  <2>3. CASE ~(k = j /\ v = w)
    BY <2>1, <2>3, <1>1
  <2> QED BY <2>2, <2>3
<1>8. OneOfAType'
  BY <1>3 DEF JobInv, OneOfAType
<1>9. OneOwner'
  BY <1>1, <1>6 DEF JobInv, OneOwner
<1> QED BY <1>2, <1>4, <1>5, <1>7, <1>8, <1>9 DEF JobInv

LEMMA BeginKeeps ==
  ASSUME JobInv, NEW w \in Workers, NEW j \in Tickets, BeginJob(w, j)
  PROVE  JobInv'
<1> DEFINE job == [jobs[w][j] EXCEPT !.status = "running"]
<1>0. jobs[w][j] \in Job
  BY DEF JobInv, JobType
<1>1. job \in Job /\ job.status = "running" /\ job.type = jobs[w][j].type
  BY <1>0 DEF Job, Status
<1>2. jobs' = [jobs EXCEPT ![w] = [jobs[w] EXCEPT ![j] = job]]
  BY DEF BeginJob, JobInv, JobType
<1>3. /\ jobs[w][j].status \in Unfinished
      /\ job.status \in Status \ {"unknown", "pending"} /\ job.status \notin Over
      /\ handler' = handler /\ process' = process /\ hour' = hour
  BY <1>1 DEF BeginJob, Unfinished, Status, Over
<1> HIDE DEF job
<1> QED
  BY <1>1, <1>2, <1>3, StatusKeeps

LEMMA FinishKeeps ==
  ASSUME JobInv, ~Garbled, NEW w \in Workers, NEW j \in Tickets, FinishJob(w, j)
  PROVE  JobInv'
<1>1. PICK status \in Over : Finish(w, j, status) /\ process[j] # "alive"
  BY DEF FinishJob, Over
<1> DEFINE job == [jobs[w][j] EXCEPT !.status = status, !.finished = hour]
<1>0. jobs[w][j] \in Job /\ hour \in Nat
  BY DEF JobInv, JobType
<1>2. job \in Job /\ job.status = status /\ job.type = jobs[w][j].type
  BY <1>0 DEF Job, Status, Over
<1>3. jobs' = [jobs EXCEPT ![w] = [jobs[w] EXCEPT ![j] = job]]
  BY <1>1 DEF Finish, JobInv, JobType
<1>4. jobs[w][j].status \in Unfinished
  BY DEF FinishJob, Unfinished
<1>5. job.status \in Status \ {"unknown", "pending"}
  BY <1>2 DEF Over, Status
<1>6. handler' = handler /\ process' = process /\ hour' = hour
  BY <1>1 DEF Finish
<1> HIDE DEF job
<1> QED
  BY <1>1, <1>2, <1>3, <1>4, <1>5, <1>6, StatusKeeps

\* A process starts under its running thread, or ends.
LEMMA ProcessKeeps ==
  ASSUME JobInv, NEW w \in Workers, NEW j \in Tickets, SpawnJob(w, j) \/ EndProcess(j)
  PROVE  JobInv'
<1>1. CASE SpawnJob(w, j)
  <2>1. jobs[w][j].status = "running" /\ \A v \in Workers : jobs[v][j] # NoEntry => v = w
    BY <1>1 DEF SpawnJob, JobInv, OneOwner, NoEntry
  <2>2. JobType' /\ FreeStaysFree' /\ OneOfAType' /\ OneOwner'
    BY <1>1 DEF SpawnJob, JobInv, JobType, FreeStaysFree, HasRunning, OneOfAType, Followed, OneOwner
  <2>3. ThreadsAreTold'
    BY <1>1, <2>1 DEF SpawnJob, JobInv, JobType, ThreadsAreTold, Over, NoEntry
  <2>4. AliveIsRunning'
    BY <1>1, <2>1 DEF SpawnJob, JobInv, JobType, AliveIsRunning
  <2> QED BY <2>2, <2>3, <2>4 DEF JobInv
<1>2. CASE EndProcess(j)
  <2>1. JobType' /\ FreeStaysFree' /\ OneOfAType' /\ OneOwner'
    BY <1>2 DEF EndProcess, JobInv, JobType, FreeStaysFree, HasRunning, OneOfAType, Followed, OneOwner
  <2>2. ThreadsAreTold' /\ AliveIsRunning'
    BY <1>2 DEF EndProcess, JobInv, JobType, ThreadsAreTold, AliveIsRunning, Over
  <2> QED BY <2>1, <2>2 DEF JobInv
<1> QED BY <1>1, <1>2

LEMMA RestartKeeps ==
  ASSUME JobInv, NEW w \in Workers, WorkerRestarts(w)
  PROVE  JobInv'
<1>1. /\ \A j \in Tickets : jobs'[w][j] = NoEntry
      /\ \A v \in Workers \ {w} : jobs'[v] = jobs[v] /\ handler'[v] = handler[v]
      /\ \A r \in Requests : handler'[w][r] = NoType
      /\ \A j \in Tickets : process'[j] = IF process[j] = "alive" /\ jobs[w][j] # NoEntry
                                          THEN "orphan" ELSE process[j]
  BY DEF WorkerRestarts, JobInv, JobType
<1>2. JobType'
  BY DEF WorkerRestarts, JobInv, JobType, Job, NoEntry, Status, NoType
<1>3. FreeStaysFree'
  BY <1>1 DEF JobInv, FreeStaysFree, HasRunning
<1>4. ThreadsAreTold'
  BY <1>1 DEF JobInv, ThreadsAreTold, NoEntry, Over
<1>5. AliveIsRunning'
  BY <1>1 DEF JobInv, AliveIsRunning, NoEntry
<1>6. OneOfAType' /\ OneOwner'
  BY <1>1 DEF JobInv, OneOfAType, OneOwner, Followed, NoEntry, Unfinished
<1> QED BY <1>2, <1>3, <1>4, <1>5, <1>6 DEF JobInv

\* has_running_job is right about its own worker (jobs.py:105-110): with one
\* request at a time and readable output, a worker never runs two jobs of a
\* type, and forgets or calls over no process that is alive.
THEOREM OneJobPerWorker ==
  ASSUME SyncWorkers, ~Garbled
  PROVE  JobsSpec => []WorkerRunsOne
<1>1. JobInv /\ [JobsNext]_jobVars => JobInv'
  <2> SUFFICES ASSUME JobInv, [JobsNext]_jobVars PROVE JobInv'
    OBVIOUS
  <2>1. ASSUME NEW w \in Workers, NEW r \in Requests, NEW type \in Types, AcceptJob(w, r, type)
        PROVE  JobInv'
    BY <2>1, AcceptKeeps
  <2>2. ASSUME NEW w \in Workers, NEW r \in Requests, NEW j \in Tickets, SubmitJob(w, r, j)
        PROVE  JobInv'
    BY <2>2, SubmitKeeps
  <2>3. ASSUME NEW w \in Workers, NEW j \in Tickets,
               BeginJob(w, j) \/ SpawnJob(w, j) \/ FinishJob(w, j)
        PROVE  JobInv'
    BY <2>3, BeginKeeps, ProcessKeeps, FinishKeeps
  <2>4. ASSUME NEW j \in Tickets, EndProcess(j) PROVE JobInv'
    <3>1. CASE Workers = {}
      BY <3>1, <2>4 DEF EndProcess, JobInv, JobType, FreeStaysFree, ThreadsAreTold, AliveIsRunning,
                        OneOfAType, OneOwner
    <3>2. CASE Workers # {}
      BY <3>2, <2>4, ProcessKeeps
    <3> QED BY <3>1, <3>2
  <2>5. ASSUME NEW w \in Workers, WorkerRestarts(w) PROVE JobInv'
    BY <2>5, RestartKeeps
  <2>6. CASE HourPasses \/ UNCHANGED jobVars
    BY <2>6 DEF HourPasses, jobVars, JobInv, JobType, FreeStaysFree, HasRunning, ThreadsAreTold,
                AliveIsRunning, OneOfAType, OneOwner, Followed
  <2> QED BY <2>1, <2>2, <2>3, <2>4, <2>5, <2>6 DEF JobsNext
<1> QED BY JobsStart, JobInvSuffices, <1>1, PTL DEF JobsSpec
=============================================================================
