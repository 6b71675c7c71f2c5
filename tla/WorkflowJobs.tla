---------------------------- MODULE WorkflowJobs ----------------------------
(***************************************************************************)
(* The asynchronous execution path: the job table and the run table of the *)
(* store (storage/store.py), the Redis lists, set and run locks of the job *)
(* queue (job_queue.py), the worker loop (job_worker.py) and the API       *)
(* handlers that submit, recover and decide jobs (api/routes.py).          *)
(*                                                                         *)
(* Every awaited database or Redis call is one action, since another       *)
(* process may run between any two of them.  A call of the worker's try    *)
(* block may also raise, before or after it has taken effect; a worker or  *)
(* a handler may die between two calls.  The MaxXxx constants bound how    *)
(* often each of these happens in one behaviour.                           *)
(***************************************************************************)
EXTENDS WorkflowRuns, Sequences, FiniteSets

CONSTANTS
    Jobs,           \* job ids create_job may return
    Incidents,      \* incident ids
    IncidentOf,     \* the incident of each job's request payload
    Workers,        \* worker processes
    Handlers,       \* concurrent API requests that change jobs
    NoJob,          \* "no job in hand"
    Tenants,        \* tenant ids
    Platform,       \* no tenant: platform principals, a NULL tenant_id
    TenantOf,       \* the tenant each job is submitted for
    Requests,       \* the kinds of API request clients send
    MaxRetries,     \* job_max_retries: runs a job may use
    RunsFitTTL,     \* does every run end within run_lock_ttl_seconds?
    MaxFaults,      \* bound: calls that raise in a try block
    MaxCrashes,     \* bound: processes that die
    MaxRecoveries   \* bound: accepted resume / recover requests

RequestKinds == {"submit", "recover", "approve", "reject", "decide", "run"}

ASSUME JobsAssumption ==
    /\ NoJob \notin Jobs
    /\ IncidentOf \in [Jobs -> Incidents]
    /\ Requests \subseteq RequestKinds
    /\ TenantOf \in [Jobs -> Tenants \cup {Platform}]

ASSUME LockAssumption ==
    /\ {"free", "orphan"} \cap Workers = {}
    /\ RunsFitTTL \in BOOLEAN

ASSUME BoundsAssumption ==
    /\ MaxRetries \in Nat /\ MaxRetries > 0
    /\ NodeCount \in Nat
    /\ ReviewNode \in 1..NodeCount
    /\ ReportNode \in ReviewNode..NodeCount
    /\ MaxFaults \in Nat /\ MaxCrashes \in Nat /\ MaxRecoveries \in Nat

VARIABLES
    status,      \* workflow_jobs.status, "absent" before create_job
    attempts,    \* workflow_jobs.attempts
    ckpt,        \* workflow_jobs.checkpoint_json
    approval,    \* incident_runs.approval_status, "absent" without a row
    owner,       \* incident_runs.tenant_id
    queue,       \* the Redis list of ready jobs
    delayed,     \* the Redis sorted set of delayed jobs (scores abstracted)
    dlq,         \* the Redis dead letter list
    lock,        \* the holder of each incident's run lock
    pc,          \* where each worker is
    job,         \* the job a worker has in hand
    mode,        \* whether the worker is in the try block or its handler
    work,        \* the state the workflow resumes from, then its result
    att,         \* the attempts count the worker has read
    hpc,         \* where each API request is
    hjob,        \* the job of an API request
    hckpt,       \* the checkpoint a recover request has read
    faults, crashes, recoveries    \* how much of each bound is used

runs   == <<approval, owner>>
store  == <<status, attempts, ckpt, runs>>
redis  == <<queue, delayed, dlq, lock>>
locals == <<job, mode, work, att>>
worker == <<pc, locals>>
api    == <<hpc, hjob, hckpt>>
budget == <<faults, crashes, recoveries>>
vars   == <<store, redis, worker, api, budget>>

-----------------------------------------------------------------------------
JobStatuses == {"queued", "running", "retry_scheduled", "recovering",
                "awaiting_human", "completed", "failed", "dead_letter"}

SkippedStatuses   == {"completed", "dead_letter", "awaiting_human"}
ResumableStatuses == {"failed", "retry_scheduled", "recovering",
                      "awaiting_human"}
ActiveStatuses    == {"queued", "running", "retry_scheduled", "recovering"}

ApprovalStatuses == {"pending", "not_required", "approved", "rejected"}

\* Whose rows a request may read and change: _tenant_scope of its principal.
Scopes == Tenants \cup {Platform}

\* Program points of process_job between taking the lock and giving it up.
TryPoints == {"start", "mark", "marked", "run", "save", "await",
              "checkpoint", "retry", "schedule", "dead", "push", "complete"}
ReleasePoints  == {"release", "unlock"}
LockedPoints   == TryPoints \cup {"except"} \cup ReleasePoints
HandlingPoints == {"except", "retry", "schedule", "dead", "push"}
UnlockedPoints == {"load", "read", "lock", "postpone", "postponed"}
LoopPoints     == {"promote", "pop", "down"}
WorkerPoints   == LockedPoints \cup UnlockedPoints \cup LoopPoints
                      \cup {"promoted"}

HandlerPoints == {"idle", "enqueue", "read_ckpt", "recover",
                  "approve", "reject", "complete", "fail"}

StoreTypeOK ==
    /\ status \in [Jobs -> JobStatuses \cup {"absent"}]
    /\ attempts \in [Jobs -> Nat]
    /\ ckpt \in [Jobs -> Checkpoints]
    /\ approval \in [Incidents -> ApprovalStatuses \cup {"absent"}]
    /\ owner \in [Incidents -> Scopes]

RedisTypeOK ==
    /\ queue \in Seq(Jobs)
    /\ delayed \in SUBSET Jobs
    /\ dlq \in Seq(Jobs)
    /\ lock \in [Incidents -> Workers \cup {"free", "orphan"}]

WorkerTypeOK ==
    /\ pc \in [Workers -> WorkerPoints]
    /\ job \in [Workers -> Jobs \cup {NoJob}]
    /\ mode \in [Workers -> {"none", "try", "except", "dying"}]
    /\ work \in [Workers -> Checkpoints]
    /\ att \in [Workers -> Nat]

ApiTypeOK ==
    /\ hpc \in [Handlers -> HandlerPoints]
    /\ hjob \in [Handlers -> Jobs \cup {NoJob}]
    /\ hckpt \in [Handlers -> Checkpoints]

BudgetTypeOK ==
    /\ faults \in 0..MaxFaults
    /\ crashes \in 0..MaxCrashes
    /\ recoveries \in 0..MaxRecoveries

TypeOK ==
    /\ StoreTypeOK /\ RedisTypeOK /\ WorkerTypeOK /\ ApiTypeOK /\ BudgetTypeOK

Init ==
    /\ status = [j \in Jobs |-> "absent"]
    /\ attempts = [j \in Jobs |-> 0]
    /\ ckpt = [j \in Jobs |-> Fresh]
    /\ approval = [i \in Incidents |-> "absent"]
    /\ owner = [i \in Incidents |-> Platform]
    /\ queue = <<>> /\ delayed = {} /\ dlq = <<>>
    /\ lock = [i \in Incidents |-> "free"]
    /\ pc = [w \in Workers |-> "promote"]
    /\ job = [w \in Workers |-> NoJob]
    /\ mode = [w \in Workers |-> "none"]
    /\ work = [w \in Workers |-> Fresh]
    /\ att = [w \in Workers |-> 0]
    /\ hpc = [h \in Handlers |-> "idle"]
    /\ hjob = [h \in Handlers |-> NoJob]
    /\ hckpt = [h \in Handlers |-> Fresh]
    /\ faults = 0 /\ crashes = 0 /\ recoveries = 0

-----------------------------------------------------------------------------
(* The worker's control flow.                                              *)

MyJob(w)  == job[w]
MyLock(w) == IncidentOf[job[w]]

GoTo(w, point) == pc' = [pc EXCEPT ![w] = point]

Step(w, from, to) == pc[w] = from /\ GoTo(w, to)

\* A call of the try block raised: control passes to the except clause.
Raise(w) ==
    /\ mode[w] = "try"
    /\ faults < MaxFaults
    /\ faults' = faults + 1
    /\ mode' = [mode EXCEPT ![w] = "except"]
    /\ GoTo(w, "except")

\* The call has taken effect; its answer arrives, or the call raises.
Answered(w, point) ==
    /\ (GoTo(w, point) /\ UNCHANGED <<mode, faults>>) \/ Raise(w)
    /\ UNCHANGED <<job, work, api, crashes, recoveries>>

\* process_job returns; a worker whose except clause raised ends with it.
LeaveJob(w) ==
    /\ GoTo(w, IF mode[w] = "dying" THEN "down" ELSE "promote")
    /\ job' = [job EXCEPT ![w] = NoJob]
    /\ mode' = [mode EXCEPT ![w] = "none"]
    /\ work' = [work EXCEPT ![w] = Fresh]
    /\ att' = [att EXCEPT ![w] = 0]

SetStatus(j, s) == status' = [status EXCEPT ![j] = s]

\* Mutant: one attempt too many.
AfterSaveInclusive(t, a) ==
    CASE PendingHumanInput(t)               -> "await"
      [] ~PendingHumanInput(t) /\ RunFailed(t) ->
            IF a <= MaxRetries THEN "checkpoint" ELSE "dead"
      [] OTHER                              -> "complete"

\* What process_job does with the saved result t on its a-th attempt.
AfterSave(t, a) ==
    CASE PendingHumanInput(t)               -> "await"
      [] ~PendingHumanInput(t) /\ RunFailed(t) ->
            IF a < MaxRetries THEN "checkpoint" ELSE "dead"
      [] OTHER                              -> "complete"

-----------------------------------------------------------------------------
(* The queue: promote_due_jobs and pop_next_job.                           *)

PromoteNone(w) ==
    /\ Step(w, "promote", "pop")
    /\ delayed = {}
    /\ UNCHANGED <<store, redis, locals, api, budget>>

\* Mutant: due jobs are looked up and not taken out.
PromotePeek(w) ==
    /\ Step(w, "promote", "promoted")
    /\ \E j \in delayed : job' = [job EXCEPT ![w] = j]
    /\ UNCHANGED <<store, redis, mode, work, att, api, budget>>

PromotePop(w) ==
    /\ Step(w, "promote", "promoted")
    /\ \E j \in delayed :
        /\ delayed' = delayed \ {j}
        /\ job' = [job EXCEPT ![w] = j]
    /\ UNCHANGED <<store, queue, dlq, lock, mode, work, att, api, budget>>

PromoteDue(w) ==
    /\ Step(w, "promoted", "promote")
    /\ queue' = Append(queue, MyJob(w))
    /\ job' = [job EXCEPT ![w] = NoJob]
    /\ UNCHANGED <<store, delayed, dlq, lock, mode, work, att, api, budget>>

PromoteNotDue(w) ==
    /\ Step(w, "promoted", "pop")
    /\ delayed' = delayed \cup {MyJob(w)}
    /\ job' = [job EXCEPT ![w] = NoJob]
    /\ UNCHANGED <<store, queue, dlq, lock, mode, work, att, api, budget>>

PopTimeout(w) ==
    /\ Step(w, "pop", "promote")
    /\ queue = <<>>
    /\ UNCHANGED <<store, redis, locals, api, budget>>

PopJob(w) ==
    /\ Step(w, "pop", "load")
    /\ queue # <<>>
    /\ queue' = Tail(queue)
    /\ job' = [job EXCEPT ![w] = Head(queue)]
    /\ UNCHANGED <<store, delayed, dlq, lock, mode, work, att, api, budget>>

-----------------------------------------------------------------------------
(* process_job up to the run lock.  The status and the checkpoint are read *)
(* before the lock is held and are not read again.                         *)

SkipJob(w) ==
    /\ pc[w] = "load" /\ status[MyJob(w)] \in SkippedStatuses
    /\ LeaveJob(w)
    /\ UNCHANGED <<store, redis, api, budget>>

LoadJob(w) ==
    /\ Step(w, "load", "read")
    /\ status[MyJob(w)] \notin SkippedStatuses
    /\ UNCHANGED <<store, redis, locals, api, budget>>

ReadCheckpoint(w) ==
    /\ Step(w, "read", "lock")
    /\ work' = [work EXCEPT ![w] = ckpt[MyJob(w)]]
    /\ UNCHANGED <<store, redis, job, mode, att, api, budget>>

\* Mutant: the key is set whoever holds it.
AcquireWithoutNX(w) ==
    /\ Step(w, "lock", "start")
    /\ lock' = [lock EXCEPT ![MyLock(w)] = w]
    /\ mode' = [mode EXCEPT ![w] = "try"]
    /\ UNCHANGED <<store, queue, delayed, dlq, job, work, att, api, budget>>

AcquireRunLock(w) ==
    /\ Step(w, "lock", "start")
    /\ lock[MyLock(w)] = "free"
    /\ lock' = [lock EXCEPT ![MyLock(w)] = w]
    /\ mode' = [mode EXCEPT ![w] = "try"]
    /\ UNCHANGED <<store, queue, delayed, dlq, job, work, att, api, budget>>

LockUnavailable(w) ==
    /\ Step(w, "lock", "postpone")
    /\ lock[MyLock(w)] # "free"
    /\ UNCHANGED <<store, redis, locals, api, budget>>

MarkPostponed(w) ==
    /\ Step(w, "postpone", "postponed")
    /\ SetStatus(MyJob(w), "retry_scheduled")
    /\ UNCHANGED <<attempts, ckpt, runs, redis, locals, api, budget>>

\* Mutant: a job whose incident is busy is dropped.
PostponedForgotten(w) ==
    /\ pc[w] = "postponed"
    /\ LeaveJob(w)
    /\ UNCHANGED <<store, redis, api, budget>>

SchedulePostponed(w) ==
    /\ pc[w] = "postponed"
    /\ delayed' = delayed \cup {MyJob(w)}
    /\ LeaveJob(w)
    /\ UNCHANGED <<store, queue, dlq, lock, api, budget>>

-----------------------------------------------------------------------------
(* The try block of process_job.                                           *)

\* mark_job_running selects the row, updates it with the count it has read
\* and reads the job again: a transaction without a lock on the row.
ReadAttempts(w) ==
    /\ Step(w, "start", "mark")
    /\ att' = [att EXCEPT ![w] = attempts[MyJob(w)]]
    /\ UNCHANGED <<store, redis, job, mode, work, api, budget>>

MarkRunning(w) ==
    /\ Step(w, "mark", "marked")
    /\ SetStatus(MyJob(w), "running")
    /\ attempts' = [attempts EXCEPT ![MyJob(w)] = att[w] + 1]
    /\ UNCHANGED <<ckpt, runs, redis, locals, api, budget>>

ReadRunning(w) ==
    /\ Step(w, "marked", "run")
    /\ att' = [att EXCEPT ![w] = attempts[MyJob(w)]]
    /\ UNCHANGED <<store, redis, job, mode, work, api, budget>>

RunWorkflow(w) ==
    /\ Step(w, "run", "save")
    /\ \E t \in RunOutcomes(work[w]) : work' = [work EXCEPT ![w] = t]
    /\ UNCHANGED <<store, redis, job, mode, att, api, budget>>

\* save_run replaces the row of the incident, whichever tenant's it was.
InsertRun(t, i, result) ==
    /\ approval' = [approval EXCEPT ![i] = ApprovalOnSave(result)]
    /\ owner' = [owner EXCEPT ![i] = t]

SaveRun(w) ==
    /\ pc[w] = "save"
    /\ InsertRun(TenantOf[MyJob(w)], MyLock(w), work[w])
    /\ Answered(w, AfterSave(work[w], att[w]))
    /\ UNCHANGED <<status, attempts, ckpt, redis, att>>

MarkAwaitingHuman(w) ==
    /\ pc[w] = "await"
    /\ SetStatus(MyJob(w), "awaiting_human")
    /\ ckpt' = [ckpt EXCEPT ![MyJob(w)] = work[w]]
    /\ Answered(w, "release")
    /\ UNCHANGED <<attempts, runs, redis, att>>

SaveCheckpoint(w) ==
    /\ pc[w] = "checkpoint"
    /\ ckpt' = [ckpt EXCEPT ![MyJob(w)] = work[w]]
    /\ Answered(w, "retry")
    /\ UNCHANGED <<status, attempts, runs, redis, att>>

\* Mutant: the retry is written to the table and not scheduled.
MarkRetryOnly(w) ==
    /\ pc[w] = "retry"
    /\ SetStatus(MyJob(w), "retry_scheduled")
    /\ Answered(w, "release")
    /\ UNCHANGED <<attempts, ckpt, runs, redis, att>>

MarkRetryScheduled(w) ==
    /\ pc[w] = "retry"
    /\ SetStatus(MyJob(w), "retry_scheduled")
    /\ Answered(w, "schedule")
    /\ UNCHANGED <<attempts, ckpt, runs, redis, att>>

ScheduleRetry(w) ==
    /\ pc[w] = "schedule"
    /\ delayed' = delayed \cup {MyJob(w)}
    /\ Answered(w, "release")
    /\ UNCHANGED <<store, queue, dlq, lock, att>>

\* Mutant: the dead letter is not pushed.
MarkDeadLetterOnly(w) ==
    /\ pc[w] = "dead"
    /\ SetStatus(MyJob(w), "dead_letter")
    /\ Answered(w, "release")
    /\ UNCHANGED <<attempts, ckpt, runs, redis, att>>

MarkDeadLetter(w) ==
    /\ pc[w] = "dead"
    /\ SetStatus(MyJob(w), "dead_letter")
    /\ Answered(w, "push")
    /\ UNCHANGED <<attempts, ckpt, runs, redis, att>>

PushDeadLetter(w) ==
    /\ pc[w] = "push"
    /\ dlq' = Append(dlq, MyJob(w))
    /\ Answered(w, "release")
    /\ UNCHANGED <<store, queue, delayed, lock, att>>

MarkCompleted(w) ==
    /\ pc[w] = "complete"
    /\ SetStatus(MyJob(w), "completed")
    /\ Answered(w, "release")
    /\ UNCHANGED <<attempts, ckpt, runs, redis, att>>

-----------------------------------------------------------------------------
(* Failures inside the try block, the except clause and the finally clause.*)

CallFails(w) ==
    /\ pc[w] \in TryPoints
    /\ Raise(w)
    /\ UNCHANGED <<store, redis, job, work, att, api, crashes, recoveries>>

\* Mutant: the except clause counts the failed attempt twice.
HandleExceptionTwice(w) ==
    /\ pc[w] = "except"
    /\ att' = [att EXCEPT ![w] = attempts[MyJob(w)]]
    /\ GoTo(w, IF attempts[MyJob(w)] + 1 < MaxRetries THEN "retry" ELSE "dead")
    /\ UNCHANGED <<store, redis, job, mode, work, api, budget>>

HandleException(w) ==
    /\ pc[w] = "except"
    /\ att' = [att EXCEPT ![w] = attempts[MyJob(w)]]
    /\ GoTo(w, IF attempts[MyJob(w)] < MaxRetries THEN "retry" ELSE "dead")
    /\ UNCHANGED <<store, redis, job, mode, work, api, budget>>

\* A call of the except clause raises: finally still gives the lock up,
\* then the exception leaves run_worker and ends the process.
HandlerFails(w) ==
    /\ pc[w] \in HandlingPoints /\ mode[w] = "except"
    /\ crashes < MaxCrashes
    /\ crashes' = crashes + 1
    /\ mode' = [mode EXCEPT ![w] = "dying"]
    /\ GoTo(w, "release")
    /\ UNCHANGED <<store, redis, job, work, att, api, faults, recoveries>>

\* release_run_lock reads the token and deletes the key in two calls.
TokenMatches(w) ==
    /\ Step(w, "release", "unlock")
    /\ lock[MyLock(w)] = w
    /\ UNCHANGED <<store, redis, locals, api, budget>>

TokenDiffers(w) ==
    /\ pc[w] = "release" /\ lock[MyLock(w)] # w
    /\ LeaveJob(w)
    /\ UNCHANGED <<store, redis, api, budget>>

DeleteLock(w) ==
    /\ pc[w] = "unlock"
    /\ lock' = [lock EXCEPT ![MyLock(w)] = "free"]
    /\ LeaveJob(w)
    /\ UNCHANGED <<store, queue, delayed, dlq, api, budget>>

\* Mutant: the lock is set without a time to live.
LockNeverExpires(i) == lock[i] # "free" /\ UNCHANGED vars

\* The key expires.  A live holder loses it only if runs may outlast it.
LockExpires(i) ==
    /\ lock[i] # "free"
    /\ RunsFitTTL => lock[i] = "orphan"
    /\ lock' = [lock EXCEPT ![i] = "free"]
    /\ UNCHANGED <<store, queue, delayed, dlq, worker, api, budget>>

\* The process dies; the locks it holds stay until they expire.
Crash(w) ==
    /\ pc[w] # "down"
    /\ crashes < MaxCrashes
    /\ crashes' = crashes + 1
    /\ lock' = [i \in Incidents |-> IF lock[i] = w THEN "orphan" ELSE lock[i]]
    /\ GoTo(w, "down")
    /\ job' = [job EXCEPT ![w] = NoJob]
    /\ mode' = [mode EXCEPT ![w] = "none"]
    /\ work' = [work EXCEPT ![w] = Fresh]
    /\ att' = [att EXCEPT ![w] = 0]
    /\ UNCHANGED <<store, queue, delayed, dlq, api, faults, recoveries>>

Restart(w) ==
    /\ Step(w, "down", "promote")
    /\ UNCHANGED <<store, redis, locals, api, budget>>

-----------------------------------------------------------------------------
(* The API handlers.                                                       *)

HandlerGoTo(h, point) == hpc' = [hpc EXCEPT ![h] = point]

Begin(h, j, point) ==
    /\ HandlerGoTo(h, point)
    /\ hjob' = [hjob EXCEPT ![h] = j]

Respond(h) ==
    /\ HandlerGoTo(h, "idle")
    /\ hjob' = [hjob EXCEPT ![h] = NoJob]
    /\ hckpt' = [hckpt EXCEPT ![h] = Fresh]

SubmitCreate(h, j) ==
    /\ "submit" \in Requests
    /\ hpc[h] = "idle" /\ status[j] = "absent"
    /\ SetStatus(j, "queued")
    /\ Begin(h, j, "enqueue")
    /\ UNCHANGED <<attempts, ckpt, runs, redis, worker, hckpt, budget>>

Enqueue(h) ==
    /\ hpc[h] = "enqueue"
    /\ queue' = Append(queue, hjob[h])
    /\ Respond(h)
    /\ UNCHANGED <<store, delayed, dlq, lock, worker, budget>>

\* resume_job reads the job once and acts on that reading from then on.
RecoverRead(h, j) ==
    /\ "recover" \in Requests
    /\ hpc[h] = "idle" /\ status[j] \in ResumableStatuses
    /\ recoveries < MaxRecoveries
    /\ recoveries' = recoveries + 1
    /\ Begin(h, j, "read_ckpt")
    /\ UNCHANGED <<store, redis, worker, hckpt, faults, crashes>>

RecoverReadCheckpoint(h) ==
    /\ hpc[h] = "read_ckpt"
    /\ hckpt' = [hckpt EXCEPT ![h] = ckpt[hjob[h]]]
    /\ HandlerGoTo(h, "recover")
    /\ UNCHANGED <<store, redis, worker, hjob, budget>>

MarkRecovering(h) ==
    /\ hpc[h] = "recover"
    /\ SetStatus(hjob[h], "recovering")
    /\ ckpt' = [ckpt EXCEPT ![hjob[h]] = hckpt[h]]
    /\ HandlerGoTo(h, "enqueue")
    /\ UNCHANGED <<attempts, runs, redis, worker, hjob, hckpt, budget>>

DecideRead(h, j) ==
    /\ hpc[h] = "idle" /\ status[j] = "awaiting_human"
    /\ \E d \in {"approve", "reject"} \cap Requests : Begin(h, j, d)
    /\ UNCHANGED <<store, redis, worker, hckpt, budget>>

\* Mutant: the filter also holds for principals without a tenant.
SeesOwn(t, i) == approval[i] # "absent" /\ owner[i] = t

\* Does a query with this scope find the run of incident i?
Sees(t, i) == approval[i] # "absent" /\ (t = Platform \/ owner[i] = t)

\* update_approval changes the run's row if the request can see one.
UpdateApproval(t, i, decision) ==
    /\ approval' = IF Sees(t, i) THEN [approval EXCEPT ![i] = decision]
                                 ELSE approval
    /\ UNCHANGED owner

\* Who may decide a job: its tenant, or a platform principal.
Deciders(j) == {TenantOf[j], Platform}

RecordApproval(h) ==
    /\ hpc[h] = "approve"
    /\ \E t \in Deciders(hjob[h]) :
          UpdateApproval(t, IncidentOf[hjob[h]], "approved")
    /\ HandlerGoTo(h, "complete")
    /\ UNCHANGED <<status, attempts, ckpt, redis, worker, hjob, hckpt, budget>>

RecordRejection(h) ==
    /\ hpc[h] = "reject"
    /\ \E t \in Deciders(hjob[h]) :
          UpdateApproval(t, IncidentOf[hjob[h]], "rejected")
    /\ HandlerGoTo(h, "fail")
    /\ UNCHANGED <<status, attempts, ckpt, redis, worker, hjob, hckpt, budget>>

CompleteApproved(h) ==
    /\ hpc[h] = "complete"
    /\ SetStatus(hjob[h], "completed")
    /\ Respond(h)
    /\ UNCHANGED <<attempts, ckpt, runs, redis, worker, budget>>

FailRejected(h) ==
    /\ hpc[h] = "fail"
    /\ SetStatus(hjob[h], "failed")
    /\ Respond(h)
    /\ UNCHANGED <<attempts, ckpt, runs, redis, worker, budget>>

\* A call of the handler raises, or the API process dies.
HandlerCrash(h) ==
    /\ hpc[h] # "idle"
    /\ crashes < MaxCrashes
    /\ crashes' = crashes + 1
    /\ Respond(h)
    /\ UNCHANGED <<store, redis, worker, faults, recoveries>>

\* POST /incidents/{id}/approve and /reject: the run's row only.
DecideIncident(i) ==
    /\ "decide" \in Requests
    /\ \E t \in Scopes, d \in {"approved", "rejected"} : UpdateApproval(t, i, d)
    /\ UNCHANGED <<status, attempts, ckpt, redis, worker, api, budget>>

\* POST /incidents/run: the workflow runs in the API, without the run lock.
RunIncident(i) ==
    /\ "run" \in Requests
    /\ \E t \in Scopes, r \in RunOutcomes(Fresh) : InsertRun(t, i, r)
    /\ UNCHANGED <<status, attempts, ckpt, redis, worker, api, budget>>

-----------------------------------------------------------------------------
QueueStep(w) ==
    \/ PromoteNone(w) \/ PromotePop(w) \/ PromoteDue(w) \/ PromoteNotDue(w)
    \/ PopTimeout(w) \/ PopJob(w)

BeforeLock(w) ==
    \/ SkipJob(w) \/ LoadJob(w) \/ ReadCheckpoint(w)
    \/ AcquireRunLock(w) \/ LockUnavailable(w)
    \/ MarkPostponed(w) \/ SchedulePostponed(w)

TryBlock(w) ==
    \/ ReadAttempts(w) \/ MarkRunning(w) \/ ReadRunning(w)
    \/ RunWorkflow(w) \/ SaveRun(w)
    \/ MarkAwaitingHuman(w) \/ MarkCompleted(w)
    \/ SaveCheckpoint(w) \/ MarkRetryScheduled(w) \/ ScheduleRetry(w)
    \/ MarkDeadLetter(w) \/ PushDeadLetter(w)

AfterTry(w) ==
    \/ HandleException(w)
    \/ TokenMatches(w) \/ TokenDiffers(w) \/ DeleteLock(w)

\* The steps a running worker keeps taking.
WorkerStep(w) == QueueStep(w) \/ BeforeLock(w) \/ TryBlock(w) \/ AfterTry(w)

WorkerTrouble(w) == CallFails(w) \/ HandlerFails(w) \/ Crash(w) \/ Restart(w)

\* The steps an accepted API request keeps taking.
HandlerStep(h) ==
    \/ Enqueue(h) \/ RecoverReadCheckpoint(h) \/ MarkRecovering(h)
    \/ RecordApproval(h) \/ RecordRejection(h)
    \/ CompleteApproved(h) \/ FailRejected(h)

NewRequest(h) ==
    \E j \in Jobs : SubmitCreate(h, j) \/ RecoverRead(h, j) \/ DecideRead(h, j)

Next ==
    \/ \E w \in Workers : WorkerStep(w) \/ WorkerTrouble(w)
    \/ \E h \in Handlers : NewRequest(h) \/ HandlerStep(h) \/ HandlerCrash(h)
    \/ \E i \in Incidents :
        LockExpires(i) \/ DecideIncident(i) \/ RunIncident(i)

Spec == Init /\ [][Next]_vars

\* Processes that are alive keep running, Redis expires keys, and time
\* passes: a delayed job that is looked at again and again is due one day.
Fairness ==
    /\ \A w \in Workers : WF_vars(WorkerStep(w)) /\ SF_vars(PromoteDue(w))
    /\ \A h \in Handlers : WF_vars(HandlerStep(h))
    /\ \A i \in Incidents : WF_vars(LockExpires(i))

FairSpec == Spec /\ Fairness

-----------------------------------------------------------------------------
(* Properties.                                                             *)

\* What the program points say about the job in hand.
InHand ==
    /\ \A w \in Workers : pc[w] \notin LoopPoints => job[w] \in Jobs
    /\ \A h \in Handlers : hpc[h] # "idle" => hjob[h] \in Jobs

TypeInv == TypeOK /\ InHand

\* No two workers are between acquire_run_lock and release_run_lock for the
\* same incident (job_worker.py:44-152), even when holders die and their
\* locks expire.
MutualExclusion ==
    \A w, v \in Workers :
        /\ pc[w] \in LockedPoints /\ pc[v] \in LockedPoints
        /\ MyLock(w) = MyLock(v)
        => w = v

\* Who will still put the job back in the queue, or settle it.
WorkerCarries(w, j) ==
    /\ job[w] = j
    /\ pc[w] \in {"promoted"} \cup UnlockedPoints \cup {"except"}
                 \cup (TryPoints \ {"push"})

HandlerCarries(h, j) ==
    hjob[h] = j /\ hpc[h] \in {"enqueue", "read_ckpt", "recover"}

InQueue(j) == \E k \in 1..Len(queue) : queue[k] = j

Carried(j) ==
    \/ InQueue(j) \/ j \in delayed
    \/ \E w \in Workers : WorkerCarries(w, j)
    \/ \E h \in Handlers : HandlerCarries(h, j)

Stranded(j) == status[j] \in ActiveStatuses /\ ~Carried(j)

\* Until some process dies, a job whose status says that work is left is in
\* a Redis list or in the hands of a process that will put it there or
\* settle it: no interleaving of the unguarded status updates of
\* store.py:485-663 with promotion, retries and resumes drops a job.
NoJobStranded == crashes = 0 => \A j \in Jobs : ~Stranded(j)

\* Each process that dies strands at most the one job it has in hand
\* (job_queue.py:66-73, job_worker.py:23-152, routes.py:485-491).
OneJobPerCrash == Cardinality({j \in Jobs : Stranded(j)}) <= crashes

\* A job is dead-lettered only after max_retries runs were started for it
\* (job_worker.py:84, 129), whatever faults and resumes come between.
DeadLetterExhausted ==
    \A j \in Jobs : status[j] = "dead_letter" => attempts[j] >= MaxRetries

\* Runs of a job are paid for: the retry limit, plus one for each accepted
\* resume request and for each call that raised after taking effect.
AttemptsBudget ==
    \A j \in Jobs : attempts[j] <= MaxRetries + recoveries + faults

\* The inductive invariants behind exclusion, dead letters and decisions.
\* A worker in or after the try block holds the lock of its incident.
LockInv ==
    \A w \in Workers : pc[w] \in LockedPoints => lock[MyLock(w)] = w

\* A worker about to write the count it has read is not overtaken, what it
\* knows later is not more than the table shows, and one that is to
\* dead-letter a job has seen the limit reached.
ExhaustInv ==
    /\ DeadLetterExhausted
    /\ \A w \in Workers :
        /\ pc[w] = "mark" => att[w] = attempts[job[w]]
        /\ pc[w] \in {"run", "save"} => att[w] <= attempts[job[w]]
        /\ pc[w] = "dead" => attempts[job[w]] >= MaxRetries

\* A process that is to settle a job knows that a run of the incident is
\* saved, and so does whoever finds the job settled.
SavedInv ==
    /\ \A j \in Jobs : status[j] \in {"completed", "awaiting_human"} =>
                            approval[IncidentOf[j]] # "absent"
    /\ \A w \in Workers :
        pc[w] \in {"await", "complete"} => approval[MyLock(w)] # "absent"
    /\ \A h \in Handlers :
        hpc[h] \in {"approve", "reject", "complete"} =>
            approval[IncidentOf[hjob[h]]] # "absent"

\* A worker that may start another run of the job or have one scheduled.
MayRunAgain(w, j) ==
    /\ job[w] = j
    /\ \/ pc[w] \in {"promoted", "start", "mark", "checkpoint", "retry",
                     "schedule"} \cup UnlockedPoints
       \/ pc[w] \in {"run", "save"} /\ att[w] < MaxRetries
       \/ pc[w] \in {"marked", "except"} /\ attempts[j] < MaxRetries

\* The copies of a job that may still become a run.
QueueCopies(j)   == {k \in 1..Len(queue) : queue[k] = j}
DelayedCopies(j) == delayed \cap {j}
WorkerCopies(j)  == {w \in Workers : MayRunAgain(w, j)}
HandlerCopies(j) == {h \in Handlers : HandlerCarries(h, j)}

Copies(j) == Cardinality(QueueCopies(j)) + Cardinality(DelayedCopies(j))
                 + Cardinality(WorkerCopies(j)) + Cardinality(HandlerCopies(j))

\* Nothing is known of a job before it is submitted.
Unseen(j) ==
    /\ attempts[j] = 0
    /\ ~InQueue(j) /\ j \notin delayed
    /\ \A w \in Workers : job[w] # j
    /\ \A h \in Handlers : hjob[h] # j

UnknownInv == \A j \in Jobs : status[j] = "absent" => Unseen(j)

\* Every copy but the submitted one is owed to a resume request or to a call
\* that raised; once the limit is reached, each copy is good for one run.
Accounted(j) ==
    /\ IsFiniteSet(WorkerCopies(j)) /\ IsFiniteSet(HandlerCopies(j))
    /\ Copies(j) <= 1 + recoveries + faults
    /\ attempts[j] >= MaxRetries =>
           attempts[j] + Copies(j) <= MaxRetries + recoveries + faults

CopiesInv == \A j \in Jobs : Accounted(j)

\* The job is in the dead letter list, or a worker is about to push it or to
\* schedule another attempt.
Recorded(j) ==
    \/ \E k \in 1..Len(dlq) : dlq[k] = j
    \/ \E w \in Workers :
          job[w] = j /\ pc[w] \in {"push", "except", "dead", "retry"}

\* Every dead-lettered job is in the dead letter list, or its worker is
\* about to push it or to take it back (job_worker.py:104-110, 125-147),
\* until a process dies.
DeadLetterRecorded ==
    crashes = 0 => \A j \in Jobs : status[j] = "dead_letter" => Recorded(j)

\* The job agrees with the human decision on its run: a completed job was
\* approved or needed no approval, a failed one was rejected
\* (routes.py:557-580).
DecisionStands ==
    \A j \in Jobs :
        /\ status[j] = "completed" =>
               approval[IncidentOf[j]] \in {"not_required", "approved"}
        /\ status[j] = "failed" => approval[IncidentOf[j]] = "rejected"

\* No job is over while its run still waits for the human it asked for: a
\* failed job was decided and a completed one was decided or asked for
\* nobody, in whatever order several decisions write the run's row and the
\* job's and whoever dies between the two (job_worker.py:60-77,
\* routes.py:557-580, 668-718).
DecisionsRecorded ==
    \A j \in Jobs :
        /\ status[j] = "completed" =>
               approval[IncidentOf[j]] \in {"not_required", "approved", "rejected"}
        /\ status[j] = "failed" =>
               approval[IncidentOf[j]] \in {"approved", "rejected"}

\* A human's decision on the job is under way.
Deciding(h, j) ==
    hjob[h] = j /\ hpc[h] \in {"approve", "reject", "complete", "fail"}

\* So far nobody has forced a recovery (each one puts a second copy of a job's
\* id on the list) and no call has raised (after it took effect it would be
\* repeated).
Undisturbed == recoveries = 0 /\ faults = 0

\* And no two humans are deciding the same job.
Calm ==
    /\ Undisturbed
    /\ \A j \in Jobs : \A g, h \in Handlers :
          Deciding(g, j) /\ Deciding(h, j) => g = h

Settled(j) == status[j] \in {"completed", "awaiting_human", "failed", "dead_letter"}

\* Every submitted job is eventually settled unless a death stranded it:
\* an orphaned run lock or a busy incident delays a job and never blocks it.
EverySubmissionSettles ==
    \A j \in Jobs : status[j] = "queued" ~> Settled(j) \/ Stranded(j)

\* The same without the excuse: a submitted job survives any single death,
\* as "durable workflow execution" (DEPLOYMENT.md:5-6) would have it.
DurableSubmission == \A j \in Jobs : status[j] = "queued" ~> Settled(j)

Lifecycle ==
    INSTANCE JobLifecycle WITH progress <- [j \in Jobs |-> ckpt[j].level]

\* The table of jobs, updated without any guard on the status, still goes
\* through the life JobLifecycle describes.
ImplementsLifecycle == Lifecycle!Spec

=============================================================================
