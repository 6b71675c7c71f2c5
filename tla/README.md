# Verification of the Multi-Agent Incident Response System

TLA+ models of the backend in `src/backend/app`, TLC configurations that check
them on small instances, and TLAPS proofs of what matters most for every size.
File references below are relative to `src/backend/app` unless they begin with
`src/`.

## 1. The system

A client submits an incident. The API creates a row in `workflow_jobs` and
pushes its id on a Redis list. A worker pops it, takes a run lock on the
incident, runs an eight-node workflow (evidence, knowledge retrieval, root
cause, fix plan, review, report, evaluation; three nodes ask an LLM and fall
back to rules), saves the run and settles the job: completed, waiting for a
human, to be retried, or dead letter. Humans approve or reject; operators
force recoveries.

| Component | State | Operations | What makes it correct |
|---|---|---|---|
| Redis job queue (`job_queue.py`) | ready list, delayed set, dead letter list, one lock key per incident | enqueue, schedule_retry, promote_due_jobs, pop_next_job, push_dead_letter, acquire/release_run_lock | no job is dropped between lists; one holder per lock |
| Worker (`job_worker.py`) | the job in hand, its lock token, the run's result | run_worker loop, process_job with its try / except / finally | a run per incident at a time; bounded retries; every job settles |
| Job and run tables (`storage/store.py`) | `workflow_jobs`, `incident_runs`, `trace_events` | create_job, mark_job_*, save_job_checkpoint, save_run, update_approval | status, attempts, checkpoint and approval agree |
| Incident and job endpoints (`api/routes.py`) | none of their own | run, submit, resume (recover, approve, reject), approve / reject of an incident | no job is over while its run waits for its human |
| Workflow graph (`graph/workflow.py`) | IncidentState: completed nodes, outputs, errors, trace, checkpoint | node loop, retry, failure path, finalisation, resumption | no node repeated, no unjustified retry, the result tells the truth |
| Agents and LLM client (`agents/`, `llm/client.py`) | none | one answer per node, by LLM or rules | high-risk plans ask for a human; rules answer when the LLM does not |
| Tenant quotas (`store.consume_quota`) | counters per tenant | consume | at most the limit per period, and no denial before it |
| Release gate (`store.*config_approval*`) | approvals | create, decide, validate | only configurations somebody approved pass (a decision may be taken back at any time) |
| Users, sessions, API keys (`auth.py`, `store.py`) | users, sessions, keys | login, logout, role / status change, password reset, revocation | a suspension ends the sessions before it, for good; a revocation reaches whom it is meant for |
| Rate limiter (`rate_limit.py`, `main.py:99`) | a window per client, in Redis or in memory | hit | at most N per window of full length; a caller gets through again; Retry-After is right |
| Feedback and knowledge index (`agents/feedback_ingestion_agent.py`, `knowledge/`) | knowledge file, documents, vector collection | ingest, rebuild, search | records are kept, a collection never mixes versions, a search finds what matches, the collection comes back |
| Audit log (`store.py:1169`) | append-only rows | create_audit_event | an entry tells of what has been done |
| Metrics, report rendering, evidence tools, schemas, migrations, frontend, deployment | counters, none | | left out, see section 7 |

Interactions: API, workers, PostgreSQL and Redis are separate processes. Each
`await` on the database is a transaction of its own and each `await` on Redis
is a command of its own, so two processes interleave between any two of them.
The workflow runs in a thread of the worker and touches neither store nor
queue: it returns a result the worker then saves. It reaches the outside only
through the knowledge files and the LLM. The knowledge files and the vector
collection are on a volume that API and worker share (`./backend/data` in
`src/docker-compose.yml`); ingestions and synchronous runs are threads of the
API (`api/routes.py:459`, `:601`), queued runs threads of the worker. A process
that cannot open the collection on disk uses one in its own memory
(`knowledge/vector_store.py:34-38`).

Runs are kept by incident id alone, and the client may choose the id
(`schemas/incident.py:16`): jobs of one tenant or of several, synchronous runs
and decisions may all be about the same row of `incident_runs`.

Hard behaviours: statuses and checkpoints read before the run lock and used
after it; a job table and Redis lists updated without a common transaction;
calls that raise after taking effect inside a try block whose except clause
counts again; deaths between any two calls; a lock with a time to live and no
renewal; a count of attempts that is read, incremented and written back; two-call
releases and promotions; two humans deciding at once; a run row that everybody
with the same incident id replaces; a run resumed from an older state; rules that replace an LLM and read what it left;
a rate window made of three Redis commands; a suspension made of two
transactions; a file and a collection that everybody rewrites without a lock.

## 2. Modules

| Module | Models | Remarks |
|---|---|---|
| `WorkflowRuns` | a workflow run as its callers see it | outcomes of a run, pending human input; extended by `WorkflowJobs`, instantiated by `IncidentWorkflow` |
| `WorkflowJobs` | queue, worker, tables, endpoints | one action per awaited call |
| `JobLifecycle` | what a job row promises | abstract specification of `WorkflowJobs` |
| `MCWorkflowJobs` | small instances | model values, symmetry |
| `WorkflowJobs_proofs` | proofs about `WorkflowJobs` | |
| `WorkflowLifecycle_proofs` | `WorkflowJobs` implements `JobLifecycle` | extends `WorkflowJobs_proofs` |
| `WorkflowBudget_proofs` | how many runs a job may use | extends `WorkflowJobs_proofs` |
| `IncidentWorkflow` | the node loop, the agents' decisions, resumption | one action per handler call |
| `IncidentWorkflow_proofs` | proofs about `IncidentWorkflow` | |
| `RequestAdmission` | quotas and release gate in front of the handlers, the approvals' administration | one action per statement of a transaction that others may come between |
| `MCRequestAdmission` | small instances | symmetry |
| `RequestAdmission_proofs` | proofs about `RequestAdmission` | |
| `RateLimiter` | both backends of the rate limit | one action per Redis command; time in ticks |
| `FixedWindow` | what a rate limit promises | abstract specification of `RateLimiter` |
| `RateLimiter_proofs` | proofs about `RateLimiter` | |
| `UserSessions` | logins, users, sessions, API keys, their administration | one action per transaction |
| `MCUserSessions` | two tenants | tenants of users and keys, symmetry |
| `UserSessions_proofs` | proofs about `UserSessions` | |
| `KnowledgeBase` | feedback ingestion, index, search | one action per call on the file or the collection |
| `MCKnowledgeBase` | two ingestions and a search in two processes | who runs where |
| `KnowledgeBase_proofs` | proofs about `KnowledgeBase` | |

### WorkflowJobs

`status`, `attempts` and `ckpt` are columns of `workflow_jobs`, `approval` and
`owner` the approval and the tenant of the one row `incident_runs` has for an
incident;
`queue`, `delayed`, `dlq`, `lock` the Redis data (the score of a delayed job
is abstracted to "due or not", `PromoteDue` / `PromoteNotDue`; a lock holds
its worker's name in place of the random token, `"orphan"` once the holder has
died). `pc[w]` is the point of `process_job` or of the queue a worker is at,
`job`, `work`, `att` its locals; `hpc`, `hjob`, `hckpt` the same for an API
request.

A worker goes through `PromotePop` / `PromoteDue` / `PromoteNotDue` /
`PromoteNone`, `PopJob` / `PopTimeout`, `LoadJob` / `SkipJob`,
`ReadCheckpoint`, `AcquireRunLock` or `LockUnavailable` (then `MarkPostponed`,
`SchedulePostponed`), `mark_job_running` in the three steps `ReadAttempts`,
`MarkRunning` and `ReadRunning` (a SELECT, an UPDATE of what it computed, and a
later SELECT; the row is not locked), `RunWorkflow`, `SaveRun`, and one of the
four ends: `MarkAwaitingHuman`; `SaveCheckpoint`, `MarkRetryScheduled`,
`ScheduleRetry`; `MarkDeadLetter`, `PushDeadLetter`; `MarkCompleted`. Then the
finally clause: `TokenMatches` / `TokenDiffers`, `DeleteLock`.

Trouble: every call of the try block may raise before (`CallFails`) or after
(`Raise`, inside the action) it takes effect, which leads to
`HandleException`; a call of the except clause may raise in turn
(`HandlerFails`), which leaves through the finally clause and ends the worker
process. A worker or a request may die at any point (`Crash`, `HandlerCrash`)
and a worker may start again (`Restart`). A lock may expire (`LockExpires`):
always when its holder is gone, and under a live holder when `RunsFitTTL` is
FALSE, since nothing bounds a run and nothing renews the key.

A job is submitted for a tenant (`TenantOf`) or by a platform principal
(`Platform`, a NULL `tenant_id`). `save_run` deletes by incident id and inserts
its own tenant (`InsertRun`), so it also replaces a run of somebody else;
`update_approval` changes the row if the filter on the tenant finds it (`Sees`),
and otherwise changes nothing, which `resume_job` does not look at. Who may
decide a job has read it with its own scope (`Deciders`).

The store's updates are modelled as they are: none has a guard on the present
status. What keeps the table in order is the order of the worker's steps.

### IncidentWorkflow

`state` is IncidentState with the data reduced to what decides something:
the completed nodes, the trace of ends and errors, the last error, whether the
root cause analysis is empty, thin or strong, whether the plan is high-risk
and needs approval, whether the review approved, which report there is, what
the evaluation says. `at` and `attempt` are the loop's positions, `base` the
state the run resumed, `result` what the run returned, `saved` the state in
the job row. `SaveCheckpoint` may or may not happen between two runs, so that
a run may resume an older state, as it does after a death or a racing recovery
in `WorkflowJobs`.

A node returns (`IngestNode` ... `EvalNode`, all through `Succeed`) or raises
(`KnowledgeFails`, `RulePlanFails`, `ReplyBreaksNode`, all through
`NodeRaises`: another attempt or the failure path). `llm` says whether the
provider can be reached in a run; when it can, a single call may still be
refused, so the rules' answers remain possible. An LLM answer is bound only by
its schema; the corrections the code makes afterwards (high risk requires
approval, a high-risk plan without approval is not approved) are modelled.
Which exceptions a node raises is read from the code: LLM errors and schema
errors are caught, a reply that is not JSON (`llm/client.py:66`, `:105`) or
has another envelope is not; `plan_fix_rule` indexes an empty list.

### RequestAdmission

`quota` and `approval` are the rows of `tenants` and `config_approvals`;
`pc`, `call`, `unit`, `clock`, `seen` are what a request in `require_access`
has in hand: where it is, who asks for what, the quota it is consuming, the
time `consume_quota` took before its SELECT, and the row it read. A request is
admitted through `Arrive`, `SelectQuota` and `UpdateQuota` (twice for a run:
requests, then workflows), `PassGate` and `Answer`, or refused by
`SelectExhausted` and `AnswerDenied`, or `RefuseAtGate`. SELECT and UPDATE are
two steps, since the engine keeps the database's isolation level (read
committed in PostgreSQL) and the row is not locked; a refusal is decided at
the SELECT, nothing is written after it. Which quota and gate an endpoint has
is read from the routes: `read` stands for those with a request quota only,
`run` for `/incidents/run` and `/incidents/submit`, `resume` for
`/jobs/{id}/resume`. Principals without a tenant consume nothing.
Authentication itself is not modelled: a request arrives with a principal.

`granted`, `overlapped` and `endorsed` are history: units granted per period
(named by the time the row gives for its start), whether an update has written
over a row changed since its SELECT, and which approvals anybody approved.

### RateLimiter

`backend` is whether there is a Redis connection, `count` and `left` the value
and the remaining time of each client's key or dictionary entry. With Redis a
hit is `Incr`, then `ReadTtl`, or `ReadNoTtl` and `Expire`; `pc`, `who` and
`current` are what a request holds between them. A request may `Die` there,
which is also an error of the Redis client, and a key with no time to live is
a key with `left = 0`. In memory a hit is `HitMemory`, since `_hit_memory` has
no `await`, and `Restart` empties the dictionary. `Tick` is time: Redis
deletes a key, the dictionary keeps an entry that is over. Ticks are fractions
of a second, since Redis rounds the seconds a key has left and the dictionary
truncates them.

`age`, `recent` and `wait` are history: how old a window is, how many hits
were granted in the last 1, 2, ... ticks, and what a refused client still has
to wait. `FixedWindow` has `hits` and `age` only: a window opens with a hit and
may close once it is `Length` ticks old, or later.

### UserSessions

`user`, `session` and `key` are the rows of `tenant_users`, `user_sessions`
and `api_keys`; a session is also where its login is before there is a row
(`verified`). A login is `Verify` (the SELECT and the password check) and
`Open` (the INSERT). A request `op` is admitted (`AdmitTenant`, `AdmitLogout`,
`AdmitPlatform`), refused with 404 (`Reject`), or goes through its
transactions: `Change` and `RevokeSessions` for a suspension or a password
reset; one of `UpdateUser`, `EndSession`, `RevokeKey`, `CreateUser`,
`IssueKey` for the others; then `Log`, the entry in the audit log. Both may
die between any two steps. The ids a tenant's admin sends are any ids: whether
they belong to the tenant is decided by `Found`, as in the store's SELECTs.
Roles are reduced to those with and without `tenant:user_admin`; an API key is
taken to carry that scope, which is the case that allows most.

`epoch` counts the suspensions and resets of a user, `mark` is the one a
request made, and `late` the sessions whose login verified the password before
one of them and wrote the session after: history all three.

### KnowledgeBase

`file` is `manual_feedback.json`: whole with its records, empty (opened for
writing), or torn; `docs` the Markdown files; `there` and `index` the
collections, one in each of `Places`: on disk, and in the memory of each
process. Every rebuild and every search opens a client of its own (`Open`, the
function `_client`): on disk, or in the memory of its process (`ProcessOf`) if
that fails, or not at all without `chromadb` (`chroma`, one of the
`RebuildRaises`). Clients in the memory of one process share what they hold.

An ingestion is `WriteDocument`, `ReadRecords` or `ReadRaises`, `Truncate` and
`Write` (both parts of `write_text`), then `Open` and a rebuild: `Load`,
`Delete`, `Create`, `Add`, or `RebuildRaises`, which the ingestion swallows. A
search is `LoadKnown`, `Open`, `GetCollection` (or `GetRaises` and a rebuild of
its own with the same client), `Query`, or `SearchRaises`, and then once or
twice `Keyword`, which raises out of the knowledge node when a file does not
parse (`KeywordRaises`; `IncidentWorkflow` has this as `KnowledgeFails`).
`handle` is the collection object a thread holds: `gone` once somebody has
deleted that collection, also when there is a new one of the same name. `Add`
adds to what is there. What a query returns is a choice among what the index
holds; ranking and embeddings are not modelled.

Trouble: a write may fail (`WriteFails`), a call to the index may (`IndexFails`;
`IndexIgnores` where the code passes over it: `delete_collection`, and a
`get_collection` that fails for another reason than a missing collection), and a
process may end with all its threads and its memory (`ProcessEnds`).

`harmed` and `versions` are history: whether two ingestions had the file between
reading and writing, or one failed writing it; and which sets of records the
file has held.

## 3. Runs

| Run | Question | Result |
|---|---|---|
| `jobs_api` | one job, all kinds of request, two at once, a call that raises, a death, a recovery: exclusion, nothing dropped, retries are bounded, dead letters exhausted and listed | holds |
| `jobs_decisions` | one job with nodes after the review, three humans who decide it, at once too, others who decide its run alone, locks expiring under their holders, two deaths: no job is over while its run waits | holds |
| `jobs_liveness` | two jobs of one incident, human decisions, a death: exclusion, one job per death, every submitted job settles unless a death strands it; `WorkflowJobs` implements `JobLifecycle` | holds |
| `workflow` | a run and one that resumes it, every failure and answer | holds |
| `admission` | two requests of a tenant at once and a third, a period that ends, an approval decided back and forth | holds |
| `rate_limit` | three hits of a client between their Redis commands, or a process with a dictionary, two deaths: rate, advice, `FixedWindow`, and nobody kept out | holds |
| `sessions` | two tenants, three users, three logins, two requests, a death: suspensions hold, revocations have a cause | holds |
| `knowledge` | two ingestions and a search in two processes, a failure: records kept, no collection of two versions, searches find, the collection comes back | holds |
| `find_lock_ttl` | exclusion when a run outlasts the lock | violated |
| `find_durable` | a submitted job survives one death | violated |
| `find_decisions` | a job agrees with the decision on its run | violated |
| `find_fallback` | an unreachable LLM does not fail an agent's node | violated |

Bounds. Two jobs of one incident (`jobs_liveness`), or two copies of one job
after a recovery (`jobs_api`), are what contention for a lock needs, two workers what every race between workers needs; a third worker only repeats
what the second does. Two runs per job (`MaxRetries = 2`) give a run that is
retried and one that is not. One death, one raising call and one recovery
(`MaxCrashes`, `MaxFaults`, `MaxRecoveries`) can come at any of the points;
the bound on each is there because the state space is finite, and the proofs
do without it. `NodeCount = 1` in the runs that only ask whether a run failed
or not; `jobs_decisions` has `NodeCount = 2` with the review first, so that a
run can stop after the review, and three requests, so that a third may decide
the run once two have raced; its job has a tenant, who decides it or a platform
principal does. No run has a constraint on states. `MaxRuns = 2` in `workflow`: the result of a
run depends on the state it resumes, not on how many came before, which the
proofs confirm for every number.

`admission` has limits of two requests and one workflow, a window of one tick
and two ticks: enough for a unit used in full, for the reset, for an update
from before the reset that lands after it, and for either kind of request to
open the new period. One tenant suffices for approvals too, since an approval
made out to nobody is not its own.

`rate_limit` has one client, because no command touches two keys; a limit of
two, three requests at once, and a window of two seconds of two ticks each:
enough for the hit that opens a window, one within and one beyond the limit to
be between their commands while the key expires, and for rounding up and down.
Counts above the limit are one value.

`sessions` has two tenants, so that ids of the other tenant can be named: an
admin, another user and an API key in the first, and in the second a user who
may be created, with either role. Two requests let a suspension and an
activation, or two resets, overlap; of three logins one may be an admin's, one
from before a suspension and one from within it.

`knowledge` lets two threads be under way at once (`MaxBusy`), out of two
ingestions in two API processes and one search in the first: so each pair of
them is together under way, in one process and in two, with any choice of
places for their clients. Each ingestion happens once, the search any number of
times, with a query of one of two kinds: it matches nothing, or a record that is
being ingested. One failure (`MaxFailures`) is the end of a process or a failing
call. The proofs do without these bounds.

Symmetry (workers, requests, sessions, passwords) is used in `jobs_api`,
`jobs_decisions`, `admission` and `sessions`, whose properties are invariants.
Deadlock is checked except in `sessions`: a worker can always poll its queue, a
result can always be stored, an administrator can always decide, time can
always pass and a workflow can always search; but the two requests of
`sessions` have ends, and nothing is left to do after them.

## 4. Fairness

`FairSpec` asks for weak fairness of the steps a live process takes (a running
worker's loop, an accepted request's handler), for expiry of a lock whose
holder is gone (Redis deletes the key) and for strong fairness of promotion: a
delayed job becomes due some day and `promote_due_jobs` then moves it, however
often it is looked at too early. It does not ask for `Restart`: the worker
service in `src/docker-compose.yml` has no restart policy. It does not ask a
human to decide, a client to recover or a process to die. `EverySubmissionSettles`
therefore counts `awaiting_human` as settled and excuses the job a death strands;
`DurableSubmission` drops the excuse and is refuted by one death.

In `RateLimiter` time passes, and a request that does not die gets its next
answer from Redis; nobody has to call. `CallersAreAdmitted` has the calls as
its condition: who keeps calling is let through again and again. In
`KnowledgeBase` a thread that has begun runs on, as threads of a live process
do; nobody has to ingest or to search, and `IndexComesBack` has as its
condition that searches keep coming as far as the collection. Searches that
fail earlier, at a file that does not parse, do not bring it back.
`UserSessions` has no liveness property: nothing in the code tries again.

## 5. Proofs

All theorems hold for every number of jobs, incidents, workers and requests,
every retry limit and every bound on faults, deaths and recoveries. The
assumptions are the named ones in the modules: ids are distinct from the
markers, a job's incident exists, `MaxRetries > 0`, the review node comes
before the report node.

`WorkflowJobs_proofs`:

- `TypeCorrect`. `TypeInv` adds to the types that a worker inside
  `process_job` and a busy request have a job in hand.
- `RunLockExcludes` (`RunsFitTTL => []MutualExclusion`). Exclusion alone is
  not inductive. `LockInv` says that a worker between `AcquireRunLock` and
  `DeleteLock` is the holder its incident's key names; `SET NX` grants only a
  free key, expiry takes only keys without a live holder, `DeleteLock` follows
  `TokenMatches`. Without `RunsFitTTL` the theorem is false: `find_lock_ttl`.
- `DeadLettersAreExhausted` (`RunsFitTTL => []DeadLetterExhausted`).
  `ExhaustInv` adds that the count a worker has selected is still that of the
  table when it writes it, that what a worker remembers of `attempts` later is
  at most what the table has, and that one about to dead-letter a job has seen
  the limit. The first part needs `LockInv`: only the run lock keeps a second
  worker with a copy of the job from counting in between. Without `RunsFitTTL`
  the theorem is false (section 6).
- `DeathsCostOneJobEach`. `StrandStep` shows, with one step per action, that
  a step in which nobody dies leaves a job with work left in a list or in the
  hands of a process that will put it there or settle it; `DeathStep` that a
  death lets go of one job. `LossInv` puts the two together: the stranded jobs
  are finitely many, and no more than the deaths. No finiteness of `Jobs` is
  assumed.
- `NothingStrandedWithoutDeaths`, the case of no deaths.
- `DeadLettersAreRecorded`. The list only grows, and whoever marks a job has
  the push before it; a fault in between leads to the except clause, which
  marks and pushes again.

`WorkflowLifecycle_proofs`, for every behaviour in which `Calm` holds
throughout: no recovery was forced, no call raised, and no two humans are
deciding the same job. Any number of requests may submit and decide jobs at
once, deaths are not bounded, and locks may expire under their holders. `Calm`
is a hypothesis on behaviours and not on the constants, so that it leaves out
only what makes the conclusion false.

- `JobsHaveOneLife`: `WorkflowJobs` implements `JobLifecycle`. Since no update
  has a guard on the status it overwrites, the proof has to say where a job
  is. `OnePlace`: its id is once in one list, or one worker or request has it
  in hand. `PlaceFits`: each place goes with statuses, a count of attempts and
  a checkpoint not newer than what the worker has read. The lock plays no part
  in it. Each action that writes the row is then a step of the abstract life
  (`StepsOfLife`), the others leave the row alone. Without `Calm` it is false:
  a recovery makes a second copy of the id, a call that raises after writing
  "completed" has the job scheduled again, and two requests that decide one
  job at once may each write (section 6).
- `DecisionsAreRecorded`, under weaker hypotheses in one respect and stronger
  ones in another: any number of humans may decide one job at once, or its run
  alone (`Undisturbed` in place of `Calm`), but each job has an incident of its
  own (`Apart`). Then no completed or failed job has a run that still waits for
  its human, also when a process dies between the two writes of a decision.
  `Agrees` says that the run is the job's tenant's, so that whoever may decide
  the job sees it, and that whoever is about to write "completed" or "failed"
  has just written, or found, a decision or no need for one; `OnePlace` keeps
  another run of the job from overwriting it. Which of two decisions is recorded
  the theorem does not say, and cannot: `find_decisions`. Without `Apart` a run
  of the same incident replaces the decided one; without `Undisturbed` a second
  run of the job does.

`WorkflowBudget_proofs`, with recoveries, faults and deaths in any order and
number:

- `RunsArePaidFor` (`RunsFitTTL => []AttemptsBudget`). The bound on `attempts` says
  nothing of how many more runs are under way, so it is not inductive. The
  invariant counts the *copies* of a job: its places in the list, in the set
  of delayed jobs, and in the hands of workers and requests that may still
  have it run. `CopiesInv`: the copies are at most the submitted one, one for
  each accepted recovery and one for each call that raised (a call of
  `schedule_retry` may have taken effect and be repeated); and once `attempts`
  has reached the limit, each copy is good for one run only, since the worker
  dead-letters the job after it. A step moves a copy (`ListSteps`,
  `HandOver`), pays for a new one (`NeutralSteps`, `NeutralRequests`), or uses
  one up (`RunStarts`). The first copy needs `UnknownInv`: an id that
  `create_job` has not yet returned is nowhere. Workers and requests need not
  be finitely many; that the copies are is part of the invariant. `ExhaustInv`
  supplies that a run that starts does raise the count.

`IncidentWorkflow_proofs`: one invariant, `IInv`, for six theorems. It says
what a state holds once its first n nodes are done (`Sound`, `Holds`: the
review is there from node 6, the real report and nothing else from node 7, no
fallback before), what a run keeps of the state it resumed (`Keeps`), that the
loop stands behind the completed nodes and a second attempt behind a retryable
error (`Looping`, `Retrying`), and what a result says of the state it was made
from (`Reported`). `Sound` holds of every state a run may resume, the older
ones too, which makes the invariant independent of which one it gets.
`SucceedStep`, `RaiseStep` and `StopStep` are proved once and used by all
actions. `RunsImplementOutcomes` is the theorem that lets `WorkflowJobs` take
a whole run in one step.

A seventh, `NodesKeepOrder`, rests on `StatesOrdered`: in the current state,
the saved one and every state a run resumed, the trace ends one node after the
other and never errs behind one that has ended (`Forward`), and its ends are as
many as the completed nodes. A run may resume any of them, so the invariant
has to say it of all.

`RequestAdmission_proofs`, for all limits, windows, tenants and requests:

- `DenialsAreEarned`. `CountersBacked` says that no counter, in a row or in a
  request's copy of one, shows more than was granted in its period; an update
  preserves it because it adds one to a copy and one to what was granted.
- `QuotasHoldAlone`. `CountersExact` says that without overlap the counters
  show exactly what was granted and the row is the latest period.
  `CountersBacked` supplies that who is about to update has not read a full
  counter. Without the condition on overlap it is false: two requests read the
  same counter (section 6).
- `GateHolds`. `ApprovalsInOrder` says that approvals are created before they
  are decided, so that one that let a request in is never made out anew.
- `TypeCorrect`.

`RateLimiter_proofs`, for all limits, windows, ticks, clients and requests:

- `RefinesWindows`: `RateLimiter` implements `FixedWindow`. What it needs is
  `WindowsAreLong`: a window with an end has a key or entry, and its age and
  what is left of it make up at least a window, because `EXPIRE` only ever
  sets the full length and a key without a time to live does not end.
- `RateIsBounded`: at most twice the limit is granted in any span as long as a
  window. `GrantsAreCounted` is the inductive form: for a span that reaches
  back into the present window only, the hits granted in it are among those
  counted; for one that reaches further back there are at most `Limit` more,
  those of the window before, since a window lasts at least as long as the
  span (`WindowsAreLong`).
- `AdviceIsFair`. `AdviceHasEnd` says that nobody has been told to wait for a
  window without an end; then the roundings bound the difference.
- `TypeCorrect`, with `OnlyRedisWaits`: only with Redis is there a request
  between two commands.

`UserSessions_proofs`, for all tenants, users, logins, requests and deaths:

- `SuspensionsEndSessions`. `SettledHold` is the property from the second
  transaction on. A session opened afterwards either has an epoch at least the
  mark or is late; activation does not bring an old one back, since it has
  been revoked. `MarksSeen` says that a mark is an epoch that has been.
- `RevocationsHaveCauses`. `ChangedOwn` says that a request between its two
  transactions names a user of its own tenant, `LogoutOwn` that who logs out
  names a session of its own.
- `TypeCorrect`.

`KnowledgeBase_proofs`, for all ingestions, searches, seeds, processes and
failures. Its three invariants are stated in the proof module:

- `RecordsAreKept` by `FileInv`: unless the file was harmed, one ingestion at
  most is between reading and writing, what it has read is what the file
  holds or held, and the file is whole or being written by that one.
- `SearchesFindMatches` by `KnownKept`: a search that has come as far as its
  last keyword search has loaded nothing the file does not hold still, as
  records are only added. This is why it does not matter what becomes of the
  collection.
- `IndexHoldsOneVersion` by `IndexInv`, with no condition on overlap or failure:
  what a rebuild has loaded is a version of the file; of those about to add at
  one place at most one has a live collection in hand, since `create_collection`
  raises where there is one and deleting it makes the handles to it useless; and
  that collection is still empty.
- `TypeCorrect`.

The inductive invariants were checked by TLC on the instances of the runs
before they were proved; `GrantsAreCounted`, `StatesOrdered`, `UnknownInv` and
`CopiesInv` stand with the properties in their modules, so that they can be.

Every safety property of the runs is proved. Only model-checked are the
liveness properties (`EverySubmissionSettles`, `CallersAreAdmitted`,
`IndexComesBack`): they need fairness, and the backends have no ENABLED.

## 6. What disagrees with the documentation

1. *Durable execution* (`src/DEPLOYMENT.md:5`). A death between `ZPOPMIN` and
   `RPUSH`, after `BLPOP`, or between `create_job` and `enqueue` leaves a job
   in no list; nothing scans the table for it.
2. *Per-incident run lock* (`src/DEPLOYMENT.md:150`). It expires after
   `run_lock_ttl_seconds` under a running holder.
3. *Approve or reject* (`src/ops/runbooks/oncall.md:28`). Two humans who decide
   one job at once may leave it completed with a rejected run, or failed with an
   approved one: `resume_job` looks at the status once (`api/routes.py:554`) and
   then writes run and job in two transactions. `find_decisions` has the trace.
   What does hold of the two rows is `DecisionsRecorded`.
4. *Automatic fallback to rules* (`src/README.md:474`). An LLM analysis with no
   hypothesis is accepted and stored; with the LLM unreachable afterwards every
   run fails in `plan_fix_rule` and the job dies although its rules could
   have answered from the start.

Seen while reading and modelling, without a run. The properties that hold do not
promise the contrary of any of these:

- *Terminal jobs* (`job_worker.py:31`, "Skipping terminal job"). The status is
  read before the lock; with two entries in Redis after a forced recovery
  (`oncall.md:29`) a finished job is scheduled again.
- *One row per incident id* (`src/DEPLOYMENT.md:25-27` has runs persisted and
  tenants told apart). `save_run` deletes by incident id alone (`store.py:274-275`)
  and clients choose the ids, so a run of another tenant, or one the platform
  makes, replaces the run of a job that is over: the job's tenant then finds a
  completed job without a run (`get_run` filters by tenant, `store.py:355-357`),
  and a decision on a waiting job changes no run at all, although `resume_job`
  completes it. Two jobs of one tenant with one incident id replace each other's
  runs and approvals in the same way. `InsertRun` and `Sees` have this in the
  model; no property that holds says that a settled job has a run.
- *Attempts* (`job_worker.py:108`, "after max retries"). `mark_job_running` is
  a SELECT and an UPDATE without a lock on the row (`store.py:488-504`). With an
  expired run lock and two copies of a job the later UPDATE puts the count back,
  and a job may be marked dead letter with fewer attempts than the limit in its
  row. This is why `DeadLettersAreExhausted` and `RunsArePaidFor` assume
  `RunsFitTTL`, as the runs do.
- *Tenant quotas* (`src/DEPLOYMENT.md:27`). Two requests at once read the same
  counter and are both granted the last unit; a late update also puts back
  what others have counted since, or a period that has been replaced.
  `overlapped` marks it.
- *Ingestions at once* read the same records and the second to write drops the
  first one's. A death between truncation and write leaves an empty file: the
  records are gone, and searches fail the knowledge node until the next
  ingestion. A death within the write leaves a file that does not parse: then
  every ingestion fails too, after writing its document, until somebody
  repairs the file. `harmed` marks all of these.
- *Refreshing the index* (`src/README.md:362`). The index may be left without the
  newest record until the next rebuild: a search that rebuilds a missing
  collection from documents it loaded before the ingestion wrote may create it
  first, and the ingestion's `create_collection` then raises and is ignored
  (`agents/feedback_ingestion_agent.py:160`); or the rebuild's client could not
  open the index on disk and went into the memory of its process, where it ends
  normally (`knowledge/vector_store.py:37`). Keyword search does not stand in for
  the record as long as the index returns anything. What holds is
  `IndexIsOneVersion`: stale at worst, never mixed.
- *A login across a suspension or reset* opens its session after the sessions
  were revoked (`late`). While the user is suspended it is not accepted; once
  the user is active again it is, and after a reset it is at once.
- *A late EXPIRE* opens a window anew that others had been told the end of.

Also: a racing recovery writes the checkpoint it
has read over a newer one the worker has just saved (`api/routes.py:537`, "Retry
from last checkpoint" in `src/backend/tests/test_api.py:638`); a second run of a recovered job resets a
granted approval to pending (`store.py:286`), and the job completes with it,
although high-risk plans need approval (`src/README.md:554`); a workflow unit
is consumed before the release gate refuses the request; a decided
configuration approval can be decided again (`store.py:1288`); `mark_job_recovering` (`api/routes.py:537`)
writes "recovering" over whatever status the job has by then; the runbook's
advice to recover a dead letter (`oncall.md:30`) cannot be followed, since
`resume_job` answers 409 and a re-queued id is skipped; the evaluation of a
resumed run that completes still says "failed", since errors are never
cleared (`eval/adapter.py:215`); recovering a job whose review asked for
revisions runs no node, since all are complete.

## 7. Not modelled

Texts, prompts, thresholds and scores of the agents (their decisions are
choices); classifying, sanitising and embedding feedback; rendering, metrics,
audit rows other than those of `UserSessions` (written after the fact and never
read back); settings (constants of the models); schemas and migrations; the
frontend; deployment scripts. The worker's branch for a job without request
payload is left out: `create_job` always stores one. The score of delayed jobs
is abstracted to whether they are due.

`WorkflowRuns!RunOutcomes` lets a run stop anywhere, also between the review
and the report, because the loop catches whatever any handler raises.
`IncidentWorkflow` lets only the nodes raise whose code shows how.

## 8. Plan

Done, in this order: `WorkflowJobs` with `JobLifecycle` and `WorkflowRuns`,
`IncidentWorkflow`, `RequestAdmission`, `RateLimiter` with `FixedWindow`,
`UserSessions`, `KnowledgeBase`, each with its runs and proofs.

Left:

1. `JobLifecycle` with forced recoveries: an abstract life in which a second
   copy may run beside the first.
