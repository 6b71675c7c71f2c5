--------------------- MODULE WorkflowLifecycle_proofs ---------------------
(***************************************************************************)
(* WorkflowJobs implements JobLifecycle, for every number of jobs,         *)
(* incidents, workers and concurrent requests, every retry limit and any   *)
(* number of deaths, as long as no recovery is forced, no call raises and  *)
(* no two humans decide the same job at once.  Without the last condition  *)
(* a job still is not over before its run was decided.                     *)
(*                                                                         *)
(* None of the store's updates looks at the status it overwrites.  What    *)
(* keeps the table in order is that a job with work left is in one place   *)
(* at most, one of the lists or the hands of one process, and that every   *)
(* place goes with a status and a count of attempts.                       *)
(***************************************************************************)
EXTENDS WorkflowJobs_proofs

-----------------------------------------------------------------------------
(* The invariant, for each job.                                            *)

Waiting == {"queued", "retry_scheduled"}

UnstartedPoints == {"promoted", "load", "read", "lock", "postpone",
                    "postponed", "start", "mark"}
RunningPoints   == {"marked", "run", "save", "await", "checkpoint", "retry",
                    "dead", "complete"}
HoldingPoints   == UnstartedPoints \cup RunningPoints \cup {"schedule"}

Holds(w, j) == job[w] = j /\ pc[w] \in HoldingPoints
Sends(h, j) == hjob[h] = j /\ hpc[h] = "enqueue"

Held(j) == (\E w \in Workers : Holds(w, j)) \/ (\E h \in Handlers : Sends(h, j))

Once(j) == \A k, l \in 1..Len(queue) : queue[k] = j /\ queue[l] = j => k = l

\* A job is in one place at most.
OnePlace(j) ==
    /\ Once(j)
    /\ InQueue(j) => j \notin delayed /\ ~ Held(j)
    /\ j \in delayed => ~ Held(j)
    /\ \A w \in Workers : Holds(w, j) =>
          /\ \A v \in Workers : Holds(v, j) => v = w
          /\ \A h \in Handlers : ~ Sends(h, j)
    /\ \A g, h \in Handlers : Sends(g, j) /\ Sends(h, j) => g = h

\* What a decision finds when it comes to write the job's status.
Decidable == {"awaiting_human", "completed", "failed"}

Ready(j) == status[j] \in Waiting /\ attempts[j] < MaxRetries

\* Its status and attempts are those of its place.
PlaceFits(j) ==
    /\ attempts[j] <= MaxRetries /\ (status[j] = "absent" => attempts[j] = 0)
    /\ InQueue(j) \/ j \in delayed => Ready(j)
    /\ \A h \in Handlers : Sends(h, j) => Ready(j)
    /\ \A h \in Handlers : Deciding(h, j) => status[j] \in Decidable
    /\ \A w \in Workers : job[w] = j =>
          /\ pc[w] \in UnstartedPoints => Ready(j)
          /\ pc[w] \in RunningPoints => status[j] = "running"
          /\ pc[w] \in {"mark", "run", "save"} => att[w] = attempts[j]
          /\ pc[w] \in {"checkpoint", "retry"} => attempts[j] < MaxRetries
          /\ pc[w] = "dead" => attempts[j] = MaxRetries
          /\ pc[w] = "schedule" => Ready(j)
          /\ pc[w] \in {"lock", "start", "mark", "marked", "run", "save", "await",
                       "checkpoint"} => ckpt[j].level <= work[w].level

\* No call raises, and nobody forces a recovery.
Quiet ==
    /\ \A w \in Workers : pc[w] # "except" /\ mode[w] \in {"none", "try"}
    /\ \A h \in Handlers : hpc[h] \notin {"read_ckpt", "recover"}

LifeInv == Quiet /\ \A j \in Jobs : OnePlace(j) /\ PlaceFits(j)

-----------------------------------------------------------------------------
(* Facts about the queue, and about calls that answer.                     *)

LEMMA QueueStays ==
    ASSUME NEW j \in Jobs, UNCHANGED queue
    PROVE  (Once(j)' <=> Once(j)) /\ (InQueue(j)' <=> InQueue(j))
BY DEF Once, InQueue

LEMMA QueueGrows ==
    ASSUME NEW j \in Jobs, NEW x \in Jobs, queue \in Seq(Jobs),
           queue' = Append(queue, x), Once(j), j = x => ~ InQueue(j)
    PROVE  Once(j)' /\ (InQueue(j)' <=> InQueue(j) \/ j = x)
<1>1. Len(queue) \in Nat /\ Len(queue') = Len(queue) + 1
  OBVIOUS
<1>2. queue'[Len(queue')] = x
  BY <1>1
<1>3. \A k \in 1..Len(queue) : queue'[k] = queue[k]
  BY <1>1
<1>4. \A k \in 1..Len(queue') : k \in 1..Len(queue) \/ k = Len(queue')
  BY <1>1
<1>5. \A k \in 1..Len(queue) : k \in 1..Len(queue')
  BY <1>1
<1>6. Len(queue') \in 1..Len(queue')
  BY <1>1
<1>7. InQueue(j)' <=> InQueue(j) \/ j = x
  BY <1>2, <1>3, <1>4, <1>5, <1>6 DEF InQueue
<1>8. Once(j)'
  BY <1>2, <1>3, <1>4 DEF Once, InQueue
<1>. QED BY <1>7, <1>8

LEMMA QueueShrinks ==
    ASSUME NEW j \in Jobs, queue \in Seq(Jobs), queue # <<>>,
           queue' = Tail(queue), Once(j)
    PROVE  /\ Once(j)'
           /\ InQueue(j)' => InQueue(j)
           /\ j = Head(queue) => InQueue(j) /\ ~ InQueue(j)'
           /\ Head(queue) \in Jobs
<1>1. Len(queue) \in Nat /\ Len(queue) >= 1 /\ Len(queue') = Len(queue) - 1
  OBVIOUS
<1>2. \A k \in 1..Len(queue') :
          k + 1 \in 1..Len(queue) /\ k + 1 # 1 /\ queue'[k] = queue[k + 1]
  BY <1>1
<1>3. 1 \in 1..Len(queue) /\ Head(queue) = queue[1]
  BY <1>1
<1>4. \A k, l \in 1..Len(queue') : k + 1 = l + 1 => k = l
  BY <1>1
<1>5. Once(j)'
  BY <1>2, <1>4 DEF Once
<1>6. InQueue(j)' => InQueue(j)
  BY <1>2 DEF InQueue
<1>7. j = Head(queue) => InQueue(j) /\ ~ InQueue(j)'
  BY <1>2, <1>3 DEF Once, InQueue
<1>. QED BY <1>3, <1>5, <1>6, <1>7

LEMMA CallAnswers ==
    ASSUME TypeInv, Undisturbed, Undisturbed', NEW w \in Workers
    PROVE  /\ ~ Raise(w)
           /\ ~ CallFails(w)
           /\ \A p : Answered(w, p) =>
                 /\ GoTo(w, p)
                 /\ UNCHANGED <<mode, faults, job, work, api, crashes, recoveries>>
<1>1. ~ Raise(w)
  BY DEF Raise, Undisturbed
<1>. QED BY <1>1 DEF Answered, CallFails

LEMMA Tables ==
    ASSUME TypeInv
    PROVE  /\ DOMAIN mode = Workers /\ DOMAIN work = Workers
           /\ DOMAIN att = Workers /\ DOMAIN ckpt = Jobs
           /\ mode \in [Workers -> {"none", "try", "except", "dying"}]
           /\ work \in [Workers -> Checkpoints]
           /\ ckpt \in [Jobs -> Checkpoints]
           /\ hpc \in [Handlers -> HandlerPoints]
           /\ \A w \in Workers : pc[w] \in HoldingPoints => job[w] \in Jobs
           /\ \A h \in Handlers : hpc[h] # "idle" => hjob[h] \in Jobs
BY DEF TypeInv, TypeOK, WorkerTypeOK, StoreTypeOK, ApiTypeOK, InHand, HoldingPoints,
       UnstartedPoints, RunningPoints, LoopPoints

LEMMA NoJobIsNone == NoJob \notin Jobs
BY JobsAssumption

LEMMA Levels == \A t \in Checkpoints : t.level \in 0..NodeCount /\ t.level \in Int
BY BoundsAssumption DEF Checkpoints

LEMMA QuietStep ==
    ASSUME TypeInv, Undisturbed, Undisturbed', Quiet, Next
    PROVE  Quiet'
<1>. USE Shapes, Tables DEF Quiet, Step, GoTo, HandlerGoTo, store, runs, redis, locals, worker,
             api, budget
<1>1. ASSUME NEW w \in Workers, PromoteNone(w) PROVE Quiet'
  BY <1>1 DEF PromoteNone
<1>2. ASSUME NEW w \in Workers, PromotePop(w) PROVE Quiet'
  BY <1>2 DEF PromotePop
<1>3. ASSUME NEW w \in Workers, PromoteDue(w) PROVE Quiet'
  BY <1>3 DEF PromoteDue
<1>4. ASSUME NEW w \in Workers, PromoteNotDue(w) PROVE Quiet'
  BY <1>4 DEF PromoteNotDue
<1>5. ASSUME NEW w \in Workers, PopTimeout(w) PROVE Quiet'
  BY <1>5 DEF PopTimeout
<1>6. ASSUME NEW w \in Workers, PopJob(w) PROVE Quiet'
  BY <1>6 DEF PopJob
<1>7. ASSUME NEW w \in Workers, SkipJob(w) PROVE Quiet'
  BY <1>7 DEF SkipJob, LeaveJob
<1>8. ASSUME NEW w \in Workers, LoadJob(w) PROVE Quiet'
  BY <1>8 DEF LoadJob
<1>9. ASSUME NEW w \in Workers, ReadCheckpoint(w) PROVE Quiet'
  BY <1>9 DEF ReadCheckpoint
<1>10. ASSUME NEW w \in Workers, AcquireRunLock(w) PROVE Quiet'
  BY <1>10 DEF AcquireRunLock
<1>11. ASSUME NEW w \in Workers, LockUnavailable(w) PROVE Quiet'
  BY <1>11 DEF LockUnavailable
<1>12. ASSUME NEW w \in Workers, MarkPostponed(w) PROVE Quiet'
  BY <1>12 DEF MarkPostponed, SetStatus
<1>13. ASSUME NEW w \in Workers, SchedulePostponed(w) PROVE Quiet'
  BY <1>13 DEF SchedulePostponed, LeaveJob
<1>14. ASSUME NEW w \in Workers, ReadAttempts(w) PROVE Quiet'
  BY <1>14 DEF ReadAttempts
<1>15. ASSUME NEW w \in Workers, MarkRunning(w) PROVE Quiet'
  BY <1>15 DEF MarkRunning, SetStatus
<1>16. ASSUME NEW w \in Workers, ReadRunning(w) PROVE Quiet'
  BY <1>16 DEF ReadRunning
<1>17. ASSUME NEW w \in Workers, RunWorkflow(w) PROVE Quiet'
  BY <1>17 DEF RunWorkflow, RunOutcomes
<1>18. ASSUME NEW w \in Workers, SaveRun(w) PROVE Quiet'
  BY <1>18, CallAnswers DEF SaveRun, AfterSave
<1>19. ASSUME NEW w \in Workers, MarkAwaitingHuman(w) PROVE Quiet'
  BY <1>19, CallAnswers DEF MarkAwaitingHuman, SetStatus
<1>20. ASSUME NEW w \in Workers, MarkCompleted(w) PROVE Quiet'
  BY <1>20, CallAnswers DEF MarkCompleted, SetStatus
<1>21. ASSUME NEW w \in Workers, SaveCheckpoint(w) PROVE Quiet'
  BY <1>21, CallAnswers DEF SaveCheckpoint
<1>22. ASSUME NEW w \in Workers, MarkRetryScheduled(w) PROVE Quiet'
  BY <1>22, CallAnswers DEF MarkRetryScheduled, SetStatus
<1>23. ASSUME NEW w \in Workers, ScheduleRetry(w) PROVE Quiet'
  BY <1>23, CallAnswers DEF ScheduleRetry
<1>24. ASSUME NEW w \in Workers, MarkDeadLetter(w) PROVE Quiet'
  BY <1>24, CallAnswers DEF MarkDeadLetter, SetStatus
<1>25. ASSUME NEW w \in Workers, PushDeadLetter(w) PROVE Quiet'
  BY <1>25, CallAnswers DEF PushDeadLetter
<1>26. ASSUME NEW w \in Workers, HandleException(w) PROVE Quiet'
  BY <1>26 DEF HandleException
<1>27. ASSUME NEW w \in Workers, TokenMatches(w) PROVE Quiet'
  BY <1>27 DEF TokenMatches
<1>28. ASSUME NEW w \in Workers, TokenDiffers(w) PROVE Quiet'
  BY <1>28 DEF TokenDiffers, LeaveJob
<1>29. ASSUME NEW w \in Workers, DeleteLock(w) PROVE Quiet'
  BY <1>29 DEF DeleteLock, LeaveJob
<1>30. ASSUME NEW w \in Workers, CallFails(w) PROVE Quiet'
  BY <1>30, CallAnswers
<1>31. ASSUME NEW w \in Workers, HandlerFails(w) PROVE Quiet'
  BY <1>31 DEF HandlerFails, HandlingPoints
<1>32. ASSUME NEW w \in Workers, Crash(w) PROVE Quiet'
  BY <1>32 DEF Crash
<1>33. ASSUME NEW w \in Workers, Restart(w) PROVE Quiet'
  BY <1>33 DEF Restart
<1>34. ASSUME NEW h \in Handlers, NEW j \in Jobs, SubmitCreate(h, j)
         PROVE  Quiet'
  BY <1>34 DEF SubmitCreate, SetStatus, Begin
<1>35. ASSUME NEW h \in Handlers, NEW j \in Jobs, RecoverRead(h, j)
         PROVE  Quiet'
  BY <1>35 DEF RecoverRead, Undisturbed
<1>36. ASSUME NEW h \in Handlers, NEW j \in Jobs, DecideRead(h, j) PROVE Quiet'
  BY <1>36 DEF DecideRead, Begin
<1>37. ASSUME NEW h \in Handlers, Enqueue(h) PROVE Quiet'
  BY <1>37 DEF Enqueue, Respond
<1>38. ASSUME NEW h \in Handlers, RecoverReadCheckpoint(h) PROVE Quiet'
  BY <1>38 DEF RecoverReadCheckpoint
<1>39. ASSUME NEW h \in Handlers, MarkRecovering(h) PROVE Quiet'
  BY <1>39 DEF MarkRecovering, SetStatus
<1>40. ASSUME NEW h \in Handlers, RecordApproval(h) PROVE Quiet'
  BY <1>40 DEF RecordApproval
<1>41. ASSUME NEW h \in Handlers, RecordRejection(h) PROVE Quiet'
  BY <1>41 DEF RecordRejection
<1>42. ASSUME NEW h \in Handlers, CompleteApproved(h) PROVE Quiet'
  BY <1>42 DEF CompleteApproved, SetStatus, Respond
<1>43. ASSUME NEW h \in Handlers, FailRejected(h) PROVE Quiet'
  BY <1>43 DEF FailRejected, SetStatus, Respond
<1>44. ASSUME NEW h \in Handlers, HandlerCrash(h) PROVE Quiet'
  BY <1>44 DEF HandlerCrash, Respond
<1>45. ASSUME NEW i \in Incidents, LockExpires(i) PROVE Quiet'
  BY <1>45 DEF LockExpires
<1>46. ASSUME NEW i \in Incidents, DecideIncident(i) PROVE Quiet'
  BY <1>46 DEF DecideIncident
<1>47. ASSUME NEW i \in Incidents, RunIncident(i) PROVE Quiet'
  BY <1>47 DEF RunIncident
<1>. QED
  BY <1>1, <1>2, <1>3, <1>4, <1>5, <1>6, <1>7, <1>8, <1>9, <1>10, <1>11, <1>12,
      <1>13, <1>14, <1>15, <1>16, <1>17, <1>18, <1>19, <1>20, <1>21, <1>22,
      <1>23, <1>24, <1>25, <1>26, <1>27, <1>28, <1>29, <1>30, <1>31, <1>32,
      <1>33, <1>34, <1>35, <1>36, <1>37, <1>38, <1>39, <1>40, <1>41, <1>42,
      <1>43, <1>44, <1>45, <1>46, <1>47
   DEF Next, WorkerStep, QueueStep,
      BeforeLock, TryBlock, AfterTry, WorkerTrouble, NewRequest, HandlerStep

-----------------------------------------------------------------------------
(* A job stays in one place.                                               *)

LEMMA OnePlaceStep ==
    ASSUME TypeInv, Undisturbed, Undisturbed', LifeInv, NEW b \in Jobs, Next
    PROVE  OnePlace(b)'
<1>. USE Shapes, Lists, Tables, QueueStays
     DEF LifeInv, Quiet, OnePlace, Held, Holds, Sends, HoldingPoints,
         UnstartedPoints, RunningPoints, MyJob, Step, GoTo, HandlerGoTo,
         store, runs, redis, locals, worker, api, budget
<1>1. ASSUME NEW w \in Workers, PromoteNone(w) PROVE OnePlace(b)'
  BY <1>1 DEF PromoteNone
<1>2. ASSUME NEW w \in Workers, PromotePop(w) PROVE OnePlace(b)'
  BY <1>2 DEF PromotePop
<1>3. ASSUME NEW w \in Workers, PromoteDue(w) PROVE OnePlace(b)'
  BY <1>3, QueueGrows DEF PromoteDue
<1>4. ASSUME NEW w \in Workers, PromoteNotDue(w) PROVE OnePlace(b)'
  BY <1>4 DEF PromoteNotDue
<1>5. ASSUME NEW w \in Workers, PopTimeout(w) PROVE OnePlace(b)'
  BY <1>5 DEF PopTimeout
<1>6. ASSUME NEW w \in Workers, PopJob(w) PROVE OnePlace(b)'
  BY <1>6, QueueShrinks DEF PopJob
<1>7. ASSUME NEW w \in Workers, SkipJob(w) PROVE OnePlace(b)'
  BY <1>7 DEF SkipJob, LeaveJob
<1>8. ASSUME NEW w \in Workers, LoadJob(w) PROVE OnePlace(b)'
  BY <1>8 DEF LoadJob
<1>9. ASSUME NEW w \in Workers, ReadCheckpoint(w) PROVE OnePlace(b)'
  BY <1>9 DEF ReadCheckpoint
<1>10. ASSUME NEW w \in Workers, AcquireRunLock(w) PROVE OnePlace(b)'
  BY <1>10 DEF AcquireRunLock
<1>11. ASSUME NEW w \in Workers, LockUnavailable(w) PROVE OnePlace(b)'
  BY <1>11 DEF LockUnavailable
<1>12. ASSUME NEW w \in Workers, MarkPostponed(w) PROVE OnePlace(b)'
  BY <1>12 DEF MarkPostponed, SetStatus
<1>13. ASSUME NEW w \in Workers, SchedulePostponed(w) PROVE OnePlace(b)'
  BY <1>13 DEF SchedulePostponed, LeaveJob
<1>14. ASSUME NEW w \in Workers, ReadAttempts(w) PROVE OnePlace(b)'
  BY <1>14 DEF ReadAttempts
<1>15. ASSUME NEW w \in Workers, MarkRunning(w) PROVE OnePlace(b)'
  BY <1>15 DEF MarkRunning, SetStatus
<1>16. ASSUME NEW w \in Workers, ReadRunning(w) PROVE OnePlace(b)'
  BY <1>16 DEF ReadRunning
<1>17. ASSUME NEW w \in Workers, RunWorkflow(w) PROVE OnePlace(b)'
  BY <1>17 DEF RunWorkflow, RunOutcomes
<1>18. ASSUME NEW w \in Workers, SaveRun(w) PROVE OnePlace(b)'
  BY <1>18, CallAnswers DEF SaveRun, AfterSave
<1>19. ASSUME NEW w \in Workers, MarkAwaitingHuman(w) PROVE OnePlace(b)'
  BY <1>19, CallAnswers DEF MarkAwaitingHuman, SetStatus
<1>20. ASSUME NEW w \in Workers, MarkCompleted(w) PROVE OnePlace(b)'
  BY <1>20, CallAnswers DEF MarkCompleted, SetStatus
<1>21. ASSUME NEW w \in Workers, SaveCheckpoint(w) PROVE OnePlace(b)'
  BY <1>21, CallAnswers DEF SaveCheckpoint
<1>22. ASSUME NEW w \in Workers, MarkRetryScheduled(w) PROVE OnePlace(b)'
  BY <1>22, CallAnswers DEF MarkRetryScheduled, SetStatus
<1>23. ASSUME NEW w \in Workers, ScheduleRetry(w) PROVE OnePlace(b)'
  BY <1>23, CallAnswers DEF ScheduleRetry
<1>24. ASSUME NEW w \in Workers, MarkDeadLetter(w) PROVE OnePlace(b)'
  BY <1>24, CallAnswers DEF MarkDeadLetter, SetStatus
<1>25. ASSUME NEW w \in Workers, PushDeadLetter(w) PROVE OnePlace(b)'
  <2>1. pc[w] = "push" /\ GoTo(w, "release")
        /\ UNCHANGED <<queue, delayed, job, hpc, hjob>>
    BY <1>25, CallAnswers DEF PushDeadLetter
  <2>. QED  BY <2>1
<1>26. ASSUME NEW w \in Workers, HandleException(w) PROVE OnePlace(b)'
  BY <1>26 DEF HandleException
<1>27. ASSUME NEW w \in Workers, TokenMatches(w) PROVE OnePlace(b)'
  BY <1>27 DEF TokenMatches
<1>28. ASSUME NEW w \in Workers, TokenDiffers(w) PROVE OnePlace(b)'
  BY <1>28 DEF TokenDiffers, LeaveJob
<1>29. ASSUME NEW w \in Workers, DeleteLock(w) PROVE OnePlace(b)'
  BY <1>29 DEF DeleteLock, LeaveJob
<1>30. ASSUME NEW w \in Workers, CallFails(w) PROVE OnePlace(b)'
  BY <1>30, CallAnswers
<1>31. ASSUME NEW w \in Workers, HandlerFails(w) PROVE OnePlace(b)'
  BY <1>31 DEF HandlerFails, HandlingPoints
<1>32. ASSUME NEW w \in Workers, Crash(w) PROVE OnePlace(b)'
  BY <1>32 DEF Crash
<1>33. ASSUME NEW w \in Workers, Restart(w) PROVE OnePlace(b)'
  BY <1>33 DEF Restart
<1>34. ASSUME NEW h \in Handlers, NEW j \in Jobs, SubmitCreate(h, j)
         PROVE  OnePlace(b)'
  <2>1. status[b] = "absent" => ~ InQueue(b) /\ b \notin delayed /\ ~ Held(b)
    BY DEF PlaceFits, Ready, Waiting
  <2>. QED  BY <1>34, <2>1 DEF SubmitCreate, SetStatus, Begin
<1>35. ASSUME NEW h \in Handlers, NEW j \in Jobs, RecoverRead(h, j)
         PROVE  OnePlace(b)'
  BY <1>35 DEF RecoverRead, Begin
<1>36. ASSUME NEW h \in Handlers, NEW j \in Jobs, DecideRead(h, j)
         PROVE  OnePlace(b)'
  BY <1>36 DEF DecideRead, Begin
<1>37. ASSUME NEW h \in Handlers, Enqueue(h) PROVE OnePlace(b)'
  <2>1. hjob[h] = b => ~ InQueue(b) /\ b \notin delayed
                         /\ \A w \in Workers : ~ Holds(w, b)
    BY <1>37 DEF Enqueue
  <2>2. Once(b)' /\ (InQueue(b)' <=> InQueue(b) \/ b = hjob[h])
    BY <1>37, <2>1, QueueGrows DEF Enqueue
  <2>. QED  BY <1>37, <2>1, <2>2, NoJobIsNone DEF Enqueue, Respond
<1>38. ASSUME NEW h \in Handlers, RecoverReadCheckpoint(h) PROVE OnePlace(b)'
  BY <1>38 DEF RecoverReadCheckpoint
<1>39. ASSUME NEW h \in Handlers, MarkRecovering(h) PROVE OnePlace(b)'
  BY <1>39 DEF MarkRecovering, SetStatus
<1>40. ASSUME NEW h \in Handlers, RecordApproval(h) PROVE OnePlace(b)'
  BY <1>40 DEF RecordApproval
<1>41. ASSUME NEW h \in Handlers, RecordRejection(h) PROVE OnePlace(b)'
  BY <1>41 DEF RecordRejection
<1>42. ASSUME NEW h \in Handlers, CompleteApproved(h) PROVE OnePlace(b)'
  BY <1>42 DEF CompleteApproved, SetStatus, Respond
<1>43. ASSUME NEW h \in Handlers, FailRejected(h) PROVE OnePlace(b)'
  BY <1>43 DEF FailRejected, SetStatus, Respond
<1>44. ASSUME NEW h \in Handlers, HandlerCrash(h) PROVE OnePlace(b)'
  BY <1>44 DEF HandlerCrash, Respond
<1>45. ASSUME NEW i \in Incidents, LockExpires(i) PROVE OnePlace(b)'
  BY <1>45 DEF LockExpires
<1>46. ASSUME NEW i \in Incidents, DecideIncident(i) PROVE OnePlace(b)'
  BY <1>46 DEF DecideIncident
<1>47. ASSUME NEW i \in Incidents, RunIncident(i) PROVE OnePlace(b)'
  BY <1>47 DEF RunIncident
<1>. QED
  BY <1>1, <1>2, <1>3, <1>4, <1>5, <1>6, <1>7, <1>8, <1>9, <1>10, <1>11, <1>12,
      <1>13, <1>14, <1>15, <1>16, <1>17, <1>18, <1>19, <1>20, <1>21, <1>22,
      <1>23, <1>24, <1>25, <1>26, <1>27, <1>28, <1>29, <1>30, <1>31, <1>32,
      <1>33, <1>34, <1>35, <1>36, <1>37, <1>38, <1>39, <1>40, <1>41, <1>42,
      <1>43, <1>44, <1>45, <1>46, <1>47
   DEF Next, WorkerStep, QueueStep,
      BeforeLock, TryBlock, AfterTry, WorkerTrouble, NewRequest, HandlerStep

-----------------------------------------------------------------------------
(* Its status, attempts and checkpoint stay those of its place.            *)

LEMMA PlaceFitsStep ==
    ASSUME TypeInv, Undisturbed, Undisturbed', LifeInv, NEW b \in Jobs, Next
    PROVE  PlaceFits(b)'
<1>. USE BoundsAssumption, Shapes, Lists, Tables, Counts, QueueStays
     DEF LifeInv, Quiet, OnePlace, PlaceFits, Deciding, Decidable, Ready, Waiting, Held,
         Holds, Sends, HoldingPoints, UnstartedPoints, RunningPoints, MyJob, Step, GoTo,
         HandlerGoTo, store, runs, redis, locals, worker, api, budget
<1>1. ASSUME NEW w \in Workers, PromoteNone(w) PROVE PlaceFits(b)'
  BY <1>1 DEF PromoteNone
<1>2. ASSUME NEW w \in Workers, PromotePop(w) PROVE PlaceFits(b)'
  BY <1>2 DEF PromotePop
<1>3. ASSUME NEW w \in Workers, PromoteDue(w) PROVE PlaceFits(b)'
  <2>1. InQueue(b)' <=> InQueue(b) \/ b = job[w]
    BY <1>3, QueueGrows DEF PromoteDue
  <2>. QED  BY <1>3, <2>1, NoJobIsNone DEF PromoteDue
<1>4. ASSUME NEW w \in Workers, PromoteNotDue(w) PROVE PlaceFits(b)'
  BY <1>4 DEF PromoteNotDue
<1>5. ASSUME NEW w \in Workers, PopTimeout(w) PROVE PlaceFits(b)'
  BY <1>5 DEF PopTimeout
<1>6. ASSUME NEW w \in Workers, PopJob(w) PROVE PlaceFits(b)'
  BY <1>6, QueueShrinks DEF PopJob
<1>7. ASSUME NEW w \in Workers, SkipJob(w) PROVE PlaceFits(b)'
  BY <1>7 DEF SkipJob, LeaveJob
<1>8. ASSUME NEW w \in Workers, LoadJob(w) PROVE PlaceFits(b)'
  BY <1>8 DEF LoadJob
<1>9. ASSUME NEW w \in Workers, ReadCheckpoint(w) PROVE PlaceFits(b)'
  BY <1>9, Levels DEF ReadCheckpoint
<1>10. ASSUME NEW w \in Workers, AcquireRunLock(w) PROVE PlaceFits(b)'
  BY <1>10 DEF AcquireRunLock
<1>11. ASSUME NEW w \in Workers, LockUnavailable(w) PROVE PlaceFits(b)'
  BY <1>11 DEF LockUnavailable
<1>12. ASSUME NEW w \in Workers, MarkPostponed(w) PROVE PlaceFits(b)'
  BY <1>12 DEF MarkPostponed, SetStatus
<1>13. ASSUME NEW w \in Workers, SchedulePostponed(w) PROVE PlaceFits(b)'
  BY <1>13 DEF SchedulePostponed, LeaveJob
<1>14. ASSUME NEW w \in Workers, ReadAttempts(w) PROVE PlaceFits(b)'
  BY <1>14 DEF ReadAttempts
<1>15. ASSUME NEW w \in Workers, MarkRunning(w) PROVE PlaceFits(b)'
  BY <1>15 DEF MarkRunning, SetStatus
<1>16. ASSUME NEW w \in Workers, ReadRunning(w) PROVE PlaceFits(b)'
  BY <1>16 DEF ReadRunning
<1>17. ASSUME NEW w \in Workers, RunWorkflow(w) PROVE PlaceFits(b)'
  <2>1. work'[w] \in Checkpoints /\ work'[w].level >= work[w].level
    BY <1>17 DEF RunWorkflow, RunOutcomes
  <2>. QED  BY <1>17, <2>1, Levels DEF RunWorkflow
<1>18. ASSUME NEW w \in Workers, SaveRun(w) PROVE PlaceFits(b)'
  BY <1>18, CallAnswers DEF SaveRun, AfterSave
<1>19. ASSUME NEW w \in Workers, MarkAwaitingHuman(w) PROVE PlaceFits(b)'
  BY <1>19, CallAnswers DEF MarkAwaitingHuman, SetStatus
<1>20. ASSUME NEW w \in Workers, MarkCompleted(w) PROVE PlaceFits(b)'
  BY <1>20, CallAnswers DEF MarkCompleted, SetStatus
<1>21. ASSUME NEW w \in Workers, SaveCheckpoint(w) PROVE PlaceFits(b)'
  BY <1>21, CallAnswers DEF SaveCheckpoint
<1>22. ASSUME NEW w \in Workers, MarkRetryScheduled(w) PROVE PlaceFits(b)'
  BY <1>22, CallAnswers DEF MarkRetryScheduled, SetStatus
<1>23. ASSUME NEW w \in Workers, ScheduleRetry(w) PROVE PlaceFits(b)'
  BY <1>23, CallAnswers DEF ScheduleRetry
<1>24. ASSUME NEW w \in Workers, MarkDeadLetter(w) PROVE PlaceFits(b)'
  BY <1>24, CallAnswers DEF MarkDeadLetter, SetStatus
<1>25. ASSUME NEW w \in Workers, PushDeadLetter(w) PROVE PlaceFits(b)'
  BY <1>25, CallAnswers DEF PushDeadLetter
<1>26. ASSUME NEW w \in Workers, HandleException(w) PROVE PlaceFits(b)'
  BY <1>26 DEF HandleException
<1>27. ASSUME NEW w \in Workers, TokenMatches(w) PROVE PlaceFits(b)'
  BY <1>27 DEF TokenMatches
<1>28. ASSUME NEW w \in Workers, TokenDiffers(w) PROVE PlaceFits(b)'
  BY <1>28 DEF TokenDiffers, LeaveJob
<1>29. ASSUME NEW w \in Workers, DeleteLock(w) PROVE PlaceFits(b)'
  BY <1>29 DEF DeleteLock, LeaveJob
<1>30. ASSUME NEW w \in Workers, CallFails(w) PROVE PlaceFits(b)'
  BY <1>30, CallAnswers
<1>31. ASSUME NEW w \in Workers, HandlerFails(w) PROVE PlaceFits(b)'
  BY <1>31 DEF HandlerFails, HandlingPoints
<1>32. ASSUME NEW w \in Workers, Crash(w) PROVE PlaceFits(b)'
  BY <1>32 DEF Crash
<1>33. ASSUME NEW w \in Workers, Restart(w) PROVE PlaceFits(b)'
  BY <1>33 DEF Restart
<1>34. ASSUME NEW h \in Handlers, NEW j \in Jobs, SubmitCreate(h, j)
         PROVE  PlaceFits(b)'
  BY <1>34 DEF SubmitCreate, SetStatus, Begin
<1>35. ASSUME NEW h \in Handlers, NEW j \in Jobs, RecoverRead(h, j)
         PROVE  PlaceFits(b)'
  BY <1>35 DEF RecoverRead, Begin
<1>36. ASSUME NEW h \in Handlers, NEW j \in Jobs, DecideRead(h, j)
         PROVE  PlaceFits(b)'
  BY <1>36 DEF DecideRead, Begin
<1>37. ASSUME NEW h \in Handlers, Enqueue(h) PROVE PlaceFits(b)'
  <2>1. hjob[h] \in Jobs /\ (b = hjob[h] => ~ InQueue(b))
    BY <1>37 DEF Enqueue
  <2>2. InQueue(b)' <=> InQueue(b) \/ b = hjob[h]
    BY <1>37, <2>1, QueueGrows DEF Enqueue
  <2>. QED  BY <1>37, <2>2, NoJobIsNone DEF Enqueue, Respond
<1>38. ASSUME NEW h \in Handlers, RecoverReadCheckpoint(h) PROVE PlaceFits(b)'
  BY <1>38 DEF RecoverReadCheckpoint
<1>39. ASSUME NEW h \in Handlers, MarkRecovering(h) PROVE PlaceFits(b)'
  BY <1>39 DEF MarkRecovering, SetStatus
<1>40. ASSUME NEW h \in Handlers, RecordApproval(h) PROVE PlaceFits(b)'
  BY <1>40 DEF RecordApproval
<1>41. ASSUME NEW h \in Handlers, RecordRejection(h) PROVE PlaceFits(b)'
  BY <1>41 DEF RecordRejection
<1>42. ASSUME NEW h \in Handlers, CompleteApproved(h) PROVE PlaceFits(b)'
  BY <1>42, NoJobIsNone DEF CompleteApproved, SetStatus, Respond
<1>43. ASSUME NEW h \in Handlers, FailRejected(h) PROVE PlaceFits(b)'
  BY <1>43, NoJobIsNone DEF FailRejected, SetStatus, Respond
<1>44. ASSUME NEW h \in Handlers, HandlerCrash(h) PROVE PlaceFits(b)'
  BY <1>44 DEF HandlerCrash, Respond
<1>45. ASSUME NEW i \in Incidents, LockExpires(i) PROVE PlaceFits(b)'
  BY <1>45 DEF LockExpires
<1>46. ASSUME NEW i \in Incidents, DecideIncident(i) PROVE PlaceFits(b)'
  BY <1>46 DEF DecideIncident
<1>47. ASSUME NEW i \in Incidents, RunIncident(i) PROVE PlaceFits(b)'
  BY <1>47 DEF RunIncident
<1>. QED
  BY <1>1, <1>2, <1>3, <1>4, <1>5, <1>6, <1>7, <1>8, <1>9, <1>10, <1>11, <1>12,
      <1>13, <1>14, <1>15, <1>16, <1>17, <1>18, <1>19, <1>20, <1>21, <1>22,
      <1>23, <1>24, <1>25, <1>26, <1>27, <1>28, <1>29, <1>30, <1>31, <1>32,
      <1>33, <1>34, <1>35, <1>36, <1>37, <1>38, <1>39, <1>40, <1>41, <1>42,
      <1>43, <1>44, <1>45, <1>46, <1>47
   DEF Next, WorkerStep, QueueStep,
      BeforeLock, TryBlock, AfterTry, WorkerTrouble, NewRequest, HandlerStep

-----------------------------------------------------------------------------
LEMMA LifeInit == Init => LifeInv
BY BoundsAssumption, NoJobIsNone
   DEF Init, LifeInv, Quiet, OnePlace, PlaceFits, Deciding, Once, InQueue, Held,
       Holds, Sends, HoldingPoints, UnstartedPoints, RunningPoints, Ready, Waiting

LEMMA LifeStep ==
    ASSUME Undisturbed, Undisturbed', TypeInv, LifeInv, [Next]_vars
    PROVE  LifeInv'
<1>1. CASE Next
  BY <1>1, QuietStep, OnePlaceStep, PlaceFitsStep DEF LifeInv
<1>2. CASE UNCHANGED vars
  BY <1>2 DEF LifeInv, Quiet, OnePlace, PlaceFits, Deciding, Once, InQueue, Held,
              Holds, Sends, Ready, vars, store, runs, redis, worker, locals, api
<1>. QED  BY <1>1, <1>2

-----------------------------------------------------------------------------
(* A single decision finds the job waiting for it.                         *)

DecideInv ==
    \A j \in Jobs : \A h \in Handlers :
        Deciding(h, j) => status[j] = "awaiting_human"

\* No worker has a job in hand that waits for a human, unless it is done
\* with it.
LEMMA WorkersLeaveWaiting ==
    ASSUME TypeInv, Undisturbed, Undisturbed', LifeInv, NEW w \in Workers,
           WorkerStep(w) \/ WorkerTrouble(w)
    PROVE  /\ UNCHANGED <<hpc, hjob>>
           /\ \A j \in Jobs : status[j] = "awaiting_human" => status'[j] = status[j]
<1>. USE Shapes, Tables, Counts, CallAnswers
     DEF LifeInv, PlaceFits, Ready, Waiting, HoldingPoints, UnstartedPoints,
         RunningPoints, Quiet, MyJob, Step, SetStatus, store, worker, api
<1>1. CASE QueueStep(w)
  BY <1>1 DEF QueueStep, PromoteNone, PromotePop, PromoteDue, PromoteNotDue,
       PopTimeout, PopJob
<1>2. CASE BeforeLock(w)
  BY <1>2 DEF BeforeLock, SkipJob, LoadJob, ReadCheckpoint, AcquireRunLock,
       LockUnavailable, MarkPostponed, SchedulePostponed
<1>3. CASE TryBlock(w)
  <2>1. CASE \/ ReadAttempts(w) \/ MarkRunning(w) \/ ReadRunning(w)
             \/ RunWorkflow(w) \/ SaveRun(w) \/ SaveCheckpoint(w)
             \/ ScheduleRetry(w) \/ PushDeadLetter(w)
    BY <2>1 DEF ReadAttempts, MarkRunning, ReadRunning, RunWorkflow, SaveRun,
         SaveCheckpoint, ScheduleRetry, PushDeadLetter
  <2>2. CASE \/ MarkAwaitingHuman(w) \/ MarkCompleted(w)
             \/ MarkRetryScheduled(w) \/ MarkDeadLetter(w)
    BY <2>2 DEF MarkAwaitingHuman, MarkCompleted, MarkRetryScheduled,
         MarkDeadLetter
  <2>. QED  BY <1>3, <2>1, <2>2 DEF TryBlock
<1>4. CASE AfterTry(w)
  BY <1>4 DEF AfterTry, HandleException, TokenMatches, TokenDiffers, DeleteLock
<1>5. CASE WorkerTrouble(w)
  BY <1>5 DEF WorkerTrouble, HandlerFails, Crash, Restart
<1>. QED  BY <1>1, <1>2, <1>3, <1>4, <1>5 DEF WorkerStep

LEMMA DecideStep ==
    ASSUME TypeInv, Calm, Calm', LifeInv, DecideInv, Next
    PROVE  DecideInv'
<1>. USE Tables, Counts, Shapes
     DEF DecideInv, Deciding, HandlerGoTo, Begin, SetStatus, Respond, store, api
<1>1. ASSUME NEW w \in Workers, WorkerStep(w) \/ WorkerTrouble(w)
      PROVE  DecideInv'
  <2>. QED  BY <1>1, WorkersLeaveWaiting DEF Calm
<1>2. ASSUME NEW h \in Handlers, NEW j \in Jobs,
             SubmitCreate(h, j) \/ RecoverRead(h, j) \/ DecideRead(h, j)
      PROVE  DecideInv'
  BY <1>2 DEF SubmitCreate, RecoverRead, DecideRead
<1>3. ASSUME NEW h \in Handlers,
             \/ Enqueue(h) \/ RecoverReadCheckpoint(h) \/ MarkRecovering(h)
             \/ RecordApproval(h) \/ RecordRejection(h) \/ HandlerCrash(h)
      PROVE  DecideInv'
  BY <1>3, NoJobIsNone DEF Enqueue, RecoverReadCheckpoint, MarkRecovering, RecordApproval,
       RecordRejection, HandlerCrash, LifeInv, Quiet
<1>4. ASSUME NEW h \in Handlers, CompleteApproved(h) \/ FailRejected(h)
      PROVE  DecideInv'
  <2>1. hjob[h] \in Jobs /\ \A g \in Handlers : Deciding(g, hjob[h]) => g = h
    BY <1>4 DEF CompleteApproved, FailRejected, Calm
  <2>. QED  BY <1>4, <2>1, NoJobIsNone DEF CompleteApproved, FailRejected
<1>5. ASSUME NEW i \in Incidents,
             LockExpires(i) \/ DecideIncident(i) \/ RunIncident(i)
      PROVE  DecideInv'
  BY <1>5 DEF LockExpires, DecideIncident, RunIncident
<1>. QED
  BY <1>1, <1>2, <1>3, <1>4, <1>5 DEF Next, NewRequest, HandlerStep

-----------------------------------------------------------------------------
(* Every step of a job is one the abstract life allows.                    *)

Progress == [j \in Jobs |-> ckpt[j].level]

\* The checkpoint of a job is replaced by one that is not older.
LEMMA ProgressGrows ==
    ASSUME TypeInv, NEW j \in Jobs, NEW t \in Checkpoints,
           ckpt[j].level <= t.level, ckpt' = [ckpt EXCEPT ![j] = t]
    PROVE  \E n \in Progress[j]..NodeCount : Progress' = [Progress EXCEPT ![j] = n]
<1>1. ckpt \in [Jobs -> Checkpoints]
  BY Tables
<1>2. t.level \in 0..NodeCount /\ ckpt[j].level \in Int
  BY <1>1, Levels
<1>3. Progress' = [Progress EXCEPT ![j] = t.level]
  BY <1>1 DEF Progress
<1>4. t.level \in Progress[j]..NodeCount
  BY <1>2, BoundsAssumption DEF Progress
<1>. QED  BY <1>3, <1>4

LEMMA StepsOfLife ==
    ASSUME TypeInv, Undisturbed, Undisturbed', LifeInv, DecideInv, Next
    PROVE  Lifecycle!Next \/ UNCHANGED <<status, attempts, Progress>>
<1>. USE Shapes, Tables, Counts DEF LifeInv, MyJob, Step, SetStatus, Progress
<1>. USE DEF Lifecycle!Move, Lifecycle!Waiting
<1>1. ASSUME UNCHANGED <<status, attempts, ckpt>>
      PROVE  UNCHANGED <<status, attempts, Progress>>
  BY <1>1
<1>2. ASSUME NEW w \in Workers, NEW j \in Jobs, j = job[w], MarkPostponed(w)
      PROVE  Lifecycle!Postpone(j)
  BY <1>2 DEF MarkPostponed, Lifecycle!Postpone, PlaceFits, Ready, Waiting,
              HoldingPoints, UnstartedPoints
<1>3. ASSUME NEW w \in Workers, NEW j \in Jobs, j = job[w], MarkRunning(w)
      PROVE  Lifecycle!Start(j)
  BY <1>3 DEF MarkRunning, Lifecycle!Start, PlaceFits, Ready, Waiting,
              HoldingPoints, UnstartedPoints
<1>4. ASSUME NEW w \in Workers, NEW j \in Jobs, j = job[w], SaveCheckpoint(w)
      PROVE  Lifecycle!Advance(j)
  <2>1. status[j] = "running" /\ ckpt[j].level <= work[w].level
    BY <1>4 DEF SaveCheckpoint, PlaceFits, HoldingPoints, RunningPoints
  <2>. QED  BY <1>4, <2>1, ProgressGrows DEF SaveCheckpoint, Lifecycle!Advance
<1>5. ASSUME NEW w \in Workers, NEW j \in Jobs, j = job[w], MarkRetryScheduled(w)
      PROVE  Lifecycle!Retry(j)
  BY <1>5 DEF MarkRetryScheduled, Lifecycle!Retry, PlaceFits, HoldingPoints,
              RunningPoints
<1>6. ASSUME NEW w \in Workers, NEW j \in Jobs, j = job[w], MarkDeadLetter(w)
      PROVE  Lifecycle!GiveUp(j)
  BY <1>6 DEF MarkDeadLetter, Lifecycle!GiveUp, PlaceFits, HoldingPoints,
              RunningPoints
<1>7. ASSUME NEW w \in Workers, NEW j \in Jobs, j = job[w], MarkAwaitingHuman(w)
      PROVE  Lifecycle!AskHuman(j)
  <2>1. status[j] = "running" /\ ckpt[j].level <= work[w].level
    BY <1>7 DEF MarkAwaitingHuman, PlaceFits, HoldingPoints, RunningPoints
  <2>. QED  BY <1>7, <2>1, ProgressGrows DEF MarkAwaitingHuman, Lifecycle!AskHuman
<1>8. ASSUME NEW w \in Workers, NEW j \in Jobs, j = job[w], MarkCompleted(w)
      PROVE  Lifecycle!Finish(j)
  BY <1>8 DEF MarkCompleted, Lifecycle!Finish, PlaceFits, HoldingPoints,
              RunningPoints
<1>9. ASSUME NEW h \in Handlers, NEW j \in Jobs, j = hjob[h], CompleteApproved(h)
      PROVE  Lifecycle!Approve(j)
  BY <1>9 DEF CompleteApproved, Lifecycle!Approve, DecideInv, Deciding
<1>10. ASSUME NEW h \in Handlers, NEW j \in Jobs, j = hjob[h], FailRejected(h)
      PROVE  Lifecycle!Reject(j)
  BY <1>10 DEF FailRejected, Lifecycle!Reject, DecideInv, Deciding
<1>11. ASSUME NEW h \in Handlers, NEW j \in Jobs, SubmitCreate(h, j)
       PROVE  Lifecycle!Submit(j)
  BY <1>11 DEF SubmitCreate, Lifecycle!Submit
<1>12. ASSUME NEW h \in Handlers PROVE ~ MarkRecovering(h)
  BY DEF MarkRecovering, Quiet
<1>13. \/ \E w \in Workers :
             \/ MarkPostponed(w) \/ MarkRunning(w) \/ SaveCheckpoint(w)
             \/ MarkRetryScheduled(w) \/ MarkDeadLetter(w) \/ MarkAwaitingHuman(w)
             \/ MarkCompleted(w)
       \/ \E h \in Handlers :
             \/ CompleteApproved(h) \/ FailRejected(h)
             \/ \E j \in Jobs : SubmitCreate(h, j)
       \/ UNCHANGED <<status, attempts, ckpt>>
  <2>1. ASSUME NEW w \in Workers,
               QueueStep(w) \/ AfterTry(w) \/ WorkerTrouble(w)
        PROVE  UNCHANGED <<status, attempts, ckpt>>
    BY <2>1 DEF QueueStep, PromoteNone, PromotePop, PromoteDue, PromoteNotDue,
         PopTimeout, PopJob, AfterTry, HandleException, TokenMatches, TokenDiffers,
         DeleteLock, WorkerTrouble, CallFails, HandlerFails, Crash, Restart, store
  <2>2. ASSUME NEW w \in Workers,
               \/ SkipJob(w) \/ LoadJob(w) \/ ReadCheckpoint(w)
               \/ AcquireRunLock(w) \/ LockUnavailable(w) \/ SchedulePostponed(w)
               \/ ReadAttempts(w) \/ ReadRunning(w) \/ RunWorkflow(w)
               \/ SaveRun(w) \/ ScheduleRetry(w) \/ PushDeadLetter(w)
        PROVE  UNCHANGED <<status, attempts, ckpt>>
    BY <2>2 DEF SkipJob, LoadJob, ReadCheckpoint, AcquireRunLock, LockUnavailable,
         SchedulePostponed, ReadAttempts, ReadRunning, RunWorkflow, SaveRun, ScheduleRetry, PushDeadLetter, store
  <2>3. ASSUME NEW h \in Handlers,
               \/ \E j \in Jobs : RecoverRead(h, j) \/ DecideRead(h, j)
               \/ Enqueue(h) \/ RecoverReadCheckpoint(h)
               \/ RecordApproval(h) \/ RecordRejection(h) \/ HandlerCrash(h)
        PROVE  UNCHANGED <<status, attempts, ckpt>>
    BY <2>3 DEF RecoverRead, DecideRead, Enqueue, RecoverReadCheckpoint,
         RecordApproval, RecordRejection, HandlerCrash, store
  <2>4. ASSUME NEW i \in Incidents,
               LockExpires(i) \/ DecideIncident(i) \/ RunIncident(i)
        PROVE  UNCHANGED <<status, attempts, ckpt>>
    BY <2>4 DEF LockExpires, DecideIncident, RunIncident, store
  <2>. QED
    BY <2>1, <2>2, <2>3, <2>4, <1>12
    DEF Next, WorkerStep, BeforeLock, TryBlock, NewRequest, HandlerStep
<1>14. ASSUME NEW w \in Workers,
              \/ MarkPostponed(w) \/ MarkRunning(w) \/ SaveCheckpoint(w)
              \/ MarkRetryScheduled(w) \/ MarkDeadLetter(w) \/ MarkAwaitingHuman(w)
              \/ MarkCompleted(w)
       PROVE  Lifecycle!Next
  <2>1. job[w] \in Jobs
    BY <1>14 DEF MarkPostponed, MarkRunning, SaveCheckpoint, MarkRetryScheduled,
         MarkDeadLetter, MarkAwaitingHuman, MarkCompleted,
         HoldingPoints, UnstartedPoints, RunningPoints
  <2>2. PICK j \in Jobs : j = job[w]
    BY <2>1
  <2>3. \/ Lifecycle!Postpone(j) \/ Lifecycle!Start(j) \/ Lifecycle!Advance(j)
        \/ Lifecycle!Retry(j) \/ Lifecycle!GiveUp(j) \/ Lifecycle!AskHuman(j)
        \/ Lifecycle!Finish(j)
    BY <1>2, <1>3, <1>4, <1>5, <1>6, <1>7, <1>8, <1>14, <2>2
  <2>. QED  BY <2>3 DEF Lifecycle!Next
<1>15. ASSUME NEW h \in Handlers,
              \/ CompleteApproved(h) \/ FailRejected(h)
              \/ \E j \in Jobs : SubmitCreate(h, j)
       PROVE  Lifecycle!Next
  <2>1. CompleteApproved(h) \/ FailRejected(h) => hjob[h] \in Jobs
    BY DEF CompleteApproved, FailRejected
  <2>. QED  BY <1>9, <1>10, <1>11, <1>15, <2>1 DEF Lifecycle!Next
<1>. QED  BY <1>1, <1>13, <1>14, <1>15

\* The table of jobs goes through the life JobLifecycle describes: a job
\* uses at most job_max_retries runs, keeps its progress, is completed,
\* failed or dead-lettered once and for good, and leaves "awaiting_human"
\* only by a decision, although no update of store.py:485-663 looks at the
\* status it overwrites (job_worker.py:23-152, routes.py:485-580).
THEOREM JobsHaveOneLife == Spec /\ []Calm => ImplementsLifecycle
<1>1. Init => Lifecycle!Init
  BY DEF Init, Lifecycle!Init, Fresh
<1>2. TypeInv /\ Undisturbed /\ Undisturbed' /\ LifeInv /\ DecideInv /\ [Next]_vars
        => [Lifecycle!Next]_(Lifecycle!vars)
  <2>1. CASE UNCHANGED vars
    BY <2>1 DEF vars, store, Lifecycle!vars
  <2>. QED  BY <2>1, StepsOfLife DEF Lifecycle!vars, Progress
<1>3. TypeInv /\ Undisturbed /\ Undisturbed' /\ LifeInv /\ [Next]_vars => LifeInv'
  BY LifeStep
<1>4. Init => DecideInv
  BY DEF Init, DecideInv, Deciding
<1>5. TypeInv /\ Calm /\ Calm' /\ LifeInv /\ DecideInv /\ [Next]_vars => DecideInv'
  <2>1. CASE UNCHANGED vars
    BY <2>1 DEF DecideInv, Deciding, vars, store, api
  <2>. QED  BY <2>1, DecideStep
<1>6. Calm => Undisturbed
  BY DEF Calm
<1>. QED
  BY Typing, LifeInit, <1>1, <1>2, <1>3, <1>4, <1>5, <1>6, PTL
  DEF Spec, ImplementsLifecycle, Lifecycle!Spec

-----------------------------------------------------------------------------
(* No job is over while its run waits for a human.                         *)

\* Every job is about an incident of its own, and no run of the incident is
\* made outside the job; its row may be decided by anyone at any time.
Apart ==
    /\ "run" \notin Requests
    /\ \A j, l \in Jobs : IncidentOf[j] = IncidentOf[l] => j = l

Approval(j) == approval[IncidentOf[j]]

Decided == {"approved", "rejected"}

\* The row belongs to the job's tenant, so whoever decides the job sees it,
\* and what is written to the job's row goes with what its run says.
Agrees(j) ==
    /\ Approval(j) # "absent" => owner[IncidentOf[j]] = TenantOf[j]
    /\ status[j] = "completed" => Approval(j) \in Decided \cup {"not_required"}
    /\ status[j] = "failed" => Approval(j) \in Decided
    /\ \A w \in Workers : job[w] = j /\ pc[w] = "complete" =>
          Approval(j) \in Decided \cup {"not_required"}
    /\ \A h \in Handlers : hjob[h] = j =>
          /\ hpc[h] \in {"approve", "reject"} => Approval(j) # "absent"
          /\ hpc[h] \in {"complete", "fail"} => Approval(j) \in Decided

LEMMA AgreesStep ==
    ASSUME TypeInv, Apart, Undisturbed, Undisturbed', LifeInv, SavedInv, NEW b \in Jobs,
           Agrees(b), Next
    PROVE  Agrees(b)'
<1>. USE JobsAssumption, Shapes, Tables, Rows
     DEF Apart, Agrees, Approval, Decided, Deciding, Decidable, LifeInv, Quiet, MyJob, MyLock, Step, GoTo,
         HandlerGoTo, store, runs, redis, locals, worker, api, budget
<1>1. ASSUME NEW w \in Workers, PromoteNone(w) PROVE Agrees(b)'
  BY <1>1 DEF PromoteNone
<1>2. ASSUME NEW w \in Workers, PromotePop(w) PROVE Agrees(b)'
  BY <1>2 DEF PromotePop
<1>3. ASSUME NEW w \in Workers, PromoteDue(w) PROVE Agrees(b)'
  BY <1>3 DEF PromoteDue
<1>4. ASSUME NEW w \in Workers, PromoteNotDue(w) PROVE Agrees(b)'
  BY <1>4 DEF PromoteNotDue
<1>5. ASSUME NEW w \in Workers, PopTimeout(w) PROVE Agrees(b)'
  BY <1>5 DEF PopTimeout
<1>6. ASSUME NEW w \in Workers, PopJob(w) PROVE Agrees(b)'
  BY <1>6 DEF PopJob
<1>7. ASSUME NEW w \in Workers, SkipJob(w) PROVE Agrees(b)'
  BY <1>7 DEF SkipJob, LeaveJob
<1>8. ASSUME NEW w \in Workers, LoadJob(w) PROVE Agrees(b)'
  BY <1>8 DEF LoadJob
<1>9. ASSUME NEW w \in Workers, ReadCheckpoint(w) PROVE Agrees(b)'
  BY <1>9 DEF ReadCheckpoint
<1>10. ASSUME NEW w \in Workers, AcquireRunLock(w) PROVE Agrees(b)'
  BY <1>10 DEF AcquireRunLock
<1>11. ASSUME NEW w \in Workers, LockUnavailable(w) PROVE Agrees(b)'
  BY <1>11 DEF LockUnavailable
<1>12. ASSUME NEW w \in Workers, MarkPostponed(w) PROVE Agrees(b)'
  BY <1>12 DEF MarkPostponed, SetStatus
<1>13. ASSUME NEW w \in Workers, SchedulePostponed(w) PROVE Agrees(b)'
  BY <1>13 DEF SchedulePostponed, LeaveJob
<1>14. ASSUME NEW w \in Workers, ReadAttempts(w) PROVE Agrees(b)'
  BY <1>14 DEF ReadAttempts
<1>15. ASSUME NEW w \in Workers, MarkRunning(w) PROVE Agrees(b)'
  BY <1>15 DEF MarkRunning, SetStatus
<1>16. ASSUME NEW w \in Workers, ReadRunning(w) PROVE Agrees(b)'
  BY <1>16 DEF ReadRunning
<1>17. ASSUME NEW w \in Workers, RunWorkflow(w) PROVE Agrees(b)'
  BY <1>17 DEF RunWorkflow, RunOutcomes
<1>18. ASSUME NEW w \in Workers, SaveRun(w) PROVE Agrees(b)'
  <2>1. /\ job[w] \in Jobs /\ status[job[w]] = "running"
        /\ \A h \in Handlers :
              hjob[h] = job[w] => hpc[h] \notin {"approve", "reject", "complete", "fail"}
    BY <1>18 DEF SaveRun, PlaceFits, HoldingPoints, RunningPoints
  <2>2. AfterSave(work[w], att[w]) = "complete" => ApprovalOnSave(work[w]) = "not_required"
    BY DEF AfterSave, ApprovalOnSave, PendingHumanInput
  <2>3. \A v \in Workers : job[v] = job[w] /\ pc[v] = "complete" => v = w
    BY <1>18, <2>1 DEF SaveRun, OnePlace, Holds, HoldingPoints, RunningPoints
  <2>4. /\ GoTo(w, AfterSave(work[w], att[w])) /\ UNCHANGED <<job, hpc, hjob, status>>
        /\ approval' = [approval EXCEPT ![IncidentOf[job[w]]] = ApprovalOnSave(work[w])]
        /\ owner' = [owner EXCEPT ![IncidentOf[job[w]]] = TenantOf[job[w]]]
    BY <1>18, CallAnswers DEF SaveRun, InsertRun
  <2>5. CASE b = job[w]
    BY <2>1, <2>2, <2>3, <2>4, <2>5
  <2>6. CASE b # job[w]
    <3>1. approval[IncidentOf[b]]' = approval[IncidentOf[b]]
          /\ owner[IncidentOf[b]]' = owner[IncidentOf[b]]
      BY <2>1, <2>4, <2>6
    <3>. QED  BY <2>4, <2>6, <3>1
  <2>. QED  BY <2>5, <2>6
<1>19. ASSUME NEW w \in Workers, MarkAwaitingHuman(w) PROVE Agrees(b)'
  BY <1>19, CallAnswers DEF MarkAwaitingHuman, SetStatus
<1>20. ASSUME NEW w \in Workers, MarkCompleted(w) PROVE Agrees(b)'
  BY <1>20, CallAnswers DEF MarkCompleted, SetStatus
<1>21. ASSUME NEW w \in Workers, SaveCheckpoint(w) PROVE Agrees(b)'
  BY <1>21, CallAnswers DEF SaveCheckpoint
<1>22. ASSUME NEW w \in Workers, MarkRetryScheduled(w) PROVE Agrees(b)'
  BY <1>22, CallAnswers DEF MarkRetryScheduled, SetStatus
<1>23. ASSUME NEW w \in Workers, ScheduleRetry(w) PROVE Agrees(b)'
  BY <1>23, CallAnswers DEF ScheduleRetry
<1>24. ASSUME NEW w \in Workers, MarkDeadLetter(w) PROVE Agrees(b)'
  BY <1>24, CallAnswers DEF MarkDeadLetter, SetStatus
<1>25. ASSUME NEW w \in Workers, PushDeadLetter(w) PROVE Agrees(b)'
  BY <1>25, CallAnswers DEF PushDeadLetter
<1>26. ASSUME NEW w \in Workers, HandleException(w) PROVE Agrees(b)'
  BY <1>26 DEF HandleException
<1>27. ASSUME NEW w \in Workers, TokenMatches(w) PROVE Agrees(b)'
  BY <1>27 DEF TokenMatches
<1>28. ASSUME NEW w \in Workers, TokenDiffers(w) PROVE Agrees(b)'
  BY <1>28 DEF TokenDiffers, LeaveJob
<1>29. ASSUME NEW w \in Workers, DeleteLock(w) PROVE Agrees(b)'
  BY <1>29 DEF DeleteLock, LeaveJob
<1>30. ASSUME NEW w \in Workers, CallFails(w) PROVE Agrees(b)'
  BY <1>30, CallAnswers
<1>31. ASSUME NEW w \in Workers, HandlerFails(w) PROVE Agrees(b)'
  BY <1>31 DEF HandlerFails, HandlingPoints
<1>32. ASSUME NEW w \in Workers, Crash(w) PROVE Agrees(b)'
  BY <1>32 DEF Crash
<1>33. ASSUME NEW w \in Workers, Restart(w) PROVE Agrees(b)'
  BY <1>33 DEF Restart
<1>34. ASSUME NEW h \in Handlers, NEW j \in Jobs, SubmitCreate(h, j)
         PROVE  Agrees(b)'
  BY <1>34 DEF SubmitCreate, SetStatus, Begin
<1>35. ASSUME NEW h \in Handlers, NEW j \in Jobs, RecoverRead(h, j)
         PROVE  Agrees(b)'
  BY <1>35 DEF RecoverRead, Begin
<1>36. ASSUME NEW h \in Handlers, NEW j \in Jobs, DecideRead(h, j)
         PROVE  Agrees(b)'
  BY <1>36 DEF DecideRead, Begin, SavedInv
<1>37. ASSUME NEW h \in Handlers, Enqueue(h) PROVE Agrees(b)'
  BY <1>37 DEF Enqueue, Respond
<1>38. ASSUME NEW h \in Handlers, RecoverReadCheckpoint(h) PROVE Agrees(b)'
  BY <1>38 DEF RecoverReadCheckpoint
<1>39. ASSUME NEW h \in Handlers, MarkRecovering(h) PROVE Agrees(b)'
  BY <1>39 DEF MarkRecovering, SetStatus
<1>40. ASSUME NEW h \in Handlers, RecordApproval(h) PROVE Agrees(b)'
  <2>1. PICK t \in Deciders(hjob[h]) :
            UpdateApproval(t, IncidentOf[hjob[h]], "approved")
    BY <1>40 DEF RecordApproval
  <2>2. hjob[h] = b => Sees(t, IncidentOf[b])
    BY <1>40, <2>1 DEF RecordApproval, Deciders, Sees
  <2>. QED  BY <1>40, <2>1, <2>2 DEF RecordApproval, UpdateApproval
<1>41. ASSUME NEW h \in Handlers, RecordRejection(h) PROVE Agrees(b)'
  <2>1. PICK t \in Deciders(hjob[h]) :
            UpdateApproval(t, IncidentOf[hjob[h]], "rejected")
    BY <1>41 DEF RecordRejection
  <2>2. hjob[h] = b => Sees(t, IncidentOf[b])
    BY <1>41, <2>1 DEF RecordRejection, Deciders, Sees
  <2>. QED  BY <1>41, <2>1, <2>2 DEF RecordRejection, UpdateApproval
<1>42. ASSUME NEW h \in Handlers, CompleteApproved(h) PROVE Agrees(b)'
  BY <1>42 DEF CompleteApproved, SetStatus, Respond
<1>43. ASSUME NEW h \in Handlers, FailRejected(h) PROVE Agrees(b)'
  BY <1>43 DEF FailRejected, SetStatus, Respond
<1>44. ASSUME NEW h \in Handlers, HandlerCrash(h) PROVE Agrees(b)'
  BY <1>44 DEF HandlerCrash, Respond
<1>45. ASSUME NEW i \in Incidents, LockExpires(i) PROVE Agrees(b)'
  BY <1>45 DEF LockExpires
<1>46. ASSUME NEW i \in Incidents, DecideIncident(i) PROVE Agrees(b)'
  <2>1. PICK t \in Scopes, d \in Decided : UpdateApproval(t, i, d)
    BY <1>46 DEF DecideIncident
  <2>2. /\ UNCHANGED <<status, job, pc, hpc, hjob, owner>>
        /\ approval[i] = "absent" => approval' = approval
        /\ approval' = approval \/ approval' = [approval EXCEPT ![i] = d]
    BY <1>46, <2>1 DEF DecideIncident, UpdateApproval, Sees
  <2>3. \/ Approval(b)' = Approval(b)
        \/ Approval(b) # "absent" /\ Approval(b)' \in Decided
    BY <2>1, <2>2
  <2>. QED  BY <2>2, <2>3
<1>47. ASSUME NEW i \in Incidents, RunIncident(i) PROVE Agrees(b)'
  BY <1>47 DEF RunIncident
<1>. QED
  BY <1>1, <1>2, <1>3, <1>4, <1>5, <1>6, <1>7, <1>8, <1>9, <1>10, <1>11, <1>12,
      <1>13, <1>14, <1>15, <1>16, <1>17, <1>18, <1>19, <1>20, <1>21, <1>22,
      <1>23, <1>24, <1>25, <1>26, <1>27, <1>28, <1>29, <1>30, <1>31, <1>32,
      <1>33, <1>34, <1>35, <1>36, <1>37, <1>38, <1>39, <1>40, <1>41, <1>42,
      <1>43, <1>44, <1>45, <1>46, <1>47
   DEF Next, WorkerStep, QueueStep,
      BeforeLock, TryBlock, AfterTry, WorkerTrouble, NewRequest, HandlerStep

\* No job is over while its run still waits for the human it asked for
\* (job_worker.py:60-77, routes.py:557-580, 668-718), when the requests of one
\* incident come from one job, no call raises and nobody forces a recovery:
\* any number of humans may decide the job, or its run alone, at the same
\* time and against each other, locks may expire under their holders, and
\* processes may die between the write of the row and that of the job.
THEOREM DecisionsAreRecorded ==
    Apart => (Spec /\ []Undisturbed => []DecisionsRecorded)
<1>. SUFFICES ASSUME Apart PROVE Spec /\ []Undisturbed => []DecisionsRecorded
  OBVIOUS
<1>. DEFINE AgreeInv == \A j \in Jobs : Agrees(j)
<1>1. Init => AgreeInv
  BY JobsAssumption DEF Init, Agrees, Approval
<1>2. TypeInv /\ Undisturbed /\ Undisturbed' /\ LifeInv /\ SavedInv /\ AgreeInv
        /\ [Next]_vars => AgreeInv'
  <2>1. CASE UNCHANGED vars
    BY <2>1 DEF Agrees, Approval, vars, store, runs, worker, locals, api
  <2>. QED  BY <2>1, AgreesStep
<1>3. AgreeInv => DecisionsRecorded
  BY DEF Agrees, Approval, Decided, DecisionsRecorded
<1>4. TypeInv /\ Undisturbed /\ Undisturbed' /\ LifeInv /\ [Next]_vars => LifeInv'
  BY LifeStep
<1>. QED
  BY Typing, Saving, LifeInit, <1>1, <1>2, <1>3, <1>4, PTL DEF Spec

=============================================================================
