------------------------ MODULE WorkflowJobs_proofs ------------------------
(***************************************************************************)
(* Proofs about WorkflowJobs, for every number of jobs, incidents, workers *)
(* and concurrent requests, every retry limit and every bound on faults,   *)
(* deaths and recoveries.  Each invariant has one step per action.         *)
(***************************************************************************)
EXTENDS WorkflowJobs, FiniteSetTheorems, TLAPS

-----------------------------------------------------------------------------
(* Facts about the operators the actions are built from.                   *)

LEMMA FreshCheckpoint == Fresh \in Checkpoints
BY BoundsAssumption DEF Fresh, Checkpoints

LEMMA AppendType ==
    ASSUME NEW S, NEW q \in Seq(S), NEW x \in S
    PROVE  Append(q, x) \in Seq(S)
OBVIOUS

LEMMA AfterSavePoint ==
    ASSUME NEW t, NEW a
    PROVE  AfterSave(t, a) \in {"await", "checkpoint", "dead", "complete"}
BY DEF AfterSave

\* A worker anywhere in process_job has a job, and so does a busy handler.
LEMMA HasJob ==
    ASSUME TypeInv
    PROVE  /\ \A w \in Workers : pc[w] \in LockedPoints => job[w] \in Jobs
           /\ \A h \in Handlers : hpc[h] # "idle" => hjob[h] \in Jobs
BY DEF TypeInv, InHand, LoopPoints, LockedPoints, TryPoints, ReleasePoints

\* A call of the try block keeps the worker inside the lock, whether it
\* answers or raises.
LEMMA AnsweredType ==
    ASSUME TypeInv, NEW w \in Workers, NEW p \in LockedPoints, Answered(w, p),
           pc[w] \in LockedPoints, att' \in [Workers -> Nat]
    PROVE  WorkerTypeOK' /\ ApiTypeOK' /\ BudgetTypeOK' /\ InHand'
<1>1. UNCHANGED <<job, work, hpc, hjob, hckpt, crashes, recoveries>>
  BY DEF Answered, api
<1>2. job[w] \in Jobs
  BY HasJob
<1>. USE DEF TypeInv, TypeOK, WorkerTypeOK, ApiTypeOK, BudgetTypeOK, InHand,
             GoTo, WorkerPoints
<1>3. CASE GoTo(w, p) /\ UNCHANGED <<mode, faults>>
  BY <1>1, <1>2, <1>3
<1>4. CASE Raise(w)
  BY <1>1, <1>2, <1>4, BoundsAssumption DEF Raise, LockedPoints
<1>. QED BY <1>3, <1>4 DEF Answered

-----------------------------------------------------------------------------
(* Type correctness.                                                       *)

LEMMA TypeInit == Init => TypeInv
BY BoundsAssumption, FreshCheckpoint
DEF Init, TypeInv, TypeOK, StoreTypeOK, Scopes, RedisTypeOK, WorkerTypeOK, ApiTypeOK,
    BudgetTypeOK, InHand, WorkerPoints, LoopPoints, HandlerPoints

LEMMA TypeStep == ASSUME TypeInv, Next PROVE TypeInv'
<1>. USE JobsAssumption, LockAssumption, BoundsAssumption, FreshCheckpoint
     DEF TypeInv, TypeOK, StoreTypeOK, RedisTypeOK, WorkerTypeOK, ApiTypeOK,
         BudgetTypeOK, InHand, JobStatuses, ApprovalStatuses, WorkerPoints,
         LockedPoints, UnlockedPoints, LoopPoints, TryPoints, ReleasePoints,
         HandlerPoints, GoTo, Step, MyJob, MyLock,
         HandlerGoTo, Scopes,
         store, runs, redis, locals, worker, api, budget
<1>1. ASSUME NEW w \in Workers, PromoteNone(w) PROVE TypeInv'
  BY <1>1 DEF PromoteNone
<1>2. ASSUME NEW w \in Workers, PromotePop(w) PROVE TypeInv'
  BY <1>2 DEF PromotePop
<1>3. ASSUME NEW w \in Workers, PromoteDue(w) PROVE TypeInv'
  BY <1>3, AppendType DEF PromoteDue
<1>4. ASSUME NEW w \in Workers, PromoteNotDue(w) PROVE TypeInv'
  BY <1>4 DEF PromoteNotDue
<1>5. ASSUME NEW w \in Workers, PopTimeout(w) PROVE TypeInv'
  BY <1>5 DEF PopTimeout
<1>6. ASSUME NEW w \in Workers, PopJob(w) PROVE TypeInv'
  BY <1>6 DEF PopJob
<1>7. ASSUME NEW w \in Workers, SkipJob(w) PROVE TypeInv'
  BY <1>7 DEF SkipJob, LeaveJob
<1>8. ASSUME NEW w \in Workers, LoadJob(w) PROVE TypeInv'
  BY <1>8 DEF LoadJob
<1>9. ASSUME NEW w \in Workers, ReadCheckpoint(w) PROVE TypeInv'
  BY <1>9 DEF ReadCheckpoint
<1>10. ASSUME NEW w \in Workers, AcquireRunLock(w) PROVE TypeInv'
  BY <1>10 DEF AcquireRunLock
<1>11. ASSUME NEW w \in Workers, LockUnavailable(w) PROVE TypeInv'
  BY <1>11 DEF LockUnavailable
<1>12. ASSUME NEW w \in Workers, MarkPostponed(w) PROVE TypeInv'
  BY <1>12 DEF MarkPostponed, SetStatus
<1>13. ASSUME NEW w \in Workers, SchedulePostponed(w) PROVE TypeInv'
  BY <1>13 DEF SchedulePostponed, LeaveJob
<1>14. ASSUME NEW w \in Workers, ReadAttempts(w) PROVE TypeInv'
  BY <1>14 DEF ReadAttempts
<1>15. ASSUME NEW w \in Workers, MarkRunning(w) PROVE TypeInv'
  <2>1. att[w] + 1 \in Nat
    OBVIOUS
  <2>2. attempts' \in [Jobs -> Nat]
    BY <1>15, <2>1 DEF MarkRunning
  <2>. QED BY <1>15, <2>2 DEF MarkRunning, SetStatus
<1>16. ASSUME NEW w \in Workers, ReadRunning(w) PROVE TypeInv'
  BY <1>16 DEF ReadRunning
<1>17. ASSUME NEW w \in Workers, RunWorkflow(w) PROVE TypeInv'
  BY <1>17 DEF RunWorkflow, RunOutcomes
<1>18. ASSUME NEW w \in Workers, SaveRun(w) PROVE TypeInv'
  <2>1. Answered(w, AfterSave(work[w], att[w])) /\ pc[w] \in LockedPoints
    BY <1>18 DEF SaveRun
  <2>2. AfterSave(work[w], att[w]) \in LockedPoints
    BY AfterSavePoint
  <2>3. StoreTypeOK' /\ RedisTypeOK' /\ att' \in [Workers -> Nat]
    BY <1>18 DEF SaveRun, InsertRun, ApprovalOnSave
  <2>. QED BY ONLY TypeInv, <2>1, <2>2, <2>3, AnsweredType
           DEF TypeInv, TypeOK
<1>19. ASSUME NEW w \in Workers, MarkAwaitingHuman(w) PROVE TypeInv'
  <2>1. Answered(w, "release") /\ pc[w] \in LockedPoints
    BY <1>19 DEF MarkAwaitingHuman
  <2>2. "release" \in LockedPoints
    OBVIOUS
  <2>3. StoreTypeOK' /\ RedisTypeOK' /\ att' \in [Workers -> Nat]
    BY <1>19 DEF MarkAwaitingHuman, SetStatus
  <2>. QED BY ONLY TypeInv, <2>1, <2>2, <2>3, AnsweredType
           DEF TypeInv, TypeOK
<1>20. ASSUME NEW w \in Workers, MarkCompleted(w) PROVE TypeInv'
  <2>1. Answered(w, "release") /\ pc[w] \in LockedPoints
    BY <1>20 DEF MarkCompleted
  <2>2. "release" \in LockedPoints
    OBVIOUS
  <2>3. StoreTypeOK' /\ RedisTypeOK' /\ att' \in [Workers -> Nat]
    BY <1>20 DEF MarkCompleted, SetStatus
  <2>. QED BY ONLY TypeInv, <2>1, <2>2, <2>3, AnsweredType
           DEF TypeInv, TypeOK
<1>21. ASSUME NEW w \in Workers, SaveCheckpoint(w) PROVE TypeInv'
  <2>1. Answered(w, "retry") /\ pc[w] \in LockedPoints
    BY <1>21 DEF SaveCheckpoint
  <2>2. "retry" \in LockedPoints
    OBVIOUS
  <2>3. StoreTypeOK' /\ RedisTypeOK' /\ att' \in [Workers -> Nat]
    BY <1>21 DEF SaveCheckpoint
  <2>. QED BY ONLY TypeInv, <2>1, <2>2, <2>3, AnsweredType
           DEF TypeInv, TypeOK
<1>22. ASSUME NEW w \in Workers, MarkRetryScheduled(w) PROVE TypeInv'
  <2>1. Answered(w, "schedule") /\ pc[w] \in LockedPoints
    BY <1>22 DEF MarkRetryScheduled
  <2>2. "schedule" \in LockedPoints
    OBVIOUS
  <2>3. StoreTypeOK' /\ RedisTypeOK' /\ att' \in [Workers -> Nat]
    BY <1>22 DEF MarkRetryScheduled, SetStatus
  <2>. QED BY ONLY TypeInv, <2>1, <2>2, <2>3, AnsweredType
           DEF TypeInv, TypeOK
<1>23. ASSUME NEW w \in Workers, ScheduleRetry(w) PROVE TypeInv'
  <2>1. Answered(w, "release") /\ pc[w] \in LockedPoints
    BY <1>23 DEF ScheduleRetry
  <2>2. "release" \in LockedPoints
    OBVIOUS
  <2>3. StoreTypeOK' /\ RedisTypeOK' /\ att' \in [Workers -> Nat]
    BY <1>23 DEF ScheduleRetry
  <2>. QED BY ONLY TypeInv, <2>1, <2>2, <2>3, AnsweredType
           DEF TypeInv, TypeOK
<1>24. ASSUME NEW w \in Workers, MarkDeadLetter(w) PROVE TypeInv'
  <2>1. Answered(w, "push") /\ pc[w] \in LockedPoints
    BY <1>24 DEF MarkDeadLetter
  <2>2. "push" \in LockedPoints
    OBVIOUS
  <2>3. StoreTypeOK' /\ RedisTypeOK' /\ att' \in [Workers -> Nat]
    BY <1>24 DEF MarkDeadLetter, SetStatus
  <2>. QED BY ONLY TypeInv, <2>1, <2>2, <2>3, AnsweredType
           DEF TypeInv, TypeOK
<1>25. ASSUME NEW w \in Workers, PushDeadLetter(w) PROVE TypeInv'
  <2>1. Answered(w, "release") /\ pc[w] \in LockedPoints
    BY <1>25 DEF PushDeadLetter
  <2>2. "release" \in LockedPoints
    OBVIOUS
  <2>3. StoreTypeOK' /\ RedisTypeOK' /\ att' \in [Workers -> Nat]
    BY <1>25, AppendType DEF PushDeadLetter
  <2>. QED BY ONLY TypeInv, <2>1, <2>2, <2>3, AnsweredType
           DEF TypeInv, TypeOK
<1>26. ASSUME NEW w \in Workers, HandleException(w) PROVE TypeInv'
  BY <1>26 DEF HandleException
<1>27. ASSUME NEW w \in Workers, TokenMatches(w) PROVE TypeInv'
  BY <1>27 DEF TokenMatches
<1>28. ASSUME NEW w \in Workers, TokenDiffers(w) PROVE TypeInv'
  BY <1>28 DEF TokenDiffers, LeaveJob
<1>29. ASSUME NEW w \in Workers, DeleteLock(w) PROVE TypeInv'
  BY <1>29 DEF DeleteLock, LeaveJob
<1>30. ASSUME NEW w \in Workers, CallFails(w) PROVE TypeInv'
  BY <1>30 DEF CallFails, Raise
<1>31. ASSUME NEW w \in Workers, HandlerFails(w) PROVE TypeInv'
  BY <1>31 DEF HandlerFails, HandlingPoints
<1>32. ASSUME NEW w \in Workers, Crash(w) PROVE TypeInv'
  BY <1>32 DEF Crash
<1>33. ASSUME NEW w \in Workers, Restart(w) PROVE TypeInv'
  BY <1>33 DEF Restart
<1>34. ASSUME NEW h \in Handlers, NEW j \in Jobs, SubmitCreate(h, j)
         PROVE TypeInv'
  BY <1>34 DEF SubmitCreate, SetStatus, Begin
<1>35. ASSUME NEW h \in Handlers, NEW j \in Jobs, RecoverRead(h, j)
         PROVE TypeInv'
  BY <1>35 DEF RecoverRead, Begin
<1>36. ASSUME NEW h \in Handlers, NEW j \in Jobs, DecideRead(h, j)
         PROVE TypeInv'
  BY <1>36 DEF DecideRead, Begin
<1>37. ASSUME NEW h \in Handlers, Enqueue(h) PROVE TypeInv'
  BY <1>37, AppendType DEF Enqueue, Respond
<1>38. ASSUME NEW h \in Handlers, RecoverReadCheckpoint(h) PROVE TypeInv'
  BY <1>38 DEF RecoverReadCheckpoint
<1>39. ASSUME NEW h \in Handlers, MarkRecovering(h) PROVE TypeInv'
  BY <1>39 DEF MarkRecovering, SetStatus
<1>40. ASSUME NEW h \in Handlers, RecordApproval(h) PROVE TypeInv'
  BY <1>40 DEF RecordApproval, UpdateApproval, Sees
<1>41. ASSUME NEW h \in Handlers, RecordRejection(h) PROVE TypeInv'
  BY <1>41 DEF RecordRejection, UpdateApproval, Sees
<1>42. ASSUME NEW h \in Handlers, CompleteApproved(h) PROVE TypeInv'
  BY <1>42 DEF CompleteApproved, SetStatus, Respond
<1>43. ASSUME NEW h \in Handlers, FailRejected(h) PROVE TypeInv'
  BY <1>43 DEF FailRejected, SetStatus, Respond
<1>44. ASSUME NEW h \in Handlers, HandlerCrash(h) PROVE TypeInv'
  BY <1>44 DEF HandlerCrash, Respond
<1>45. ASSUME NEW i \in Incidents, LockExpires(i) PROVE TypeInv'
  BY <1>45 DEF LockExpires
<1>46. ASSUME NEW i \in Incidents, DecideIncident(i) PROVE TypeInv'
  BY <1>46 DEF DecideIncident, UpdateApproval, Sees
<1>47. ASSUME NEW i \in Incidents, RunIncident(i) PROVE TypeInv'
  BY <1>47 DEF RunIncident, RunOutcomes, InsertRun, ApprovalOnSave
<1>. QED
  BY <1>1, <1>2, <1>3, <1>4, <1>5, <1>6, <1>7, <1>8, <1>9, <1>10, <1>11, <1>12,
      <1>13, <1>14, <1>15, <1>16, <1>17, <1>18, <1>19, <1>20, <1>21, <1>22,
      <1>23, <1>24, <1>25, <1>26, <1>27, <1>28, <1>29, <1>30, <1>31, <1>32,
      <1>33, <1>34, <1>35, <1>36, <1>37, <1>38, <1>39, <1>40, <1>41, <1>42,
      <1>43, <1>44, <1>45, <1>46, <1>47
   DEF Next, WorkerStep, QueueStep,
      BeforeLock, TryBlock, AfterTry, WorkerTrouble, NewRequest, HandlerStep

LEMMA TypeStutter == TypeInv /\ UNCHANGED vars => TypeInv'
BY DEF TypeInv, TypeOK, StoreTypeOK, RedisTypeOK, WorkerTypeOK, ApiTypeOK,
       BudgetTypeOK, InHand, vars, store, runs, redis, locals, worker, api, budget

LEMMA Typing == Spec => []TypeInv
<1>1. TypeInv /\ [Next]_vars => TypeInv'
  BY TypeStep, TypeStutter
<1>. QED BY TypeInit, <1>1, PTL DEF Spec

\* Every variable keeps its type: a worker inside process_job always has a
\* job in hand and the Redis lists hold nothing but job ids.
THEOREM TypeCorrect == Spec => []TypeOK
BY Typing, PTL DEF TypeInv

-----------------------------------------------------------------------------
(* Mutual exclusion of the runs of an incident.                            *)

\* The facts of the type invariant the later proofs need.
LEMMA Shapes ==
    ASSUME TypeInv
    PROVE  /\ pc \in [Workers -> WorkerPoints] /\ DOMAIN job = Workers
           /\ DOMAIN hpc = Handlers /\ DOMAIN hjob = Handlers
           /\ DOMAIN lock = Incidents /\ DOMAIN pc = Workers
           /\ \A w \in Workers :
                pc[w] \in LockedPoints => MyLock(w) \in Incidents
BY HasJob, JobsAssumption
DEF TypeInv, TypeOK, WorkerTypeOK, ApiTypeOK, RedisTypeOK, MyLock

LEMMA LockStep ==
    ASSUME TypeInv, LockInv, RunsFitTTL, Next PROVE LockInv'
<1>. USE LockAssumption, Shapes, HasJob
     DEF LockInv, MyLock, MyJob, GoTo, Step, LockedPoints, TryPoints,
         ReleasePoints,
         WorkerPoints, store, runs, redis, locals, worker, api, budget
<1>1. ASSUME NEW w \in Workers, PromoteNone(w) PROVE LockInv'
  BY <1>1 DEF PromoteNone
<1>2. ASSUME NEW w \in Workers, PromotePop(w) PROVE LockInv'
  BY <1>2 DEF PromotePop
<1>3. ASSUME NEW w \in Workers, PromoteDue(w) PROVE LockInv'
  BY <1>3 DEF PromoteDue
<1>4. ASSUME NEW w \in Workers, PromoteNotDue(w) PROVE LockInv'
  BY <1>4 DEF PromoteNotDue
<1>5. ASSUME NEW w \in Workers, PopTimeout(w) PROVE LockInv'
  BY <1>5 DEF PopTimeout
<1>6. ASSUME NEW w \in Workers, PopJob(w) PROVE LockInv'
  BY <1>6 DEF PopJob
<1>7. ASSUME NEW w \in Workers, SkipJob(w) PROVE LockInv'
  BY <1>7 DEF SkipJob, LeaveJob
<1>8. ASSUME NEW w \in Workers, LoadJob(w) PROVE LockInv'
  BY <1>8 DEF LoadJob
<1>9. ASSUME NEW w \in Workers, ReadCheckpoint(w) PROVE LockInv'
  BY <1>9 DEF ReadCheckpoint
<1>10. ASSUME NEW w \in Workers, AcquireRunLock(w) PROVE LockInv'
  <2>1. MyLock(w) \in Incidents
    BY <1>10, JobsAssumption DEF AcquireRunLock, TypeInv, InHand, LoopPoints
  <2>. QED BY <1>10, <2>1 DEF AcquireRunLock
<1>11. ASSUME NEW w \in Workers, LockUnavailable(w) PROVE LockInv'
  BY <1>11 DEF LockUnavailable
<1>12. ASSUME NEW w \in Workers, MarkPostponed(w) PROVE LockInv'
  BY <1>12 DEF MarkPostponed, SetStatus
<1>13. ASSUME NEW w \in Workers, SchedulePostponed(w) PROVE LockInv'
  BY <1>13 DEF SchedulePostponed, LeaveJob
<1>14. ASSUME NEW w \in Workers, ReadAttempts(w) PROVE LockInv'
  BY <1>14 DEF ReadAttempts
<1>15. ASSUME NEW w \in Workers, MarkRunning(w) PROVE LockInv'
  BY <1>15 DEF MarkRunning, SetStatus
<1>16. ASSUME NEW w \in Workers, ReadRunning(w) PROVE LockInv'
  BY <1>16 DEF ReadRunning
<1>17. ASSUME NEW w \in Workers, RunWorkflow(w) PROVE LockInv'
  BY <1>17 DEF RunWorkflow, RunOutcomes
<1>18. ASSUME NEW w \in Workers, SaveRun(w) PROVE LockInv'
  BY <1>18, AfterSavePoint DEF SaveRun, InsertRun, ApprovalOnSave, Answered, Raise
<1>19. ASSUME NEW w \in Workers, MarkAwaitingHuman(w) PROVE LockInv'
  BY <1>19 DEF MarkAwaitingHuman, SetStatus, Answered, Raise
<1>20. ASSUME NEW w \in Workers, MarkCompleted(w) PROVE LockInv'
  BY <1>20 DEF MarkCompleted, SetStatus, Answered, Raise
<1>21. ASSUME NEW w \in Workers, SaveCheckpoint(w) PROVE LockInv'
  BY <1>21 DEF SaveCheckpoint, Answered, Raise
<1>22. ASSUME NEW w \in Workers, MarkRetryScheduled(w) PROVE LockInv'
  BY <1>22 DEF MarkRetryScheduled, SetStatus, Answered, Raise
<1>23. ASSUME NEW w \in Workers, ScheduleRetry(w) PROVE LockInv'
  BY <1>23 DEF ScheduleRetry, Answered, Raise
<1>24. ASSUME NEW w \in Workers, MarkDeadLetter(w) PROVE LockInv'
  BY <1>24 DEF MarkDeadLetter, SetStatus, Answered, Raise
<1>25. ASSUME NEW w \in Workers, PushDeadLetter(w) PROVE LockInv'
  BY <1>25 DEF PushDeadLetter, Answered, Raise
<1>26. ASSUME NEW w \in Workers, HandleException(w) PROVE LockInv'
  BY <1>26 DEF HandleException
<1>27. ASSUME NEW w \in Workers, TokenMatches(w) PROVE LockInv'
  BY <1>27 DEF TokenMatches
<1>28. ASSUME NEW w \in Workers, TokenDiffers(w) PROVE LockInv'
  BY <1>28 DEF TokenDiffers, LeaveJob
<1>29. ASSUME NEW w \in Workers, DeleteLock(w) PROVE LockInv'
  BY <1>29 DEF DeleteLock, LeaveJob
<1>30. ASSUME NEW w \in Workers, CallFails(w) PROVE LockInv'
  BY <1>30 DEF CallFails, Raise
<1>31. ASSUME NEW w \in Workers, HandlerFails(w) PROVE LockInv'
  BY <1>31 DEF HandlerFails, HandlingPoints
<1>32. ASSUME NEW w \in Workers, Crash(w) PROVE LockInv'
  BY <1>32 DEF Crash
<1>33. ASSUME NEW w \in Workers, Restart(w) PROVE LockInv'
  BY <1>33 DEF Restart
<1>34. ASSUME NEW h \in Handlers, NEW j \in Jobs, SubmitCreate(h, j)
         PROVE LockInv'
  BY <1>34 DEF SubmitCreate, SetStatus, Begin
<1>35. ASSUME NEW h \in Handlers, NEW j \in Jobs, RecoverRead(h, j)
         PROVE LockInv'
  BY <1>35 DEF RecoverRead, Begin
<1>36. ASSUME NEW h \in Handlers, NEW j \in Jobs, DecideRead(h, j)
         PROVE LockInv'
  BY <1>36 DEF DecideRead, Begin
<1>37. ASSUME NEW h \in Handlers, Enqueue(h) PROVE LockInv'
  BY <1>37 DEF Enqueue, Respond
<1>38. ASSUME NEW h \in Handlers, RecoverReadCheckpoint(h) PROVE LockInv'
  BY <1>38 DEF RecoverReadCheckpoint
<1>39. ASSUME NEW h \in Handlers, MarkRecovering(h) PROVE LockInv'
  BY <1>39 DEF MarkRecovering, SetStatus
<1>40. ASSUME NEW h \in Handlers, RecordApproval(h) PROVE LockInv'
  BY <1>40 DEF RecordApproval, UpdateApproval, Sees
<1>41. ASSUME NEW h \in Handlers, RecordRejection(h) PROVE LockInv'
  BY <1>41 DEF RecordRejection, UpdateApproval, Sees
<1>42. ASSUME NEW h \in Handlers, CompleteApproved(h) PROVE LockInv'
  BY <1>42 DEF CompleteApproved, SetStatus, Respond
<1>43. ASSUME NEW h \in Handlers, FailRejected(h) PROVE LockInv'
  BY <1>43 DEF FailRejected, SetStatus, Respond
<1>44. ASSUME NEW h \in Handlers, HandlerCrash(h) PROVE LockInv'
  BY <1>44 DEF HandlerCrash, Respond
<1>45. ASSUME NEW i \in Incidents, LockExpires(i) PROVE LockInv'
  BY <1>45 DEF LockExpires
<1>46. ASSUME NEW i \in Incidents, DecideIncident(i) PROVE LockInv'
  BY <1>46 DEF DecideIncident, UpdateApproval, Sees
<1>47. ASSUME NEW i \in Incidents, RunIncident(i) PROVE LockInv'
  BY <1>47 DEF RunIncident, RunOutcomes, InsertRun, ApprovalOnSave
<1>. QED
  BY <1>1, <1>2, <1>3, <1>4, <1>5, <1>6, <1>7, <1>8, <1>9, <1>10, <1>11, <1>12,
      <1>13, <1>14, <1>15, <1>16, <1>17, <1>18, <1>19, <1>20, <1>21, <1>22,
      <1>23, <1>24, <1>25, <1>26, <1>27, <1>28, <1>29, <1>30, <1>31, <1>32,
      <1>33, <1>34, <1>35, <1>36, <1>37, <1>38, <1>39, <1>40, <1>41, <1>42,
      <1>43, <1>44, <1>45, <1>46, <1>47
   DEF Next, WorkerStep, QueueStep,
      BeforeLock, TryBlock, AfterTry, WorkerTrouble, NewRequest, HandlerStep

LEMMA Locking == RunsFitTTL => (Spec => []LockInv)
<1>. SUFFICES ASSUME RunsFitTTL PROVE Spec => []LockInv
  OBVIOUS
<1>1. Init => LockInv
  BY DEF Init, LockInv, LockedPoints, TryPoints, ReleasePoints
<1>2. TypeInv /\ LockInv /\ [Next]_vars => LockInv'
  <2>1. TypeInv /\ LockInv /\ UNCHANGED vars => LockInv'
    BY DEF LockInv, MyLock, vars, redis, worker, locals
  <2>. QED BY <2>1, LockStep
<1>. QED BY Typing, <1>1, <1>2, PTL DEF Spec

\* No two workers run the workflow of one incident at once, whatever dies
\* and whatever expires, provided that a run ends before its lock does.
THEOREM RunLockExcludes == RunsFitTTL => (Spec => []MutualExclusion)
<1>1. LockInv => MutualExclusion
  BY DEF LockInv, MutualExclusion
<1>. QED BY Locking, <1>1, PTL

-----------------------------------------------------------------------------
(* Only exhausted jobs are dead-lettered.                                  *)

LEMMA Counts ==
    ASSUME TypeInv
    PROVE  /\ status \in [Jobs -> JobStatuses \cup {"absent"}]
           /\ attempts \in [Jobs -> Nat]
           /\ att \in [Workers -> Nat]
BY DEF TypeInv, TypeOK, StoreTypeOK, WorkerTypeOK

LEMMA ExhaustStep ==
    ASSUME TypeInv, LockInv, ExhaustInv, Next
    PROVE  ExhaustInv'
<1>. USE BoundsAssumption, Shapes, HasJob, Counts
     DEF ExhaustInv, DeadLetterExhausted, MyJob, GoTo, Step, LockedPoints,
         TryPoints, store, runs, redis, locals, worker, api, budget
<1>1. ASSUME NEW w \in Workers, PromoteNone(w) PROVE ExhaustInv'
  BY <1>1 DEF PromoteNone
<1>2. ASSUME NEW w \in Workers, PromotePop(w) PROVE ExhaustInv'
  BY <1>2 DEF PromotePop
<1>3. ASSUME NEW w \in Workers, PromoteDue(w) PROVE ExhaustInv'
  BY <1>3 DEF PromoteDue
<1>4. ASSUME NEW w \in Workers, PromoteNotDue(w) PROVE ExhaustInv'
  BY <1>4 DEF PromoteNotDue
<1>5. ASSUME NEW w \in Workers, PopTimeout(w) PROVE ExhaustInv'
  BY <1>5 DEF PopTimeout
<1>6. ASSUME NEW w \in Workers, PopJob(w) PROVE ExhaustInv'
  BY <1>6 DEF PopJob
<1>7. ASSUME NEW w \in Workers, SkipJob(w) PROVE ExhaustInv'
  BY <1>7 DEF SkipJob, LeaveJob
<1>8. ASSUME NEW w \in Workers, LoadJob(w) PROVE ExhaustInv'
  BY <1>8 DEF LoadJob
<1>9. ASSUME NEW w \in Workers, ReadCheckpoint(w) PROVE ExhaustInv'
  BY <1>9 DEF ReadCheckpoint
<1>10. ASSUME NEW w \in Workers, AcquireRunLock(w) PROVE ExhaustInv'
  BY <1>10 DEF AcquireRunLock
<1>11. ASSUME NEW w \in Workers, LockUnavailable(w) PROVE ExhaustInv'
  BY <1>11 DEF LockUnavailable
<1>12. ASSUME NEW w \in Workers, MarkPostponed(w) PROVE ExhaustInv'
  BY <1>12 DEF MarkPostponed, SetStatus
<1>13. ASSUME NEW w \in Workers, SchedulePostponed(w) PROVE ExhaustInv'
  BY <1>13 DEF SchedulePostponed, LeaveJob
<1>14. ASSUME NEW w \in Workers, ReadAttempts(w) PROVE ExhaustInv'
  BY <1>14 DEF ReadAttempts
<1>15. ASSUME NEW w \in Workers, MarkRunning(w) PROVE ExhaustInv'
  <2>1. job[w] \in Jobs /\ att[w] = attempts[job[w]]
    BY <1>15 DEF MarkRunning
  <2>2. \A v \in Workers : pc[v] = "mark" /\ job[v] = job[w] => v = w
    BY <1>15, LockAssumption DEF MarkRunning, LockInv, MyLock
  <2>. QED BY <1>15, <2>1, <2>2 DEF MarkRunning, SetStatus
<1>16. ASSUME NEW w \in Workers, ReadRunning(w) PROVE ExhaustInv'
  BY <1>16 DEF ReadRunning
<1>17. ASSUME NEW w \in Workers, RunWorkflow(w) PROVE ExhaustInv'
  BY <1>17 DEF RunWorkflow, RunOutcomes
<1>18. ASSUME NEW w \in Workers, SaveRun(w) PROVE ExhaustInv'
  BY <1>18 DEF SaveRun, AfterSave, InsertRun, ApprovalOnSave, Answered, Raise
<1>19. ASSUME NEW w \in Workers, MarkAwaitingHuman(w) PROVE ExhaustInv'
  BY <1>19 DEF MarkAwaitingHuman, SetStatus, Answered, Raise
<1>20. ASSUME NEW w \in Workers, MarkCompleted(w) PROVE ExhaustInv'
  BY <1>20 DEF MarkCompleted, SetStatus, Answered, Raise
<1>21. ASSUME NEW w \in Workers, SaveCheckpoint(w) PROVE ExhaustInv'
  BY <1>21 DEF SaveCheckpoint, Answered, Raise
<1>22. ASSUME NEW w \in Workers, MarkRetryScheduled(w) PROVE ExhaustInv'
  BY <1>22 DEF MarkRetryScheduled, SetStatus, Answered, Raise
<1>23. ASSUME NEW w \in Workers, ScheduleRetry(w) PROVE ExhaustInv'
  BY <1>23 DEF ScheduleRetry, Answered, Raise
<1>24. ASSUME NEW w \in Workers, MarkDeadLetter(w) PROVE ExhaustInv'
  BY <1>24 DEF MarkDeadLetter, SetStatus, Answered, Raise
<1>25. ASSUME NEW w \in Workers, PushDeadLetter(w) PROVE ExhaustInv'
  BY <1>25 DEF PushDeadLetter, Answered, Raise
<1>26. ASSUME NEW w \in Workers, HandleException(w) PROVE ExhaustInv'
  BY <1>26 DEF HandleException
<1>27. ASSUME NEW w \in Workers, TokenMatches(w) PROVE ExhaustInv'
  BY <1>27 DEF TokenMatches
<1>28. ASSUME NEW w \in Workers, TokenDiffers(w) PROVE ExhaustInv'
  BY <1>28 DEF TokenDiffers, LeaveJob
<1>29. ASSUME NEW w \in Workers, DeleteLock(w) PROVE ExhaustInv'
  BY <1>29 DEF DeleteLock, LeaveJob
<1>30. ASSUME NEW w \in Workers, CallFails(w) PROVE ExhaustInv'
  BY <1>30 DEF CallFails, Raise
<1>31. ASSUME NEW w \in Workers, HandlerFails(w) PROVE ExhaustInv'
  BY <1>31 DEF HandlerFails, HandlingPoints
<1>32. ASSUME NEW w \in Workers, Crash(w) PROVE ExhaustInv'
  BY <1>32 DEF Crash
<1>33. ASSUME NEW w \in Workers, Restart(w) PROVE ExhaustInv'
  BY <1>33 DEF Restart
<1>34. ASSUME NEW h \in Handlers, NEW j \in Jobs, SubmitCreate(h, j)
         PROVE ExhaustInv'
  BY <1>34 DEF SubmitCreate, SetStatus, Begin
<1>35. ASSUME NEW h \in Handlers, NEW j \in Jobs, RecoverRead(h, j)
         PROVE ExhaustInv'
  BY <1>35 DEF RecoverRead, Begin
<1>36. ASSUME NEW h \in Handlers, NEW j \in Jobs, DecideRead(h, j)
         PROVE ExhaustInv'
  BY <1>36 DEF DecideRead, Begin
<1>37. ASSUME NEW h \in Handlers, Enqueue(h) PROVE ExhaustInv'
  BY <1>37 DEF Enqueue, Respond
<1>38. ASSUME NEW h \in Handlers, RecoverReadCheckpoint(h) PROVE ExhaustInv'
  BY <1>38 DEF RecoverReadCheckpoint
<1>39. ASSUME NEW h \in Handlers, MarkRecovering(h) PROVE ExhaustInv'
  BY <1>39 DEF MarkRecovering, SetStatus
<1>40. ASSUME NEW h \in Handlers, RecordApproval(h) PROVE ExhaustInv'
  BY <1>40 DEF RecordApproval, UpdateApproval, Sees
<1>41. ASSUME NEW h \in Handlers, RecordRejection(h) PROVE ExhaustInv'
  BY <1>41 DEF RecordRejection, UpdateApproval, Sees
<1>42. ASSUME NEW h \in Handlers, CompleteApproved(h) PROVE ExhaustInv'
  BY <1>42 DEF CompleteApproved, SetStatus, Respond
<1>43. ASSUME NEW h \in Handlers, FailRejected(h) PROVE ExhaustInv'
  BY <1>43 DEF FailRejected, SetStatus, Respond
<1>44. ASSUME NEW h \in Handlers, HandlerCrash(h) PROVE ExhaustInv'
  BY <1>44 DEF HandlerCrash, Respond
<1>45. ASSUME NEW i \in Incidents, LockExpires(i) PROVE ExhaustInv'
  BY <1>45 DEF LockExpires
<1>46. ASSUME NEW i \in Incidents, DecideIncident(i) PROVE ExhaustInv'
  BY <1>46 DEF DecideIncident, UpdateApproval, Sees
<1>47. ASSUME NEW i \in Incidents, RunIncident(i) PROVE ExhaustInv'
  BY <1>47 DEF RunIncident, RunOutcomes, InsertRun, ApprovalOnSave
<1>. QED
  BY <1>1, <1>2, <1>3, <1>4, <1>5, <1>6, <1>7, <1>8, <1>9, <1>10, <1>11, <1>12,
      <1>13, <1>14, <1>15, <1>16, <1>17, <1>18, <1>19, <1>20, <1>21, <1>22,
      <1>23, <1>24, <1>25, <1>26, <1>27, <1>28, <1>29, <1>30, <1>31, <1>32,
      <1>33, <1>34, <1>35, <1>36, <1>37, <1>38, <1>39, <1>40, <1>41, <1>42,
      <1>43, <1>44, <1>45, <1>46, <1>47
   DEF Next, WorkerStep, QueueStep,
      BeforeLock, TryBlock, AfterTry, WorkerTrouble, NewRequest, HandlerStep

LEMMA Exhausting == RunsFitTTL => (Spec => []ExhaustInv)
<1>. SUFFICES ASSUME RunsFitTTL PROVE Spec => []ExhaustInv
  OBVIOUS
<1>1. Init => ExhaustInv
  BY DEF Init, ExhaustInv, DeadLetterExhausted
<1>2. TypeInv /\ LockInv /\ ExhaustInv /\ [Next]_vars => ExhaustInv'
  <2>1. ExhaustInv /\ UNCHANGED vars => ExhaustInv'
    BY DEF ExhaustInv, DeadLetterExhausted, vars, store, runs, worker, locals
  <2>. QED BY <2>1, ExhaustStep
<1>3. Spec => []LockInv
  BY Locking
<1>. QED BY Typing, <1>1, <1>2, <1>3, PTL DEF Spec

\* A job is dead-lettered only after max_retries runs were counted for it, if
\* a run ends before its lock does: mark_job_running writes a count it has
\* read before (store.py:488-505), and only the run lock keeps two workers
\* with copies of one job from losing an update.  Faults, deaths, resumes
\* and locks of the dead that expire are all allowed.
THEOREM DeadLettersAreExhausted == RunsFitTTL => (Spec => []DeadLetterExhausted)
<1>1. ExhaustInv => DeadLetterExhausted
  BY DEF ExhaustInv
<1>. QED BY Exhausting, <1>1, PTL

-----------------------------------------------------------------------------
(* A job that is over, or waits for a human, has had a run saved.          *)

LEMMA Rows ==
    ASSUME TypeInv
    PROVE  /\ approval \in [Incidents -> ApprovalStatuses \cup {"absent"}]
           /\ owner \in [Incidents -> Scopes]
BY DEF TypeInv, TypeOK, StoreTypeOK

LEMMA SavedStep ==
    ASSUME TypeInv, SavedInv, Next
    PROVE  SavedInv'
<1>. USE JobsAssumption, Shapes, HasJob, Counts, Rows
     DEF SavedInv, MyJob, MyLock, GoTo, Step, HandlerGoTo,
         LockedPoints, TryPoints, store, runs, redis, locals, worker, api, budget
<1>1. ASSUME NEW w \in Workers, PromoteNone(w) PROVE SavedInv'
  BY <1>1 DEF PromoteNone
<1>2. ASSUME NEW w \in Workers, PromotePop(w) PROVE SavedInv'
  BY <1>2 DEF PromotePop
<1>3. ASSUME NEW w \in Workers, PromoteDue(w) PROVE SavedInv'
  BY <1>3 DEF PromoteDue
<1>4. ASSUME NEW w \in Workers, PromoteNotDue(w) PROVE SavedInv'
  BY <1>4 DEF PromoteNotDue
<1>5. ASSUME NEW w \in Workers, PopTimeout(w) PROVE SavedInv'
  BY <1>5 DEF PopTimeout
<1>6. ASSUME NEW w \in Workers, PopJob(w) PROVE SavedInv'
  BY <1>6 DEF PopJob
<1>7. ASSUME NEW w \in Workers, SkipJob(w) PROVE SavedInv'
  BY <1>7 DEF SkipJob, LeaveJob
<1>8. ASSUME NEW w \in Workers, LoadJob(w) PROVE SavedInv'
  BY <1>8 DEF LoadJob
<1>9. ASSUME NEW w \in Workers, ReadCheckpoint(w) PROVE SavedInv'
  BY <1>9 DEF ReadCheckpoint
<1>10. ASSUME NEW w \in Workers, AcquireRunLock(w) PROVE SavedInv'
  BY <1>10 DEF AcquireRunLock
<1>11. ASSUME NEW w \in Workers, LockUnavailable(w) PROVE SavedInv'
  BY <1>11 DEF LockUnavailable
<1>12. ASSUME NEW w \in Workers, MarkPostponed(w) PROVE SavedInv'
  BY <1>12 DEF MarkPostponed, SetStatus
<1>13. ASSUME NEW w \in Workers, SchedulePostponed(w) PROVE SavedInv'
  BY <1>13 DEF SchedulePostponed, LeaveJob
<1>14. ASSUME NEW w \in Workers, ReadAttempts(w) PROVE SavedInv'
  BY <1>14 DEF ReadAttempts
<1>15. ASSUME NEW w \in Workers, MarkRunning(w) PROVE SavedInv'
  BY <1>15 DEF MarkRunning, SetStatus
<1>16. ASSUME NEW w \in Workers, ReadRunning(w) PROVE SavedInv'
  BY <1>16 DEF ReadRunning
<1>17. ASSUME NEW w \in Workers, RunWorkflow(w) PROVE SavedInv'
  BY <1>17 DEF RunWorkflow, RunOutcomes
<1>18. ASSUME NEW w \in Workers, SaveRun(w) PROVE SavedInv'
  BY <1>18 DEF SaveRun, AfterSave, InsertRun, ApprovalOnSave, Answered, Raise
<1>19. ASSUME NEW w \in Workers, MarkAwaitingHuman(w) PROVE SavedInv'
  BY <1>19 DEF MarkAwaitingHuman, SetStatus, Answered, Raise
<1>20. ASSUME NEW w \in Workers, MarkCompleted(w) PROVE SavedInv'
  BY <1>20 DEF MarkCompleted, SetStatus, Answered, Raise
<1>21. ASSUME NEW w \in Workers, SaveCheckpoint(w) PROVE SavedInv'
  BY <1>21 DEF SaveCheckpoint, Answered, Raise
<1>22. ASSUME NEW w \in Workers, MarkRetryScheduled(w) PROVE SavedInv'
  BY <1>22 DEF MarkRetryScheduled, SetStatus, Answered, Raise
<1>23. ASSUME NEW w \in Workers, ScheduleRetry(w) PROVE SavedInv'
  BY <1>23 DEF ScheduleRetry, Answered, Raise
<1>24. ASSUME NEW w \in Workers, MarkDeadLetter(w) PROVE SavedInv'
  BY <1>24 DEF MarkDeadLetter, SetStatus, Answered, Raise
<1>25. ASSUME NEW w \in Workers, PushDeadLetter(w) PROVE SavedInv'
  BY <1>25 DEF PushDeadLetter, Answered, Raise
<1>26. ASSUME NEW w \in Workers, HandleException(w) PROVE SavedInv'
  BY <1>26 DEF HandleException
<1>27. ASSUME NEW w \in Workers, TokenMatches(w) PROVE SavedInv'
  BY <1>27 DEF TokenMatches
<1>28. ASSUME NEW w \in Workers, TokenDiffers(w) PROVE SavedInv'
  BY <1>28 DEF TokenDiffers, LeaveJob
<1>29. ASSUME NEW w \in Workers, DeleteLock(w) PROVE SavedInv'
  BY <1>29 DEF DeleteLock, LeaveJob
<1>30. ASSUME NEW w \in Workers, CallFails(w) PROVE SavedInv'
  BY <1>30 DEF CallFails, Raise
<1>31. ASSUME NEW w \in Workers, HandlerFails(w) PROVE SavedInv'
  BY <1>31 DEF HandlerFails, HandlingPoints
<1>32. ASSUME NEW w \in Workers, Crash(w) PROVE SavedInv'
  BY <1>32 DEF Crash
<1>33. ASSUME NEW w \in Workers, Restart(w) PROVE SavedInv'
  BY <1>33 DEF Restart
<1>34. ASSUME NEW h \in Handlers, NEW j \in Jobs, SubmitCreate(h, j)
         PROVE SavedInv'
  BY <1>34 DEF SubmitCreate, SetStatus, Begin
<1>35. ASSUME NEW h \in Handlers, NEW j \in Jobs, RecoverRead(h, j)
         PROVE SavedInv'
  BY <1>35 DEF RecoverRead, Begin
<1>36. ASSUME NEW h \in Handlers, NEW j \in Jobs, DecideRead(h, j)
         PROVE SavedInv'
  BY <1>36 DEF DecideRead, Begin
<1>37. ASSUME NEW h \in Handlers, Enqueue(h) PROVE SavedInv'
  BY <1>37 DEF Enqueue, Respond
<1>38. ASSUME NEW h \in Handlers, RecoverReadCheckpoint(h) PROVE SavedInv'
  BY <1>38 DEF RecoverReadCheckpoint
<1>39. ASSUME NEW h \in Handlers, MarkRecovering(h) PROVE SavedInv'
  BY <1>39 DEF MarkRecovering, SetStatus
<1>40. ASSUME NEW h \in Handlers, RecordApproval(h) PROVE SavedInv'
  BY <1>40 DEF RecordApproval, UpdateApproval, Sees
<1>41. ASSUME NEW h \in Handlers, RecordRejection(h) PROVE SavedInv'
  BY <1>41 DEF RecordRejection, UpdateApproval, Sees
<1>42. ASSUME NEW h \in Handlers, CompleteApproved(h) PROVE SavedInv'
  BY <1>42 DEF CompleteApproved, SetStatus, Respond
<1>43. ASSUME NEW h \in Handlers, FailRejected(h) PROVE SavedInv'
  BY <1>43 DEF FailRejected, SetStatus, Respond
<1>44. ASSUME NEW h \in Handlers, HandlerCrash(h) PROVE SavedInv'
  BY <1>44 DEF HandlerCrash, Respond
<1>45. ASSUME NEW i \in Incidents, LockExpires(i) PROVE SavedInv'
  BY <1>45 DEF LockExpires
<1>46. ASSUME NEW i \in Incidents, DecideIncident(i) PROVE SavedInv'
  BY <1>46 DEF DecideIncident, UpdateApproval, Sees
<1>47. ASSUME NEW i \in Incidents, RunIncident(i) PROVE SavedInv'
  BY <1>47 DEF RunIncident, RunOutcomes, InsertRun, ApprovalOnSave
<1>. QED
  BY <1>1, <1>2, <1>3, <1>4, <1>5, <1>6, <1>7, <1>8, <1>9, <1>10, <1>11, <1>12,
      <1>13, <1>14, <1>15, <1>16, <1>17, <1>18, <1>19, <1>20, <1>21, <1>22,
      <1>23, <1>24, <1>25, <1>26, <1>27, <1>28, <1>29, <1>30, <1>31, <1>32,
      <1>33, <1>34, <1>35, <1>36, <1>37, <1>38, <1>39, <1>40, <1>41, <1>42,
      <1>43, <1>44, <1>45, <1>46, <1>47
   DEF Next, WorkerStep, QueueStep,
      BeforeLock, TryBlock, AfterTry, WorkerTrouble, NewRequest, HandlerStep

LEMMA Saving == Spec => []SavedInv
<1>1. Init => SavedInv
  BY DEF Init, SavedInv
<1>2. TypeInv /\ SavedInv /\ [Next]_vars => SavedInv'
  <2>1. SavedInv /\ UNCHANGED vars => SavedInv'
    BY DEF SavedInv, MyLock, vars, store, runs, worker, locals, api
  <2>. QED BY <2>1, SavedStep
<1>. QED BY Typing, <1>1, <1>2, PTL DEF Spec

-----------------------------------------------------------------------------
(* A death strands one job at most, and nothing else strands any.          *)

LEMMA QueueSame ==
    ASSUME NEW j \in Jobs, UNCHANGED queue PROVE InQueue(j)' <=> InQueue(j)
BY DEF InQueue

LEMMA QueueAppend ==
    ASSUME NEW j \in Jobs, NEW x \in Jobs, queue \in Seq(Jobs),
           queue' = Append(queue, x)
    PROVE  /\ InQueue(j) => InQueue(j)'
           /\ InQueue(x)'
<1>1. Len(queue) \in Nat /\ Len(queue') = Len(queue) + 1
  OBVIOUS
<1>2. queue'[Len(queue')] = x
  BY <1>1
<1>3. \A k \in 1..Len(queue) : queue'[k] = queue[k]
  BY <1>1
<1>. QED BY <1>1, <1>2, <1>3 DEF InQueue

LEMMA QueueTail ==
    ASSUME NEW j \in Jobs, queue \in Seq(Jobs), queue # <<>>,
           queue' = Tail(queue), InQueue(j), j # Head(queue)
    PROVE  InQueue(j)'
<1>1. Len(queue) \in Nat /\ Len(queue') = Len(queue) - 1
  OBVIOUS
<1>2. PICK k \in 1..Len(queue) : queue[k] = j
  BY DEF InQueue
<1>3. k # 1
  BY <1>2
<1>4. k - 1 \in 1..Len(queue') /\ queue'[k - 1] = j
  BY <1>1, <1>2, <1>3
<1>. QED BY <1>4 DEF InQueue

LEMMA Lists ==
    ASSUME TypeInv
    PROVE  /\ queue \in Seq(Jobs) /\ delayed \subseteq Jobs
           /\ crashes \in Nat
           /\ \A w \in Workers : pc[w] \notin LoopPoints => job[w] \in Jobs
BY BoundsAssumption DEF TypeInv, TypeOK, RedisTypeOK, BudgetTypeOK, InHand

\* As long as nobody dies, a step leaves a job with work left in
\* somebody's hands.
LEMMA StrandStep ==
    ASSUME TypeInv, NEW b \in Jobs, Next, crashes' = crashes,
           status[b] \in ActiveStatuses => Carried(b),
           status'[b] \in ActiveStatuses
    PROVE  Carried(b)'
<1>. USE Shapes, HasJob, Counts, QueueSame, Lists
     DEF ActiveStatuses, Carried, WorkerCarries, HandlerCarries, MyJob, GoTo,
         Step, HandlerGoTo, WorkerPoints, LockedPoints, UnlockedPoints,
         LoopPoints, TryPoints, ReleasePoints, SkippedStatuses,
         store, runs, redis, locals, worker, api, budget
<1>1. ASSUME NEW w \in Workers, PromoteNone(w) PROVE Carried(b)'
  BY <1>1 DEF PromoteNone
<1>2. ASSUME NEW w \in Workers, PromotePop(w) PROVE Carried(b)'
  BY <1>2 DEF PromotePop
<1>3. ASSUME NEW w \in Workers, PromoteDue(w) PROVE Carried(b)'
  BY <1>3, QueueAppend DEF PromoteDue
<1>4. ASSUME NEW w \in Workers, PromoteNotDue(w) PROVE Carried(b)'
  BY <1>4 DEF PromoteNotDue
<1>5. ASSUME NEW w \in Workers, PopTimeout(w) PROVE Carried(b)'
  BY <1>5 DEF PopTimeout
<1>6. ASSUME NEW w \in Workers, PopJob(w) PROVE Carried(b)'
  BY <1>6, QueueTail DEF PopJob
<1>7. ASSUME NEW w \in Workers, SkipJob(w) PROVE Carried(b)'
  BY <1>7 DEF SkipJob, LeaveJob
<1>8. ASSUME NEW w \in Workers, LoadJob(w) PROVE Carried(b)'
  BY <1>8 DEF LoadJob
<1>9. ASSUME NEW w \in Workers, ReadCheckpoint(w) PROVE Carried(b)'
  BY <1>9 DEF ReadCheckpoint
<1>10. ASSUME NEW w \in Workers, AcquireRunLock(w) PROVE Carried(b)'
  BY <1>10 DEF AcquireRunLock
<1>11. ASSUME NEW w \in Workers, LockUnavailable(w) PROVE Carried(b)'
  BY <1>11 DEF LockUnavailable
<1>12. ASSUME NEW w \in Workers, MarkPostponed(w) PROVE Carried(b)'
  BY <1>12 DEF MarkPostponed, SetStatus
<1>13. ASSUME NEW w \in Workers, SchedulePostponed(w) PROVE Carried(b)'
  BY <1>13 DEF SchedulePostponed, LeaveJob
<1>14. ASSUME NEW w \in Workers, ReadAttempts(w) PROVE Carried(b)'
  BY <1>14 DEF ReadAttempts
<1>15. ASSUME NEW w \in Workers, MarkRunning(w) PROVE Carried(b)'
  BY <1>15 DEF MarkRunning, SetStatus
<1>16. ASSUME NEW w \in Workers, ReadRunning(w) PROVE Carried(b)'
  BY <1>16 DEF ReadRunning
<1>17. ASSUME NEW w \in Workers, RunWorkflow(w) PROVE Carried(b)'
  BY <1>17 DEF RunWorkflow, RunOutcomes
<1>18. ASSUME NEW w \in Workers, SaveRun(w) PROVE Carried(b)'
  <2>1. /\ pc[w] = "save" /\ UNCHANGED <<status, queue, delayed, job, hpc, hjob>>
        /\ \E p \in {"await", "checkpoint", "dead", "complete", "except"} : GoTo(w, p)
    BY <1>18, AfterSavePoint DEF SaveRun, Answered, Raise
  <2>. QED BY <2>1
<1>19. ASSUME NEW w \in Workers, MarkAwaitingHuman(w) PROVE Carried(b)'
  BY <1>19 DEF MarkAwaitingHuman, SetStatus, Answered, Raise
<1>20. ASSUME NEW w \in Workers, MarkCompleted(w) PROVE Carried(b)'
  BY <1>20 DEF MarkCompleted, SetStatus, Answered, Raise
<1>21. ASSUME NEW w \in Workers, SaveCheckpoint(w) PROVE Carried(b)'
  BY <1>21 DEF SaveCheckpoint, Answered, Raise
<1>22. ASSUME NEW w \in Workers, MarkRetryScheduled(w) PROVE Carried(b)'
  BY <1>22 DEF MarkRetryScheduled, SetStatus, Answered, Raise
<1>23. ASSUME NEW w \in Workers, ScheduleRetry(w) PROVE Carried(b)'
  BY <1>23 DEF ScheduleRetry, Answered, Raise
<1>24. ASSUME NEW w \in Workers, MarkDeadLetter(w) PROVE Carried(b)'
  BY <1>24 DEF MarkDeadLetter, SetStatus, Answered, Raise
<1>25. ASSUME NEW w \in Workers, PushDeadLetter(w) PROVE Carried(b)'
  BY <1>25 DEF PushDeadLetter, Answered, Raise
<1>26. ASSUME NEW w \in Workers, HandleException(w) PROVE Carried(b)'
  BY <1>26 DEF HandleException
<1>27. ASSUME NEW w \in Workers, TokenMatches(w) PROVE Carried(b)'
  BY <1>27 DEF TokenMatches
<1>28. ASSUME NEW w \in Workers, TokenDiffers(w) PROVE Carried(b)'
  BY <1>28 DEF TokenDiffers, LeaveJob
<1>29. ASSUME NEW w \in Workers, DeleteLock(w) PROVE Carried(b)'
  BY <1>29 DEF DeleteLock, LeaveJob
<1>30. ASSUME NEW w \in Workers, CallFails(w) PROVE Carried(b)'
  BY <1>30 DEF CallFails, Raise
<1>31. ASSUME NEW w \in Workers, HandlerFails(w) PROVE Carried(b)'
  BY <1>31 DEF HandlerFails, HandlingPoints
<1>32. ASSUME NEW w \in Workers, Crash(w) PROVE Carried(b)'
  BY <1>32 DEF Crash
<1>33. ASSUME NEW w \in Workers, Restart(w) PROVE Carried(b)'
  BY <1>33 DEF Restart
<1>34. ASSUME NEW h \in Handlers, NEW j \in Jobs, SubmitCreate(h, j)
         PROVE Carried(b)'
  BY <1>34 DEF SubmitCreate, SetStatus, Begin
<1>35. ASSUME NEW h \in Handlers, NEW j \in Jobs, RecoverRead(h, j)
         PROVE Carried(b)'
  BY <1>35 DEF RecoverRead, Begin
<1>36. ASSUME NEW h \in Handlers, NEW j \in Jobs, DecideRead(h, j)
         PROVE Carried(b)'
  BY <1>36 DEF DecideRead, Begin
<1>37. ASSUME NEW h \in Handlers, Enqueue(h) PROVE Carried(b)'
  BY <1>37, QueueAppend DEF Enqueue, Respond
<1>38. ASSUME NEW h \in Handlers, RecoverReadCheckpoint(h) PROVE Carried(b)'
  BY <1>38 DEF RecoverReadCheckpoint
<1>39. ASSUME NEW h \in Handlers, MarkRecovering(h) PROVE Carried(b)'
  BY <1>39 DEF MarkRecovering, SetStatus
<1>40. ASSUME NEW h \in Handlers, RecordApproval(h) PROVE Carried(b)'
  BY <1>40 DEF RecordApproval, UpdateApproval, Sees
<1>41. ASSUME NEW h \in Handlers, RecordRejection(h) PROVE Carried(b)'
  BY <1>41 DEF RecordRejection, UpdateApproval, Sees
<1>42. ASSUME NEW h \in Handlers, CompleteApproved(h) PROVE Carried(b)'
  BY <1>42 DEF CompleteApproved, SetStatus, Respond
<1>43. ASSUME NEW h \in Handlers, FailRejected(h) PROVE Carried(b)'
  BY <1>43 DEF FailRejected, SetStatus, Respond
<1>44. ASSUME NEW h \in Handlers, HandlerCrash(h) PROVE Carried(b)'
  BY <1>44 DEF HandlerCrash, Respond
<1>45. ASSUME NEW i \in Incidents, LockExpires(i) PROVE Carried(b)'
  BY <1>45 DEF LockExpires
<1>46. ASSUME NEW i \in Incidents, DecideIncident(i) PROVE Carried(b)'
  BY <1>46 DEF DecideIncident, UpdateApproval, Sees
<1>47. ASSUME NEW i \in Incidents, RunIncident(i) PROVE Carried(b)'
  BY <1>47 DEF RunIncident, RunOutcomes, InsertRun, ApprovalOnSave
<1>. QED
  BY <1>1, <1>2, <1>3, <1>4, <1>5, <1>6, <1>7, <1>8, <1>9, <1>10, <1>11, <1>12,
      <1>13, <1>14, <1>15, <1>16, <1>17, <1>18, <1>19, <1>20, <1>21, <1>22,
      <1>23, <1>24, <1>25, <1>26, <1>27, <1>28, <1>29, <1>30, <1>31, <1>32,
      <1>33, <1>34, <1>35, <1>36, <1>37, <1>38, <1>39, <1>40, <1>41, <1>42,
      <1>43, <1>44, <1>45, <1>46, <1>47
   DEF Next, WorkerStep, QueueStep,
      BeforeLock, TryBlock, AfterTry, WorkerTrouble, NewRequest, HandlerStep

\* Only the process that dies lets go of a job.
LEMMA Deaths ==
    ASSUME TypeInv, Next, crashes' # crashes
    PROVE  \/ \E w \in Workers : HandlerFails(w) \/ Crash(w)
           \/ \E h \in Handlers : HandlerCrash(h)
<1>1. ASSUME NEW w \in Workers, WorkerStep(w) PROVE crashes' = crashes
  <2>1. ASSUME QueueStep(w) PROVE crashes' = crashes
    BY <2>1 DEF QueueStep, PromoteNone, PromotePop, PromoteDue, PromoteNotDue,
         PopTimeout, PopJob, budget
  <2>2. ASSUME BeforeLock(w) PROVE crashes' = crashes
    BY <2>2 DEF BeforeLock, SkipJob, LoadJob, ReadCheckpoint, AcquireRunLock,
         LockUnavailable, MarkPostponed, SchedulePostponed, budget
  <2>3. ASSUME TryBlock(w) PROVE crashes' = crashes
    BY <2>3 DEF TryBlock, ReadAttempts, MarkRunning, ReadRunning, RunWorkflow,
         SaveRun, MarkAwaitingHuman,
         MarkCompleted, SaveCheckpoint, MarkRetryScheduled, ScheduleRetry,
         MarkDeadLetter, PushDeadLetter, Answered, budget
  <2>4. ASSUME AfterTry(w) PROVE crashes' = crashes
    BY <2>4 DEF AfterTry, HandleException, TokenMatches, TokenDiffers, DeleteLock,
         budget
  <2>. QED BY <1>1, <2>1, <2>2, <2>3, <2>4 DEF WorkerStep
<1>2. ASSUME NEW w \in Workers, CallFails(w) \/ Restart(w)
      PROVE  crashes' = crashes
  BY <1>2 DEF CallFails, Restart, budget
<1>3. ASSUME NEW h \in Handlers, NewRequest(h) \/ HandlerStep(h)
      PROVE  crashes' = crashes
  BY <1>3 DEF NewRequest, SubmitCreate, RecoverRead, DecideRead, HandlerStep,
       Enqueue, RecoverReadCheckpoint, MarkRecovering, RecordApproval,
       RecordRejection, CompleteApproved, FailRejected, budget
<1>4. ASSUME NEW i \in Incidents, LockExpires(i) \/ DecideIncident(i) \/ RunIncident(i)
      PROVE  crashes' = crashes
  BY <1>4 DEF LockExpires, DecideIncident, RunIncident, budget
<1>. QED BY <1>1, <1>2, <1>3, <1>4 DEF Next, WorkerTrouble

LEMMA DeathStep ==
    ASSUME TypeInv, Next, crashes' # crashes
    PROVE  /\ crashes' = crashes + 1
           /\ \E x : \A b \in Jobs : b # x /\ Stranded(b)' => Stranded(b)
<1>. USE Shapes, QueueSame
     DEF Stranded, Carried, WorkerCarries, HandlerCarries, GoTo, HandlerGoTo,
         store, runs, redis, locals, worker, api
<1>1. ASSUME NEW w \in Workers, HandlerFails(w) \/ Crash(w)
      PROVE  /\ crashes' = crashes + 1
             /\ \A b \in Jobs : b # job[w] /\ Stranded(b)' => Stranded(b)
  BY <1>1 DEF HandlerFails, Crash
<1>2. ASSUME NEW h \in Handlers, HandlerCrash(h)
      PROVE  /\ crashes' = crashes + 1
             /\ \A b \in Jobs : b # hjob[h] /\ Stranded(b)' => Stranded(b)
  BY <1>2 DEF HandlerCrash, Respond
<1>. QED BY <1>1, <1>2, Deaths

\* Each process that dies strands at most the job it has in hand, however
\* workers, promotions, retries, faults and resumes interleave.
Lost == {j \in Jobs : Stranded(j)}

LossInv == IsFiniteSet(Lost) /\ Cardinality(Lost) <= crashes

LEMMA Losing == Spec => []LossInv
<1>1. Init => LossInv
  <2>1. Init => Lost = {} /\ crashes = 0
    BY DEF Init, Lost, Stranded, ActiveStatuses
  <2>2. IsFiniteSet({}) /\ Cardinality({}) = 0
    BY FS_EmptySet
  <2>. QED BY <2>1, <2>2 DEF LossInv
<1>2. TypeInv /\ LossInv /\ Next => LossInv'
  <2>. SUFFICES ASSUME TypeInv, LossInv, Next PROVE LossInv'
    OBVIOUS
  <2>1. crashes \in Nat /\ IsFiniteSet(Lost) /\ Cardinality(Lost) \in Nat
        /\ Cardinality(Lost) <= crashes
    BY Lists, FS_CardinalityType DEF LossInv
  <2>2. CASE crashes' = crashes
    <3>1. Lost' \in SUBSET Lost
      BY <2>2, StrandStep DEF Lost, Stranded
    <3>2. IsFiniteSet(Lost') /\ Cardinality(Lost') <= Cardinality(Lost)
      BY <2>1, <3>1, FS_Subset
    <3>3. Cardinality(Lost') \in Nat
      BY <3>2, FS_CardinalityType
    <3>. QED BY <2>1, <2>2, <3>2, <3>3 DEF LossInv
  <2>3. CASE crashes' # crashes
    <3>1. PICK x : \A b \in Jobs : b # x /\ Stranded(b)' => Stranded(b)
      BY <2>3, DeathStep
    <3>2. Lost' \in SUBSET (Lost \cup {x})
      BY <3>1 DEF Lost
    <3>3. IsFiniteSet(Lost \cup {x})
          /\ Cardinality(Lost \cup {x}) <= Cardinality(Lost) + 1
          /\ Cardinality(Lost \cup {x}) \in Nat
      <4>1. IsFiniteSet(Lost \cup {x})
            /\ Cardinality(Lost \cup {x}) =
                  IF x \in Lost THEN Cardinality(Lost) ELSE Cardinality(Lost) + 1
        BY <2>1, FS_AddElement
      <4>. HIDE DEF Lost
      <4>. QED BY <2>1, <4>1
    <3>4. IsFiniteSet(Lost') /\ Cardinality(Lost') <= Cardinality(Lost \cup {x})
      BY <3>2, <3>3, FS_Subset
    <3>5. Cardinality(Lost') \in Nat
      BY <3>4, FS_CardinalityType
    <3>6. crashes' = crashes + 1
      BY <2>3, DeathStep
    <3>. QED BY <2>1, <3>3, <3>4, <3>5, <3>6 DEF LossInv
  <2>. QED BY <2>2, <2>3
<1>3. LossInv /\ UNCHANGED vars => LossInv'
  <2>1. UNCHANGED vars => Lost' = Lost /\ crashes' = crashes
    BY DEF Lost, Stranded, Carried, InQueue, WorkerCarries, HandlerCarries,
       vars, store, runs, redis, worker, locals, api, budget
  <2>. QED BY <2>1 DEF LossInv
<1>. QED BY Typing, <1>1, <1>2, <1>3, PTL DEF Spec

\* A death costs at most one job: jobs with work left that are in no list
\* and in nobody's hands are no more than the processes that have died.
THEOREM DeathsCostOneJobEach == Spec => []OneJobPerCrash
<1>1. LossInv => OneJobPerCrash
  BY DEF LossInv, Lost, OneJobPerCrash
<1>. QED BY Losing, <1>1, PTL

\* While no process dies, a job with work left is never dropped: it is in a
\* Redis list or in the hands of a process that will requeue or settle it,
\* however workers, promotions, retries, faults and resumes interleave.
THEOREM NothingStrandedWithoutDeaths == Spec => []NoJobStranded
<1>1. TypeInv /\ LossInv => NoJobStranded
  <2>. SUFFICES ASSUME TypeInv, LossInv, crashes = 0, NEW j \in Jobs
                PROVE  ~ Stranded(j)
    BY DEF NoJobStranded
  <2>1. Cardinality(Lost) = 0
    BY FS_CardinalityType DEF LossInv
  <2>2. Lost = {}
    BY <2>1, FS_EmptySet DEF LossInv
  <2>. QED BY <2>2 DEF Lost
<1>. QED BY Typing, Losing, <1>1, PTL

-----------------------------------------------------------------------------
(* A dead-lettered job can be found in the dead letter list.               *)

LEMMA DeadAppend ==
    ASSUME NEW x \in Jobs, dlq \in Seq(Jobs), dlq' = Append(dlq, x)
    PROVE  /\ \E k \in 1..Len(dlq') : dlq'[k] = x
           /\ \A k \in 1..Len(dlq) : k \in 1..Len(dlq') /\ dlq'[k] = dlq[k]
<1>1. Len(dlq) \in Nat /\ Len(dlq') = Len(dlq) + 1
  OBVIOUS
<1>2. dlq'[Len(dlq')] = x
  BY <1>1
<1>3. \A k \in 1..Len(dlq) : dlq'[k] = dlq[k]
  BY <1>1
<1>. QED BY <1>1, <1>2, <1>3

LEMMA DeadLetters ==
    ASSUME TypeInv
    PROVE  /\ dlq \in Seq(Jobs) /\ crashes \in Nat
           /\ mode \in [Workers -> {"none", "try", "except", "dying"}]
BY BoundsAssumption DEF TypeInv, TypeOK, RedisTypeOK, WorkerTypeOK, BudgetTypeOK

\* A step leaves every dead-lettered job recorded.
LEMMA RecordStep ==
    ASSUME TypeInv, NEW b \in Jobs, Next, crashes' = 0,
           crashes = 0 /\ status[b] = "dead_letter" => Recorded(b),
           status'[b] = "dead_letter"
    PROVE  Recorded(b)'
<1>. USE Shapes, HasJob, Counts, DeadLetters
     DEF Recorded, MyJob, GoTo, Step, WorkerPoints, LockedPoints, TryPoints,
         ReleasePoints, LoopPoints, store, runs, redis, locals, worker, api, budget
<1>1. ASSUME NEW w \in Workers, PromoteNone(w) PROVE Recorded(b)'
  BY <1>1 DEF PromoteNone
<1>2. ASSUME NEW w \in Workers, PromotePop(w) PROVE Recorded(b)'
  BY <1>2 DEF PromotePop
<1>3. ASSUME NEW w \in Workers, PromoteDue(w) PROVE Recorded(b)'
  BY <1>3 DEF PromoteDue
<1>4. ASSUME NEW w \in Workers, PromoteNotDue(w) PROVE Recorded(b)'
  BY <1>4 DEF PromoteNotDue
<1>5. ASSUME NEW w \in Workers, PopTimeout(w) PROVE Recorded(b)'
  BY <1>5 DEF PopTimeout
<1>6. ASSUME NEW w \in Workers, PopJob(w) PROVE Recorded(b)'
  BY <1>6 DEF PopJob
<1>7. ASSUME NEW w \in Workers, SkipJob(w) PROVE Recorded(b)'
  BY <1>7 DEF SkipJob, LeaveJob
<1>8. ASSUME NEW w \in Workers, LoadJob(w) PROVE Recorded(b)'
  BY <1>8 DEF LoadJob
<1>9. ASSUME NEW w \in Workers, ReadCheckpoint(w) PROVE Recorded(b)'
  BY <1>9 DEF ReadCheckpoint
<1>10. ASSUME NEW w \in Workers, AcquireRunLock(w) PROVE Recorded(b)'
  BY <1>10 DEF AcquireRunLock
<1>11. ASSUME NEW w \in Workers, LockUnavailable(w) PROVE Recorded(b)'
  BY <1>11 DEF LockUnavailable
<1>12. ASSUME NEW w \in Workers, MarkPostponed(w) PROVE Recorded(b)'
  BY <1>12 DEF MarkPostponed, SetStatus
<1>13. ASSUME NEW w \in Workers, SchedulePostponed(w) PROVE Recorded(b)'
  BY <1>13 DEF SchedulePostponed, LeaveJob
<1>14. ASSUME NEW w \in Workers, ReadAttempts(w) PROVE Recorded(b)'
  BY <1>14 DEF ReadAttempts
<1>15. ASSUME NEW w \in Workers, MarkRunning(w) PROVE Recorded(b)'
  BY <1>15 DEF MarkRunning, SetStatus
<1>16. ASSUME NEW w \in Workers, ReadRunning(w) PROVE Recorded(b)'
  BY <1>16 DEF ReadRunning
<1>17. ASSUME NEW w \in Workers, RunWorkflow(w) PROVE Recorded(b)'
  BY <1>17 DEF RunWorkflow, RunOutcomes
<1>18. ASSUME NEW w \in Workers, SaveRun(w) PROVE Recorded(b)'
  BY <1>18, AfterSavePoint DEF SaveRun, InsertRun, ApprovalOnSave, Answered, Raise
<1>19. ASSUME NEW w \in Workers, MarkAwaitingHuman(w) PROVE Recorded(b)'
  BY <1>19 DEF MarkAwaitingHuman, SetStatus, Answered, Raise
<1>20. ASSUME NEW w \in Workers, MarkCompleted(w) PROVE Recorded(b)'
  BY <1>20 DEF MarkCompleted, SetStatus, Answered, Raise
<1>21. ASSUME NEW w \in Workers, SaveCheckpoint(w) PROVE Recorded(b)'
  BY <1>21 DEF SaveCheckpoint, Answered, Raise
<1>22. ASSUME NEW w \in Workers, MarkRetryScheduled(w) PROVE Recorded(b)'
  BY <1>22 DEF MarkRetryScheduled, SetStatus, Answered, Raise
<1>23. ASSUME NEW w \in Workers, ScheduleRetry(w) PROVE Recorded(b)'
  BY <1>23 DEF ScheduleRetry, Answered, Raise
<1>24. ASSUME NEW w \in Workers, MarkDeadLetter(w) PROVE Recorded(b)'
  BY <1>24 DEF MarkDeadLetter, SetStatus, Answered, Raise
<1>25. ASSUME NEW w \in Workers, PushDeadLetter(w) PROVE Recorded(b)'
  BY <1>25, DeadAppend DEF PushDeadLetter, Answered, Raise
<1>26. ASSUME NEW w \in Workers, HandleException(w) PROVE Recorded(b)'
  BY <1>26 DEF HandleException
<1>27. ASSUME NEW w \in Workers, TokenMatches(w) PROVE Recorded(b)'
  BY <1>27 DEF TokenMatches
<1>28. ASSUME NEW w \in Workers, TokenDiffers(w) PROVE Recorded(b)'
  BY <1>28 DEF TokenDiffers, LeaveJob
<1>29. ASSUME NEW w \in Workers, DeleteLock(w) PROVE Recorded(b)'
  BY <1>29 DEF DeleteLock, LeaveJob
<1>30. ASSUME NEW w \in Workers, CallFails(w) PROVE Recorded(b)'
  BY <1>30 DEF CallFails, Raise
<1>31. ASSUME NEW w \in Workers, HandlerFails(w) PROVE Recorded(b)'
  BY <1>31 DEF HandlerFails, HandlingPoints
<1>32. ASSUME NEW w \in Workers, Crash(w) PROVE Recorded(b)'
  BY <1>32 DEF Crash
<1>33. ASSUME NEW w \in Workers, Restart(w) PROVE Recorded(b)'
  BY <1>33 DEF Restart
<1>34. ASSUME NEW h \in Handlers, NEW j \in Jobs, SubmitCreate(h, j)
         PROVE Recorded(b)'
  BY <1>34 DEF SubmitCreate, SetStatus, Begin
<1>35. ASSUME NEW h \in Handlers, NEW j \in Jobs, RecoverRead(h, j)
         PROVE Recorded(b)'
  BY <1>35 DEF RecoverRead, Begin
<1>36. ASSUME NEW h \in Handlers, NEW j \in Jobs, DecideRead(h, j)
         PROVE Recorded(b)'
  BY <1>36 DEF DecideRead, Begin
<1>37. ASSUME NEW h \in Handlers, Enqueue(h) PROVE Recorded(b)'
  BY <1>37 DEF Enqueue, Respond
<1>38. ASSUME NEW h \in Handlers, RecoverReadCheckpoint(h) PROVE Recorded(b)'
  BY <1>38 DEF RecoverReadCheckpoint
<1>39. ASSUME NEW h \in Handlers, MarkRecovering(h) PROVE Recorded(b)'
  BY <1>39 DEF MarkRecovering, SetStatus
<1>40. ASSUME NEW h \in Handlers, RecordApproval(h) PROVE Recorded(b)'
  BY <1>40 DEF RecordApproval, UpdateApproval, Sees
<1>41. ASSUME NEW h \in Handlers, RecordRejection(h) PROVE Recorded(b)'
  BY <1>41 DEF RecordRejection, UpdateApproval, Sees
<1>42. ASSUME NEW h \in Handlers, CompleteApproved(h) PROVE Recorded(b)'
  BY <1>42 DEF CompleteApproved, SetStatus, Respond
<1>43. ASSUME NEW h \in Handlers, FailRejected(h) PROVE Recorded(b)'
  BY <1>43 DEF FailRejected, SetStatus, Respond
<1>44. ASSUME NEW h \in Handlers, HandlerCrash(h) PROVE Recorded(b)'
  BY <1>44 DEF HandlerCrash, Respond
<1>45. ASSUME NEW i \in Incidents, LockExpires(i) PROVE Recorded(b)'
  BY <1>45 DEF LockExpires
<1>46. ASSUME NEW i \in Incidents, DecideIncident(i) PROVE Recorded(b)'
  BY <1>46 DEF DecideIncident, UpdateApproval, Sees
<1>47. ASSUME NEW i \in Incidents, RunIncident(i) PROVE Recorded(b)'
  BY <1>47 DEF RunIncident, RunOutcomes, InsertRun, ApprovalOnSave
<1>. QED
  BY <1>1, <1>2, <1>3, <1>4, <1>5, <1>6, <1>7, <1>8, <1>9, <1>10, <1>11, <1>12,
      <1>13, <1>14, <1>15, <1>16, <1>17, <1>18, <1>19, <1>20, <1>21, <1>22,
      <1>23, <1>24, <1>25, <1>26, <1>27, <1>28, <1>29, <1>30, <1>31, <1>32,
      <1>33, <1>34, <1>35, <1>36, <1>37, <1>38, <1>39, <1>40, <1>41, <1>42,
      <1>43, <1>44, <1>45, <1>46, <1>47
   DEF Next, WorkerStep, QueueStep,
      BeforeLock, TryBlock, AfterTry, WorkerTrouble, NewRequest, HandlerStep

\* While no process dies, every dead-lettered job is in the dead letter list or
\* about to be pushed or to be tried again: a call that raises between the two writes sends its
\* worker to the except clause, which writes both again.
THEOREM DeadLettersAreRecorded == Spec => []DeadLetterRecorded
<1>1. Init => DeadLetterRecorded
  BY DEF Init, DeadLetterRecorded
<1>2. TypeInv /\ DeadLetterRecorded /\ [Next]_vars => DeadLetterRecorded'
  <2>1. ASSUME TypeInv, DeadLetterRecorded, Next PROVE DeadLetterRecorded'
    BY <2>1, RecordStep DEF DeadLetterRecorded
  <2>2. ASSUME DeadLetterRecorded, UNCHANGED vars PROVE DeadLetterRecorded'
    BY <2>2 DEF DeadLetterRecorded, Recorded, vars, store, runs, redis, worker,
       locals, budget
  <2>. QED BY <2>1, <2>2
<1>. QED BY Typing, <1>1, <1>2, PTL DEF Spec

=============================================================================
