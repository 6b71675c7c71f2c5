----------------------- MODULE WorkflowBudget_proofs -----------------------
(***************************************************************************)
(* Proofs about WorkflowJobs: how many runs a job may use.  A job has one  *)
(* copy when it is submitted, in a Redis list or in somebody's hands; a    *)
(* resume request makes another, and a call that raises after it has taken *)
(* effect may.  Once the limit is reached a copy is good for one run.      *)
(***************************************************************************)
EXTENDS WorkflowJobs_proofs, FunctionTheorems

-----------------------------------------------------------------------------
(* Counting.                                                               *)

LEMMA CountSubset ==
    ASSUME NEW S, IsFiniteSet(S), NEW T, T \subseteq S
    PROVE  /\ IsFiniteSet(T) /\ Cardinality(T) \in Nat /\ Cardinality(S) \in Nat
           /\ Cardinality(T) <= Cardinality(S)
<1>1. T \in SUBSET S
  OBVIOUS
<1>2. IsFiniteSet(T) /\ Cardinality(T) <= Cardinality(S)
  BY <1>1, FS_Subset
<1>. QED BY <1>2, FS_CardinalityType

LEMMA CountOneMore ==
    ASSUME NEW S, IsFiniteSet(S), NEW T, NEW x, T \subseteq S \cup {x}
    PROVE  /\ IsFiniteSet(T) /\ Cardinality(T) \in Nat /\ Cardinality(S) \in Nat
           /\ Cardinality(T) <= Cardinality(S) + 1
<1>1. Cardinality(S) \in Nat
  BY FS_CardinalityType
<1>2. IsFiniteSet(S \cup {x})
      /\ Cardinality(S \cup {x}) =
            IF x \in S THEN Cardinality(S) ELSE Cardinality(S) + 1
  BY FS_AddElement
<1>3. IsFiniteSet(T) /\ Cardinality(T) \in Nat /\ Cardinality(T) <= Cardinality(S \cup {x})
  BY <1>2, CountSubset
<1>. QED BY <1>1, <1>2, <1>3

LEMMA CountOneLess ==
    ASSUME NEW S, IsFiniteSet(S), NEW T, NEW x \in S, T \subseteq S \ {x}
    PROVE  /\ IsFiniteSet(T) /\ Cardinality(T) \in Nat /\ Cardinality(S) \in Nat
           /\ Cardinality(T) <= Cardinality(S) - 1
<1>1. Cardinality(S) \in Nat
  BY FS_CardinalityType
<1>2. IsFiniteSet(S \ {x}) /\ Cardinality(S \ {x}) = Cardinality(S) - 1
  BY FS_RemoveElement
<1>3. IsFiniteSet(T) /\ Cardinality(T) \in Nat /\ Cardinality(T) <= Cardinality(S \ {x})
  BY <1>2, CountSubset
<1>. QED BY <1>1, <1>2, <1>3

\* The places of x in a sequence.
Places(q, x) == {k \in 1..Len(q) : q[k] = x}

LEMMA PlacesFinite ==
    ASSUME NEW q \in Seq(Jobs), NEW x
    PROVE  IsFiniteSet(Places(q, x)) /\ Cardinality(Places(q, x)) \in Nat
<1>1. Len(q) \in Nat /\ IsFiniteSet(1..Len(q))
  BY FS_Interval
<1>2. Places(q, x) \subseteq 1..Len(q)
  BY DEF Places
<1>. QED BY <1>1, <1>2, CountSubset

LEMMA PlacesAppend ==
    ASSUME NEW q \in Seq(Jobs), NEW x, NEW y \in Jobs
    PROVE  /\ Cardinality(Places(Append(q, y), x)) \in Nat
           /\ Cardinality(Places(Append(q, y), x)) <=
                  Cardinality(Places(q, x)) + (IF x = y THEN 1 ELSE 0)
<1>1. /\ Len(Append(q, y)) = Len(q) + 1 /\ Append(q, y)[Len(q) + 1] = y
      /\ \A k \in 1..Len(q) : Append(q, y)[k] = q[k]
      /\ Len(q) \in Nat
  OBVIOUS
<1>2. CASE x = y
  <2>1. Places(Append(q, y), x) \subseteq Places(q, x) \cup {Len(q) + 1}
    BY <1>1 DEF Places
  <2>. QED BY <1>2, <2>1, PlacesFinite, CountOneMore
<1>3. CASE x # y
  <2>1. Places(Append(q, y), x) \subseteq Places(q, x)
    BY <1>1, <1>3 DEF Places
  <2>2. /\ Cardinality(Places(Append(q, y), x)) \in Nat
        /\ Cardinality(Places(q, x)) \in Nat
        /\ Cardinality(Places(Append(q, y), x)) <= Cardinality(Places(q, x))
    BY <2>1, PlacesFinite, CountSubset
  <2>. QED BY <1>3, <2>2
<1>. QED BY <1>2, <1>3

LEMMA PlacesTail ==
    ASSUME NEW q \in Seq(Jobs), q # <<>>, NEW x
    PROVE  /\ Cardinality(Places(Tail(q), x)) \in Nat
           /\ Cardinality(Places(Tail(q), x)) <=
                  Cardinality(Places(q, x)) - (IF x = Head(q) THEN 1 ELSE 0)
<1>. DEFINE S == Places(Tail(q), x)
            T == Places(q, x) \ {1}
            f == [k \in S |-> k + 1]
<1>1. /\ Len(q) \in Nat /\ Len(q) > 0 /\ Len(Tail(q)) = Len(q) - 1
      /\ \A k \in 1..Len(Tail(q)) : Tail(q)[k] = q[k + 1]
      /\ Head(q) = q[1] /\ Tail(q) \in Seq(Jobs)
  OBVIOUS
<1>2. IsFiniteSet(Places(q, x)) /\ Cardinality(Places(q, x)) \in Nat
      /\ IsFiniteSet(S) /\ Cardinality(S) \in Nat
  BY <1>1, PlacesFinite
<1>3. IsFiniteSet(T)
  BY <1>2, FS_RemoveElement
<1>4. f \in Injection(S, T)
  <2>1. \A k \in S : k \in Nat /\ k + 1 \in T
    BY <1>1 DEF Places
  <2>2. f \in [S -> T]
    BY <2>1
  <2>3. \A k, l \in S : f[k] = f[l] => k = l
    BY <2>1
  <2>. QED BY <2>2, <2>3, Fun_IsInj
<1>5. Cardinality(S) <= Cardinality(T)
  BY <1>3, <1>4, FS_Injection
<1>6. CASE x = Head(q)
  <2>1. 1 \in Places(q, x)
    BY <1>1, <1>6 DEF Places
  <2>2. Cardinality(T) <= Cardinality(Places(q, x)) - 1 /\ Cardinality(T) \in Nat
    BY <1>2, <2>1, CountOneLess
  <2>. QED BY <1>2, <1>5, <1>6, <2>2
<1>7. CASE x # Head(q)
  <2>1. Cardinality(T) <= Cardinality(Places(q, x)) /\ Cardinality(T) \in Nat
    BY <1>2, CountSubset
  <2>. QED BY <1>2, <1>5, <1>7, <2>1
<1>. QED BY <1>6, <1>7

-----------------------------------------------------------------------------
(* Nothing is known of a job before create_job has returned its id.        *)

LEMMA AppendOther ==
    ASSUME NEW b \in Jobs, NEW x \in Jobs, queue \in Seq(Jobs),
           queue' = Append(queue, x), ~InQueue(b), x # b
    PROVE  ~InQueue(b)'
<1>1. Len(queue) \in Nat /\ Len(queue') = Len(queue) + 1 /\ queue'[Len(queue')] = x
  OBVIOUS
<1>2. \A k \in 1..Len(queue) : queue'[k] = queue[k]
  BY <1>1
<1>. QED BY <1>1, <1>2 DEF InQueue

LEMMA TailOther ==
    ASSUME NEW b \in Jobs, queue \in Seq(Jobs), queue # <<>>,
           queue' = Tail(queue), ~InQueue(b)
    PROVE  ~InQueue(b)' /\ Head(queue) # b
<1>1. /\ Len(queue) \in Nat /\ Len(queue) > 0 /\ Len(queue') = Len(queue) - 1
      /\ \A k \in 1..Len(queue') : queue'[k] = queue[k + 1]
      /\ Head(queue) = queue[1]
  OBVIOUS
<1>. QED BY <1>1 DEF InQueue

LEMMA UnseenStep ==
    ASSUME TypeInv, NEW b \in Jobs, Next, status'[b] = "absent",
           status[b] = "absent" => Unseen(b)
    PROVE  Unseen(b)'
<1>. USE Shapes, HasJob, Counts, QueueSame, Lists, JobsAssumption
     DEF Unseen, MyJob, GoTo, Step, HandlerGoTo, LoopPoints,
         store, runs, redis, locals, worker, api, budget
<1>1. ASSUME NEW w \in Workers, PromoteNone(w) PROVE Unseen(b)'
  BY <1>1 DEF PromoteNone
<1>2. ASSUME NEW w \in Workers, PromotePop(w) PROVE Unseen(b)'
  BY <1>2 DEF PromotePop
<1>3. ASSUME NEW w \in Workers, PromoteDue(w) PROVE Unseen(b)'
  BY <1>3, AppendOther DEF PromoteDue
<1>4. ASSUME NEW w \in Workers, PromoteNotDue(w) PROVE Unseen(b)'
  BY <1>4 DEF PromoteNotDue
<1>5. ASSUME NEW w \in Workers, PopTimeout(w) PROVE Unseen(b)'
  BY <1>5 DEF PopTimeout
<1>6. ASSUME NEW w \in Workers, PopJob(w) PROVE Unseen(b)'
  BY <1>6, TailOther DEF PopJob
<1>7. ASSUME NEW w \in Workers, SkipJob(w) PROVE Unseen(b)'
  BY <1>7 DEF SkipJob, LeaveJob
<1>8. ASSUME NEW w \in Workers, LoadJob(w) PROVE Unseen(b)'
  BY <1>8 DEF LoadJob
<1>9. ASSUME NEW w \in Workers, ReadCheckpoint(w) PROVE Unseen(b)'
  BY <1>9 DEF ReadCheckpoint
<1>10. ASSUME NEW w \in Workers, AcquireRunLock(w) PROVE Unseen(b)'
  BY <1>10 DEF AcquireRunLock
<1>11. ASSUME NEW w \in Workers, LockUnavailable(w) PROVE Unseen(b)'
  BY <1>11 DEF LockUnavailable
<1>12. ASSUME NEW w \in Workers, MarkPostponed(w) PROVE Unseen(b)'
  BY <1>12 DEF MarkPostponed, SetStatus
<1>13. ASSUME NEW w \in Workers, SchedulePostponed(w) PROVE Unseen(b)'
  BY <1>13 DEF SchedulePostponed, LeaveJob
<1>14. ASSUME NEW w \in Workers, ReadAttempts(w) PROVE Unseen(b)'
  BY <1>14 DEF ReadAttempts
<1>15. ASSUME NEW w \in Workers, MarkRunning(w) PROVE Unseen(b)'
  BY <1>15 DEF MarkRunning, SetStatus
<1>16. ASSUME NEW w \in Workers, ReadRunning(w) PROVE Unseen(b)'
  BY <1>16 DEF ReadRunning
<1>17. ASSUME NEW w \in Workers, RunWorkflow(w) PROVE Unseen(b)'
  BY <1>17 DEF RunWorkflow
<1>18. ASSUME NEW w \in Workers, SaveRun(w) PROVE Unseen(b)'
  BY <1>18 DEF SaveRun, Answered, Raise
<1>19. ASSUME NEW w \in Workers, MarkAwaitingHuman(w) PROVE Unseen(b)'
  BY <1>19 DEF MarkAwaitingHuman, SetStatus, Answered, Raise
<1>20. ASSUME NEW w \in Workers, MarkCompleted(w) PROVE Unseen(b)'
  BY <1>20 DEF MarkCompleted, SetStatus, Answered, Raise
<1>21. ASSUME NEW w \in Workers, SaveCheckpoint(w) PROVE Unseen(b)'
  BY <1>21 DEF SaveCheckpoint, Answered, Raise
<1>22. ASSUME NEW w \in Workers, MarkRetryScheduled(w) PROVE Unseen(b)'
  BY <1>22 DEF MarkRetryScheduled, SetStatus, Answered, Raise
<1>23. ASSUME NEW w \in Workers, ScheduleRetry(w) PROVE Unseen(b)'
  BY <1>23 DEF ScheduleRetry, Answered, Raise
<1>24. ASSUME NEW w \in Workers, MarkDeadLetter(w) PROVE Unseen(b)'
  BY <1>24 DEF MarkDeadLetter, SetStatus, Answered, Raise
<1>25. ASSUME NEW w \in Workers, PushDeadLetter(w) PROVE Unseen(b)'
  BY <1>25 DEF PushDeadLetter, Answered, Raise
<1>26. ASSUME NEW w \in Workers, HandleException(w) PROVE Unseen(b)'
  BY <1>26 DEF HandleException
<1>27. ASSUME NEW w \in Workers, TokenMatches(w) PROVE Unseen(b)'
  BY <1>27 DEF TokenMatches
<1>28. ASSUME NEW w \in Workers, TokenDiffers(w) PROVE Unseen(b)'
  BY <1>28 DEF TokenDiffers, LeaveJob
<1>29. ASSUME NEW w \in Workers, DeleteLock(w) PROVE Unseen(b)'
  BY <1>29 DEF DeleteLock, LeaveJob
<1>30. ASSUME NEW w \in Workers, CallFails(w) PROVE Unseen(b)'
  BY <1>30 DEF CallFails, Raise
<1>31. ASSUME NEW w \in Workers, HandlerFails(w) PROVE Unseen(b)'
  BY <1>31 DEF HandlerFails
<1>32. ASSUME NEW w \in Workers, Crash(w) PROVE Unseen(b)'
  BY <1>32 DEF Crash
<1>33. ASSUME NEW w \in Workers, Restart(w) PROVE Unseen(b)'
  BY <1>33 DEF Restart
<1>34. ASSUME NEW h \in Handlers, NEW j \in Jobs, SubmitCreate(h, j)
         PROVE Unseen(b)'
  BY <1>34 DEF SubmitCreate, SetStatus, Begin
<1>35. ASSUME NEW h \in Handlers, NEW j \in Jobs, RecoverRead(h, j)
         PROVE Unseen(b)'
  BY <1>35 DEF RecoverRead, Begin, ResumableStatuses
<1>36. ASSUME NEW h \in Handlers, NEW j \in Jobs, DecideRead(h, j)
         PROVE Unseen(b)'
  BY <1>36 DEF DecideRead, Begin
<1>37. ASSUME NEW h \in Handlers, Enqueue(h) PROVE Unseen(b)'
  BY <1>37, AppendOther DEF Enqueue, Respond
<1>38. ASSUME NEW h \in Handlers, RecoverReadCheckpoint(h) PROVE Unseen(b)'
  BY <1>38 DEF RecoverReadCheckpoint
<1>39. ASSUME NEW h \in Handlers, MarkRecovering(h) PROVE Unseen(b)'
  BY <1>39 DEF MarkRecovering, SetStatus
<1>40. ASSUME NEW h \in Handlers, RecordApproval(h) PROVE Unseen(b)'
  BY <1>40 DEF RecordApproval
<1>41. ASSUME NEW h \in Handlers, RecordRejection(h) PROVE Unseen(b)'
  BY <1>41 DEF RecordRejection
<1>42. ASSUME NEW h \in Handlers, CompleteApproved(h) PROVE Unseen(b)'
  BY <1>42 DEF CompleteApproved, SetStatus, Respond
<1>43. ASSUME NEW h \in Handlers, FailRejected(h) PROVE Unseen(b)'
  BY <1>43 DEF FailRejected, SetStatus, Respond
<1>44. ASSUME NEW h \in Handlers, HandlerCrash(h) PROVE Unseen(b)'
  BY <1>44 DEF HandlerCrash, Respond
<1>45. ASSUME NEW i \in Incidents, LockExpires(i) PROVE Unseen(b)'
  BY <1>45 DEF LockExpires
<1>46. ASSUME NEW i \in Incidents, DecideIncident(i) PROVE Unseen(b)'
  BY <1>46 DEF DecideIncident
<1>47. ASSUME NEW i \in Incidents, RunIncident(i) PROVE Unseen(b)'
  BY <1>47 DEF RunIncident
<1>. QED
  BY <1>1, <1>2, <1>3, <1>4, <1>5, <1>6, <1>7, <1>8, <1>9, <1>10, <1>11, <1>12,
      <1>13, <1>14, <1>15, <1>16, <1>17, <1>18, <1>19, <1>20, <1>21, <1>22,
      <1>23, <1>24, <1>25, <1>26, <1>27, <1>28, <1>29, <1>30, <1>31, <1>32,
      <1>33, <1>34, <1>35, <1>36, <1>37, <1>38, <1>39, <1>40, <1>41, <1>42,
      <1>43, <1>44, <1>45, <1>46, <1>47
   DEF Next, WorkerStep, QueueStep,
      BeforeLock, TryBlock, AfterTry, WorkerTrouble, NewRequest, HandlerStep

LEMMA Unseeing == Spec => []UnknownInv
<1>1. Init => UnknownInv
  BY JobsAssumption DEF Init, UnknownInv, Unseen, InQueue
<1>2. TypeInv /\ UnknownInv /\ [Next]_vars => UnknownInv'
  <2>1. ASSUME TypeInv, UnknownInv, Next PROVE UnknownInv'
    BY <2>1, UnseenStep DEF UnknownInv
  <2>2. ASSUME UnknownInv, UNCHANGED vars PROVE UnknownInv'
    BY <2>2 DEF UnknownInv, Unseen, InQueue, vars, store, runs, redis, worker,
       locals, api
  <2>. QED BY <2>1, <2>2
<1>. QED BY Typing, <1>1, <1>2, PTL DEF Spec

-----------------------------------------------------------------------------
(* The copies of a job.                                                    *)

One(p) == IF p THEN 1 ELSE 0

LEMMA CountChange ==
    ASSUME NEW S, IsFiniteSet(S), NEW T, NEW x, T \ {x} \subseteq S
    PROVE  /\ IsFiniteSet(T) /\ Cardinality(T) \in Nat /\ Cardinality(S) \in Nat
           /\ Cardinality(T) <= Cardinality(S) + One(x \in T) - One(x \in S)
<1>1. CASE x \in T /\ x \notin S
  <2>1. T \subseteq S \cup {x}
    OBVIOUS
  <2>. QED BY <1>1, <2>1, CountOneMore DEF One
<1>2. CASE x \notin T /\ x \in S
  <2>1. T \subseteq S \ {x}
    BY <1>2
  <2>. QED BY <1>2, <2>1, CountOneLess DEF One
<1>3. CASE (x \in T) <=> (x \in S)
  <2>1. T \subseteq S
    BY <1>3
  <2>. QED BY <1>3, <2>1, CountSubset DEF One
<1>. QED BY <1>1, <1>2, <1>3

LEMMA CountMember ==
    ASSUME NEW S, NEW x PROVE Cardinality(S \cap {x}) = One(x \in S)
<1>1. CASE x \in S
  <2>1. S \cap {x} = {x}
    BY <1>1
  <2>. QED BY <1>1, <2>1, FS_Singleton DEF One
<1>2. CASE x \notin S
  <2>1. S \cap {x} = {}
    BY <1>2
  <2>. QED BY <1>2, <2>1, FS_EmptySet DEF One
<1>. QED BY <1>1, <1>2

LEMMA Tallies ==
    ASSUME TypeInv
    PROVE  /\ recoveries \in Nat /\ faults \in Nat
           /\ attempts \in [Jobs -> Nat]
BY BoundsAssumption DEF TypeInv, TypeOK, StoreTypeOK, BudgetTypeOK

LEMMA Parts ==
    ASSUME TypeInv, NEW b \in Jobs
    PROVE  /\ QueueCopies(b) = Places(queue, b)
           /\ Cardinality(Places(queue, b)) \in Nat
           /\ Cardinality(DelayedCopies(b)) = One(b \in delayed)
<1>1. QueueCopies(b) = Places(queue, b)
  BY DEF QueueCopies, Places
<1>2. Cardinality(Places(queue, b)) \in Nat
  BY Lists, PlacesFinite
<1>3. Cardinality(DelayedCopies(b)) = One(b \in delayed)
  BY CountMember DEF DelayedCopies
<1>. QED BY <1>1, <1>2, <1>3

\* The part of a worker's step that concerns everybody else's copies of b.
Others(w, b) ==
    /\ \A v \in Workers \ {w} : MayRunAgain(v, b)' => MayRunAgain(v, b)
    /\ \A h \in Handlers : HandlerCarries(h, b)' => HandlerCarries(h, b)
    /\ recoveries' = recoveries

\* The part of a request's step that does.
OthersApi(h, b) ==
    /\ \A w \in Workers : MayRunAgain(w, b)' => MayRunAgain(w, b)
    /\ \A g \in Handlers \ {h} : HandlerCarries(g, b)' => HandlerCarries(g, b)
    /\ attempts'[b] = attempts[b] /\ faults' = faults /\ delayed' = delayed

\* What a worker's step does to the number of copies.
LEMMA WorkerBalance ==
    ASSUME TypeInv, TypeInv', NEW b \in Jobs, Accounted(b),
           NEW w \in Workers, Others(w, b)
    PROVE  /\ IsFiniteSet(WorkerCopies(b)') /\ IsFiniteSet(HandlerCopies(b)')
           /\ Copies(b) \in Nat /\ Copies(b)' \in Nat
           /\ Copies(b)' <= Copies(b)
                 + Cardinality(Places(queue', b)) - Cardinality(Places(queue, b))
                 + One(b \in delayed') - One(b \in delayed)
                 + One(MayRunAgain(w, b)') - One(MayRunAgain(w, b))
<1>1. IsFiniteSet(WorkerCopies(b)) /\ IsFiniteSet(HandlerCopies(b))
  BY DEF Accounted
<1>2. WorkerCopies(b)' \ {w} \subseteq WorkerCopies(b)
      /\ HandlerCopies(b)' \subseteq HandlerCopies(b)
  BY DEF Others, WorkerCopies, HandlerCopies
<1>3. /\ w \in WorkerCopies(b) <=> MayRunAgain(w, b)
      /\ w \in WorkerCopies(b)' <=> MayRunAgain(w, b)'
  BY DEF WorkerCopies
<1>4. /\ IsFiniteSet(WorkerCopies(b)')
      /\ Cardinality(WorkerCopies(b)') \in Nat /\ Cardinality(WorkerCopies(b)) \in Nat
      /\ Cardinality(WorkerCopies(b)') <= Cardinality(WorkerCopies(b))
             + One(w \in WorkerCopies(b)') - One(w \in WorkerCopies(b))
  BY <1>1, <1>2, CountChange
<1>5. /\ IsFiniteSet(HandlerCopies(b)')
      /\ Cardinality(HandlerCopies(b)') \in Nat /\ Cardinality(HandlerCopies(b)) \in Nat
      /\ Cardinality(HandlerCopies(b)') <= Cardinality(HandlerCopies(b))
  BY <1>1, <1>2, CountSubset
<1>6. /\ Cardinality(QueueCopies(b)) = Cardinality(Places(queue, b))
      /\ Cardinality(QueueCopies(b)) \in Nat
      /\ Cardinality(DelayedCopies(b)) = One(b \in delayed)
  BY Parts
<1>7. /\ Cardinality(QueueCopies(b)') = Cardinality(Places(queue', b))
      /\ Cardinality(QueueCopies(b)') \in Nat
      /\ Cardinality(DelayedCopies(b)') = One(b \in delayed')
  <2>1. queue' \in Seq(Jobs)
    BY DEF TypeInv, TypeOK, RedisTypeOK
  <2>2. QueueCopies(b)' = Places(queue', b)
    BY DEF QueueCopies, Places
  <2>. QED BY <2>1, <2>2, PlacesFinite, CountMember DEF DelayedCopies
<1>8. /\ One(b \in delayed) \in Nat /\ One(b \in delayed') \in Nat
      /\ One(w \in WorkerCopies(b)) = One(MayRunAgain(w, b))
      /\ One(w \in WorkerCopies(b)') = One(MayRunAgain(w, b)')
      /\ One(MayRunAgain(w, b)) \in Nat /\ One(MayRunAgain(w, b)') \in Nat
  BY <1>3 DEF One
<1>. QED BY <1>4, <1>5, <1>6, <1>7, <1>8 DEF Copies

\* What a request's step does to it.
LEMMA ApiBalance ==
    ASSUME TypeInv, TypeInv', NEW b \in Jobs, Accounted(b),
           NEW h \in Handlers, OthersApi(h, b)
    PROVE  /\ IsFiniteSet(WorkerCopies(b)') /\ IsFiniteSet(HandlerCopies(b)')
           /\ Copies(b) \in Nat /\ Copies(b)' \in Nat
           /\ Copies(b)' <= Copies(b)
                 + Cardinality(Places(queue', b)) - Cardinality(Places(queue, b))
                 + One(HandlerCarries(h, b)') - One(HandlerCarries(h, b))
<1>1. IsFiniteSet(WorkerCopies(b)) /\ IsFiniteSet(HandlerCopies(b))
  BY DEF Accounted
<1>2. HandlerCopies(b)' \ {h} \subseteq HandlerCopies(b)
      /\ WorkerCopies(b)' \subseteq WorkerCopies(b)
  BY DEF OthersApi, WorkerCopies, HandlerCopies
<1>3. /\ h \in HandlerCopies(b) <=> HandlerCarries(h, b)
      /\ h \in HandlerCopies(b)' <=> HandlerCarries(h, b)'
  BY DEF HandlerCopies
<1>4. /\ IsFiniteSet(HandlerCopies(b)')
      /\ Cardinality(HandlerCopies(b)') \in Nat /\ Cardinality(HandlerCopies(b)) \in Nat
      /\ Cardinality(HandlerCopies(b)') <= Cardinality(HandlerCopies(b))
             + One(h \in HandlerCopies(b)') - One(h \in HandlerCopies(b))
  BY <1>1, <1>2, CountChange
<1>5. /\ IsFiniteSet(WorkerCopies(b)')
      /\ Cardinality(WorkerCopies(b)') \in Nat /\ Cardinality(WorkerCopies(b)) \in Nat
      /\ Cardinality(WorkerCopies(b)') <= Cardinality(WorkerCopies(b))
  BY <1>1, <1>2, CountSubset
<1>6. /\ Cardinality(QueueCopies(b)) = Cardinality(Places(queue, b))
      /\ Cardinality(QueueCopies(b)) \in Nat
      /\ Cardinality(DelayedCopies(b)) = One(b \in delayed)
  BY Parts
<1>7. /\ Cardinality(QueueCopies(b)') = Cardinality(Places(queue', b))
      /\ Cardinality(QueueCopies(b)') \in Nat
      /\ Cardinality(DelayedCopies(b)') = One(b \in delayed)
  <2>1. queue' \in Seq(Jobs)
    BY DEF TypeInv, TypeOK, RedisTypeOK
  <2>2. QueueCopies(b)' = Places(queue', b) /\ DelayedCopies(b)' = DelayedCopies(b)
    BY DEF QueueCopies, Places, DelayedCopies, OthersApi
  <2>. QED BY <1>6, <2>1, <2>2, PlacesFinite
<1>8. /\ One(b \in delayed) \in Nat
      /\ One(h \in HandlerCopies(b)) = One(HandlerCarries(h, b))
      /\ One(h \in HandlerCopies(b)') = One(HandlerCarries(h, b)')
      /\ One(HandlerCarries(h, b)) \in Nat /\ One(HandlerCarries(h, b)') \in Nat
  BY <1>3 DEF One
<1>. QED BY <1>4, <1>5, <1>6, <1>7, <1>8 DEF Copies

\* A worker's step that starts no run of b and pays for the copies it makes.
LEMMA WorkerPays ==
    ASSUME TypeInv, TypeInv', NEW b \in Jobs, Accounted(b),
           NEW w \in Workers, Others(w, b), attempts'[b] = attempts[b],
           faults' = faults \/ faults' = faults + 1,
           Cardinality(Places(queue', b)) + One(b \in delayed')
                 + One(MayRunAgain(w, b)') + faults
             <= Cardinality(Places(queue, b)) + One(b \in delayed)
                 + One(MayRunAgain(w, b)) + faults'
    PROVE  Accounted(b)'
<1>1. recoveries' = recoveries /\ recoveries \in Nat /\ faults \in Nat
      /\ faults' \in Nat /\ attempts[b] \in Nat
  BY Tallies DEF Others
<1>2. Cardinality(Places(queue, b)) \in Nat
  BY Parts
<1>3. Cardinality(Places(queue', b)) \in Nat
  <2>1. queue' \in Seq(Jobs)
    BY DEF TypeInv, TypeOK, RedisTypeOK
  <2>. QED BY <2>1, PlacesFinite
<1>4. /\ One(b \in delayed) \in Nat /\ One(b \in delayed') \in Nat
      /\ One(MayRunAgain(w, b)) \in Nat /\ One(MayRunAgain(w, b)') \in Nat
  BY DEF One
<1>5. /\ IsFiniteSet(WorkerCopies(b)') /\ IsFiniteSet(HandlerCopies(b)')
      /\ Copies(b) \in Nat /\ Copies(b)' \in Nat
      /\ Copies(b)' + faults <= Copies(b) + faults'
  BY <1>1, <1>2, <1>3, <1>4, WorkerBalance
<1>6. /\ Copies(b)' <= 1 + recoveries' + faults'
      /\ attempts'[b] >= MaxRetries =>
             attempts'[b] + Copies(b)' <= MaxRetries + recoveries' + faults'
  BY <1>1, <1>5, BoundsAssumption DEF Accounted
<1>. QED BY <1>5, <1>6 DEF Accounted

\* A step that leaves both lists alone and gives b no copy unpaid for.
Neutral(w, b) ==
    /\ Others(w, b) /\ attempts'[b] = attempts[b]
    /\ queue' = queue /\ delayed' = delayed
    /\ \/ faults' = faults /\ (MayRunAgain(w, b)' => MayRunAgain(w, b))
       \/ faults' = faults + 1

LEMMA NeutralPays ==
    ASSUME TypeInv, TypeInv', NEW b \in Jobs, Accounted(b),
           NEW w \in Workers, Neutral(w, b)
    PROVE  Accounted(b)'
<1>1. faults \in Nat /\ Cardinality(Places(queue, b)) \in Nat
  BY Tallies, Parts
<1>2. Places(queue', b) = Places(queue, b)
  BY DEF Neutral
<1>3. One(MayRunAgain(w, b)') + faults <= One(MayRunAgain(w, b)) + faults'
  BY <1>1 DEF Neutral, One
<1>4. /\ One(b \in delayed) \in Nat /\ One(b \in delayed') = One(b \in delayed)
      /\ One(MayRunAgain(w, b)) \in Nat /\ One(MayRunAgain(w, b)') \in Nat
  BY DEF One, Neutral
<1>5. Others(w, b) /\ attempts'[b] = attempts[b]
      /\ (faults' = faults \/ faults' = faults + 1)
  BY DEF Neutral
<1>6. Cardinality(Places(queue', b)) + One(b \in delayed')
                 + One(MayRunAgain(w, b)') + faults
        <= Cardinality(Places(queue, b)) + One(b \in delayed)
                 + One(MayRunAgain(w, b)) + faults'
  BY <1>1, <1>2, <1>3, <1>4, <1>5
<1>. QED BY <1>5, <1>6, WorkerPays

\* A request's step that pays for the copy it makes.
LEMMA ApiPays ==
    ASSUME TypeInv, TypeInv', NEW b \in Jobs, Accounted(b),
           NEW h \in Handlers, OthersApi(h, b),
           recoveries' = recoveries \/ recoveries' = recoveries + 1,
           Cardinality(Places(queue', b)) + One(HandlerCarries(h, b)') + recoveries
             <= Cardinality(Places(queue, b)) + One(HandlerCarries(h, b)) + recoveries'
    PROVE  Accounted(b)'
<1>1. recoveries \in Nat /\ faults \in Nat /\ attempts[b] \in Nat
      /\ recoveries' \in Nat /\ faults' = faults /\ attempts'[b] = attempts[b]
  BY Tallies DEF OthersApi
<1>2. Cardinality(Places(queue, b)) \in Nat
  BY Parts
<1>3. Cardinality(Places(queue', b)) \in Nat
  <2>1. queue' \in Seq(Jobs)
    BY DEF TypeInv, TypeOK, RedisTypeOK
  <2>. QED BY <2>1, PlacesFinite
<1>4. One(HandlerCarries(h, b)) \in Nat /\ One(HandlerCarries(h, b)') \in Nat
  BY DEF One
<1>5. /\ IsFiniteSet(WorkerCopies(b)') /\ IsFiniteSet(HandlerCopies(b)')
      /\ Copies(b) \in Nat /\ Copies(b)' \in Nat
      /\ Copies(b)' + recoveries <= Copies(b) + recoveries'
  BY <1>1, <1>2, <1>3, <1>4, ApiBalance
<1>6. /\ Copies(b)' <= 1 + recoveries' + faults'
      /\ attempts'[b] >= MaxRetries =>
             attempts'[b] + Copies(b)' <= MaxRetries + recoveries' + faults'
  BY <1>1, <1>5, BoundsAssumption DEF Accounted
<1>. QED BY <1>5, <1>6 DEF Accounted

\* The same of a request's step.
NeutralApi(h, b) ==
    /\ OthersApi(h, b) /\ queue' = queue
    /\ \/ recoveries' = recoveries /\ (HandlerCarries(h, b)' => HandlerCarries(h, b))
       \/ recoveries' = recoveries + 1

LEMMA NeutralApiPays ==
    ASSUME TypeInv, TypeInv', NEW b \in Jobs, Accounted(b),
           NEW h \in Handlers, NeutralApi(h, b)
    PROVE  Accounted(b)'
<1>1. recoveries \in Nat /\ Cardinality(Places(queue, b)) \in Nat
  BY Tallies, Parts
<1>2. Places(queue', b) = Places(queue, b)
  BY DEF NeutralApi
<1>3. One(HandlerCarries(h, b)') + recoveries <= One(HandlerCarries(h, b)) + recoveries'
  BY <1>1 DEF NeutralApi, One
<1>4. One(HandlerCarries(h, b)) \in Nat /\ One(HandlerCarries(h, b)') \in Nat
  BY DEF One
<1>5. OthersApi(h, b) /\ (recoveries' = recoveries \/ recoveries' = recoveries + 1)
  BY DEF NeutralApi
<1>6. Cardinality(Places(queue', b)) + One(HandlerCarries(h, b)') + recoveries
        <= Cardinality(Places(queue, b)) + One(HandlerCarries(h, b)) + recoveries'
  BY <1>1, <1>2, <1>3, <1>4, <1>5
<1>. QED BY <1>5, <1>6, ApiPays

LEMMA AfterSaveRetry ==
    ASSUME NEW t, NEW a, AfterSave(t, a) = "checkpoint" PROVE a < MaxRetries
BY DEF AfterSave

\* The worker's steps that change a list.
ListStep(w) ==
    \/ PromotePop(w) \/ PromoteDue(w) \/ PromoteNotDue(w) \/ PopJob(w)
    \/ SchedulePostponed(w) \/ ScheduleRetry(w)

\* The worker's steps that leave the lists alone and start no run.
LEMMA NeutralSteps ==
    ASSUME TypeInv, NEW b \in Jobs, NEW w \in Workers,
           WorkerStep(w) \/ WorkerTrouble(w), ~ListStep(w), ~MarkRunning(w)
    PROVE  Neutral(w, b)
<1>. USE Shapes, HasJob, Counts
     DEF Neutral, Others, MayRunAgain, HandlerCarries, MyJob, GoTo, Step,
         LockedPoints, UnlockedPoints, LoopPoints, TryPoints, ReleasePoints,
         WorkerPoints, store, runs, redis, locals, worker, api, budget
<1>1. ASSUME PromoteNone(w) PROVE Neutral(w, b)
  BY <1>1 DEF PromoteNone
<1>2. ASSUME PopTimeout(w) PROVE Neutral(w, b)
  BY <1>2 DEF PopTimeout
<1>3. ASSUME SkipJob(w) PROVE Neutral(w, b)
  BY <1>3 DEF SkipJob, LeaveJob
<1>4. ASSUME LoadJob(w) PROVE Neutral(w, b)
  BY <1>4 DEF LoadJob
<1>5. ASSUME ReadCheckpoint(w) PROVE Neutral(w, b)
  BY <1>5 DEF ReadCheckpoint
<1>6. ASSUME AcquireRunLock(w) PROVE Neutral(w, b)
  BY <1>6 DEF AcquireRunLock
<1>7. ASSUME LockUnavailable(w) PROVE Neutral(w, b)
  BY <1>7 DEF LockUnavailable
<1>8. ASSUME MarkPostponed(w) PROVE Neutral(w, b)
  BY <1>8 DEF MarkPostponed, SetStatus
<1>9. ASSUME RunWorkflow(w) PROVE Neutral(w, b)
  BY <1>9 DEF RunWorkflow
<1>10. ASSUME SaveRun(w) PROVE Neutral(w, b)
  BY <1>10, AfterSavePoint, AfterSaveRetry DEF SaveRun, Answered, Raise
<1>11. ASSUME MarkAwaitingHuman(w) PROVE Neutral(w, b)
  BY <1>11 DEF MarkAwaitingHuman, SetStatus, Answered, Raise
<1>12. ASSUME MarkCompleted(w) PROVE Neutral(w, b)
  BY <1>12 DEF MarkCompleted, SetStatus, Answered, Raise
<1>13. ASSUME SaveCheckpoint(w) PROVE Neutral(w, b)
  BY <1>13 DEF SaveCheckpoint, Answered, Raise
<1>14. ASSUME MarkRetryScheduled(w) PROVE Neutral(w, b)
  BY <1>14 DEF MarkRetryScheduled, SetStatus, Answered, Raise
<1>15. ASSUME MarkDeadLetter(w) PROVE Neutral(w, b)
  BY <1>15 DEF MarkDeadLetter, SetStatus, Answered, Raise
<1>16. ASSUME PushDeadLetter(w) PROVE Neutral(w, b)
  BY <1>16 DEF PushDeadLetter, Answered, Raise
<1>17. ASSUME HandleException(w) PROVE Neutral(w, b)
  BY <1>17 DEF HandleException
<1>18. ASSUME TokenMatches(w) PROVE Neutral(w, b)
  BY <1>18 DEF TokenMatches
<1>19. ASSUME TokenDiffers(w) PROVE Neutral(w, b)
  BY <1>19 DEF TokenDiffers, LeaveJob
<1>20. ASSUME DeleteLock(w) PROVE Neutral(w, b)
  BY <1>20 DEF DeleteLock, LeaveJob
<1>21. ASSUME CallFails(w) PROVE Neutral(w, b)
  BY <1>21 DEF CallFails, Raise
<1>22. ASSUME HandlerFails(w) PROVE Neutral(w, b)
  BY <1>22 DEF HandlerFails, HandlingPoints
<1>23. ASSUME Crash(w) PROVE Neutral(w, b)
  BY <1>23 DEF Crash
<1>24. ASSUME Restart(w) PROVE Neutral(w, b)
  BY <1>24 DEF Restart
<1>25. ASSUME ReadAttempts(w) PROVE Neutral(w, b)
  BY <1>25 DEF ReadAttempts
<1>26. ASSUME ReadRunning(w) PROVE Neutral(w, b)
  BY <1>26 DEF ReadRunning
<1>. QED
  BY <1>1, <1>2, <1>3, <1>4, <1>5, <1>6, <1>7, <1>8, <1>9, <1>10,
      <1>11, <1>12, <1>13, <1>14, <1>15, <1>16, <1>17, <1>18, <1>19, <1>20,
      <1>21, <1>22, <1>23, <1>24, <1>25, <1>26
      DEF WorkerStep, QueueStep, BeforeLock, TryBlock, AfterTry, WorkerTrouble,
          ListStep

\* The requests' steps that neither submit a job nor push its id.
LEMMA NeutralRequests ==
    ASSUME TypeInv, NEW b \in Jobs, NEW h \in Handlers,
           NewRequest(h) \/ HandlerStep(h) \/ HandlerCrash(h), ~Enqueue(h),
           ~ \E j \in Jobs : SubmitCreate(h, j)
    PROVE  NeutralApi(h, b)
<1>. USE Shapes, HasJob
     DEF NeutralApi, OthersApi, MayRunAgain, HandlerCarries, HandlerGoTo,
         store, runs, redis, locals, worker, api, budget
<1>1. ASSUME NEW j \in Jobs, RecoverRead(h, j) PROVE NeutralApi(h, b)
  BY <1>1 DEF RecoverRead, Begin
<1>2. ASSUME NEW j \in Jobs, DecideRead(h, j) PROVE NeutralApi(h, b)
  BY <1>2 DEF DecideRead, Begin
<1>3. ASSUME RecoverReadCheckpoint(h) PROVE NeutralApi(h, b)
  BY <1>3 DEF RecoverReadCheckpoint
<1>4. ASSUME MarkRecovering(h) PROVE NeutralApi(h, b)
  BY <1>4 DEF MarkRecovering, SetStatus
<1>5. ASSUME RecordApproval(h) PROVE NeutralApi(h, b)
  BY <1>5 DEF RecordApproval
<1>6. ASSUME RecordRejection(h) PROVE NeutralApi(h, b)
  BY <1>6 DEF RecordRejection
<1>7. ASSUME CompleteApproved(h) PROVE NeutralApi(h, b)
  BY <1>7 DEF CompleteApproved, SetStatus, Respond
<1>8. ASSUME FailRejected(h) PROVE NeutralApi(h, b)
  BY <1>8 DEF FailRejected, SetStatus, Respond
<1>9. ASSUME HandlerCrash(h) PROVE NeutralApi(h, b)
  BY <1>9 DEF HandlerCrash, Respond
<1>. QED BY <1>1, <1>2, <1>3, <1>4, <1>5, <1>6, <1>7, <1>8, <1>9
      DEF NewRequest, HandlerStep

\* The steps that move a copy between the lists and a worker.
LEMMA ListSteps ==
    ASSUME TypeInv, TypeInv', NEW b \in Jobs, Accounted(b),
           NEW w \in Workers, ListStep(w)
    PROVE  Accounted(b)'
<1>. DEFINE Q == Cardinality(Places(queue, b))
            R == Cardinality(Places(queue', b))
<1>0. Q \in Nat /\ queue \in Seq(Jobs) /\ faults \in Nat
  BY Parts, Lists, Tallies
<1>1. ASSUME queue' = queue PROVE R = Q
  BY <1>1
<1>. USE Shapes, HasJob, Counts, Lists
     DEF Others, MayRunAgain, HandlerCarries, MyJob, GoTo, Step,
         LockedPoints, UnlockedPoints, LoopPoints, TryPoints, ReleasePoints,
         WorkerPoints, store, runs, redis, locals, worker, api, budget
<1>2. CASE PromotePop(w)
  <2>1. Others(w, b) /\ attempts'[b] = attempts[b] /\ faults' = faults /\ queue' = queue
    BY <1>2 DEF PromotePop
  <2>2. One(b \in delayed') + One(MayRunAgain(w, b)')
          <= One(b \in delayed) + One(MayRunAgain(w, b))
    BY <1>2 DEF PromotePop, One
  <2>. QED BY ONLY TypeInv, TypeInv', Accounted(b), b \in Jobs, w \in Workers,
           <1>0, <1>1, <2>1, <2>2, WorkerPays DEF One
<1>3. CASE PromoteDue(w)
  <2>1. Others(w, b) /\ attempts'[b] = attempts[b] /\ faults' = faults
    BY <1>3 DEF PromoteDue
  <2>2. job[w] \in Jobs /\ queue' = Append(queue, job[w])
    BY <1>3 DEF PromoteDue
  <2>3. R \in Nat /\ R <= Q + One(b = job[w])
    BY <1>0, <2>2, PlacesAppend DEF One
  <2>4. /\ One(b \in delayed') = One(b \in delayed)
        /\ One(b = job[w]) + One(MayRunAgain(w, b)') <= One(MayRunAgain(w, b))
    BY <1>3, JobsAssumption DEF PromoteDue, One
  <2>. QED BY ONLY TypeInv, TypeInv', Accounted(b), b \in Jobs, w \in Workers,
           <1>0, <2>1, <2>3, <2>4, WorkerPays DEF One
<1>4. CASE PromoteNotDue(w)
  <2>1. Others(w, b) /\ attempts'[b] = attempts[b] /\ faults' = faults /\ queue' = queue
    BY <1>4 DEF PromoteNotDue
  <2>2. One(b \in delayed') + One(MayRunAgain(w, b)')
          <= One(b \in delayed) + One(MayRunAgain(w, b))
    BY <1>4, JobsAssumption DEF PromoteNotDue, One
  <2>. QED BY ONLY TypeInv, TypeInv', Accounted(b), b \in Jobs, w \in Workers,
           <1>0, <1>1, <2>1, <2>2, WorkerPays DEF One
<1>5. CASE PopJob(w)
  <2>1. Others(w, b) /\ attempts'[b] = attempts[b] /\ faults' = faults
    BY <1>5 DEF PopJob
  <2>2. queue # <<>> /\ queue' = Tail(queue)
    BY <1>5 DEF PopJob
  <2>3. R \in Nat /\ R <= Q - One(b = Head(queue))
    BY <1>0, <2>2, PlacesTail DEF One
  <2>4. /\ One(b \in delayed') = One(b \in delayed)
        /\ One(MayRunAgain(w, b)') <= One(MayRunAgain(w, b)) + One(b = Head(queue))
    BY <1>5 DEF PopJob, One
  <2>5. R + One(b \in delayed') + One(MayRunAgain(w, b)') + faults
          <= Q + One(b \in delayed) + One(MayRunAgain(w, b)) + faults'
    <3>. HIDE DEF Q, R
    <3>. QED BY ONLY <1>0, <2>1, <2>3, <2>4 DEF One
  <2>. QED BY ONLY TypeInv, TypeInv', Accounted(b), b \in Jobs, w \in Workers,
           <2>1, <2>5, WorkerPays
<1>6. CASE SchedulePostponed(w)
  <2>1. Others(w, b) /\ attempts'[b] = attempts[b] /\ faults' = faults /\ queue' = queue
    BY <1>6 DEF SchedulePostponed, LeaveJob
  <2>2. One(b \in delayed') + One(MayRunAgain(w, b)')
          <= One(b \in delayed) + One(MayRunAgain(w, b))
    BY <1>6, JobsAssumption DEF SchedulePostponed, LeaveJob, One
  <2>. QED BY ONLY TypeInv, TypeInv', Accounted(b), b \in Jobs, w \in Workers,
           <1>0, <1>1, <2>1, <2>2, WorkerPays DEF One
<1>7. CASE ScheduleRetry(w)
  <2>1. Others(w, b) /\ attempts'[b] = attempts[b] /\ queue' = queue
    BY <1>7 DEF ScheduleRetry, Answered, Raise
  <2>2. \/ faults' = faults /\ pc'[w] = "release"
        \/ faults' = faults + 1
    BY <1>7 DEF ScheduleRetry, Answered, Raise
  <2>3. /\ One(b \in delayed') <= One(b \in delayed) + One(b = job[w])
        /\ One(b = job[w]) <= One(MayRunAgain(w, b))
        /\ faults' = faults => One(MayRunAgain(w, b)') = 0
        /\ One(MayRunAgain(w, b)') <= 1
    BY <1>0, <1>7, <2>2 DEF ScheduleRetry, Answered, One
  <2>4. One(b \in delayed') + One(MayRunAgain(w, b)') + faults
          <= One(b \in delayed) + One(MayRunAgain(w, b)) + faults'
    BY ONLY <1>0, <2>2, <2>3 DEF One
  <2>5. faults' = faults \/ faults' = faults + 1
    BY <2>2
  <2>. QED BY ONLY TypeInv, TypeInv', Accounted(b), b \in Jobs, w \in Workers,
           <1>0, <1>1, <2>1, <2>4, <2>5, WorkerPays DEF One
<1>. QED BY <1>2, <1>3, <1>4, <1>5, <1>6, <1>7 DEF ListStep

\* A run of b that starts uses up an attempt; when it is the last one, the
\* worker's copy is used up with it.
LEMMA RunStarts ==
    ASSUME TypeInv, TypeInv', NEW b \in Jobs, Accounted(b),
           NEW w \in Workers, MarkRunning(w), ExhaustInv
    PROVE  Accounted(b)'
<1>. USE Shapes, HasJob, Counts
     DEF Others, MayRunAgain, HandlerCarries, MyJob, GoTo,
         LockedPoints, UnlockedPoints, LoopPoints, TryPoints, ReleasePoints,
         WorkerPoints, store, runs, redis, locals, worker, api, budget
<1>1. /\ queue' = queue /\ delayed' = delayed /\ faults' = faults
      /\ pc[w] = "mark" /\ pc' = [pc EXCEPT ![w] = "marked"]
      /\ job' = job /\ att' = att /\ recoveries' = recoveries /\ job[w] \in Jobs
      /\ attempts' = [attempts EXCEPT ![job[w]] = attempts[job[w]] + 1]
  BY DEF MarkRunning, ExhaustInv, Step
<1>2. Others(w, b)
  <2>1. attempts[job[w]] \in Nat /\ job[w] \in Jobs
    BY <1>1
  <2>2. attempts'[b] = attempts[b] \/ attempts'[b] = attempts[b] + 1
    BY <1>1
  <2>3. ASSUME NEW v \in Workers \ {w}, MayRunAgain(v, b)' PROVE MayRunAgain(v, b)
    <3>1. pc'[v] = pc[v] /\ job'[v] = job[v] /\ att'[v] = att[v]
      BY <1>1, <2>3
    <3>2. attempts'[b] < MaxRetries => attempts[b] < MaxRetries
      BY <2>2, BoundsAssumption
    <3>. QED BY <2>3, <3>1, <3>2
  <2>4. UNCHANGED <<hpc, hjob, recoveries>>
    BY DEF MarkRunning
  <2>. QED BY <2>3, <2>4
<1>3. CASE job[w] # b
  <2>1. Neutral(w, b)
    BY <1>1, <1>2, <1>3 DEF Neutral
  <2>. QED BY ONLY TypeInv, TypeInv', Accounted(b), b \in Jobs, w \in Workers,
           <2>1, NeutralPays
<1>4. CASE job[w] = b
  <2>1. attempts'[b] = attempts[b] + 1 /\ attempts[b] \in Nat
    BY <1>1, <1>4
  <2>2. MayRunAgain(w, b)
    BY <1>1, <1>4
  <2>3. MayRunAgain(w, b)' => attempts'[b] < MaxRetries
    BY <1>1, <1>4, <2>1
  <2>4. /\ Cardinality(Places(queue, b)) \in Nat
        /\ Cardinality(Places(queue', b)) = Cardinality(Places(queue, b))
        /\ One(b \in delayed) \in Nat /\ One(b \in delayed') = One(b \in delayed)
        /\ One(MayRunAgain(w, b)) = 1 /\ One(MayRunAgain(w, b)') \in {0, 1}
        /\ ~(attempts'[b] < MaxRetries) => One(MayRunAgain(w, b)') = 0
    BY <1>1, <2>2, <2>3, Parts DEF One
  <2>5. recoveries \in Nat /\ faults \in Nat
    BY Tallies
  <2>6. /\ IsFiniteSet(WorkerCopies(b)') /\ IsFiniteSet(HandlerCopies(b)')
        /\ Copies(b) \in Nat /\ Copies(b)' \in Nat
        /\ Copies(b)' <= Copies(b)
                 + Cardinality(Places(queue', b)) - Cardinality(Places(queue, b))
                 + One(b \in delayed') - One(b \in delayed)
                 + One(MayRunAgain(w, b)') - One(MayRunAgain(w, b))
    BY ONLY TypeInv, TypeInv', Accounted(b), b \in Jobs, w \in Workers,
       <1>2, WorkerBalance
  <2>7. /\ Copies(b)' <= Copies(b)
        /\ ~(attempts'[b] < MaxRetries) => Copies(b)' <= Copies(b) - 1
    <3>. HIDE DEF MayRunAgain
    <3>. QED BY ONLY <2>4, <2>6
  <2>8. /\ Copies(b) <= 1 + recoveries + faults
        /\ attempts[b] >= MaxRetries =>
               attempts[b] + Copies(b) <= MaxRetries + recoveries + faults
    BY DEF Accounted
  <2>9. /\ Copies(b)' <= 1 + recoveries' + faults'
        /\ attempts'[b] >= MaxRetries =>
               attempts'[b] + Copies(b)' <= MaxRetries + recoveries' + faults'
    BY ONLY <1>1, <2>1, <2>5, <2>6, <2>7, <2>8, BoundsAssumption
  <2>. QED BY ONLY <2>6, <2>9 DEF Accounted
<1>. QED BY <1>3, <1>4

\* The submitted copy is the first.
LEMMA FirstCopy ==
    ASSUME TypeInv, TypeInv', NEW b \in Jobs, Accounted(b), UnknownInv,
           NEW h \in Handlers, NEW j \in Jobs, SubmitCreate(h, j)
    PROVE  Accounted(b)'
<1>. USE Shapes DEF OthersApi, MayRunAgain, HandlerCarries, HandlerGoTo,
         SubmitCreate, SetStatus, Begin, store, runs, redis, worker, locals, budget
<1>1. OthersApi(h, b) /\ queue' = queue /\ recoveries' = recoveries
  OBVIOUS
<1>2. CASE j # b
  <2>1. NeutralApi(h, b)
    BY <1>1, <1>2 DEF NeutralApi
  <2>. QED BY ONLY TypeInv, TypeInv', Accounted(b), b \in Jobs, h \in Handlers,
           <2>1, NeutralApiPays
<1>3. CASE j = b
  <2>1. Unseen(b)
    BY <1>3 DEF UnknownInv
  <2>2. WorkerCopies(b) = {} /\ HandlerCopies(b) = {} /\ QueueCopies(b) = {}
        /\ DelayedCopies(b) = {}
    BY <2>1 DEF Unseen, InQueue, WorkerCopies, HandlerCopies, QueueCopies,
       DelayedCopies
  <2>3. Copies(b) = 0
    BY <2>2, FS_EmptySet DEF Copies
  <2>4. /\ IsFiniteSet(WorkerCopies(b)') /\ IsFiniteSet(HandlerCopies(b)')
        /\ Copies(b)' \in Nat
        /\ Copies(b)' <= Copies(b)
                 + Cardinality(Places(queue', b)) - Cardinality(Places(queue, b))
                 + One(HandlerCarries(h, b)') - One(HandlerCarries(h, b))
    BY ONLY TypeInv, TypeInv', Accounted(b), b \in Jobs, h \in Handlers,
       <1>1, ApiBalance
  <2>5. /\ Cardinality(Places(queue, b)) \in Nat
        /\ Cardinality(Places(queue', b)) = Cardinality(Places(queue, b))
        /\ One(HandlerCarries(h, b)') \in {0, 1} /\ One(HandlerCarries(h, b)) \in {0, 1}
    BY <1>1, Parts DEF One
  <2>6. Copies(b)' <= 1
    BY ONLY <2>3, <2>4, <2>5
  <2>7. recoveries \in Nat /\ faults \in Nat /\ recoveries' = recoveries
        /\ faults' = faults /\ attempts'[b] = 0
    BY <1>1, <2>1, Tallies DEF Unseen
  <2>8. /\ Copies(b)' <= 1 + recoveries' + faults'
        /\ ~(attempts'[b] >= MaxRetries)
    BY ONLY <2>4, <2>6, <2>7, BoundsAssumption
  <2>. QED BY ONLY <2>4, <2>8 DEF Accounted
<1>. QED BY <1>2, <1>3

\* A request hands its copy to the queue.
LEMMA HandOver ==
    ASSUME TypeInv, TypeInv', NEW b \in Jobs, Accounted(b),
           NEW h \in Handlers, Enqueue(h)
    PROVE  Accounted(b)'
<1>. DEFINE Q == Cardinality(Places(queue, b))
            R == Cardinality(Places(queue', b))
<1>. USE Shapes DEF OthersApi, MayRunAgain, HandlerCarries, HandlerGoTo,
         Enqueue, Respond, store, runs, redis, worker, locals, budget
<1>1. OthersApi(h, b) /\ recoveries' = recoveries
  OBVIOUS
<1>2. hjob[h] \in Jobs /\ queue' = Append(queue, hjob[h]) /\ queue \in Seq(Jobs)
  BY HasJob, Lists
<1>3. Q \in Nat /\ R \in Nat /\ R <= Q + One(b = hjob[h])
  BY <1>2, PlacesFinite, PlacesAppend DEF One
<1>4. One(b = hjob[h]) + One(HandlerCarries(h, b)') <= One(HandlerCarries(h, b))
  BY <1>1 DEF One
<1>5. R + One(HandlerCarries(h, b)') + recoveries
         <= Q + One(HandlerCarries(h, b)) + recoveries'
  <2>1. recoveries \in Nat
    BY Tallies
  <2>. HIDE DEF Q, R
  <2>. QED BY ONLY <1>1, <1>3, <1>4, <2>1 DEF One
<1>. QED BY ONLY TypeInv, TypeInv', Accounted(b), b \in Jobs, h \in Handlers,
         <1>1, <1>5, ApiPays

LEMMA SameAccount ==
    ASSUME NEW b \in Jobs, Accounted(b),
           UNCHANGED <<attempts, queue, delayed, worker, api, budget>>
    PROVE  Accounted(b)'
BY DEF Accounted, Copies, WorkerCopies, HandlerCopies, QueueCopies,
       DelayedCopies, MayRunAgain, HandlerCarries, worker, locals, api, budget

LEMMA CopiesNat ==
    ASSUME TypeInv, NEW b \in Jobs, Accounted(b) PROVE Copies(b) \in Nat
<1>1. /\ Cardinality(QueueCopies(b)) \in Nat
      /\ Cardinality(DelayedCopies(b)) = One(b \in delayed)
  BY Parts
<1>2. Cardinality(WorkerCopies(b)) \in Nat /\ Cardinality(HandlerCopies(b)) \in Nat
  BY FS_CardinalityType DEF Accounted
<1>. QED BY <1>1, <1>2 DEF Copies, One

LEMMA AccountStep ==
    ASSUME TypeInv, TypeInv', UnknownInv, ExhaustInv, NEW b \in Jobs, Accounted(b), Next
    PROVE  Accounted(b)'
<1>1. ASSUME NEW w \in Workers, WorkerStep(w) \/ WorkerTrouble(w)
      PROVE  Accounted(b)'
  BY <1>1, NeutralSteps, NeutralPays, ListSteps, RunStarts
<1>2. ASSUME NEW h \in Handlers, NewRequest(h) \/ HandlerStep(h) \/ HandlerCrash(h)
      PROVE  Accounted(b)'
  BY <1>2, NeutralRequests, NeutralApiPays, FirstCopy, HandOver
<1>3. ASSUME NEW i \in Incidents, LockExpires(i) \/ DecideIncident(i) \/ RunIncident(i)
      PROVE  Accounted(b)'
  <2>1. UNCHANGED <<attempts, queue, delayed, worker, api, budget>>
    BY <1>3 DEF LockExpires, DecideIncident, RunIncident, store, redis
  <2>. QED BY <2>1, SameAccount
<1>. QED BY <1>1, <1>2, <1>3 DEF Next

LEMMA Accounting == RunsFitTTL => (Spec => []CopiesInv)
<1>. SUFFICES ASSUME RunsFitTTL PROVE Spec => []CopiesInv
  OBVIOUS
<1>1. Init => CopiesInv
  <2>. SUFFICES ASSUME Init, NEW b \in Jobs PROVE Accounted(b)
    BY DEF CopiesInv
  <2>1. /\ WorkerCopies(b) = {} /\ HandlerCopies(b) = {} /\ QueueCopies(b) = {}
        /\ DelayedCopies(b) = {} /\ attempts[b] = 0 /\ recoveries = 0 /\ faults = 0
    BY JobsAssumption DEF Init, WorkerCopies, HandlerCopies, QueueCopies,
       DelayedCopies, MayRunAgain, HandlerCarries
  <2>2. Copies(b) = 0 /\ IsFiniteSet(WorkerCopies(b)) /\ IsFiniteSet(HandlerCopies(b))
    BY <2>1, FS_EmptySet DEF Copies
  <2>. QED BY <2>1, <2>2, BoundsAssumption DEF Accounted
<1>2. TypeInv /\ TypeInv' /\ UnknownInv /\ ExhaustInv /\ CopiesInv /\ [Next]_vars
        => CopiesInv'
  <2>1. ASSUME TypeInv, TypeInv', UnknownInv, ExhaustInv, CopiesInv, Next PROVE CopiesInv'
    BY <2>1, AccountStep DEF CopiesInv
  <2>2. ASSUME CopiesInv, UNCHANGED vars PROVE CopiesInv'
    BY <2>2, SameAccount DEF CopiesInv, vars, store, runs, redis, worker, locals,
       api, budget
  <2>. QED BY <2>1, <2>2
<1>. QED BY Typing, Unseeing, Exhausting, <1>1, <1>2, PTL DEF Spec

\* As long as no run outlasts the time to live of the run lock: however
\* often workers and requests raise, die and come back, the runs of a job do
\* not exceed the retry limit plus the accepted resume requests and the
\* calls that raised: nothing else gives it a copy to run.  (Without the
\* lock, mark_job_running may put the count back, store.py:485-505.)
THEOREM RunsArePaidFor == RunsFitTTL => (Spec => []AttemptsBudget)
<1>. SUFFICES ASSUME RunsFitTTL PROVE Spec => []AttemptsBudget
  OBVIOUS
<1>1. TypeInv /\ CopiesInv => AttemptsBudget
  <2>. SUFFICES ASSUME TypeInv, CopiesInv, NEW j \in Jobs
                PROVE  attempts[j] <= MaxRetries + recoveries + faults
    BY DEF AttemptsBudget
  <2>1. recoveries \in Nat /\ faults \in Nat /\ attempts[j] \in Nat
    BY Tallies
  <2>2. CASE attempts[j] < MaxRetries
    BY <2>1, <2>2, BoundsAssumption
  <2>3. CASE attempts[j] >= MaxRetries
    <3>1. attempts[j] + Copies(j) <= MaxRetries + recoveries + faults
      BY <2>3 DEF CopiesInv, Accounted
    <3>2. Copies(j) \in Nat
      BY CopiesNat DEF CopiesInv
    <3>. QED BY <2>1, <3>1, <3>2, BoundsAssumption
  <2>. QED BY <2>1, <2>2, <2>3, BoundsAssumption
<1>. QED BY Typing, Accounting, <1>1, PTL

=============================================================================
