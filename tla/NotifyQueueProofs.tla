--------------------------- MODULE NotifyQueueProofs ---------------------------
(***************************************************************************)
(* Theorems about the pipeline, for every number of jobs, workers,         *)
(* schedulers and tiers and for every failure budget: whose row an outcome *)
(* is written on, that sent is final and how often a job is delivered.     *)
(***************************************************************************)
EXTENDS NotifyQueue, FiniteSetTheorems, TLAPS

-----------------------------------------------------------------------------
(* Rows.                                                                   *)

\* Every SET clause of a one-row statement maps a row to a row.
LEMMA RowTypes ==
    ASSUME NEW r \in Row, NEW w \in Workers, NEW n \in Nat, NEW due \in BOOLEAN
    PROVE  /\ AbsentRow \in Row
           /\ INSERT_JOB(due) \in Row
           /\ PROMOTE_DUE_JOBS(r) \in Row
           /\ CLAIM_QUEUED_JOB(r, w) \in Row
           /\ UPDATE_HEARTBEAT(r) \in Row
           /\ MARK_SENT(r) \in Row
           /\ SCHEDULE_RETRY(r, n) \in Row
           /\ DEFER_TO_NEXT_WINDOW(r) \in Row
           /\ MARK_DEAD_LETTERED(r, n) \in Row
           /\ RETRY_DEAD_LETTERED_JOB(r) \in Row
  <1>. USE DEF Row, JobStatus, WorkerId
  <1>1. AbsentRow \in Row /\ INSERT_JOB(due) \in Row
    BY DEF AbsentRow, INSERT_JOB
  <1>2. PROMOTE_DUE_JOBS(r) \in Row /\ CLAIM_QUEUED_JOB(r, w) \in Row
    BY DEF PROMOTE_DUE_JOBS, CLAIM_QUEUED_JOB
  <1>3. UPDATE_HEARTBEAT(r) \in Row /\ MARK_SENT(r) \in Row
    BY DEF UPDATE_HEARTBEAT, MARK_SENT
  <1>4. Disowned(r) \in Row
    BY DEF Disowned
  <1>. HIDE DEF Disowned
  <1>5. SCHEDULE_RETRY(r, n) \in Row /\ DEFER_TO_NEXT_WINDOW(r) \in Row
    BY <1>4 DEF SCHEDULE_RETRY, DEFER_TO_NEXT_WINDOW
  <1>6. MARK_DEAD_LETTERED(r, n) \in Row /\ RETRY_DEAD_LETTERED_JOB(r) \in Row
    BY <1>4 DEF MARK_DEAD_LETTERED, RETRY_DEAD_LETTERED_JOB
  <1> QED
    BY <1>1, <1>2, <1>3, <1>5, <1>6

\* The row RECOVER_STALE_CLAIMED writes.
LEMMA RecoveredRow ==
    ASSUME NEW r \in Row
    PROVE  RECOVER_STALE_CLAIMED(r) \in Row
  <1>1. Disowned(r) \in Row
    BY DEF Disowned, Row, WorkerId
  <1>2. Disowned(r).attempt_count + 1 \in Nat
    BY <1>1 DEF Row
  <1> QED
    BY <1>1, <1>2 DEF RECOVER_STALE_CLAIMED, Row, JobStatus

\* A statement on one row leaves a table of rows, and leaves the other rows.
LEMMA UpdateOneRow ==
    ASSUME jobs \in [Jobs -> Row], NEW j \in Jobs, NEW row \in Row, Update(j, row)
    PROVE  /\ jobs' \in [Jobs -> Row]
           /\ jobs'[j] = row
           /\ \A k \in Jobs : k # j => jobs'[k] = jobs[k]
  BY DEF Update

\* The two-row transaction keeps both tables' types.
LEMMA DeadLetterTypes ==
    ASSUME StoreTypeOK, NEW j \in Jobs, NEW n \in Nat, DeadLetterTransaction(j, n)
    PROVE  jobs' \in [Jobs -> Row] /\ dead_letter_queue' \in [Jobs -> Nat]
  <1>1. jobs[j] \in Row
    BY DEF StoreTypeOK
  <1>2. MARK_DEAD_LETTERED(jobs[j], n) \in Row
    BY <1>1 DEF Row, JobStatus, WorkerId, Disowned, MARK_DEAD_LETTERED
  <1> QED
    BY <1>2, UpdateOneRow DEF DeadLetterTransaction, StoreTypeOK

\* DEL of a lock.
LEMMA DeleteLockType ==
    ASSUME StoreTypeOK, NEW j \in Jobs, DeleteLock(j)
    PROVE  lock' \in [Jobs -> WorkerId]
  BY DEF StoreTypeOK, DeleteLock, WorkerId

-----------------------------------------------------------------------------
(* Types of a worker's steps.                                              *)

\* Starting over with nothing in hand.
LEMMA EndIterationType ==
    ASSUME WorkerTypeOK, NEW w \in Workers, EndIteration(w)
    PROVE  WorkerTypeOK'
  BY StoreAssumption DEF EndIteration, Drop, WorkerTypeOK, WorkerPcs, View, NoView, WorkerId

\* The steps of claim_next_job.
LEMMA ClaimStepType ==
    ASSUME StoreTypeOK, WorkerTypeOK, NEW w \in Workers, ClaimStep(w)
    PROVE  StoreTypeOK' /\ WorkerTypeOK'
  <1>. USE StoreAssumption DEF WorkerPcs, ProcessingPcs
  <1>1. CASE PollEmpty(w)
    BY <1>1 DEF PollEmpty, NextTier, Drop, storeVars, StoreTypeOK, WorkerTypeOK, View, NoView, WorkerId
  <1>2. CASE PopMin(w)
    BY <1>2 DEF PopMin, Waiting, StoreTypeOK, WorkerTypeOK
  <1>3. CASE AcquireLock(w)
    BY <1>3 DEF AcquireLock, Goto, StoreTypeOK, WorkerTypeOK, WorkerId
  <1>4. CASE LockRefused(w)
    BY <1>4 DEF LockRefused, NextTier, Drop, storeVars, StoreTypeOK, WorkerTypeOK, View, NoView, WorkerId
  <1>5. CASE Claim(w)
    <2>1. held[w] \in Jobs /\ jobs[held[w]] \in Row
      BY <1>5 DEF Claim, StoreTypeOK, WorkerTypeOK
    <2>2. jobs' \in [Jobs -> Row]
      BY <1>5, <2>1, RowTypes, UpdateOneRow DEF Claim, StoreTypeOK
    <2> QED
      BY <1>5, <2>2 DEF Claim, StoreTypeOK, WorkerTypeOK
  <1>6. CASE ClaimRefused(w)
    BY <1>6 DEF ClaimRefused, Goto, storeVars, StoreTypeOK, WorkerTypeOK
  <1>7. CASE UnlockRefused(w)
    <2>1. held[w] \in Jobs
      BY <1>7 DEF UnlockRefused, WorkerTypeOK
    <2> QED
      BY <1>7, <2>1, DeleteLockType
         DEF UnlockRefused, NextTier, Drop, StoreTypeOK, WorkerTypeOK, View, NoView, WorkerId
  <1> QED
    BY <1>1, <1>2, <1>3, <1>4, <1>5, <1>6, <1>7 DEF ClaimStep

\* The steps of execute_delivery up to the outcome.
LEMMA DeliveryStepType ==
    ASSUME StoreTypeOK, WorkerTypeOK, NEW w \in Workers,
           FetchJob(w) \/ RateLimited(w) \/ Deliver(w) \/ DeliveryFails(w)
    PROVE  StoreTypeOK' /\ WorkerTypeOK'
  <1>. USE DEF WorkerPcs, ProcessingPcs
  <1>1. CASE FetchJob(w)
    <2>1. held[w] \in Jobs
      BY <1>1 DEF FetchJob, WorkerTypeOK
    <2>2. jobs[held[w]] \in Row
      BY <2>1 DEF StoreTypeOK
    <2>3. [worker_id |-> jobs[held[w]].worker_id,
           attempt_count |-> jobs[held[w]].attempt_count] \in View
      BY <2>2 DEF Row, View
    <2> QED
      BY <1>1, <2>3 DEF FetchJob, storeVars, StoreTypeOK, WorkerTypeOK
  <1>2. CASE RateLimited(w) \/ Deliver(w) \/ DeliveryFails(w)
    BY <1>2 DEF RateLimited, Deliver, DeliveryFails, Goto, storeVars, StoreTypeOK, WorkerTypeOK
  <1> QED
    BY <1>1, <1>2

\* The outcomes and what follows them.
LEMMA OutcomeStepType ==
    ASSUME StoreTypeOK, WorkerTypeOK, NEW w \in Workers, OutcomeStep(w)
    PROVE  StoreTypeOK' /\ WorkerTypeOK'
  <1>. USE StoreAssumption DEF WorkerPcs, ProcessingPcs
  <1>1. held[w] \in Jobs /\ jobs[held[w]] \in Row
    <2>1. pc[w] \notin {"poll", "dead"}
      BY DEF OutcomeStep, HandleSuccess, ScheduleRetry, DeadLetter, DeferJob, OutcomeLost,
             OutcomePcs, ReleaseLock, ReleaseDeferred, FireWebhook
    <2> QED
      BY <2>1 DEF StoreTypeOK, WorkerTypeOK
  <1>2. Attempt(w) \in Nat
    BY DEF Attempt, WorkerTypeOK, View
  <1>3. CASE HandleSuccess(w)
    <2>1. jobs' \in [Jobs -> Row]
      BY <1>1, <1>3, RowTypes, UpdateOneRow DEF HandleSuccess, StoreTypeOK
    <2> QED
      BY <1>3, <2>1 DEF HandleSuccess, Goto, StoreTypeOK, WorkerTypeOK
  <1>4. CASE ScheduleRetry(w)
    <2>1. jobs' \in [Jobs -> Row]
      BY <1>1, <1>2, <1>4, RowTypes, UpdateOneRow DEF ScheduleRetry, StoreTypeOK
    <2> QED
      BY <1>4, <2>1 DEF ScheduleRetry, Goto, StoreTypeOK, WorkerTypeOK
  <1>5. CASE DeadLetter(w)
    <2>1. jobs' \in [Jobs -> Row] /\ dead_letter_queue' \in [Jobs -> Nat]
      BY <1>1, <1>2, <1>5, DeadLetterTypes DEF DeadLetter
    <2> QED
      BY <1>5, <2>1 DEF DeadLetter, Goto, StoreTypeOK, WorkerTypeOK
  <1>6. CASE DeferJob(w)
    <2>1. jobs' \in [Jobs -> Row]
      BY <1>1, <1>6, RowTypes, UpdateOneRow DEF DeferJob, StoreTypeOK
    <2> QED
      BY <1>6, <2>1 DEF DeferJob, Goto, StoreTypeOK, WorkerTypeOK
  <1>7. CASE OutcomeLost(w) \/ FireWebhook(w)
    <2>1. EndIteration(w) /\ UNCHANGED storeVars
      BY <1>7 DEF OutcomeLost, FireWebhook
    <2> QED
      BY <2>1, EndIterationType DEF storeVars, StoreTypeOK
  <1>8. CASE ReleaseLock(w)
    <2>1. lock' \in [Jobs -> WorkerId]
      BY <1>1, <1>8, DeleteLockType DEF ReleaseLock
    <2> QED
      BY <1>8, <2>1 DEF ReleaseLock, Goto, StoreTypeOK, WorkerTypeOK
  <1>9. CASE ReleaseDeferred(w)
    <2>1. lock' \in [Jobs -> WorkerId]
      BY <1>1, <1>9, DeleteLockType DEF ReleaseDeferred
    <2> QED
      BY <1>9, <2>1, EndIterationType DEF ReleaseDeferred, StoreTypeOK
  <1> QED
    BY <1>3, <1>4, <1>5, <1>6, <1>7, <1>8, <1>9 DEF OutcomeStep

\* Failures, and the heartbeat task.
LEMMA FailureType ==
    ASSUME StoreTypeOK, WorkerTypeOK, NEW w \in Workers, IterationFails(w) \/ Crash(w)
    PROVE  StoreTypeOK' /\ WorkerTypeOK'
  BY StoreAssumption
     DEF IterationFails, Crash, EndIteration, Drop, storeVars, StoreTypeOK, WorkerTypeOK,
         WorkerPcs, ProcessingPcs, View, NoView, WorkerId

\* UPDATE_HEARTBEAT of a worker's heartbeat task.
LEMMA HeartbeatType ==
    ASSUME StoreTypeOK, WorkerTypeOK, NEW w \in Workers, Heartbeat(w)
    PROVE  StoreTypeOK' /\ WorkerTypeOK'
  <1>1. held[w] \in Jobs /\ jobs[held[w]] \in Row
    BY DEF Heartbeat, ProcessingPcs, StoreTypeOK, WorkerTypeOK
  <1>2. jobs' \in [Jobs -> Row]
    BY <1>1, RowTypes, UpdateOneRow DEF Heartbeat, StoreTypeOK
  <1> QED
    BY <1>2 DEF Heartbeat, workerVars, StoreTypeOK, WorkerTypeOK

-----------------------------------------------------------------------------
(* Types of a scheduler's steps.                                           *)

\* The rows RECOVER_STALE_CLAIMED returns.
LEMMA ReclaimedRows ==
    ASSUME StoreTypeOK
    PROVE  {[id |-> j, attempt_count |-> jobs[j].attempt_count + 1] : j \in StaleClaims}
               \subseteq ReclaimedRow
  <1>1. \A j \in Jobs : jobs[j].attempt_count + 1 \in Nat
    BY DEF StoreTypeOK, Row
  <1> QED
    BY <1>1 DEF StaleClaims, ReclaimedRow

\* promote_due_jobs.
LEMMA PromoteType ==
    ASSUME StoreTypeOK, SchedulerTypeOK, NEW s \in Schedulers,
           PromoteDueJobs(s) \/ EnqueuePromoted(s)
    PROVE  StoreTypeOK' /\ SchedulerTypeOK'
  <1>. USE DEF SchedulerPcs
  <1>1. CASE PromoteDueJobs(s)
    <2>. DEFINE due == {j \in Jobs : Promotable(jobs[j])}
    <2>1. PICK B \in Limited(due) :
            /\ jobs' = [j \in Jobs |-> IF j \in B THEN PROMOTE_DUE_JOBS(jobs[j]) ELSE jobs[j]]
            /\ batch' = [batch EXCEPT ![s] = B]
            /\ spc' = [spc EXCEPT ![s] = IF B = {} THEN "recover" ELSE "enqueue"]
      BY <1>1 DEF PromoteDueJobs
    <2>2. B \subseteq Jobs
      BY <2>1 DEF Limited
    <2>3. \A r \in Row : PROMOTE_DUE_JOBS(r) \in Row
      BY DEF PROMOTE_DUE_JOBS, Row, JobStatus
    <2>4. jobs' \in [Jobs -> Row]
      BY <2>1, <2>3 DEF StoreTypeOK
    <2>5. SchedulerTypeOK'
      BY <1>1, <2>1, <2>2 DEF PromoteDueJobs, SchedulerTypeOK
    <2> QED
      BY <1>1, <2>4, <2>5 DEF PromoteDueJobs, StoreTypeOK
  <1>2. CASE EnqueuePromoted(s)
    BY <1>2 DEF EnqueuePromoted, AddToQueues, StoreTypeOK, SchedulerTypeOK
  <1> QED
    BY <1>1, <1>2

\* recover_stale_claimed_jobs.
LEMMA RecoverType ==
    ASSUME StoreTypeOK, SchedulerTypeOK, NEW s \in Schedulers, RecoverStaleClaimed(s)
    PROVE  StoreTypeOK' /\ SchedulerTypeOK'
  <1>1. \A j \in Jobs : RECOVER_STALE_CLAIMED(jobs[j]) \in Row
    <2>. SUFFICES ASSUME NEW j \in Jobs
                  PROVE  RECOVER_STALE_CLAIMED(jobs[j]) \in Row
      OBVIOUS
    <2>1. jobs[j] \in Row
      BY DEF StoreTypeOK
    <2> QED
      BY <2>1, RecoveredRow
  <1>2. jobs' \in [Jobs -> Row]
    BY <1>1 DEF RecoverStaleClaimed, StoreTypeOK
  <1>3. SchedulerTypeOK'
    <2>. DEFINE rows == {[id |-> j, attempt_count |-> jobs[j].attempt_count + 1] : j \in StaleClaims}
    <2>1. rows \subseteq ReclaimedRow
      BY ReclaimedRows
    <2>2. /\ reclaimed' = [reclaimed EXCEPT ![s] = rows]
          /\ spc' = [spc EXCEPT ![s] = NextRow(rows)]
          /\ UNCHANGED <<batch, cur>>
      BY DEF RecoverStaleClaimed
    <2>. HIDE DEF rows
    <2> QED
      BY <2>1, <2>2 DEF NextRow, SchedulerTypeOK, SchedulerPcs
  <1> QED
    BY <1>2, <1>3 DEF RecoverStaleClaimed, StoreTypeOK

\* The loop over the reclaimed rows.
LEMMA ReclaimedLoopType ==
    ASSUME StoreTypeOK, SchedulerTypeOK, NEW s \in Schedulers,
           UnlockReclaimed(s) \/ BuryReclaimed(s) \/ BuryRefused(s) \/ UnlockBuried(s)
    PROVE  StoreTypeOK' /\ SchedulerTypeOK'
  <1>. USE DEF SchedulerPcs
  <1>1. CASE UnlockReclaimed(s)
    <2>1. PICK row \in reclaimed[s] :
            LET rest == reclaimed[s] \ {row}
            IN  /\ DeleteLock(row.id)
                /\ reclaimed' = [reclaimed EXCEPT ![s] = rest]
                /\ spc' = [spc EXCEPT ![s] = IF AtCap(row) THEN "bury" ELSE NextRow(rest)]
                /\ cur' = [cur EXCEPT ![s] = IF AtCap(row) THEN row ELSE NULL]
      BY <1>1 DEF UnlockReclaimed
    <2>2. row \in ReclaimedRow
      BY <2>1 DEF SchedulerTypeOK
    <2>3. lock' \in [Jobs -> WorkerId]
      BY <2>1, <2>2, DeleteLockType DEF ReclaimedRow
    <2>4. SchedulerTypeOK'
      BY <1>1, <2>1, <2>2 DEF UnlockReclaimed, NextRow, SchedulerTypeOK
    <2> QED
      BY <1>1, <2>3, <2>4 DEF UnlockReclaimed, StoreTypeOK
  <1>2. CASE BuryReclaimed(s)
    <2>1. cur[s].id \in Jobs /\ cur[s].attempt_count \in Nat
      BY <1>2 DEF BuryReclaimed, SchedulerTypeOK, ReclaimedRow
    <2>2. jobs' \in [Jobs -> Row] /\ dead_letter_queue' \in [Jobs -> Nat]
      BY <1>2, <2>1, DeadLetterTypes DEF BuryReclaimed
    <2> QED
      BY <1>2, <2>2 DEF BuryReclaimed, StoreTypeOK, SchedulerTypeOK
  <1>3. CASE BuryRefused(s)
    BY <1>3 DEF BuryRefused, NextRow, storeVars, StoreTypeOK, SchedulerTypeOK
  <1>4. CASE UnlockBuried(s)
    <2>1. cur[s].id \in Jobs
      BY <1>4 DEF UnlockBuried, SchedulerTypeOK, ReclaimedRow
    <2>2. lock' \in [Jobs -> WorkerId]
      BY <1>4, <2>1, DeleteLockType DEF UnlockBuried
    <2> QED
      BY <1>4, <2>2 DEF UnlockBuried, NextRow, StoreTypeOK, SchedulerTypeOK
  <1> QED
    BY <1>1, <1>2, <1>3, <1>4

\* requeue_stale_queued_jobs, and a tick that fails.
LEMMA RequeueType ==
    ASSUME StoreTypeOK, SchedulerTypeOK, NEW s \in Schedulers,
           SelectStaleQueued(s) \/ EnqueueStale(s) \/ TickFails(s)
    PROVE  StoreTypeOK' /\ SchedulerTypeOK'
  <1>. USE DEF SchedulerPcs
  <1>1. CASE SelectStaleQueued(s)
    BY <1>1 DEF SelectStaleQueued, Limited, storeVars, StoreTypeOK, SchedulerTypeOK
  <1>2. CASE EnqueueStale(s)
    BY <1>2 DEF EnqueueStale, AddToQueues, StoreTypeOK, SchedulerTypeOK
  <1>3. CASE TickFails(s)
    BY <1>3 DEF TickFails, storeVars, StoreTypeOK, SchedulerTypeOK
  <1> QED
    BY <1>1, <1>2, <1>3

-----------------------------------------------------------------------------
(* Type correctness of the pipeline.                                       *)

\* API calls.
LEMMA ApiType ==
    ASSUME StoreTypeOK, NEW j \in Jobs, CreateJob(j) \/ RetryDeadLettered(j)
    PROVE  StoreTypeOK'
  <1>1. jobs[j] \in Row
    BY DEF StoreTypeOK
  <1>2. jobs' \in [Jobs -> Row]
    <2>1. CASE CreateJob(j)
      <3>1. PICK due \in BOOLEAN : Update(j, INSERT_JOB(due))
        BY <2>1 DEF CreateJob, resolved_due
      <3>2. INSERT_JOB(due) \in Row
        BY DEF INSERT_JOB, AbsentRow, Row, JobStatus, WorkerId
      <3> QED
        BY <3>1, <3>2, UpdateOneRow DEF StoreTypeOK
    <2>2. CASE RetryDeadLettered(j)
      <3>1. RETRY_DEAD_LETTERED_JOB(jobs[j]) \in Row
        BY <1>1 DEF RETRY_DEAD_LETTERED_JOB, Disowned, Row, JobStatus, WorkerId
      <3> QED
        BY <2>2, <3>1, UpdateOneRow DEF RetryDeadLettered, StoreTypeOK
    <2> QED
      BY <2>1, <2>2
  <1> QED
    BY <1>2 DEF CreateJob, RetryDeadLettered, StoreTypeOK

\* Timestamps crossing their thresholds, lock expiry and lost Redis data.
LEMMA TimeType ==
    ASSUME StoreTypeOK,
           Outage \/ \E j \in Jobs : PassageOfTime(j)
    PROVE  StoreTypeOK'
  <1>1. ASSUME NEW j \in Jobs,
               BecomesDue(j) \/ QueuedTooLong(j) \/ HeartbeatFallsBehind(j)
        PROVE  StoreTypeOK'
    <2>1. jobs' \in [Jobs -> Row]
      <3>1. CASE BecomesDue(j)
        BY <3>1 DEF BecomesDue, StoreTypeOK, Row
      <3>2. CASE QueuedTooLong(j)
        BY <3>2 DEF QueuedTooLong, StoreTypeOK, Row
      <3>3. CASE HeartbeatFallsBehind(j)
        BY <3>3 DEF HeartbeatFallsBehind, StoreTypeOK, Row
      <3> QED
        BY <1>1, <3>1, <3>2, <3>3
    <2> QED
      BY <1>1, <2>1 DEF BecomesDue, QueuedTooLong, HeartbeatFallsBehind, StoreTypeOK
  <1>2. ASSUME NEW j \in Jobs, LockExpires(j)
        PROVE  StoreTypeOK'
    BY <1>2, DeleteLockType DEF LockExpires, StoreTypeOK
  <1>3. ASSUME RedisLosesData
        PROVE  StoreTypeOK'
    BY <1>3 DEF RedisLosesData, StoreTypeOK, WorkerId
  <1> QED
    BY <1>1, <1>2, <1>3 DEF Outage, PassageOfTime, ClaimAbandoned, OwnerStalls

\* The budget and the history.
LEMMA SpendType ==
    ASSUME used \in [Kinds -> Nat], NEW kind \in Kinds, Spend(kind)
    PROVE  used' \in [Kinds -> Nat]
  BY DEF Spend

\* Every step of the pipeline keeps the types: its actions one by one.
LEMMA TypeStep ==
    ASSUME TypeOK, [Next]_vars
    PROVE  TypeOK'
  <1>. USE DEF TypeOK
  <1>1. ASSUME NEW w \in Workers, WorkerProgress(w)
        PROVE  TypeOK'
    <2>1. StoreTypeOK' /\ WorkerTypeOK'
      BY <1>1, ClaimStepType, DeliveryStepType, OutcomeStepType DEF WorkerProgress, DeliverOnce
    <2>2. SchedulerTypeOK' /\ reclaims' \in [Jobs -> Nat]
      BY <1>1 DEF WorkerProgress, schedulerVars, SchedulerTypeOK
    <2>3. used' \in [Kinds -> Nat]
      BY <1>1, SpendType DEF WorkerProgress, DeliverOnce, Kinds
    <2>4. delivered' \in [Jobs -> Nat]
      BY <1>1 DEF WorkerProgress, DeliverOnce
    <2> QED
      BY <2>1, <2>2, <2>3, <2>4
  <1>2. ASSUME NEW w \in Workers, WorkerFailure(w)
        PROVE  TypeOK'
    <2>1. StoreTypeOK' /\ WorkerTypeOK'
      BY <1>2, FailureType DEF WorkerFailure
    <2>2. used' \in [Kinds -> Nat]
      BY <1>2, SpendType DEF WorkerFailure, Kinds
    <2> QED
      BY <1>2, <2>1, <2>2 DEF WorkerFailure, schedulerVars, historyVars, SchedulerTypeOK
  <1>3. ASSUME NEW w \in Workers, HeartbeatTask(w)
        PROVE  TypeOK'
    BY <1>3, HeartbeatType DEF HeartbeatTask, schedulerVars, historyVars, SchedulerTypeOK
  <1>4. ASSUME NEW s \in Schedulers, SchedulerProgress(s)
        PROVE  TypeOK'
    <2>1. StoreTypeOK' /\ SchedulerTypeOK'
      BY <1>4, PromoteType, RecoverType, ReclaimedLoopType, RequeueType
         DEF SchedulerProgress, Reclaim
    <2>2. reclaims' \in [Jobs -> Nat]
      BY <1>4 DEF SchedulerProgress, Reclaim
    <2> QED
      BY <1>4, <2>1, <2>2 DEF SchedulerProgress, workerVars, WorkerTypeOK
  <1>5. ASSUME NEW s \in Schedulers, SchedulerFailure(s)
        PROVE  TypeOK'
    <2>1. StoreTypeOK' /\ SchedulerTypeOK'
      BY <1>5, RequeueType DEF SchedulerFailure
    <2>2. used' \in [Kinds -> Nat]
      BY <1>5, SpendType DEF SchedulerFailure, Kinds
    <2> QED
      BY <1>5, <2>1, <2>2 DEF SchedulerFailure, workerVars, historyVars, WorkerTypeOK
  <1>6. ASSUME NEW j \in Jobs, ApiCall(j)
        PROVE  TypeOK'
    <2>1. StoreTypeOK'
      BY <1>6, ApiType DEF ApiCall
    <2>2. used' \in [Kinds -> Nat]
      BY <1>6, SpendType DEF ApiCall, Kinds
    <2> QED
      BY <1>6, <2>1, <2>2
         DEF ApiCall, workerVars, schedulerVars, historyVars, WorkerTypeOK, SchedulerTypeOK
  <1>7. ASSUME Outage \/ \E j \in Jobs : PassageOfTime(j)
        PROVE  TypeOK'
    <2>1. StoreTypeOK'
      BY <1>7, TimeType
    <2>2. used' \in [Kinds -> Nat]
      BY <1>7, SpendType
         DEF Outage, PassageOfTime, RedisLosesData, OwnerStalls, BecomesDue, QueuedTooLong,
             ClaimAbandoned, LockExpires, Kinds
    <2>3. UNCHANGED <<workerVars, schedulerVars, historyVars>>
      BY <1>7 DEF Outage, PassageOfTime
    <2> QED
      BY <2>1, <2>2, <2>3
         DEF workerVars, schedulerVars, historyVars, WorkerTypeOK, SchedulerTypeOK
  <1>8. CASE UNCHANGED vars
    BY <1>8 DEF vars, storeVars, workerVars, schedulerVars, historyVars,
                StoreTypeOK, WorkerTypeOK, SchedulerTypeOK
  <1> QED
    BY <1>1, <1>2, <1>3, <1>4, <1>5, <1>6, <1>7, <1>8 DEF Next

\* Every reachable state is well typed: no statement writes a status, an
\* owner or an attempt count outside the schema, and a worker that is past
\* ZPOPMIN has a job in hand.
THEOREM TypeCorrect == Spec => []TypeOK
  <1>1. Init => TypeOK
    BY StoreAssumption
       DEF Init, TypeOK, StoreInit, WorkerInit, SchedulerInit, StoreTypeOK, WorkerTypeOK,
           SchedulerTypeOK, AbsentRow, Row, JobStatus, WorkerId, WorkerPcs, View, NoView,
           SchedulerPcs, ReclaimedRow
  <1>2. TypeOK /\ [Next]_vars => TypeOK'
    BY TypeStep
  <1> QED
    BY <1>1, <1>2, PTL DEF Spec

-----------------------------------------------------------------------------
(* What a step may do to a row, and to a worker.                           *)

Outcome(w, j) ==
    \/ OwnedBy(jobs[j], view[w].worker_id) /\ pc[w] = "sent" /\ jobs'[j] = MARK_SENT(jobs[j])
    \/ /\ OwnedBy(jobs[j], view[w].worker_id) /\ pc[w] = "failed" /\ ~Exhausted(Attempt(w))
       /\ jobs'[j] = SCHEDULE_RETRY(jobs[j], Attempt(w))
    \/ /\ OwnedBy(jobs[j], view[w].worker_id) /\ pc[w] = "defer"
       /\ jobs'[j] = DEFER_TO_NEXT_WINDOW(jobs[j])
    \/ /\ HeldUnder(jobs[j], view[w].worker_id) /\ pc[w] = "failed"
       /\ jobs'[j] = MARK_DEAD_LETTERED(jobs[j], Attempt(w))

\* The statements a worker runs on the row of the job in hand.
ByWorker(w, j) ==
    \/ /\ pc[w] = "claim" /\ pc'[w] = "fetch" /\ held[w] = j
       /\ Claimable(jobs[j])
       /\ jobs'[j] = CLAIM_QUEUED_JOB(jobs[j], w)
    \/ Outcome(w, j) /\ held[w] = j /\ pc'[w] # pc[w]
    \/ OwnedBy(jobs[j], w) /\ jobs'[j] = UPDATE_HEARTBEAT(jobs[j])

\* The statements of the API and of the schedulers, and the passage of time.
BySystem(j) ==
    \/ jobs[j].status = "absent" /\ \E due \in BOOLEAN : jobs'[j] = INSERT_JOB(due)
    \/ Promotable(jobs[j]) /\ jobs'[j] = PROMOTE_DUE_JOBS(jobs[j])
    \/ StaleClaim(jobs[j]) /\ jobs'[j] = RECOVER_STALE_CLAIMED(jobs[j])
    \/ /\ HeldUnder(jobs[j], NULL) /\ \E s \in Schedulers : spc[s] = "bury" /\ cur[s].id = j
       /\ \E n \in Nat : jobs'[j] = MARK_DEAD_LETTERED(jobs[j], n)
    \/ jobs[j].status = "dead_lettered" /\ jobs'[j] = RETRY_DEAD_LETTERED_JOB(jobs[j])
    \/ jobs[j].status = "pending" /\ jobs'[j] = [jobs[j] EXCEPT !.due = TRUE]
    \/ jobs[j].status = "queued" /\ jobs'[j] = [jobs[j] EXCEPT !.aged = TRUE]
    \/ /\ jobs[j].status = "claimed" /\ jobs'[j] = [jobs[j] EXCEPT !.fresh = FALSE]
       /\ ~Processing(jobs[j].worker_id, j) \/ pc[jobs[j].worker_id] \in StallPoints

\* What the worker pool does to a row: a statement of the list, by its owner, or
\* nothing.
LEMMA WorkerRowMoves ==
    ASSUME TypeOK, NEW w \in Workers, NEW j \in Jobs,
           WorkerProgress(w) \/ WorkerFailure(w) \/ HeartbeatTask(w)
    PROVE  jobs'[j] = jobs[j] \/ ByWorker(w, j)
  <1>. USE DEF TypeOK, StoreTypeOK, WorkerTypeOK, ProcessingPcs
  <1>1. CASE ClaimStep(w)
    <2>1. CASE Claim(w)
      BY <2>1 DEF Claim, Update, ByWorker
    <2> QED
      BY <1>1, <2>1
         DEF ClaimStep, PollEmpty, PopMin, AcquireLock, LockRefused, ClaimRefused, UnlockRefused,
             storeVars
  <1>2. CASE OutcomeStep(w)
    <2>1. CASE HandleSuccess(w)
      BY <2>1 DEF HandleSuccess, Fenced, Update, Goto, ByWorker, Outcome
    <2>2. CASE ScheduleRetry(w)
      BY <2>2 DEF ScheduleRetry, Fenced, Update, Goto, ByWorker, Outcome
    <2>3. CASE DeadLetter(w)
      BY <2>3 DEF DeadLetter, DeadLetterTransaction, Update, Goto, ByWorker, Outcome
    <2>4. CASE DeferJob(w)
      BY <2>4 DEF DeferJob, Fenced, Update, Goto, ByWorker, Outcome
    <2>5. CASE OutcomeLost(w) \/ ReleaseLock(w) \/ ReleaseDeferred(w) \/ FireWebhook(w)
      BY <2>5 DEF OutcomeLost, ReleaseLock, ReleaseDeferred, FireWebhook, storeVars
    <2> QED
      BY <1>2, <2>1, <2>2, <2>3, <2>4, <2>5 DEF OutcomeStep
  <1>3. CASE Heartbeat(w)
    BY <1>3 DEF Heartbeat, Update, ByWorker
  <1>4. CASE FetchJob(w) \/ RateLimited(w) \/ Deliver(w) \/ DeliveryFails(w)
             \/ IterationFails(w) \/ Crash(w)
    BY <1>4 DEF FetchJob, RateLimited, Deliver, DeliveryFails, IterationFails, Crash, storeVars
  <1> QED
    BY <1>1, <1>2, <1>3, <1>4 DEF WorkerProgress, WorkerFailure, HeartbeatTask, DeliverOnce

\* What the schedulers, the API and the clock do to a row.
LEMMA SystemRowMoves ==
    ASSUME TypeOK, NEW j \in Jobs,
           \/ \E s \in Schedulers : SchedulerProgress(s) \/ SchedulerFailure(s)
           \/ \E k \in Jobs : ApiCall(k) \/ PassageOfTime(k)
           \/ Outage
    PROVE  jobs'[j] = jobs[j] \/ BySystem(j)
  <1>. USE DEF TypeOK, StoreTypeOK
  <1>1. ASSUME NEW s \in Schedulers, SchedulerProgress(s) \/ SchedulerFailure(s)
        PROVE  jobs'[j] = jobs[j] \/ BySystem(j)
    <2>1. CASE PromoteDueJobs(s)
      <3>1. PICK B \in Limited({k \in Jobs : Promotable(jobs[k])}) :
              jobs' = [k \in Jobs |-> IF k \in B THEN PROMOTE_DUE_JOBS(jobs[k]) ELSE jobs[k]]
        BY <2>1 DEF PromoteDueJobs
      <3>2. j \in B => Promotable(jobs[j])
        BY DEF Limited
      <3> QED
        BY <3>1, <3>2 DEF BySystem
    <2>2. CASE RecoverStaleClaimed(s)
      BY <2>2 DEF RecoverStaleClaimed, StaleClaims, BySystem
    <2>3. CASE BuryReclaimed(s)
      <3>1. cur[s].id \in Jobs /\ cur[s].attempt_count \in Nat
        BY <2>3 DEF BuryReclaimed, SchedulerTypeOK, ReclaimedRow
      <3> QED
        BY <2>3, <3>1 DEF BuryReclaimed, DeadLetterTransaction, Update, BySystem
    <2> QED
      BY <1>1, <2>1, <2>2, <2>3
         DEF SchedulerProgress, SchedulerFailure, Reclaim, EnqueuePromoted, AddToQueues,
             UnlockReclaimed, BuryRefused, UnlockBuried, SelectStaleQueued, EnqueueStale,
             TickFails, storeVars
  <1>2. ASSUME NEW k \in Jobs, ApiCall(k)
        PROVE  jobs'[j] = jobs[j] \/ BySystem(j)
    <2>1. CASE CreateJob(k)
      <3>1. jobs[k].status = "absent" /\ \E due \in BOOLEAN : Update(k, INSERT_JOB(due))
        BY <2>1 DEF CreateJob, resolved_due
      <3> QED
        BY <3>1 DEF Update, BySystem
    <2>2. CASE RetryDeadLettered(k)
      BY <2>2 DEF RetryDeadLettered, Update, BySystem
    <2> QED
      BY <1>2, <2>1, <2>2 DEF ApiCall
  <1>3. ASSUME NEW k \in Jobs, PassageOfTime(k)
        PROVE  jobs'[j] = jobs[j] \/ BySystem(j)
    BY <1>3 DEF PassageOfTime, BecomesDue, QueuedTooLong, ClaimAbandoned, HeartbeatFallsBehind,
                LockExpires, BySystem
  <1>4. CASE Outage
    BY <1>4 DEF Outage, RedisLosesData, OwnerStalls, HeartbeatFallsBehind, BySystem
  <1> QED
    BY <1>1, <1>2, <1>3, <1>4

\* Every change of a row is one of the listed statements.
LEMMA RowMoves ==
    ASSUME TypeOK, [Next]_vars, NEW j \in Jobs
    PROVE  jobs'[j] = jobs[j] \/ BySystem(j) \/ \E w \in Workers : ByWorker(w, j)
  BY WorkerRowMoves, SystemRowMoves DEF Next, vars, storeVars

-----------------------------------------------------------------------------
(* The owner of a row.                                                     *)

\* Each statement that leaves claimed clears worker_id, except MARK_SENT.
LEMMA OwnerMatchesStatusStep ==
    ASSUME TypeOK, OwnerMatchesStatus, [Next]_vars
    PROVE  OwnerMatchesStatus'
  <1>. SUFFICES ASSUME NEW j \in Jobs
                PROVE  (jobs'[j].worker_id # NULL) <=> (jobs'[j].status \in {"claimed", "sent"})
    BY DEF OwnerMatchesStatus
  <1>1. jobs[j] \in Row
    BY DEF TypeOK, StoreTypeOK
  <1>2. (jobs[j].worker_id # NULL) <=> (jobs[j].status \in {"claimed", "sent"})
    BY DEF OwnerMatchesStatus
  <1>3. CASE jobs'[j] = jobs[j]
    BY <1>2, <1>3
  <1>4. CASE BySystem(j)
    BY <1>1, <1>2, <1>4
       DEF BySystem, Row, INSERT_JOB, AbsentRow, Promotable, PROMOTE_DUE_JOBS, StaleClaim,
           RECOVER_STALE_CLAIMED, MARK_DEAD_LETTERED, RETRY_DEAD_LETTERED_JOB, Disowned
  <1>5. ASSUME NEW w \in Workers, ByWorker(w, j)
        PROVE  (jobs'[j].worker_id # NULL) <=> (jobs'[j].status \in {"claimed", "sent"})
    <2>1. CASE Outcome(w, j)
      BY <1>1, <1>2, <2>1
         DEF Outcome, Row, OwnedBy, MARK_SENT, SCHEDULE_RETRY, DEFER_TO_NEXT_WINDOW,
             MARK_DEAD_LETTERED, Disowned
    <2>2. CASE jobs'[j] = CLAIM_QUEUED_JOB(jobs[j], w)
      BY <1>1, <2>2, StoreAssumption DEF Row, CLAIM_QUEUED_JOB
    <2>3. CASE jobs'[j] = UPDATE_HEARTBEAT(jobs[j])
      BY <1>1, <1>2, <2>3 DEF Row, UPDATE_HEARTBEAT
    <2> QED
      BY <1>5, <2>1, <2>2, <2>3 DEF ByWorker
  <1> QED
    BY <1>3, <1>4, <1>5, RowMoves

\* A row has a worker_id exactly while it is claimed and after it was sent, so
\* that `worker_id IS NOT DISTINCT FROM NULL' never matches a claimed or sent
\* row in dead_letter.
THEOREM OwnerMatches == Spec => []OwnerMatchesStatus
  <1>1. Init => OwnerMatchesStatus
    BY DEF Init, StoreInit, AbsentRow, OwnerMatchesStatus
  <1>2. TypeOK /\ OwnerMatchesStatus /\ [Next]_vars => OwnerMatchesStatus'
    BY OwnerMatchesStatusStep
  <1> QED
    BY <1>1, <1>2, TypeCorrect, PTL DEF Spec

-----------------------------------------------------------------------------
(* The ownership fence.                                                    *)

Inside == {"fetch", "deliver"} \cup OutcomePcs

\* How a worker gets into and through the part of its loop that the fence is
\* about: from CLAIM_QUEUED_JOB to the outcome's statement.
LEMMA WorkerMoves ==
    ASSUME TypeOK, [Next]_vars, NEW w \in Workers
    PROVE  \/ pc'[w] = pc[w] /\ held'[w] = held[w] /\ view'[w] = view[w]
           \/ pc'[w] \notin Inside
           \/ /\ pc[w] = "claim" /\ pc'[w] = "fetch" /\ held'[w] = held[w]
              /\ jobs'[held[w]] = CLAIM_QUEUED_JOB(jobs[held[w]], w)
           \/ /\ pc[w] = "fetch" /\ pc'[w] = "deliver" /\ held'[w] = held[w] /\ jobs' = jobs
              /\ view'[w].worker_id = jobs[held[w]].worker_id
              /\ view'[w].attempt_count = jobs[held[w]].attempt_count
           \/ /\ pc[w] = "deliver" /\ pc'[w] \in OutcomePcs /\ jobs' = jobs
              /\ held'[w] = held[w] /\ view'[w] = view[w]
  <1>. DEFINE Same == pc'[w] = pc[w] /\ held'[w] = held[w] /\ view'[w] = view[w]
  <1>. USE DEF TypeOK, StoreTypeOK, WorkerTypeOK, Inside, OutcomePcs
  <1>1. ASSUME NEW v \in Workers, v # w, WorkerProgress(v) \/ WorkerFailure(v)
        PROVE  Same
    <2>1. CASE ClaimStep(v)
      BY <1>1, <2>1
         DEF ClaimStep, PollEmpty, PopMin, AcquireLock, LockRefused, Claim, ClaimRefused,
             UnlockRefused, Goto, NextTier, Drop
    <2>2. CASE OutcomeStep(v)
      BY <1>1, <2>2
         DEF OutcomeStep, HandleSuccess, ScheduleRetry, DeadLetter, DeferJob, OutcomeLost,
             ReleaseLock, ReleaseDeferred, FireWebhook, Goto, EndIteration, Drop
    <2>3. CASE FetchJob(v) \/ RateLimited(v) \/ Deliver(v) \/ DeliveryFails(v)
               \/ IterationFails(v) \/ Crash(v)
      BY <1>1, <2>3
         DEF FetchJob, RateLimited, Deliver, DeliveryFails, IterationFails, Crash, Goto,
             EndIteration, Drop
    <2> QED
      BY <1>1, <2>1, <2>2, <2>3 DEF WorkerProgress, WorkerFailure, DeliverOnce
  <1>2. CASE ClaimStep(w)
    <2>1. CASE Claim(w)
      BY <2>1 DEF Claim, Update, ProcessingPcs
    <2> QED
      BY <1>2, <2>1
         DEF ClaimStep, PollEmpty, PopMin, AcquireLock, LockRefused, ClaimRefused,
             UnlockRefused, Goto, NextTier, Drop
  <1>3. CASE OutcomeStep(w)
    BY <1>3
       DEF OutcomeStep, HandleSuccess, ScheduleRetry, DeadLetter, DeferJob, OutcomeLost,
           ReleaseLock, ReleaseDeferred, FireWebhook, Goto, EndIteration, Drop
  <1>4. CASE FetchJob(w)
    BY <1>4 DEF FetchJob, storeVars
  <1>5. CASE RateLimited(w) \/ Deliver(w) \/ DeliveryFails(w)
    BY <1>5 DEF RateLimited, Deliver, DeliveryFails, Goto, storeVars
  <1>6. CASE IterationFails(w) \/ Crash(w)
    BY <1>6 DEF IterationFails, Crash, EndIteration, Drop
  <1>7. CASE UNCHANGED workerVars
    BY <1>7 DEF workerVars
  <1>8. WorkerProgress(w) \/ WorkerFailure(w)
          => \/ ClaimStep(w) \/ OutcomeStep(w) \/ FetchJob(w)
             \/ RateLimited(w) \/ Deliver(w) \/ DeliveryFails(w)
             \/ IterationFails(w) \/ Crash(w)
    BY DEF WorkerProgress, WorkerFailure, DeliverOnce
  <1>9. \/ \E v \in Workers : WorkerProgress(v) \/ WorkerFailure(v)
        \/ UNCHANGED workerVars
    BY DEF Next, vars, HeartbeatTask, Heartbeat, SchedulerProgress, SchedulerFailure, ApiCall,
           PassageOfTime, Outage
  <1> QED
    BY <1>1, <1>2, <1>3, <1>4, <1>5, <1>6, <1>7, <1>8, <1>9

\* Nobody but the worker itself touches the row of a worker on its way to the
\* outcome, as long as the row is in its name; the recovery path does once the
\* heartbeat has fallen behind.
LEMMA OnlyTheOwner ==
    ASSUME TypeOK, FencesWithOwnId, [Next]_vars,
           NEW w \in Workers, NEW j \in Jobs, pc[w] \in Inside, held[w] = j,
           jobs[j].worker_id = w
    PROVE  \/ jobs'[j] = jobs[j]
           \/ Outcome(w, j) /\ pc'[w] # pc[w]
           \/ jobs'[j] = UPDATE_HEARTBEAT(jobs[j])
           \/ ~jobs[j].fresh /\ jobs'[j] = RECOVER_STALE_CLAIMED(jobs[j])
           \/ pc[w] \in StallPoints /\ jobs'[j] = [jobs[j] EXCEPT !.fresh = FALSE]
  <1>1. jobs[j].status = "claimed"
    BY DEF FencesWithOwnId, Inside
  <1>2. w # NULL
    BY StoreAssumption
  <1>3. CASE BySystem(j)
    <2>1. Processing(w, j)
      BY DEF Processing, ProcessingPcs, Inside, OutcomePcs
    <2> QED
      BY <1>1, <1>2, <1>3, <2>1 DEF BySystem, Promotable, StaleClaim, HeldUnder
  <1>4. ASSUME NEW v \in Workers, ByWorker(v, j)
        PROVE  \/ Outcome(w, j) /\ pc'[w] # pc[w]
               \/ jobs'[j] = UPDATE_HEARTBEAT(jobs[j])
    <2>1. CASE Outcome(v, j) /\ pc'[v] # pc[v]
      <3>1. view[v].worker_id = v
        BY <2>1 DEF Outcome, FencesWithOwnId, OutcomePcs
      <3>2. v = w
        BY <2>1, <3>1 DEF Outcome, OwnedBy, HeldUnder
      <3> QED
        BY <2>1, <3>2
    <2> QED
      BY <1>1, <1>4, <2>1 DEF ByWorker, Claimable
  <1> QED
    BY <1>3, <1>4, RowMoves

\* The own-id invariant is kept: the worker's own moves, and everybody else's
\* on the row in its hands.
LEMMA FencesWithOwnIdStep ==
    ASSUME "fetch" \notin StallPoints, TypeOK, FencesWithOwnId, [Next]_vars
    PROVE  FencesWithOwnId'
  <1>. SUFFICES ASSUME NEW w \in Workers, pc'[w] \in Inside
                PROVE  /\ pc'[w] = "fetch"
                             => OwnedBy(jobs'[held'[w]], w) /\ jobs'[held'[w]].fresh
                       /\ pc'[w] \in {"deliver"} \cup OutcomePcs => view'[w].worker_id = w
                       /\ jobs'[held'[w]].worker_id = w => jobs'[held'[w]].status = "claimed"
    BY DEF FencesWithOwnId, Inside, OwnedBy
  <1>. DEFINE j == held[w]
  <1>0. w # NULL
    BY StoreAssumption
  <1>1. CASE pc'[w] = pc[w] /\ held'[w] = held[w] /\ view'[w] = view[w]
    <2>1. j \in Jobs /\ jobs[j] \in Row
      BY <1>1 DEF TypeOK, StoreTypeOK, WorkerTypeOK, Inside, OutcomePcs
    <2>2. pc[w] = "fetch" => OwnedBy(jobs'[j], w) /\ jobs'[j].fresh
      <3>. SUFFICES ASSUME pc[w] = "fetch"
                    PROVE  OwnedBy(jobs'[j], w) /\ jobs'[j].fresh
        OBVIOUS
      <3>1. OwnedBy(jobs[j], w) /\ jobs[j].fresh
        BY DEF FencesWithOwnId
      <3>2. jobs'[j] = jobs[j] \/ jobs'[j] = UPDATE_HEARTBEAT(jobs[j])
        BY <1>1, <2>1, <3>1, OnlyTheOwner DEF OwnedBy, Inside
      <3> QED
        BY <2>1, <3>1, <3>2 DEF OwnedBy, UPDATE_HEARTBEAT, Row
    <2>3. jobs'[j].worker_id = w => jobs'[j].status = "claimed"
      <3>1. CASE jobs[j].worker_id = w
        <4>1. jobs[j].status = "claimed"
          BY <1>1, <3>1 DEF FencesWithOwnId, Inside
        <4>2. \/ jobs'[j] = jobs[j]
              \/ jobs'[j] = UPDATE_HEARTBEAT(jobs[j])
              \/ jobs'[j] = RECOVER_STALE_CLAIMED(jobs[j])
              \/ jobs'[j] = [jobs[j] EXCEPT !.fresh = FALSE]
          BY <1>1, <2>1, <3>1, OnlyTheOwner
        <4> QED
          BY <1>0, <2>1, <4>1, <4>2 DEF UPDATE_HEARTBEAT, RECOVER_STALE_CLAIMED, Disowned, Row
      <3>2. CASE jobs[j].worker_id # w
        <4>1. CASE jobs'[j] = jobs[j]
          BY <3>2, <4>1
        <4>2. CASE BySystem(j)
          BY <1>0, <2>1, <3>2, <4>2
             DEF BySystem, Row, INSERT_JOB, AbsentRow, PROMOTE_DUE_JOBS, RECOVER_STALE_CLAIMED,
                 MARK_DEAD_LETTERED, RETRY_DEAD_LETTERED_JOB, Disowned
        <4>3. ASSUME NEW v \in Workers, ByWorker(v, j), jobs'[j].worker_id = w
              PROVE  jobs'[j].status = "claimed"
          <5>1. CASE Outcome(v, j)
            BY <1>0, <2>1, <3>2, <4>3, <5>1
               DEF Outcome, Row, MARK_SENT, SCHEDULE_RETRY, DEFER_TO_NEXT_WINDOW,
                   MARK_DEAD_LETTERED, Disowned
          <5>2. CASE jobs'[j] = CLAIM_QUEUED_JOB(jobs[j], v)
            BY <2>1, <5>2 DEF CLAIM_QUEUED_JOB, Row
          <5>3. CASE jobs'[j] = UPDATE_HEARTBEAT(jobs[j])
            BY <2>1, <3>2, <4>3, <5>3 DEF UPDATE_HEARTBEAT, Row
          <5> QED
            BY <4>3, <5>1, <5>2, <5>3 DEF ByWorker
        <4> QED
          BY <2>1, <4>1, <4>2, <4>3, RowMoves
      <3> QED
        BY <3>1, <3>2
    <2>4. pc[w] \in {"deliver"} \cup OutcomePcs => view[w].worker_id = w
      BY DEF FencesWithOwnId
    <2> QED
      BY <1>1, <2>2, <2>3, <2>4
  <1>2. CASE /\ pc[w] = "claim" /\ pc'[w] = "fetch" /\ held'[w] = held[w]
             /\ jobs'[held[w]] = CLAIM_QUEUED_JOB(jobs[held[w]], w)
    <2>1. jobs[j] \in Row
      BY <1>2 DEF TypeOK, StoreTypeOK, WorkerTypeOK
    <2> QED
      BY <1>0, <1>2, <2>1 DEF CLAIM_QUEUED_JOB, Row, OwnedBy, OutcomePcs
  <1>3. CASE /\ pc[w] = "fetch" /\ pc'[w] = "deliver" /\ held'[w] = held[w] /\ jobs' = jobs
             /\ view'[w].worker_id = jobs[held[w]].worker_id
             /\ view'[w].attempt_count = jobs[held[w]].attempt_count
    BY <1>3 DEF FencesWithOwnId, OwnedBy, OutcomePcs
  <1>4. CASE /\ pc[w] = "deliver" /\ pc'[w] \in OutcomePcs /\ jobs' = jobs
             /\ held'[w] = held[w] /\ view'[w] = view[w]
    BY <1>4 DEF FencesWithOwnId, OutcomePcs
  <1> QED
    BY <1>1, <1>2, <1>3, <1>4, WorkerMoves

\* While no worker stalls between its claim and FETCH_JOB, the id it fences
\* its outcome with is its own.
THEOREM OwnIdFence ==
    ASSUME "fetch" \notin StallPoints
    PROVE  Spec => []FencesWithOwnId
  <1>1. Init => FencesWithOwnId
    BY DEF Init, WorkerInit, FencesWithOwnId, OutcomePcs
  <1>2. TypeOK /\ FencesWithOwnId /\ [Next]_vars => FencesWithOwnId'
    BY FencesWithOwnIdStep
  <1> QED
    BY <1>1, <1>2, TypeCorrect, PTL DEF Spec

\* With its own id in hand, a worker's outcome only matches its own claim.
LEMMA FencedOutcomeStep ==
    ASSUME TypeOK, FencesWithOwnId, [Next]_vars,
           NEW w \in Workers, pc[w] \in OutcomePcs, pc'[w] # pc[w], jobs' # jobs
    PROVE  OwnedBy(jobs[held[w]], w)
  <1>. USE DEF TypeOK, WorkerTypeOK
  <1>1. view[w].worker_id = w
    BY DEF FencesWithOwnId
  <1>2. WorkerProgress(w) \/ WorkerFailure(w)
    <2>1. ASSUME NEW v \in Workers, v # w, WorkerProgress(v) \/ WorkerFailure(v)
          PROVE  pc'[w] = pc[w]
      BY <2>1
         DEF WorkerProgress, WorkerFailure, DeliverOnce,
             ClaimStep, PollEmpty, PopMin, AcquireLock, LockRefused, Claim, ClaimRefused,
             UnlockRefused, FetchJob, RateLimited, Deliver, DeliveryFails,
             OutcomeStep, HandleSuccess, ScheduleRetry, DeadLetter, DeferJob, OutcomeLost,
             ReleaseLock, ReleaseDeferred, FireWebhook, IterationFails, Crash,
             Goto, NextTier, EndIteration, Drop
    <2>2. \/ \E v \in Workers : WorkerProgress(v) \/ WorkerFailure(v)
          \/ UNCHANGED workerVars
      BY DEF Next, vars, HeartbeatTask, Heartbeat, SchedulerProgress, SchedulerFailure, ApiCall,
             PassageOfTime, Outage
    <2> QED
      BY <2>1, <2>2 DEF workerVars
  <1>3. HandleSuccess(w) \/ ScheduleRetry(w) \/ DeadLetter(w) \/ DeferJob(w)
    BY <1>2
       DEF WorkerProgress, WorkerFailure, DeliverOnce, OutcomePcs, storeVars,
           ClaimStep, PollEmpty, PopMin, AcquireLock, LockRefused, Claim, ClaimRefused,
           UnlockRefused, FetchJob, RateLimited, Deliver, DeliveryFails, OutcomeStep, OutcomeLost,
           ReleaseLock, ReleaseDeferred, FireWebhook, IterationFails, Crash
  <1>4. CASE HandleSuccess(w) \/ ScheduleRetry(w) \/ DeferJob(w)
    BY <1>1, <1>4 DEF HandleSuccess, ScheduleRetry, DeferJob, Fenced
  <1>5. CASE DeadLetter(w)
    BY <1>1, <1>5, StoreAssumption DEF DeadLetter, HeldUnder, OwnedBy, FencesWithOwnId, OutcomePcs
  <1> QED
    BY <1>3, <1>4, <1>5

\* The ownership fence of DESIGN 7.8: sent, retry, deferral and dead-letter are
\* written on the worker's own current claim only.
THEOREM Fencing ==
    ASSUME "fetch" \notin StallPoints
    PROVE  Spec => FencedOutcome
  <1>1. TypeOK /\ FencesWithOwnId /\ [Next]_vars
          => [\A w \in Workers :
                 (pc[w] \in OutcomePcs /\ pc'[w] # pc[w] /\ jobs' # jobs)
                     => OwnedBy(jobs[held[w]], w)]_vars
    BY FencedOutcomeStep
  <1> QED
    BY <1>1, TypeCorrect, OwnIdFence, PTL DEF Spec, FencedOutcome

-----------------------------------------------------------------------------
(* Sent is final.                                                          *)

\* No statement's fence matches a sent row once a worker fences with its own id.
LEMMA SentIsFinalStep ==
    ASSUME TypeOK, OwnerMatchesStatus, FencesWithOwnId, [Next]_vars,
           NEW j \in Jobs, jobs[j].status = "sent"
    PROVE  jobs'[j].status = "sent"
  <1>1. jobs[j].worker_id # NULL
    BY DEF OwnerMatchesStatus
  <1>2. ~BySystem(j)
    BY <1>1 DEF BySystem, Promotable, StaleClaim, HeldUnder
  <1>3. ASSUME NEW w \in Workers, ByWorker(w, j)
        PROVE  FALSE
    <2>1. Outcome(w, j) /\ held[w] = j
      BY <1>3 DEF ByWorker, Claimable, OwnedBy
    <2>2. view[w].worker_id = w /\ (jobs[j].worker_id = w => jobs[j].status = "claimed")
      BY <2>1 DEF Outcome, FencesWithOwnId, OutcomePcs
    <2> QED
      BY <2>1, <2>2 DEF Outcome, OwnedBy, HeldUnder
  <1> QED
    BY <1>2, <1>3, RowMoves

\* Once a job is sent, neither a stale worker nor a scheduler whose recovery
\* loop lags behind moves it on, although MARK_DEAD_LETTERED does not test the
\* status.
THEOREM SentFinal ==
    ASSUME "fetch" \notin StallPoints
    PROVE  Spec => SentIsFinal
  <1>1. TypeOK /\ OwnerMatchesStatus /\ FencesWithOwnId /\ [Next]_vars
          => [\A j \in Jobs : jobs[j].status = "sent" => jobs'[j].status = "sent"]_vars
    BY SentIsFinalStep
  <1> QED
    BY <1>1, TypeCorrect, OwnerMatches, OwnIdFence, PTL DEF Spec, SentIsFinal

-----------------------------------------------------------------------------
(* How often a job is delivered.                                           *)

\* The worker may still deliver the job, or has given the attempt up without
\* having written so.
OnItsWay(w, j) == pc[w] \in {"fetch", "deliver", "failed", "defer"} /\ held[w] = j

InFlight(j) == {w \in Workers : OnItsWay(w, j)}

\* The claim of a row stands for one delivery.
Licence(j) == IF jobs[j].status \in {"claimed", "sent"} THEN 1 ELSE 0

\* Deliveries made and still possible were all paid for, by the claim of the
\* row or by one that was taken back.
Balanced == \A j \in Jobs : delivered[j] + Cardinality(InFlight(j)) <= reclaims[j] + Licence(j)

\* The workers on their way can be counted.
LEMMA InFlightFinite ==
    ASSUME IsFiniteSet(Workers), NEW j \in Jobs
    PROVE  /\ IsFiniteSet(InFlight(j)) /\ Cardinality(InFlight(j)) \in Nat
           /\ IsFiniteSet(InFlight(j)') /\ Cardinality(InFlight(j)') \in Nat
  <1>1. InFlight(j) \in SUBSET Workers /\ InFlight(j)' \in SUBSET Workers
    BY DEF InFlight
  <1>. HIDE DEF InFlight
  <1>2. IsFiniteSet(InFlight(j)) /\ IsFiniteSet(InFlight(j)')
    BY <1>1, FS_Subset
  <1> QED
    BY <1>2, FS_CardinalityType

-----------------------------------------------------------------------------
\* A worker's step leaves the other workers where they are.
LEMMA OthersStay ==
    ASSUME WorkerTypeOK, NEW w \in Workers, NEW v \in Workers, v # w,
           WorkerProgress(w) \/ WorkerFailure(w) \/ HeartbeatTask(w)
    PROVE  pc'[v] = pc[v] /\ held'[v] = held[v]
  <1>. USE DEF WorkerTypeOK
  <1>1. CASE ClaimStep(w)
    BY <1>1
       DEF ClaimStep, PollEmpty, PopMin, AcquireLock, LockRefused, Claim, ClaimRefused,
           UnlockRefused, Goto, NextTier, Drop
  <1>2. CASE OutcomeStep(w)
    BY <1>2
       DEF OutcomeStep, HandleSuccess, ScheduleRetry, DeadLetter, DeferJob, OutcomeLost,
           ReleaseLock, ReleaseDeferred, FireWebhook, Goto, EndIteration, Drop
  <1>3. CASE FetchJob(w) \/ RateLimited(w) \/ Deliver(w) \/ DeliveryFails(w)
             \/ IterationFails(w) \/ Crash(w)
    BY <1>3
       DEF FetchJob, RateLimited, Deliver, DeliveryFails, IterationFails, Crash, Goto,
           EndIteration, Drop
  <1>4. CASE HeartbeatTask(w)
    BY <1>4 DEF HeartbeatTask, Heartbeat, workerVars
  <1> QED
    BY <1>1, <1>2, <1>3, <1>4 DEF WorkerProgress, WorkerFailure, DeliverOnce

\* What a worker's step pays and spends: nothing; it claims and sets out; it
\* delivers; or it gives the attempt up, with the claim at most.
Idle(w, j) ==
    /\ OnItsWay(w, j)' => OnItsWay(w, j)
    /\ Licence(j)' = Licence(j)
    /\ delivered'[j] = delivered[j]

SetsOut(w, j) ==
    /\ ~OnItsWay(w, j)
    /\ Licence(j) = 0 /\ Licence(j)' = 1
    /\ delivered'[j] = delivered[j]

Arrives(w, j) ==
    /\ OnItsWay(w, j) /\ ~OnItsWay(w, j)'
    /\ Licence(j)' = Licence(j)
    /\ delivered'[j] = delivered[j] + 1

GivesUp(w, j) ==
    /\ OnItsWay(w, j) /\ ~OnItsWay(w, j)'
    /\ delivered'[j] = delivered[j]

\* A step of a worker is one of these four for each job.
LEMMA WorkerTurn ==
    ASSUME TypeOK, NEW w \in Workers, NEW j \in Jobs,
           WorkerProgress(w) \/ WorkerFailure(w) \/ HeartbeatTask(w)
    PROVE  Idle(w, j) \/ SetsOut(w, j) \/ Arrives(w, j) \/ GivesUp(w, j)
  <1>. USE DEF TypeOK, StoreTypeOK, WorkerTypeOK, OnItsWay
  <1>1. CASE ClaimStep(w) /\ delivered' = delivered
    <2>1. CASE Claim(w)
      <3>1. CASE held[w] = j
        <4>1. jobs'[j] = CLAIM_QUEUED_JOB(jobs[j], w) /\ jobs[j].status = "queued"
          BY <2>1, <3>1 DEF Claim, Claimable, Update
        <4>2. jobs'[j].status = "claimed"
          BY <4>1 DEF CLAIM_QUEUED_JOB, Row
        <4> QED
          BY <1>1, <2>1, <4>1, <4>2 DEF Claim, Licence, SetsOut
      <3>2. CASE held[w] # j
        BY <1>1, <2>1, <3>2 DEF Claim, Update, Licence, Idle
      <3> QED
        BY <3>1, <3>2
    <2> QED
      BY <1>1, <2>1
         DEF ClaimStep, PollEmpty, PopMin, AcquireLock, LockRefused, ClaimRefused,
             UnlockRefused, Goto, NextTier, Drop, storeVars, Licence, Idle
  <1>2. CASE OutcomeStep(w) /\ delivered' = delivered
    <2>1. CASE HandleSuccess(w)
      <3>1. /\ \A k \in Jobs : k # held[w] => jobs'[k] = jobs[k]
            /\ jobs[held[w]].status = "claimed" /\ jobs'[held[w]].status = "sent"
            /\ pc'[w] = "release"
        BY <2>1 DEF HandleSuccess, Update, Fenced, OwnedBy, MARK_SENT, Row, Goto
      <3> QED
        BY <1>2, <3>1 DEF Licence, Idle
    <2>2. CASE ScheduleRetry(w) \/ DeadLetter(w) \/ DeferJob(w)
      <3>1. /\ \A k \in Jobs : k # held[w] => jobs'[k] = jobs[k]
            /\ pc[w] \in {"failed", "defer"} /\ pc'[w] \in {"release", "release_deferred"}
        BY <2>2 DEF ScheduleRetry, DeadLetter, DeadLetterTransaction, DeferJob, Update, Goto
      <3>2. CASE held[w] = j
        BY <1>2, <3>1, <3>2 DEF GivesUp
      <3>3. CASE held[w] # j
        BY <1>2, <3>1, <3>3 DEF Licence, Idle
      <3> QED
        BY <3>2, <3>3
    <2>3. CASE OutcomeLost(w) \/ ReleaseLock(w) \/ ReleaseDeferred(w) \/ FireWebhook(w)
      BY <1>2, <2>3
         DEF OutcomeLost, ReleaseLock, ReleaseDeferred, FireWebhook, Goto, EndIteration, Drop,
             storeVars, Licence, Idle
    <2> QED
      BY <1>2, <2>1, <2>2, <2>3 DEF OutcomeStep
  <1>3. CASE DeliverOnce(w)
    <2>1. /\ pc[w] = "deliver" /\ pc'[w] = "sent" /\ jobs' = jobs
          /\ delivered' = [delivered EXCEPT ![held[w]] = @ + 1]
      BY <1>3 DEF DeliverOnce, Deliver, Goto, storeVars
    <2>2. CASE held[w] = j
      BY <2>1, <2>2 DEF Licence, Arrives
    <2>3. CASE held[w] # j
      BY <2>1, <2>3 DEF Licence, Idle
    <2> QED
      BY <2>2, <2>3
  <1>4. CASE FetchJob(w) \/ RateLimited(w) \/ DeliveryFails(w) \/ IterationFails(w) \/ Crash(w)
    <2>1. jobs' = jobs /\ delivered' = delivered
      BY <1>4
         DEF FetchJob, RateLimited, DeliveryFails, IterationFails, Crash, storeVars,
             WorkerProgress, WorkerFailure, HeartbeatTask, DeliverOnce, Deliver, ClaimStep,
             OutcomeStep, Goto, EndIteration, Drop, historyVars
    <2>2. OnItsWay(w, j)' => OnItsWay(w, j)
      BY <1>4
         DEF FetchJob, RateLimited, DeliveryFails, IterationFails, Crash, Goto, EndIteration, Drop
    <2> QED
      BY <2>1, <2>2 DEF Licence, Idle
  <1>5. CASE HeartbeatTask(w)
    BY <1>5
       DEF HeartbeatTask, Heartbeat, workerVars, historyVars, Update, UPDATE_HEARTBEAT, Row,
           Licence, Idle
  <1> QED
    BY <1>1, <1>2, <1>3, <1>4, <1>5 DEF WorkerProgress, WorkerFailure

\* The fence of the recovery path matches no job that is somebody's or sent.
BurialsUnclaimed ==
    \A s \in Schedulers :
        (spc[s] = "bury" /\ jobs[cur[s].id].worker_id = NULL)
            => jobs[cur[s].id].status \notin {"claimed", "sent"}

\* Nobody else delivers, and a claim taken back is written down.
LEMMA SystemTurn ==
    ASSUME TypeOK, BurialsUnclaimed, NEW j \in Jobs,
           \/ \E s \in Schedulers : SchedulerProgress(s) \/ SchedulerFailure(s)
           \/ \E k \in Jobs : ApiCall(k) \/ PassageOfTime(k)
           \/ Outage
    PROVE  /\ InFlight(j)' = InFlight(j)
           /\ delivered'[j] = delivered[j]
           /\ reclaims'[j] + Licence(j)' >= reclaims[j] + Licence(j)
  <1>. USE DEF TypeOK, StoreTypeOK
  <1>1. UNCHANGED <<pc, held, delivered>>
    BY DEF SchedulerProgress, SchedulerFailure, ApiCall, PassageOfTime, Outage, workerVars,
           historyVars
  <1>2. ASSUME reclaims' = reclaims, Licence(j)' = Licence(j)
        PROVE  reclaims'[j] + Licence(j)' >= reclaims[j] + Licence(j)
    BY <1>2 DEF Licence
  <1>3. ASSUME NEW s \in Schedulers, Reclaim(s)
        PROVE  reclaims'[j] + Licence(j)' >= reclaims[j] + Licence(j)
    <2>1. CASE j \in StaleClaims
      BY <1>3, <2>1 DEF Reclaim, Licence
    <2>2. CASE j \notin StaleClaims
      BY <1>3, <2>2 DEF Reclaim, RecoverStaleClaimed, Licence
    <2> QED
      BY <2>1, <2>2
  <1>4. ASSUME NEW s \in Schedulers, PromoteDueJobs(s)
        PROVE  Licence(j)' = Licence(j)
    <2>1. PICK B \in Limited({k \in Jobs : Promotable(jobs[k])}) :
            jobs' = [k \in Jobs |-> IF k \in B THEN PROMOTE_DUE_JOBS(jobs[k]) ELSE jobs[k]]
      BY <1>4 DEF PromoteDueJobs
    <2>2. \A k \in B : jobs[k].status = "pending"
      BY DEF Limited, Promotable
    <2> QED
      BY <2>1, <2>2 DEF PROMOTE_DUE_JOBS, Row, Licence
  <1>5. ASSUME NEW s \in Schedulers, BuryReclaimed(s)
        PROVE  Licence(j)' = Licence(j)
    <2>1. cur[s].id \in Jobs
      BY <1>5 DEF BuryReclaimed, SchedulerTypeOK, ReclaimedRow
    <2>2. jobs[cur[s].id].status \notin {"claimed", "sent"}
      BY <1>5 DEF BuryReclaimed, HeldUnder, BurialsUnclaimed
    <2>3. jobs'[cur[s].id].status = "dead_lettered"
      BY <1>5, <2>1
         DEF BuryReclaimed, DeadLetterTransaction, Update, MARK_DEAD_LETTERED, Disowned, Row
    <2>4. j # cur[s].id => jobs'[j] = jobs[j]
      BY <1>5 DEF BuryReclaimed, DeadLetterTransaction, Update
    <2> QED
      BY <2>2, <2>3, <2>4 DEF Licence
  <1>6. ASSUME NEW s \in Schedulers, SchedulerProgress(s) \/ SchedulerFailure(s)
        PROVE  reclaims'[j] + Licence(j)' >= reclaims[j] + Licence(j)
    <2>1. CASE Reclaim(s)
      BY <1>3, <2>1
    <2>2. CASE reclaims' = reclaims /\ (PromoteDueJobs(s) \/ BuryReclaimed(s))
      BY <1>2, <1>4, <1>5, <2>2
    <2>3. CASE reclaims' = reclaims /\ jobs' = jobs
      BY <1>2, <2>3 DEF Licence
    <2> QED
      BY <1>6, <2>1, <2>2, <2>3
         DEF SchedulerProgress, SchedulerFailure, EnqueuePromoted, AddToQueues, UnlockReclaimed,
             BuryRefused, UnlockBuried, SelectStaleQueued, EnqueueStale, TickFails, storeVars,
             historyVars
  <1>7. ASSUME NEW k \in Jobs, ApiCall(k)
        PROVE  reclaims'[j] + Licence(j)' >= reclaims[j] + Licence(j)
    <2>1. CASE CreateJob(k)
      <3>1. PICK due \in BOOLEAN : Update(k, INSERT_JOB(due))
        BY <2>1 DEF CreateJob, resolved_due
      <3>2. jobs[k].status = "absent" /\ jobs'[k].status = "pending"
        BY <2>1, <3>1 DEF CreateJob, Update, INSERT_JOB, AbsentRow
      <3>3. j # k => jobs'[j] = jobs[j]
        BY <3>1 DEF Update
      <3> QED
        BY <1>2, <1>7, <3>2, <3>3 DEF ApiCall, historyVars, Licence
    <2>2. CASE RetryDeadLettered(k)
      <3>1. jobs[k].status = "dead_lettered" /\ jobs'[k].status = "pending"
        BY <2>2 DEF RetryDeadLettered, Update, RETRY_DEAD_LETTERED_JOB, Disowned, Row
      <3>2. j # k => jobs'[j] = jobs[j]
        BY <2>2 DEF RetryDeadLettered, Update
      <3> QED
        BY <1>2, <1>7, <3>1, <3>2 DEF ApiCall, historyVars, Licence
    <2> QED
      BY <1>7, <2>1, <2>2 DEF ApiCall
  <1>8. ASSUME Outage \/ \E k \in Jobs : PassageOfTime(k)
        PROVE  reclaims'[j] + Licence(j)' >= reclaims[j] + Licence(j)
    <2>1. jobs'[j].status = jobs[j].status /\ reclaims' = reclaims
      BY <1>8
         DEF Row, PassageOfTime, BecomesDue, QueuedTooLong, ClaimAbandoned, HeartbeatFallsBehind,
             LockExpires, Outage, RedisLosesData, OwnerStalls, historyVars
    <2> QED
      BY <1>2, <2>1 DEF Licence
  <1> QED
    BY <1>1, <1>6, <1>7, <1>8 DEF InFlight, OnItsWay

-----------------------------------------------------------------------------
\* The account stays balanced: a worker sets out only with a new claim.
LEMMA BalancedStep ==
    ASSUME IsFiniteSet(Workers), TypeOK, TypeOK', BurialsUnclaimed, Balanced, [Next]_vars
    PROVE  Balanced'
  <1>. SUFFICES ASSUME NEW j \in Jobs
                PROVE  delivered'[j] + Cardinality(InFlight(j)')
                           <= reclaims'[j] + Licence(j)'
    BY DEF Balanced
  <1>. DEFINE flying == Cardinality(InFlight(j))
              landed == Cardinality(InFlight(j)')
  <1>1. /\ flying \in Nat /\ landed \in Nat
        /\ delivered[j] \in Nat /\ delivered'[j] \in Nat
        /\ reclaims[j] \in Nat /\ reclaims'[j] \in Nat
        /\ Licence(j) \in {0, 1} /\ Licence(j)' \in {0, 1}
        /\ delivered[j] + flying <= reclaims[j] + Licence(j)
    BY InFlightFinite DEF TypeOK, Balanced, Licence
  <1>2. ASSUME NEW w \in Workers, WorkerProgress(w) \/ WorkerFailure(w) \/ HeartbeatTask(w)
        PROVE  delivered'[j] + landed <= reclaims'[j] + Licence(j)'
    <2>1. InFlight(j)' = IF OnItsWay(w, j)' THEN InFlight(j) \cup {w} ELSE InFlight(j) \ {w}
      <3>1. \A v \in Workers : v # w => (OnItsWay(v, j)' <=> OnItsWay(v, j))
        BY <1>2, OthersStay DEF TypeOK, OnItsWay
      <3>. HIDE DEF OnItsWay
      <3> QED
        BY <3>1 DEF InFlight
    <2>2. w \in InFlight(j) <=> OnItsWay(w, j)
      BY DEF InFlight
    <2>3. landed = IF OnItsWay(w, j)'
                     THEN IF OnItsWay(w, j) THEN flying ELSE flying + 1
                     ELSE IF OnItsWay(w, j) THEN flying - 1 ELSE flying
      <3>1. /\ Cardinality(InFlight(j) \cup {w}) = IF w \in InFlight(j) THEN flying ELSE flying + 1
            /\ Cardinality(InFlight(j) \ {w}) = IF w \in InFlight(j) THEN flying - 1 ELSE flying
        <4>1. IsFiniteSet(InFlight(j))
          BY InFlightFinite
        <4>. HIDE DEF InFlight
        <4> QED
          BY <4>1, FS_AddElement, FS_RemoveElement
      <3>. HIDE DEF InFlight, OnItsWay
      <3>2. CASE OnItsWay(w, j)'
        BY <2>1, <2>2, <3>1, <3>2
      <3>3. CASE ~OnItsWay(w, j)'
        BY <2>1, <2>2, <3>1, <3>3
      <3> QED
        BY <3>2, <3>3
    <2>4. reclaims' = reclaims
      BY <1>2 DEF WorkerProgress, WorkerFailure, HeartbeatTask, historyVars
    <2>. HIDE DEF flying, landed
    <2>5. CASE Idle(w, j)
      BY <1>1, <2>3, <2>4, <2>5 DEF Idle
    <2>6. CASE SetsOut(w, j)
      BY <1>1, <2>3, <2>4, <2>6 DEF SetsOut
    <2>7. CASE Arrives(w, j) \/ GivesUp(w, j)
      BY <1>1, <2>3, <2>4, <2>7 DEF Arrives, GivesUp
    <2> QED
      BY <1>2, <2>5, <2>6, <2>7, WorkerTurn
  <1>3. CASE \/ \E s \in Schedulers : SchedulerProgress(s) \/ SchedulerFailure(s)
             \/ \E k \in Jobs : ApiCall(k) \/ PassageOfTime(k)
             \/ Outage
    BY <1>1, <1>3, SystemTurn
  <1>4. CASE UNCHANGED vars
    <2>1. /\ InFlight(j)' = InFlight(j) /\ Licence(j)' = Licence(j)
          /\ delivered' = delivered /\ reclaims' = reclaims
      BY <1>4 DEF vars, storeVars, workerVars, historyVars, InFlight, OnItsWay, Licence
    <2> QED
      BY <1>1, <2>1
  <1> QED
    BY <1>2, <1>3, <1>4 DEF Next

\* So it is balanced in every state.
LEMMA BalancedAlways ==
    ASSUME IsFiniteSet(Workers)
    PROVE  Spec => []Balanced
  <1>1. Init => Balanced
    <2>. SUFFICES ASSUME Init, NEW j \in Jobs
                  PROVE  delivered[j] + Cardinality(InFlight(j)) <= reclaims[j] + Licence(j)
      BY DEF Balanced
    <2>1. InFlight(j) = {} /\ delivered[j] = 0 /\ reclaims[j] = 0
      BY DEF Init, WorkerInit, InFlight, OnItsWay
    <2> QED
      BY <2>1, FS_EmptySet DEF Licence
  <1>2. TypeOK /\ TypeOK' /\ OwnerMatchesStatus /\ Balanced /\ [Next]_vars => Balanced'
    BY BalancedStep DEF BurialsUnclaimed, OwnerMatchesStatus, TypeOK, SchedulerTypeOK, ReclaimedRow
  <1> QED
    BY <1>1, <1>2, TypeCorrect, OwnerMatches, PTL DEF Spec

\* What the account says about deliveries made.
LEMMA PaidDeliveries ==
    ASSUME IsFiniteSet(Workers), TypeOK, Balanced, NEW j \in Jobs
    PROVE  /\ delivered[j] \in Nat /\ reclaims[j] \in Nat
           /\ delivered[j] <= reclaims[j] + Licence(j)
  <1>1. /\ delivered[j] \in Nat /\ reclaims[j] \in Nat /\ Licence(j) \in {0, 1}
        /\ Cardinality(InFlight(j)) \in Nat
    BY InFlightFinite DEF TypeOK, Licence
  <1> QED
    BY <1>1 DEF Balanced

\* A job is delivered once, and once more at most for each claim of it that
\* RECOVER_STALE_CLAIMED took back, whatever fails and however many schedulers
\* and workers run (claim_next_job, execute_delivery).
THEOREM DeliveriesBounded ==
    ASSUME IsFiniteSet(Workers)
    PROVE  Spec => []DeliveryBound
  <1>1. TypeOK /\ Balanced => DeliveryBound
    BY PaidDeliveries DEF DeliveryBound, Licence
  <1> QED
    BY <1>1, TypeCorrect, BalancedAlways, PTL

===============================================================================
