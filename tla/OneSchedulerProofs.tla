-------------------------- MODULE OneSchedulerProofs --------------------------
(***************************************************************************)
(* Theorems about the pipeline with one scheduler instance, for any number *)
(* of jobs and workers: what recover_stale_claimed_jobs buries and whom    *)
(* the cap stops, the two abstract specifications the pipeline implements, *)
(* and how many deliveries max_attempts allows.                            *)
(***************************************************************************)
EXTENDS NotifyQueueProofs

\* The deployment the design document starts from.
OneScheduler == \A s, t \in Schedulers : s = t

\* What the statements write into the two columns the clients see: those of
\* the workers.
LEMMA WorkerFields ==
    ASSUME NEW r \in Row, NEW w \in Workers, NEW n \in Nat
    PROVE  /\ CLAIM_QUEUED_JOB(r, w).status = "claimed"
           /\ CLAIM_QUEUED_JOB(r, w).attempt_count = r.attempt_count
           /\ UPDATE_HEARTBEAT(r).status = r.status
           /\ UPDATE_HEARTBEAT(r).attempt_count = r.attempt_count
           /\ MARK_SENT(r).status = "sent" /\ MARK_SENT(r).attempt_count = r.attempt_count
           /\ SCHEDULE_RETRY(r, n).status = "pending" /\ SCHEDULE_RETRY(r, n).attempt_count = n
           /\ DEFER_TO_NEXT_WINDOW(r).status = "pending"
           /\ DEFER_TO_NEXT_WINDOW(r).attempt_count = r.attempt_count
           /\ MARK_DEAD_LETTERED(r, n).status = "dead_lettered"
           /\ MARK_DEAD_LETTERED(r, n).attempt_count = n
  <1>1. /\ CLAIM_QUEUED_JOB(r, w).status = "claimed"
        /\ CLAIM_QUEUED_JOB(r, w).attempt_count = r.attempt_count
        /\ UPDATE_HEARTBEAT(r).status = r.status
        /\ UPDATE_HEARTBEAT(r).attempt_count = r.attempt_count
        /\ MARK_SENT(r).status = "sent" /\ MARK_SENT(r).attempt_count = r.attempt_count
    BY DEF CLAIM_QUEUED_JOB, UPDATE_HEARTBEAT, MARK_SENT, Row
  <1>2. Disowned(r) \in Row /\ Disowned(r).attempt_count = r.attempt_count
    BY DEF Disowned, Row, WorkerId
  <1> HIDE DEF Disowned
  <1>3. /\ SCHEDULE_RETRY(r, n).status = "pending" /\ SCHEDULE_RETRY(r, n).attempt_count = n
        /\ DEFER_TO_NEXT_WINDOW(r).status = "pending"
        /\ DEFER_TO_NEXT_WINDOW(r).attempt_count = r.attempt_count
        /\ MARK_DEAD_LETTERED(r, n).status = "dead_lettered"
        /\ MARK_DEAD_LETTERED(r, n).attempt_count = n
    BY <1>2 DEF SCHEDULE_RETRY, DEFER_TO_NEXT_WINDOW, MARK_DEAD_LETTERED, Row
  <1> QED
    BY <1>1, <1>3

\* Those of the schedulers and the API.
LEMMA SystemFields ==
    ASSUME NEW r \in Row, NEW n \in Nat
    PROVE  /\ PROMOTE_DUE_JOBS(r).status = "queued"
           /\ PROMOTE_DUE_JOBS(r).attempt_count = r.attempt_count
           /\ MARK_DEAD_LETTERED(r, n).status = "dead_lettered"
           /\ MARK_DEAD_LETTERED(r, n).attempt_count = n
           /\ RETRY_DEAD_LETTERED_JOB(r).status = "pending"
           /\ RETRY_DEAD_LETTERED_JOB(r).attempt_count = 0
           /\ RECOVER_STALE_CLAIMED(r).status = "pending"
           /\ RECOVER_STALE_CLAIMED(r).attempt_count = r.attempt_count + 1
  <1>1. Disowned(r) \in Row /\ Disowned(r).attempt_count = r.attempt_count
    BY DEF Disowned, Row, WorkerId
  <1> HIDE DEF Disowned
  <1> QED
    BY <1>1 DEF PROMOTE_DUE_JOBS, MARK_DEAD_LETTERED, RETRY_DEAD_LETTERED_JOB,
                RECOVER_STALE_CLAIMED, Row

-----------------------------------------------------------------------------
(* The rows a recovery pass has in hand.                                   *)

\* Rows of RECOVER_STALE_CLAIMED the loop has left, the one about to be
\* dead-lettered included.
InHand(s) == reclaimed[s] \cup (IF spc[s] = "bury" THEN {cur[s]} ELSE {})

\* They are as the UPDATE left them.
Untouched ==
    \A s \in Schedulers :
        /\ spc[s] \notin {"unlock", "bury", "unlock_dead"} => reclaimed[s] = {}
        /\ \A r \in InHand(s) : /\ jobs[r.id].status = "pending"
                                /\ jobs[r.id].attempt_count = r.attempt_count
        /\ \A r, q \in InHand(s) : r.id = q.id => r = q
        /\ spc[s] = "bury" => cur[s] \notin reclaimed[s] /\ AtCap(cur[s])

RecoveryPremises == TypeOK /\ OwnerMatchesStatus /\ FencesWithOwnId

\* A worker has no statement that matches a pending row.
LEMMA WorkersSkipPending ==
    ASSUME RecoveryPremises, NEW j \in Jobs, jobs[j].status = "pending",
           NEW w \in Workers
    PROVE  ~ByWorker(w, j)
  <1>1. jobs[j].worker_id = NULL
    BY DEF RecoveryPremises, OwnerMatchesStatus
  <1>2. ASSUME Outcome(w, j)
        PROVE  view[w].worker_id # NULL
    BY <1>2, StoreAssumption DEF RecoveryPremises, Outcome, FencesWithOwnId, OutcomePcs
  <1> QED
    BY <1>1, <1>2 DEF ByWorker, Outcome, Claimable, OwnedBy, HeldUnder

\* Nobody but a scheduler takes a pending row on.
LEMMA PendingStays ==
    ASSUME RecoveryPremises, NEW j \in Jobs, jobs[j].status = "pending",
           \/ \E w \in Workers : WorkerProgress(w) \/ WorkerFailure(w) \/ HeartbeatTask(w)
           \/ \E k \in Jobs : ApiCall(k) \/ PassageOfTime(k)
           \/ Outage
    PROVE  jobs'[j].status = "pending" /\ jobs'[j].attempt_count = jobs[j].attempt_count
  <1>. DEFINE Same == jobs'[j].status = "pending" /\ jobs'[j].attempt_count = jobs[j].attempt_count
  <1>. USE DEF RecoveryPremises, TypeOK, StoreTypeOK
  <1>1. ASSUME NEW w \in Workers, WorkerProgress(w) \/ WorkerFailure(w) \/ HeartbeatTask(w)
        PROVE  Same
    BY <1>1, WorkerRowMoves, WorkersSkipPending
  <1>2. ASSUME NEW k \in Jobs, ApiCall(k)
        PROVE  Same
    BY <1>2 DEF ApiCall, CreateJob, RetryDeadLettered, Update
  <1>3. ASSUME NEW k \in Jobs, PassageOfTime(k)
        PROVE  Same
    BY <1>3 DEF PassageOfTime, BecomesDue, QueuedTooLong, ClaimAbandoned, HeartbeatFallsBehind,
                LockExpires, Row
  <1>4. CASE Outage
    BY <1>4 DEF Outage, RedisLosesData, OwnerStalls, HeartbeatFallsBehind
  <1> QED
    BY <1>1, <1>2, <1>3, <1>4

\* Nobody but a scheduler writes its variables.
LEMMA SchedulerVarsStay ==
    ASSUME \/ \E w \in Workers : WorkerProgress(w) \/ WorkerFailure(w) \/ HeartbeatTask(w)
           \/ \E k \in Jobs : ApiCall(k) \/ PassageOfTime(k)
           \/ Outage
    PROVE  UNCHANGED schedulerVars
  BY DEF WorkerProgress, WorkerFailure, HeartbeatTask, ApiCall, PassageOfTime, Outage

\* The scheduler's own steps keep the rows in hand as they are.
LEMMA UntouchedByScheduler ==
    ASSUME OneScheduler, TypeOK, Untouched, NEW s \in Schedulers,
           SchedulerProgress(s) \/ SchedulerFailure(s)
    PROVE  Untouched'
  <1>. DEFINE Good == /\ spc'[s] \notin {"unlock", "bury", "unlock_dead"} => reclaimed'[s] = {}
                      /\ \A r \in InHand(s)' : /\ jobs'[r.id].status = "pending"
                                               /\ jobs'[r.id].attempt_count = r.attempt_count
                      /\ \A r, q \in InHand(s)' : r.id = q.id => r = q
                      /\ spc'[s] = "bury" => cur'[s] \notin reclaimed'[s] /\ AtCap(cur'[s])
  <1>. SUFFICES Good
    BY DEF OneScheduler, Untouched
  <1>. USE DEF TypeOK, StoreTypeOK, SchedulerTypeOK, InHand, Untouched
  <1>1. CASE PromoteDueJobs(s)
    BY <1>1 DEF PromoteDueJobs
  <1>2. CASE EnqueuePromoted(s) \/ SelectStaleQueued(s) \/ EnqueueStale(s)
    BY <1>2 DEF EnqueuePromoted, SelectStaleQueued, EnqueueStale, AddToQueues
  <1>3. CASE RecoverStaleClaimed(s)
    <2>. DEFINE rows == {[id |-> j, attempt_count |-> jobs[j].attempt_count + 1] : j \in StaleClaims}
    <2>1. /\ reclaimed'[s] = rows
          /\ spc'[s] = NextRow(rows)
          /\ \A j \in StaleClaims : jobs'[j] = RECOVER_STALE_CLAIMED(jobs[j])
      BY <1>3 DEF RecoverStaleClaimed, StaleClaims
    <2>2. InHand(s)' = rows
      BY <2>1 DEF NextRow
    <2>3. \A j \in StaleClaims : /\ jobs'[j].status = "pending"
                                 /\ jobs'[j].attempt_count = jobs[j].attempt_count + 1
      <3>1. \A j \in StaleClaims : jobs[j] \in Row
        BY DEF StaleClaims
      <3>2. 0 \in Nat
        OBVIOUS
      <3> QED
        BY <2>1, <3>1, <3>2, SystemFields
    <2>4. \A r \in rows : r.id \in StaleClaims /\ r.attempt_count = jobs[r.id].attempt_count + 1
      OBVIOUS
    <2>5. \A r, q \in rows : r.id = q.id => r = q
      OBVIOUS
    <2>. HIDE DEF rows
    <2> QED
      BY <2>1, <2>2, <2>3, <2>4, <2>5 DEF NextRow
  <1>4. CASE UnlockReclaimed(s)
    <2>1. PICK row \in reclaimed[s] :
            /\ reclaimed'[s] = reclaimed[s] \ {row}
            /\ spc'[s] = IF AtCap(row) THEN "bury" ELSE NextRow(reclaimed[s] \ {row})
            /\ AtCap(row) => cur'[s] = row
      BY <1>4 DEF UnlockReclaimed
    <2>2. InHand(s)' \subseteq InHand(s) /\ jobs' = jobs
      BY <1>4, <2>1 DEF UnlockReclaimed, NextRow
    <2> QED
      BY <2>1, <2>2 DEF NextRow
  <1>5. CASE BuryReclaimed(s)
    <2>1. /\ spc[s] = "bury" /\ spc'[s] = "unlock_dead" /\ InHand(s)' = reclaimed[s]
          /\ reclaimed'[s] = reclaimed[s]
          /\ cur[s] \in InHand(s) /\ cur[s] \notin reclaimed[s]
      BY <1>5 DEF BuryReclaimed
    <2>2. \A r \in reclaimed[s] : r.id \in Jobs /\ r.id # cur[s].id
      BY <2>1 DEF ReclaimedRow
    <2>3. \A r \in reclaimed[s] : jobs'[r.id] = jobs[r.id]
      BY <1>5, <2>2 DEF BuryReclaimed, DeadLetterTransaction, Update
    <2> QED
      BY <2>1, <2>3
  <1>6. CASE BuryRefused(s) \/ UnlockBuried(s)
    <2>1. /\ InHand(s)' = reclaimed[s] /\ reclaimed'[s] = reclaimed[s] /\ jobs' = jobs
          /\ spc'[s] = NextRow(reclaimed[s])
      BY <1>6 DEF BuryRefused, UnlockBuried, NextRow, storeVars
    <2> QED
      BY <2>1 DEF NextRow
  <1>7. CASE TickFails(s)
    BY <1>7 DEF TickFails
  <1> QED
    BY <1>1, <1>2, <1>3, <1>4, <1>5, <1>6, <1>7
       DEF SchedulerProgress, SchedulerFailure, Reclaim

\* Nor does anybody else touch them.
LEMMA UntouchedStep ==
    ASSUME OneScheduler, RecoveryPremises, Untouched, [Next]_vars
    PROVE  Untouched'
  <1>1. ASSUME NEW s \in Schedulers, SchedulerProgress(s) \/ SchedulerFailure(s)
        PROVE  Untouched'
    BY <1>1, UntouchedByScheduler DEF RecoveryPremises
  <1>2. CASE \/ \E w \in Workers : WorkerProgress(w) \/ WorkerFailure(w) \/ HeartbeatTask(w)
             \/ \E k \in Jobs : ApiCall(k) \/ PassageOfTime(k)
             \/ Outage
    <2>1. UNCHANGED schedulerVars
      BY <1>2, SchedulerVarsStay
    <2>2. \A s \in Schedulers : InHand(s)' = InHand(s)
      BY <2>1 DEF schedulerVars, InHand
    <2>3. \A s \in Schedulers : \A r \in InHand(s) : r.id \in Jobs
      BY DEF RecoveryPremises, TypeOK, SchedulerTypeOK, InHand, ReclaimedRow
    <2>4. \A s \in Schedulers : \A r \in InHand(s) :
              jobs'[r.id].status = "pending" /\ jobs'[r.id].attempt_count = r.attempt_count
      BY <1>2, <2>3, PendingStays DEF Untouched
    <2> QED
      BY <2>1, <2>2, <2>4 DEF schedulerVars, Untouched
  <1>3. CASE UNCHANGED vars
    BY <1>3 DEF vars, storeVars, schedulerVars, Untouched, InHand
  <1> QED
    BY <1>1, <1>2, <1>3 DEF Next

\* So the rows in hand stay as they are.
LEMMA UntouchedAlways ==
    ASSUME OneScheduler, "fetch" \notin StallPoints
    PROVE  Spec => []Untouched
  <1>1. Init => Untouched
    BY DEF Init, SchedulerInit, Untouched, InHand
  <1>2. TypeOK /\ OwnerMatchesStatus /\ FencesWithOwnId /\ Untouched /\ [Next]_vars => Untouched'
    BY UntouchedStep DEF RecoveryPremises
  <1> QED
    BY <1>1, <1>2, TypeCorrect, OwnerMatches, OwnIdFence, PTL DEF Spec

\* One scheduler dead-letters a job in the state it has just reset it to,
\* although its fence (worker_id IS NULL) would match many others: dead_letter
\* with expected_worker_id None.
THEOREM BurialsAreOwn ==
    ASSUME OneScheduler, "fetch" \notin StallPoints
    PROVE  Spec => BuriesOwnReset
  <1>1. Untouched
          => [\A s \in Schedulers :
                 (spc[s] = "bury" /\ spc'[s] = "unlock_dead")
                     => /\ jobs[cur[s].id].status = "pending"
                        /\ jobs[cur[s].id].attempt_count = cur[s].attempt_count]_vars
    BY DEF Untouched, InHand
  <1> QED
    BY <1>1, UntouchedAlways, PTL DEF BuriesOwnReset

-----------------------------------------------------------------------------
(* The cap.  A worker that stalled before FETCH_JOB may hold the owner of  *)
(* another claim, or NULL; the cap does not depend on the fence.           *)

\* A row without a claim has no owner.
Unowned == \A j \in Jobs : jobs[j].status \notin {"claimed", "sent"} => jobs[j].worker_id = NULL

\* The rows in hand wait for their burial; at worst the late outcome of a
\* worker with worker_id NULL has buried them, and a replay revived them.
Parked ==
    \A s \in Schedulers :
        /\ spc[s] \notin {"unlock", "bury", "unlock_dead"} => reclaimed[s] = {}
        /\ \A r \in InHand(s) : jobs[r.id].status \in {"pending", "dead_lettered"}
        /\ spc[s] = "bury" => AtCap(cur[s])

\* A pending row at the cap is in the hands of the recovery pass.
CapHeld ==
    \A j \in Jobs :
        (jobs[j].status = "pending" /\ jobs[j].attempt_count >= MaxAttempts)
            => \E s \in Schedulers : \E r \in InHand(s) : r.id = j /\ AtCap(r)

CapInv == Parked /\ AttemptCap /\ CapHeld

\* No statement of a worker or a client takes a parked row to a claim, nor does
\* time.
LEMMA ParkedStays ==
    ASSUME TypeOK, NEW j \in Jobs, jobs[j].status \in {"pending", "dead_lettered"},
           \/ \E w \in Workers : WorkerProgress(w) \/ WorkerFailure(w) \/ HeartbeatTask(w)
           \/ \E k \in Jobs : ApiCall(k) \/ PassageOfTime(k)
           \/ Outage
    PROVE  jobs'[j].status \in {"pending", "dead_lettered"}
  <1>. USE DEF TypeOK, StoreTypeOK
  <1>1. ASSUME NEW w \in Workers, WorkerProgress(w) \/ WorkerFailure(w) \/ HeartbeatTask(w)
        PROVE  jobs'[j].status \in {"pending", "dead_lettered"}
    <2>1. Attempt(w) \in Nat /\ jobs[j] \in Row
      BY DEF WorkerTypeOK, View, Attempt
    <2>2. jobs'[j] = jobs[j] \/ jobs'[j] = MARK_DEAD_LETTERED(jobs[j], Attempt(w))
      BY <1>1, WorkerRowMoves DEF ByWorker, Outcome, Claimable, OwnedBy
    <2> QED
      BY <2>1, <2>2, WorkerFields
  <1>2. ASSUME NEW k \in Jobs, ApiCall(k)
        PROVE  jobs'[j].status \in {"pending", "dead_lettered"}
    <2>1. jobs'[j] = jobs[j] \/ jobs'[j] = RETRY_DEAD_LETTERED_JOB(jobs[j])
      BY <1>2 DEF ApiCall, CreateJob, RetryDeadLettered, Update
    <2>2. jobs[j] \in Row /\ 0 \in Nat
      OBVIOUS
    <2> QED
      BY <2>1, <2>2, SystemFields
  <1>3. ASSUME NEW k \in Jobs, PassageOfTime(k)
        PROVE  jobs'[j].status \in {"pending", "dead_lettered"}
    BY <1>3 DEF PassageOfTime, BecomesDue, QueuedTooLong, ClaimAbandoned, HeartbeatFallsBehind,
                LockExpires, Row
  <1>4. CASE Outage
    BY <1>4 DEF Outage, RedisLosesData, OwnerStalls, HeartbeatFallsBehind
  <1> QED
    BY <1>1, <1>2, <1>3, <1>4

\* The scheduler that holds them promotes nothing before it has let them go.
LEMMA ParkedByScheduler ==
    ASSUME OneScheduler, TypeOK, Parked, NEW s \in Schedulers,
           SchedulerProgress(s) \/ SchedulerFailure(s)
    PROVE  Parked'
  <1>. DEFINE Good == /\ spc'[s] \notin {"unlock", "bury", "unlock_dead"} => reclaimed'[s] = {}
                      /\ \A r \in InHand(s)' : jobs'[r.id].status \in {"pending", "dead_lettered"}
                      /\ spc'[s] = "bury" => AtCap(cur'[s])
  <1>. SUFFICES Good
    BY DEF OneScheduler, Parked
  <1>. USE DEF TypeOK, StoreTypeOK, SchedulerTypeOK, InHand, Parked
  <1>1. CASE PromoteDueJobs(s)
    BY <1>1 DEF PromoteDueJobs
  <1>2. CASE EnqueuePromoted(s) \/ SelectStaleQueued(s) \/ EnqueueStale(s)
    BY <1>2 DEF EnqueuePromoted, SelectStaleQueued, EnqueueStale, AddToQueues
  <1>3. CASE RecoverStaleClaimed(s)
    <2>. DEFINE rows == {[id |-> j, attempt_count |-> jobs[j].attempt_count + 1] : j \in StaleClaims}
    <2>1. /\ reclaimed'[s] = rows /\ spc'[s] = NextRow(rows)
          /\ \A j \in StaleClaims : jobs'[j] = RECOVER_STALE_CLAIMED(jobs[j])
      BY <1>3 DEF RecoverStaleClaimed, StaleClaims
    <2>2. InHand(s)' = rows
      BY <2>1 DEF NextRow
    <2>3. \A j \in StaleClaims : jobs'[j].status = "pending"
      <3>. SUFFICES ASSUME NEW j \in StaleClaims
                    PROVE  jobs'[j].status = "pending"
        OBVIOUS
      <3>1. jobs[j] \in Row /\ 0 \in Nat
        BY DEF StaleClaims
      <3>2. RECOVER_STALE_CLAIMED(jobs[j]).status = "pending"
        BY <3>1, SystemFields
      <3> QED
        BY <2>1, <3>2
    <2>4. \A r \in rows : r.id \in StaleClaims
      OBVIOUS
    <2>. HIDE DEF rows
    <2> QED
      BY <2>1, <2>2, <2>3, <2>4 DEF NextRow
  <1>4. CASE UnlockReclaimed(s)
    <2>1. PICK row \in reclaimed[s] :
            /\ reclaimed'[s] = reclaimed[s] \ {row}
            /\ spc'[s] = IF AtCap(row) THEN "bury" ELSE NextRow(reclaimed[s] \ {row})
            /\ AtCap(row) => cur'[s] = row
      BY <1>4 DEF UnlockReclaimed
    <2>2. InHand(s)' \subseteq InHand(s) /\ jobs' = jobs
      BY <1>4, <2>1 DEF UnlockReclaimed, NextRow
    <2> QED
      BY <2>1, <2>2 DEF NextRow
  <1>5. CASE BuryReclaimed(s)
    <2>1. /\ spc[s] = "bury" /\ spc'[s] = "unlock_dead" /\ InHand(s)' = reclaimed[s]
          /\ reclaimed'[s] = reclaimed[s] /\ cur[s].id \in Jobs /\ cur[s].attempt_count \in Nat
      BY <1>5 DEF BuryReclaimed, ReclaimedRow
    <2>2. MARK_DEAD_LETTERED(jobs[cur[s].id], cur[s].attempt_count).status = "dead_lettered"
      BY <2>1, SystemFields
    <2>3. \A j \in Jobs : jobs'[j] = jobs[j] \/ jobs'[j].status = "dead_lettered"
      BY <1>5, <2>2 DEF BuryReclaimed, DeadLetterTransaction, Update
    <2>4. \A r \in reclaimed[s] : r.id \in Jobs
      BY DEF ReclaimedRow
    <2> QED
      BY <2>1, <2>3, <2>4
  <1>6. CASE BuryRefused(s) \/ UnlockBuried(s)
    <2>1. /\ InHand(s)' = reclaimed[s] /\ reclaimed'[s] = reclaimed[s] /\ jobs' = jobs
          /\ spc'[s] = NextRow(reclaimed[s])
      BY <1>6 DEF BuryRefused, UnlockBuried, NextRow, storeVars
    <2> QED
      BY <2>1 DEF NextRow
  <1>7. CASE TickFails(s)
    BY <1>7 DEF TickFails
  <1> QED
    BY <1>1, <1>2, <1>3, <1>4, <1>5, <1>6, <1>7
       DEF SchedulerProgress, SchedulerFailure, Reclaim

\* So the rows in hand stay parked.
LEMMA ParkedStep ==
    ASSUME OneScheduler, TypeOK, Parked, [Next]_vars
    PROVE  Parked'
  <1>1. ASSUME NEW s \in Schedulers, SchedulerProgress(s) \/ SchedulerFailure(s)
        PROVE  Parked'
    BY <1>1, ParkedByScheduler
  <1>2. CASE \/ \E w \in Workers : WorkerProgress(w) \/ WorkerFailure(w) \/ HeartbeatTask(w)
             \/ \E k \in Jobs : ApiCall(k) \/ PassageOfTime(k)
             \/ Outage
    <2>1. UNCHANGED schedulerVars
      BY <1>2, SchedulerVarsStay
    <2>2. \A s \in Schedulers : InHand(s)' = InHand(s)
      BY <2>1 DEF schedulerVars, InHand
    <2>3. \A s \in Schedulers : \A r \in InHand(s) : r.id \in Jobs
      BY DEF TypeOK, SchedulerTypeOK, InHand, ReclaimedRow
    <2>4. \A s \in Schedulers : \A r \in InHand(s) :
              jobs'[r.id].status \in {"pending", "dead_lettered"}
      BY <1>2, <2>3, ParkedStays DEF Parked
    <2> QED
      BY <2>1, <2>2, <2>4 DEF schedulerVars, Parked
  <1>3. CASE UNCHANGED vars
    BY <1>3 DEF vars, storeVars, schedulerVars, Parked, InHand
  <1> QED
    BY <1>1, <1>2, <1>3 DEF Next

\* Workers, clients and time neither revive a job at the cap nor make one.
LEMMA CapOutsideScheduler ==
    ASSUME TypeOK, AttemptCap, CapHeld,
           \/ \E w \in Workers : WorkerProgress(w) \/ WorkerFailure(w) \/ HeartbeatTask(w)
           \/ \E k \in Jobs : ApiCall(k) \/ PassageOfTime(k)
           \/ Outage
    PROVE  AttemptCap' /\ CapHeld'
  <1>1. \A s \in Schedulers : InHand(s)' = InHand(s)
    BY SchedulerVarsStay DEF schedulerVars, InHand
  <1>2. ASSUME NEW j \in Jobs
        PROVE  \/ /\ jobs'[j].status = jobs[j].status
                  /\ jobs'[j].attempt_count = jobs[j].attempt_count
               \/ jobs'[j].status \in {"sent", "dead_lettered"}
               \/ /\ jobs'[j].attempt_count < MaxAttempts
    <2>1. jobs[j] \in Row
      BY DEF TypeOK, StoreTypeOK
    <2>2. ASSUME NEW w \in Workers, ByWorker(w, j)
          PROVE  \/ /\ jobs'[j].status = jobs[j].status
                    /\ jobs'[j].attempt_count = jobs[j].attempt_count
                 \/ jobs'[j].status \in {"sent", "dead_lettered"}
                 \/ jobs'[j].attempt_count < MaxAttempts
      <3>1. Attempt(w) \in Nat
        BY DEF TypeOK, WorkerTypeOK, View, Attempt
      <3>2. CASE Outcome(w, j)
        <4>1. CASE jobs'[j] = MARK_SENT(jobs[j]) \/ jobs'[j] = MARK_DEAD_LETTERED(jobs[j], Attempt(w))
          BY <2>1, <3>1, <4>1, WorkerFields
        <4>2. CASE jobs'[j] = SCHEDULE_RETRY(jobs[j], Attempt(w)) /\ ~Exhausted(Attempt(w))
          BY <2>1, <3>1, <4>2, WorkerFields, StoreAssumption DEF Exhausted
        <4>3. CASE /\ jobs[j].status = "claimed"
                   /\ jobs'[j] = DEFER_TO_NEXT_WINDOW(jobs[j])
          BY <2>1, <3>1, <4>3, WorkerFields DEF AttemptCap
        <4> QED
          BY <3>2, <4>1, <4>2, <4>3 DEF Outcome, OwnedBy
      <3>3. CASE /\ Claimable(jobs[j])
                 /\ jobs'[j] = CLAIM_QUEUED_JOB(jobs[j], w)
        BY <2>1, <3>1, <3>3, WorkerFields DEF Claimable, AttemptCap
      <3>4. CASE jobs'[j] = UPDATE_HEARTBEAT(jobs[j])
        BY <2>1, <3>1, <3>4, WorkerFields
      <3> QED
        BY <2>2, <3>2, <3>3, <3>4 DEF ByWorker
    <2>3. ASSUME NEW w \in Workers, WorkerProgress(w) \/ WorkerFailure(w) \/ HeartbeatTask(w)
          PROVE  jobs'[j] = jobs[j] \/ ByWorker(w, j)
      BY <2>3, WorkerRowMoves
    <2>4. ASSUME NEW k \in Jobs, ApiCall(k)
          PROVE  jobs'[j] = jobs[j] \/ jobs'[j].attempt_count = 0
      <3>1. jobs \in [Jobs -> Row]
        BY DEF TypeOK, StoreTypeOK
      <3>2. CASE CreateJob(k)
        <4>1. PICK due \in BOOLEAN : Update(k, INSERT_JOB(due))
          BY <3>2 DEF CreateJob, resolved_due
        <4> QED
          BY <3>1, <4>1 DEF Update, INSERT_JOB, AbsentRow
      <3>3. CASE RetryDeadLettered(k)
        <4>1. jobs[k] \in Row
          BY <3>1
        <4>2. RETRY_DEAD_LETTERED_JOB(jobs[k]).attempt_count = 0
          BY <4>1, SystemFields
        <4> QED
          BY <3>1, <3>3, <4>2 DEF RetryDeadLettered, Update
      <3> QED
        BY <2>4, <3>2, <3>3 DEF ApiCall
    <2>5. ASSUME Outage \/ \E k \in Jobs : PassageOfTime(k)
          PROVE  /\ jobs'[j].status = jobs[j].status
                 /\ jobs'[j].attempt_count = jobs[j].attempt_count
      <3>1. jobs \in [Jobs -> Row]
        BY DEF TypeOK, StoreTypeOK
      <3>2. CASE Outage
        BY <3>1, <3>2 DEF Row, Outage, RedisLosesData, OwnerStalls, HeartbeatFallsBehind
      <3>3. ASSUME NEW k \in Jobs, PassageOfTime(k)
            PROVE  /\ jobs'[j].status = jobs[j].status
                   /\ jobs'[j].attempt_count = jobs[j].attempt_count
        BY <3>1, <3>3
           DEF Row, PassageOfTime, BecomesDue, QueuedTooLong, ClaimAbandoned,
               HeartbeatFallsBehind, LockExpires
      <3> QED
        BY <2>5, <3>2, <3>3
    <2> QED
      BY <2>2, <2>3, <2>4, <2>5, StoreAssumption
  <1>3. \A j \in Jobs : jobs[j].attempt_count \in Nat /\ jobs'[j].attempt_count \in Nat
    <2>1. StoreTypeOK'
      <3>1. Next
        BY DEF Next
      <3> QED
        BY <3>1, TypeStep DEF TypeOK
    <2> QED
      BY <2>1 DEF TypeOK, StoreTypeOK, Row
  <1>4. AttemptCap'
    BY <1>2, <1>3, StoreAssumption DEF AttemptCap
  <1>5. CapHeld'
    BY <1>1, <1>2, <1>3, StoreAssumption DEF CapHeld
  <1> QED
    BY <1>4, <1>5

\* A pass buries every row at the cap before it promotes again.
LEMMA CapInScheduler ==
    ASSUME OneScheduler, TypeOK, Unowned, Parked, AttemptCap, CapHeld,
           NEW s \in Schedulers, SchedulerProgress(s)
    PROVE  AttemptCap' /\ CapHeld'
  <1>. DEFINE AtTheCap(j) == jobs[j].status = "pending" /\ jobs[j].attempt_count >= MaxAttempts
  <1>. USE DEF TypeOK, StoreTypeOK, SchedulerTypeOK
  <1>1. \A j \in Jobs : AtTheCap(j) => \E r \in InHand(s) : r.id = j /\ AtCap(r)
    BY DEF OneScheduler, CapHeld
  <1>2. \A j \in Jobs : jobs[j] \in Row /\ jobs[j].attempt_count \in Nat
    BY DEF Row
  <1>3. ASSUME jobs' = jobs,
               \A r \in InHand(s) : AtCap(r) => r \in InHand(s)'
        PROVE  AttemptCap' /\ CapHeld'
    BY <1>1, <1>3 DEF AttemptCap, CapHeld
  <1>4. CASE PromoteDueJobs(s)
    <2>1. PICK B \in Limited({k \in Jobs : Promotable(jobs[k])}) :
            jobs' = [k \in Jobs |-> IF k \in B THEN PROMOTE_DUE_JOBS(jobs[k]) ELSE jobs[k]]
      BY <1>4 DEF PromoteDueJobs
    <2>2. \A j \in B : Promotable(jobs[j])
      BY DEF Limited
    <2>3. InHand(s) = {}
      BY <1>4 DEF PromoteDueJobs, Parked, InHand
    <2>4. \A j \in Jobs : ~AtTheCap(j)
      BY <1>1, <2>3
    <2>5. \A j \in Jobs :
            \/ jobs'[j] = jobs[j]
            \/ /\ jobs[j].status = "pending" /\ jobs'[j].status = "queued"
               /\ jobs'[j].attempt_count = jobs[j].attempt_count
      BY <1>2, <2>1, <2>2 DEF Promotable, PROMOTE_DUE_JOBS, Row
    <2> QED
      BY <1>2, <2>4, <2>5, StoreAssumption DEF AttemptCap, CapHeld
  <1>5. CASE EnqueuePromoted(s) \/ SelectStaleQueued(s) \/ EnqueueStale(s)
    <2>1. jobs' = jobs /\ InHand(s) = {}
      BY <1>5
         DEF EnqueuePromoted, SelectStaleQueued, EnqueueStale, AddToQueues, storeVars, Parked,
             InHand
    <2> QED
      BY <1>3, <2>1
  <1>6. CASE RecoverStaleClaimed(s)
    <2>. DEFINE rows == {[id |-> j, attempt_count |-> jobs[j].attempt_count + 1] : j \in StaleClaims}
    <2>1. InHand(s) = {}
      BY <1>6 DEF RecoverStaleClaimed, Parked, InHand
    <2>2. rows \subseteq InHand(s)'
      BY <1>6 DEF RecoverStaleClaimed, InHand
    <2>3. \A j \in StaleClaims :
              \E r \in rows : r.id = j /\ r.attempt_count = jobs[j].attempt_count + 1
      <3>. SUFFICES ASSUME NEW j \in StaleClaims
                    PROVE  \E r \in rows :
                              r.id = j /\ r.attempt_count = jobs[j].attempt_count + 1
        OBVIOUS
      <3>. WITNESS [id |-> j, attempt_count |-> jobs[j].attempt_count + 1] \in rows
      <3> QED
        OBVIOUS
    <2>. HIDE DEF rows
    <2>4. \A j \in Jobs : IF j \in StaleClaims
                              THEN /\ jobs'[j].status = "pending"
                                   /\ jobs'[j].attempt_count = jobs[j].attempt_count + 1
                              ELSE jobs'[j] = jobs[j]
      <3>1. \A j \in Jobs : jobs'[j] = IF j \in StaleClaims THEN RECOVER_STALE_CLAIMED(jobs[j])
                                                            ELSE jobs[j]
        BY <1>6 DEF RecoverStaleClaimed
      <3>2. \A r \in Row : /\ RECOVER_STALE_CLAIMED(r).status = "pending"
                            /\ RECOVER_STALE_CLAIMED(r).attempt_count = r.attempt_count + 1
        <4>1. 0 \in Nat
          OBVIOUS
        <4> QED
          BY <4>1, SystemFields
      <3> QED
        BY <1>2, <3>1, <3>2
    <2>5. \A j \in Jobs : ~AtTheCap(j)
      BY <1>1, <2>1
    <2>6. AttemptCap'
      BY <2>4 DEF AttemptCap
    <2>7. CapHeld'
      BY <2>2, <2>3, <2>4, <2>5 DEF CapHeld, AtCap
    <2> QED
      BY <2>6, <2>7
  <1>7. CASE UnlockReclaimed(s)
    <2>1. PICK row \in reclaimed[s] :
            /\ reclaimed'[s] = reclaimed[s] \ {row}
            /\ spc'[s] = IF AtCap(row) THEN "bury" ELSE NextRow(reclaimed[s] \ {row})
            /\ AtCap(row) => cur'[s] = row
      BY <1>7 DEF UnlockReclaimed
    <2>2. jobs' = jobs /\ InHand(s) = reclaimed[s]
      BY <1>7 DEF UnlockReclaimed, InHand
    <2>3. \A r \in InHand(s) : AtCap(r) => r \in InHand(s)'
      BY <2>1, <2>2 DEF InHand
    <2> QED
      BY <1>3, <2>2, <2>3
  <1>8. CASE BuryReclaimed(s)
    <2>1. cur[s] \in ReclaimedRow /\ cur[s].id \in Jobs /\ cur[s].attempt_count \in Nat
      BY <1>8 DEF BuryReclaimed, ReclaimedRow
    <2>2. /\ InHand(s) = reclaimed[s] \cup {cur[s]} /\ InHand(s)' = reclaimed[s]
          /\ jobs' = [jobs EXCEPT ![cur[s].id] =
                         MARK_DEAD_LETTERED(jobs[cur[s].id], cur[s].attempt_count)]
      BY <1>8 DEF BuryReclaimed, DeadLetterTransaction, Update, InHand
    <2>3. MARK_DEAD_LETTERED(jobs[cur[s].id], cur[s].attempt_count).status = "dead_lettered"
      BY <1>2, <2>1, SystemFields
    <2>4. \A j \in Jobs : IF j = cur[s].id THEN jobs'[j].status = "dead_lettered"
                                           ELSE jobs'[j] = jobs[j]
      BY <2>1, <2>2, <2>3
    <2>5. AttemptCap'
      BY <2>4 DEF AttemptCap
    <2>6. CapHeld'
      BY <1>1, <2>2, <2>4 DEF CapHeld
    <2> QED
      BY <2>5, <2>6
  <1>9. CASE BuryRefused(s)
    <2>1. cur[s] \in ReclaimedRow /\ cur[s].id \in Jobs /\ cur[s] \in InHand(s)
      BY <1>9 DEF BuryRefused, ReclaimedRow, InHand
    <2>2. jobs[cur[s].id].worker_id = NULL
      BY <2>1 DEF Parked, Unowned
    <2> QED
      BY <1>9, <2>2 DEF BuryRefused, HeldUnder
  <1>10. CASE UnlockBuried(s)
    <2>1. jobs' = jobs /\ InHand(s)' = InHand(s)
      BY <1>10 DEF UnlockBuried, NextRow, InHand
    <2> QED
      BY <1>3, <2>1
  <1> QED
    BY <1>4, <1>5, <1>6, <1>7, <1>8, <1>9, <1>10 DEF SchedulerProgress, Reclaim

\* Without a budget for them, no tick fails.
LEMMA NoTickFails ==
    ASSUME TypeOK, Budget["tick"] = 0, NEW s \in Schedulers
    PROVE  ~SchedulerFailure(s)
  BY DEF TypeOK, SchedulerFailure, Spend, Kinds

\* So the cap holds from step to step.
LEMMA CapStep ==
    ASSUME OneScheduler, Budget["tick"] = 0, TypeOK, Unowned, CapInv, [Next]_vars
    PROVE  CapInv'
  <1>1. Parked'
    BY ParkedStep DEF CapInv
  <1>2. CASE UNCHANGED vars
    BY <1>1, <1>2 DEF vars, storeVars, schedulerVars, AttemptCap, CapHeld, InHand, CapInv
  <1>3. CASE Next
    BY <1>1, <1>3, CapOutsideScheduler, CapInScheduler, NoTickFails DEF Next, CapInv
  <1> QED
    BY <1>2, <1>3

\* As long as no tick is abandoned half-way, one scheduler dead-letters every
\* job that used up its attempts before it promotes anything again, wherever
\* workers stall (recover_stale_claimed_jobs, DESIGN 7.6).
THEOREM CapRespected ==
    ASSUME OneScheduler, Budget["tick"] = 0
    PROVE  Spec => []AttemptCap
  <1>1. Init => CapInv
    BY DEF Init, StoreInit, SchedulerInit, AbsentRow, AttemptCap, CapHeld, Parked, InHand, CapInv
  <1>2. OwnerMatchesStatus => Unowned
    BY DEF OwnerMatchesStatus, Unowned
  <1>3. TypeOK /\ Unowned /\ CapInv /\ [Next]_vars => CapInv'
    BY CapStep
  <1>4. CapInv => AttemptCap
    BY DEF CapInv
  <1> QED
    BY <1>1, <1>2, <1>3, <1>4, TypeCorrect, OwnerMatches, PTL DEF Spec

-----------------------------------------------------------------------------
(* The attempts a worker counts on.                                        *)

\* What FETCH_JOB returned is still in the row, as long as it is the worker's.
ViewIsCurrent ==
    \A w \in Workers :
        (pc[w] \in {"deliver"} \cup OutcomePcs /\ jobs[held[w]].worker_id = w)
            => jobs[held[w]].attempt_count = view[w].attempt_count

\* A worker between its claim and its outcome does not become the owner of the
\* row in its hands another time.
LEMMA NotClaimedTwice ==
    ASSUME RecoveryPremises, [Next]_vars, NEW w \in Workers, NEW j \in Jobs,
           pc[w] \in Inside, held[w] = j, jobs[j].worker_id # w
    PROVE  jobs'[j].worker_id # w
  <1>1. jobs[j] \in Row /\ w # NULL
    BY StoreAssumption DEF RecoveryPremises, TypeOK, StoreTypeOK
  <1>2. CASE BySystem(j)
    BY <1>1, <1>2
       DEF BySystem, Row, INSERT_JOB, AbsentRow, PROMOTE_DUE_JOBS, RECOVER_STALE_CLAIMED,
           MARK_DEAD_LETTERED, RETRY_DEAD_LETTERED_JOB, Disowned
  <1>3. ASSUME NEW v \in Workers, ByWorker(v, j)
        PROVE  jobs'[j].worker_id # w
    <2>1. CASE Outcome(v, j)
      BY <1>1, <2>1
         DEF Outcome, Row, MARK_SENT, SCHEDULE_RETRY, DEFER_TO_NEXT_WINDOW, MARK_DEAD_LETTERED,
             Disowned
    <2>2. CASE pc[v] = "claim" /\ jobs'[j] = CLAIM_QUEUED_JOB(jobs[j], v)
      BY <1>1, <2>2 DEF CLAIM_QUEUED_JOB, Row, Inside, OutcomePcs
    <2>3. CASE jobs'[j] = UPDATE_HEARTBEAT(jobs[j])
      BY <1>1, <2>3 DEF UPDATE_HEARTBEAT, Row
    <2> QED
      BY <1>3, <2>1, <2>2, <2>3 DEF ByWorker
  <1> QED
    BY <1>2, <1>3, RowMoves DEF RecoveryPremises

\* Only the owner's outcome changes the attempts of a claimed row.
LEMMA ViewIsCurrentStep ==
    ASSUME RecoveryPremises, ViewIsCurrent, [Next]_vars
    PROVE  ViewIsCurrent'
  <1>. SUFFICES ASSUME NEW w \in Workers, pc'[w] \in {"deliver"} \cup OutcomePcs,
                       jobs'[held'[w]].worker_id = w
                PROVE  jobs'[held'[w]].attempt_count = view'[w].attempt_count
    BY DEF ViewIsCurrent
  <1>1. pc'[w] \in Inside
    BY DEF Inside
  <1>2. CASE pc'[w] = pc[w] /\ held'[w] = held[w] /\ view'[w] = view[w]
    <2>. DEFINE j == held[w]
    <2>1. j \in Jobs /\ jobs[j] \in Row /\ w # NULL
      BY <1>1, <1>2, StoreAssumption
         DEF RecoveryPremises, TypeOK, StoreTypeOK, WorkerTypeOK, Inside, OutcomePcs
    <2>2. jobs[j].worker_id = w
      BY <1>1, <1>2, <2>1, NotClaimedTwice
    <2>3. \/ jobs'[j] = jobs[j]
          \/ jobs'[j] = UPDATE_HEARTBEAT(jobs[j])
          \/ jobs'[j] = RECOVER_STALE_CLAIMED(jobs[j])
          \/ jobs'[j] = [jobs[j] EXCEPT !.fresh = FALSE]
      BY <1>1, <1>2, <2>1, <2>2, OnlyTheOwner DEF RecoveryPremises
    <2>4. jobs'[j].attempt_count = jobs[j].attempt_count
      BY <1>2, <2>1, <2>3 DEF UPDATE_HEARTBEAT, RECOVER_STALE_CLAIMED, Disowned, Row
    <2> QED
      BY <1>2, <2>2, <2>4 DEF ViewIsCurrent
  <1>3. CASE /\ pc[w] = "fetch" /\ held'[w] = held[w] /\ jobs' = jobs
             /\ view'[w].attempt_count = jobs[held[w]].attempt_count
    BY <1>3
  <1>4. CASE /\ pc[w] = "deliver" /\ jobs' = jobs /\ held'[w] = held[w] /\ view'[w] = view[w]
    BY <1>4 DEF ViewIsCurrent
  <1> QED
    BY <1>1, <1>2, <1>3, <1>4, WorkerMoves DEF RecoveryPremises, OutcomePcs

\* From step to step.
LEMMA ViewIsCurrentAlways ==
    ASSUME "fetch" \notin StallPoints
    PROVE  Spec => []ViewIsCurrent
  <1>1. Init => ViewIsCurrent
    BY DEF Init, WorkerInit, ViewIsCurrent, OutcomePcs
  <1>2. TypeOK /\ OwnerMatchesStatus /\ FencesWithOwnId /\ ViewIsCurrent /\ [Next]_vars
          => ViewIsCurrent'
    BY ViewIsCurrentStep DEF RecoveryPremises
  <1> QED
    BY <1>1, <1>2, TypeCorrect, OwnerMatches, OwnIdFence, PTL DEF Spec

-----------------------------------------------------------------------------
(* A step of the pipeline as the status endpoint shows it.                 *)

Letters == dead_letter_queue

\* Nothing to see.
Invisible == StatusView' = StatusView /\ Letters' = Letters

\* Lifecycle's promotion, whatever the attempts of the jobs.
Promotion(B) ==
    /\ \A j \in B : StatusView[j].status = "pending"
    /\ StatusView' = [j \in Jobs |-> IF j \in B
                                       THEN Rows!Answer("queued", StatusView[j].attempt_count)
                                       ELSE StatusView[j]]
    /\ UNCHANGED Letters

Shown ==
    \/ Invisible
    \/ \E j \in Jobs : Rows!JobStep(j)
    \/ \E B \in SUBSET Jobs : Promotion(B) \/ Rows!Reclaim(B)

\* Rows that keep both columns show nothing.
LEMMA SameRows ==
    ASSUME \A j \in Jobs : /\ jobs'[j].status = jobs[j].status
                           /\ jobs'[j].attempt_count = jobs[j].attempt_count
    PROVE  StatusView' = StatusView
  BY DEF StatusView

\* A statement on one row shows in one answer.
LEMMA OneRow ==
    ASSUME jobs \in [Jobs -> Row], NEW j \in Jobs, NEW row \in Row, Update(j, row)
    PROVE  StatusView' = [StatusView EXCEPT ![j] = Rows!Answer(row.status, row.attempt_count)]
  BY DEF StatusView, Update, Rows!Answer

\* The rows a worker writes are rows.
LEMMA WorkerRows ==
    ASSUME NEW r \in Row, NEW w \in Workers, NEW n \in Nat
    PROVE  /\ CLAIM_QUEUED_JOB(r, w) \in Row
           /\ MARK_SENT(r) \in Row
           /\ SCHEDULE_RETRY(r, n) \in Row
           /\ DEFER_TO_NEXT_WINDOW(r) \in Row
           /\ MARK_DEAD_LETTERED(r, n) \in Row
  <1>. DEFINE rows == /\ CLAIM_QUEUED_JOB(r, w) \in Row
                      /\ MARK_SENT(r) \in Row
                      /\ SCHEDULE_RETRY(r, n) \in Row
                      /\ DEFER_TO_NEXT_WINDOW(r) \in Row
                      /\ MARK_DEAD_LETTERED(r, n) \in Row
  <1>1. \A due \in BOOLEAN : rows
    BY RowTypes
  <1>. HIDE DEF rows
  <1>2. rows
    BY <1>1, TRUE \in BOOLEAN
  <1> QED
    BY <1>2 DEF rows

\* What an outcome shows: sent, another attempt, a deferral or a burial.
LEMMA OutcomeShown ==
    ASSUME RecoveryPremises, ViewIsCurrent, NEW w \in Workers,
           HandleSuccess(w) \/ ScheduleRetry(w) \/ DeferJob(w) \/ DeadLetter(w)
    PROVE  \E j \in Jobs : Rows!JobStep(j)
  <1>. DEFINE j == held[w]
  <1>1. j \in Jobs /\ jobs \in [Jobs -> Row] /\ jobs[j] \in Row /\ Attempt(w) \in Nat
    BY DEF RecoveryPremises, TypeOK, StoreTypeOK, WorkerTypeOK, HandleSuccess, ScheduleRetry,
           DeferJob, DeadLetter, View, Attempt
  <1>2. pc[w] \in OutcomePcs /\ view[w].worker_id = w /\ w # NULL
    BY StoreAssumption
       DEF HandleSuccess, ScheduleRetry, DeferJob, DeadLetter, OutcomePcs, RecoveryPremises,
           FencesWithOwnId
  <1>3. jobs[j].worker_id = w
    BY <1>2 DEF HandleSuccess, ScheduleRetry, DeferJob, DeadLetter, Fenced, OwnedBy, HeldUnder
  <1>4. jobs[j].status = "claimed" /\ Attempt(w) = jobs[j].attempt_count + 1
    BY <1>2, <1>3 DEF RecoveryPremises, FencesWithOwnId, ViewIsCurrent, Attempt
  <1>5. /\ StatusView[j].status = "claimed"
        /\ StatusView[j].attempt_count = jobs[j].attempt_count
    BY <1>1, <1>4 DEF StatusView
  <1>. USE DEF RecoveryPremises, TypeOK, StoreTypeOK
  <1>6. CASE HandleSuccess(w)
    <2>1. /\ MARK_SENT(jobs[j]) \in Row
          /\ MARK_SENT(jobs[j]).status = "sent"
          /\ MARK_SENT(jobs[j]).attempt_count = jobs[j].attempt_count
      BY <1>1, WorkerRows, WorkerFields
    <2>2. Rows!Send(j)
      BY <1>1, <1>5, <1>6, <2>1, OneRow DEF HandleSuccess, Rows!Send, Rows!Move
    <2> QED
      BY <1>1, <2>2 DEF Rows!JobStep
  <1>7. CASE ScheduleRetry(w)
    <2>1. /\ SCHEDULE_RETRY(jobs[j], Attempt(w)) \in Row
          /\ SCHEDULE_RETRY(jobs[j], Attempt(w)).status = "pending"
          /\ SCHEDULE_RETRY(jobs[j], Attempt(w)).attempt_count = Attempt(w)
      BY <1>1, WorkerRows, WorkerFields
    <2>2. jobs[j].attempt_count + 1 < MaxAttempts
      BY <1>1, <1>4, <1>7, StoreAssumption DEF ScheduleRetry, Exhausted
    <2>3. Rows!Retry(j)
      BY <1>1, <1>4, <1>5, <1>7, <2>1, <2>2, OneRow DEF ScheduleRetry, Rows!Retry, Rows!Move
    <2> QED
      BY <1>1, <2>3 DEF Rows!JobStep
  <1>8. CASE DeferJob(w)
    <2>1. /\ DEFER_TO_NEXT_WINDOW(jobs[j]) \in Row
          /\ DEFER_TO_NEXT_WINDOW(jobs[j]).status = "pending"
          /\ DEFER_TO_NEXT_WINDOW(jobs[j]).attempt_count = jobs[j].attempt_count
      BY <1>1, WorkerRows, WorkerFields
    <2>2. Rows!Defer(j)
      BY <1>1, <1>5, <1>8, <2>1, OneRow DEF DeferJob, Rows!Defer, Rows!Move
    <2> QED
      BY <1>1, <2>2 DEF Rows!JobStep
  <1>9. CASE DeadLetter(w)
    <2>1. /\ MARK_DEAD_LETTERED(jobs[j], Attempt(w)) \in Row
          /\ MARK_DEAD_LETTERED(jobs[j], Attempt(w)).status = "dead_lettered"
          /\ MARK_DEAD_LETTERED(jobs[j], Attempt(w)).attempt_count = Attempt(w)
      BY <1>1, WorkerRows, WorkerFields
    <2>2. Rows!Bury(j, StatusView[j].attempt_count + 1)
      BY <1>1, <1>4, <1>5, <1>9, <2>1, OneRow
         DEF DeadLetter, DeadLetterTransaction, Exhausted, Rows!Bury
    <2> QED
      BY <1>1, <2>2 DEF Rows!JobStep
  <1> QED
    BY <1>6, <1>7, <1>8, <1>9

\* What the workers show.
LEMMA WorkerShown ==
    ASSUME RecoveryPremises, ViewIsCurrent, NEW w \in Workers,
           WorkerProgress(w) \/ WorkerFailure(w) \/ HeartbeatTask(w)
    PROVE  Shown
  <1>1. CASE HandleSuccess(w) \/ ScheduleRetry(w) \/ DeferJob(w) \/ DeadLetter(w)
    BY <1>1, OutcomeShown DEF Shown
  <1>2. CASE Claim(w)
    <2>1. held[w] \in Jobs /\ jobs \in [Jobs -> Row] /\ jobs[held[w]] \in Row /\ 0 \in Nat
      BY <1>2 DEF RecoveryPremises, TypeOK, StoreTypeOK, WorkerTypeOK, Claim
    <2>2. /\ CLAIM_QUEUED_JOB(jobs[held[w]], w) \in Row
          /\ CLAIM_QUEUED_JOB(jobs[held[w]], w).status = "claimed"
          /\ CLAIM_QUEUED_JOB(jobs[held[w]], w).attempt_count = jobs[held[w]].attempt_count
      BY <2>1, WorkerRows, WorkerFields
    <2>3. /\ StatusView[held[w]].status = "queued"
          /\ StatusView[held[w]].attempt_count = jobs[held[w]].attempt_count
      BY <1>2, <2>1 DEF Claim, Claimable, StatusView
    <2>4. Rows!Claim(held[w])
      BY <1>2, <2>1, <2>2, <2>3, OneRow DEF Claim, Rows!Claim, Rows!Move
    <2> QED
      BY <2>1, <2>4 DEF Shown, Rows!JobStep
  <1>3. CASE Heartbeat(w)
    <2>1. held[w] \in Jobs /\ jobs \in [Jobs -> Row] /\ jobs[held[w]] \in Row /\ 0 \in Nat
      BY <1>3 DEF RecoveryPremises, TypeOK, StoreTypeOK, WorkerTypeOK, Heartbeat, ProcessingPcs
    <2>2. \A j \in Jobs : jobs'[j] = jobs[j] \/ jobs'[j] = UPDATE_HEARTBEAT(jobs[j])
      BY <1>3, <2>1 DEF Heartbeat, Update
    <2>3. \A j \in Jobs : /\ jobs'[j].status = jobs[j].status
                          /\ jobs'[j].attempt_count = jobs[j].attempt_count
      BY <2>1, <2>2, WorkerFields
    <2> QED
      BY <1>3, <2>3, SameRows DEF Heartbeat, Shown, Invisible, Letters
  <1>4. CASE jobs' = jobs /\ Letters' = Letters
    BY <1>4, SameRows DEF Shown, Invisible
  <1>5. \/ HandleSuccess(w) \/ ScheduleRetry(w) \/ DeferJob(w) \/ DeadLetter(w)
        \/ Claim(w) \/ Heartbeat(w)
        \/ jobs' = jobs /\ Letters' = Letters
    BY DEF WorkerProgress, WorkerFailure, HeartbeatTask, DeliverOnce, ClaimStep, OutcomeStep,
           PollEmpty, PopMin, AcquireLock, LockRefused, ClaimRefused, UnlockRefused, FetchJob,
           RateLimited, Deliver, DeliveryFails, OutcomeLost, ReleaseLock, ReleaseDeferred,
           FireWebhook, IterationFails, Crash, storeVars, Letters
  <1> QED
    BY <1>1, <1>2, <1>3, <1>4, <1>5

\* What a scheduler shows.
LEMMA SchedulerShown ==
    ASSUME RecoveryPremises, Untouched, NEW s \in Schedulers,
           SchedulerProgress(s) \/ SchedulerFailure(s)
    PROVE  Shown
  <1>. USE DEF RecoveryPremises, TypeOK, StoreTypeOK, SchedulerTypeOK
  <1>0. 0 \in Nat
    OBVIOUS
  <1>1. CASE PromoteDueJobs(s)
    <2>1. PICK B \in Limited({k \in Jobs : Promotable(jobs[k])}) :
            jobs' = [k \in Jobs |-> IF k \in B THEN PROMOTE_DUE_JOBS(jobs[k]) ELSE jobs[k]]
      BY <1>1 DEF PromoteDueJobs
    <2>2. B \in SUBSET Jobs /\ \A j \in B : jobs[j].status = "pending"
      BY DEF Limited, Promotable
    <2>3. \A j \in Jobs : /\ PROMOTE_DUE_JOBS(jobs[j]).status = "queued"
                          /\ PROMOTE_DUE_JOBS(jobs[j]).attempt_count = jobs[j].attempt_count
      BY <1>0, SystemFields
    <2>4. Promotion(B)
      BY <1>1, <2>1, <2>2, <2>3
         DEF PromoteDueJobs, Promotion, StatusView, Rows!Answer, Letters
    <2> QED
      BY <2>2, <2>4 DEF Shown
  <1>2. CASE RecoverStaleClaimed(s)
    <2>1. StaleClaims \in SUBSET Jobs /\ \A j \in StaleClaims : jobs[j].status = "claimed"
      BY DEF StaleClaims, StaleClaim
    <2>2. \A j \in Jobs : /\ RECOVER_STALE_CLAIMED(jobs[j]).status = "pending"
                          /\ RECOVER_STALE_CLAIMED(jobs[j]).attempt_count = jobs[j].attempt_count + 1
      BY <1>0, SystemFields
    <2>3. jobs' = [j \in Jobs |-> IF j \in StaleClaims THEN RECOVER_STALE_CLAIMED(jobs[j])
                                                        ELSE jobs[j]]
      BY <1>2 DEF RecoverStaleClaimed
    <2>4. Rows!Reclaim(StaleClaims)
      BY <1>2, <2>1, <2>2, <2>3
         DEF RecoverStaleClaimed, Rows!Reclaim, StatusView, Rows!Answer
    <2> QED
      BY <2>1, <2>4 DEF Shown
  <1>3. CASE BuryReclaimed(s)
    <2>. DEFINE j == cur[s].id
    <2>1. /\ cur[s] \in InHand(s)
          /\ j \in Jobs /\ cur[s].attempt_count \in Nat /\ jobs[j] \in Row
      BY <1>3 DEF BuryReclaimed, InHand, ReclaimedRow
    <2>2. jobs[j].status = "pending" /\ jobs[j].attempt_count = cur[s].attempt_count
      BY <2>1 DEF Untouched
    <2>3. /\ MARK_DEAD_LETTERED(jobs[j], cur[s].attempt_count) \in Row
          /\ MARK_DEAD_LETTERED(jobs[j], cur[s].attempt_count).status = "dead_lettered"
          /\ MARK_DEAD_LETTERED(jobs[j], cur[s].attempt_count).attempt_count = cur[s].attempt_count
      BY <2>1, SystemFields DEF MARK_DEAD_LETTERED, Disowned, Row, JobStatus, WorkerId
    <2>4. StatusView[j].status = "pending" /\ StatusView[j].attempt_count = cur[s].attempt_count
      BY <2>1, <2>2 DEF StatusView
    <2>5. cur[s].attempt_count >= MaxAttempts
      BY <1>3 DEF BuryReclaimed, Untouched, AtCap
    <2>6. Rows!Bury(j, StatusView[j].attempt_count + 0)
      BY <1>3, <2>1, <2>3, <2>4, <2>5, OneRow
         DEF BuryReclaimed, DeadLetterTransaction, Rows!Bury
    <2> QED
      BY <2>1, <2>6 DEF Shown, Rows!JobStep
  <1>4. CASE jobs' = jobs /\ Letters' = Letters
    BY <1>4, SameRows DEF Shown, Invisible
  <1> QED
    BY <1>1, <1>2, <1>3, <1>4
       DEF SchedulerProgress, SchedulerFailure, Reclaim, EnqueuePromoted, AddToQueues,
           UnlockReclaimed, BuryRefused, UnlockBuried, SelectStaleQueued, EnqueueStale,
           TickFails, storeVars, Letters

\* What the API and the clock show.
LEMMA SystemShown ==
    ASSUME TypeOK,
           Outage \/ \E j \in Jobs : ApiCall(j) \/ PassageOfTime(j)
    PROVE  Shown
  <1>. USE DEF TypeOK, StoreTypeOK
  <1>1. ASSUME NEW j \in Jobs, CreateJob(j)
        PROVE  Rows!JobStep(j)
    <2>1. PICK due \in BOOLEAN : Update(j, INSERT_JOB(due))
      BY <1>1 DEF CreateJob, resolved_due
    <2>2. /\ INSERT_JOB(due) \in Row
          /\ INSERT_JOB(due).status = "pending" /\ INSERT_JOB(due).attempt_count = 0
      BY DEF INSERT_JOB, AbsentRow, Row, JobStatus, WorkerId
    <2>3. StatusView[j].status = "absent"
      BY <1>1 DEF CreateJob, StatusView
    <2> QED
      BY <1>1, <2>1, <2>2, <2>3, OneRow DEF CreateJob, Rows!JobStep, Rows!Accept, Rows!Move
  <1>2. ASSUME NEW j \in Jobs, RetryDeadLettered(j)
        PROVE  Rows!JobStep(j)
    <2>1. jobs[j] \in Row /\ 0 \in Nat
      OBVIOUS
    <2>2. /\ RETRY_DEAD_LETTERED_JOB(jobs[j]) \in Row
          /\ RETRY_DEAD_LETTERED_JOB(jobs[j]).status = "pending"
          /\ RETRY_DEAD_LETTERED_JOB(jobs[j]).attempt_count = 0
      BY <2>1, SystemFields DEF RETRY_DEAD_LETTERED_JOB, Disowned, Row, JobStatus, WorkerId
    <2>3. StatusView[j].status = "dead_lettered"
      BY <1>2 DEF RetryDeadLettered, StatusView
    <2> QED
      BY <1>2, <2>2, <2>3, OneRow DEF RetryDeadLettered, Rows!JobStep, Rows!Replay, Rows!Move
  <1>3. ASSUME Outage \/ \E j \in Jobs : PassageOfTime(j)
        PROVE  Shown
    <2>1. /\ \A j \in Jobs : /\ jobs'[j].status = jobs[j].status
                             /\ jobs'[j].attempt_count = jobs[j].attempt_count
          /\ Letters' = Letters
      BY <1>3
         DEF Row, PassageOfTime, BecomesDue, QueuedTooLong, ClaimAbandoned, HeartbeatFallsBehind,
             LockExpires, Outage, RedisLosesData, OwnerStalls, Letters
    <2> QED
      BY <2>1, SameRows DEF Shown, Invisible
  <1> QED
    BY <1>1, <1>2, <1>3 DEF ApiCall, Shown

\* What a step of the pipeline shows.
LEMMA StepShown ==
    ASSUME RecoveryPremises, Untouched, ViewIsCurrent, [Next]_vars
    PROVE  Shown
  <1>1. CASE UNCHANGED vars
    BY <1>1 DEF vars, storeVars, Shown, Invisible, StatusView, Letters
  <1>2. CASE Next
    BY <1>2, WorkerShown, SchedulerShown, SystemShown DEF Next, RecoveryPremises
  <1> QED
    BY <1>1, <1>2

-----------------------------------------------------------------------------
(* The theorems.                                                           *)

\* What a client sees of one job in one step.
LEMMA AnswerMoves ==
    ASSUME TypeOK, Shown, NEW j \in Jobs
    PROVE  \/ StatusView'[j] = StatusView[j]
           \/ /\ StatusView[j].status \in {"absent", "dead_lettered"}
              /\ StatusView'[j].status = "pending"
              /\ StatusView'[j].attempt_count = 0
           \/ /\ StatusView[j].status \in {"pending", "queued", "claimed"}
              /\ StatusView'[j].status # "absent"
              /\ StatusView'[j].attempt_count >= StatusView[j].attempt_count
  <1>1. /\ StatusView[j].attempt_count \in Nat
        /\ DOMAIN StatusView = Jobs
        /\ StatusView = [k \in Jobs |-> StatusView[k]]
    BY DEF TypeOK, StoreTypeOK, Row, StatusView
  <1>. HIDE DEF StatusView
  <1>2. CASE Invisible
    BY <1>2 DEF Invisible
  <1>3. ASSUME NEW k \in Jobs, Rows!JobStep(k), k = j
        PROVE  \/ /\ StatusView[j].status \in {"absent", "dead_lettered"}
                  /\ StatusView'[j].status = "pending"
                  /\ StatusView'[j].attempt_count = 0
               \/ /\ StatusView[j].status \in {"pending", "queued", "claimed"}
                  /\ StatusView'[j].status # "absent"
                  /\ StatusView'[j].attempt_count >= StatusView[j].attempt_count
    <2>1. CASE Rows!Accept(j) \/ Rows!Replay(j)
      BY <1>1, <2>1 DEF Rows!Accept, Rows!Replay, Rows!Move, Rows!Answer
    <2>2. CASE Rows!Claim(j) \/ Rows!Send(j) \/ Rows!Retry(j) \/ Rows!Defer(j)
      BY <1>1, <2>2 DEF Rows!Claim, Rows!Send, Rows!Retry, Rows!Defer, Rows!Move, Rows!Answer
    <2>3. ASSUME NEW extra \in {0, 1}, Rows!Bury(j, StatusView[j].attempt_count + extra)
          PROVE  /\ StatusView[j].status \in {"pending", "claimed"}
                 /\ StatusView'[j].status = "dead_lettered"
                 /\ StatusView'[j].attempt_count >= StatusView[j].attempt_count
      BY <1>1, <2>3 DEF Rows!Bury, Rows!Answer
    <2> QED
      BY <1>3, <2>1, <2>2, <2>3 DEF Rows!JobStep
  <1>4. ASSUME NEW k \in Jobs, Rows!JobStep(k), k # j
        PROVE  StatusView'[j] = StatusView[j]
    BY <1>1, <1>4
       DEF Rows!JobStep, Rows!Accept, Rows!Replay, Rows!Claim, Rows!Send, Rows!Retry, Rows!Defer,
           Rows!Bury, Rows!Move
  <1>5. ASSUME NEW B \in SUBSET Jobs, Promotion(B)
        PROVE  \/ StatusView'[j] = StatusView[j]
               \/ /\ StatusView[j].status = "pending" /\ StatusView'[j].status = "queued"
                  /\ StatusView'[j].attempt_count = StatusView[j].attempt_count
    BY <1>1, <1>5 DEF Promotion, Rows!Answer
  <1>6. ASSUME NEW B \in SUBSET Jobs, Rows!Reclaim(B)
        PROVE  \/ StatusView'[j] = StatusView[j]
               \/ /\ StatusView[j].status = "claimed" /\ StatusView'[j].status = "pending"
                  /\ StatusView'[j].attempt_count = StatusView[j].attempt_count + 1
    BY <1>1, <1>6 DEF Rows!Reclaim, Rows!Answer
  <1> QED
    BY <1>1, <1>2, <1>3, <1>4, <1>5, <1>6 DEF Shown

\* A row that was not inserted has no attempts to forget.
AbsentIsNew == \A j \in Jobs : jobs[j].status = "absent" => jobs[j].attempt_count = 0

\* No step but a replay lowers attempt_count.
LEMMA ForgetsNothing ==
    ASSUME TypeOK, TypeOK', AbsentIsNew, Shown
    PROVE  /\ AbsentIsNew'
           /\ \A j \in Jobs :
                 jobs'[j].attempt_count < jobs[j].attempt_count
                     => jobs[j].status = "dead_lettered" /\ jobs'[j].status = "pending"
  <1>1. ASSUME NEW j \in Jobs
        PROVE  /\ StatusView[j].status = jobs[j].status
               /\ StatusView[j].attempt_count = jobs[j].attempt_count
               /\ StatusView'[j].status = jobs'[j].status
               /\ StatusView'[j].attempt_count = jobs'[j].attempt_count
               /\ jobs[j].attempt_count \in Nat
    BY DEF StatusView, TypeOK, StoreTypeOK, Row
  <1>2. ASSUME NEW j \in Jobs
        PROVE  \/ /\ jobs'[j].status = jobs[j].status
                  /\ jobs'[j].attempt_count = jobs[j].attempt_count
               \/ /\ jobs[j].status \in {"absent", "dead_lettered"}
                  /\ jobs'[j].status = "pending"
                  /\ jobs'[j].attempt_count = 0
               \/ /\ jobs'[j].status # "absent"
                  /\ jobs'[j].attempt_count >= jobs[j].attempt_count
    BY <1>1, AnswerMoves
  <1>3. ASSUME NEW j \in Jobs
        PROVE  jobs'[j].attempt_count \in Nat
    BY DEF TypeOK, StoreTypeOK, Row
  <1>4. AbsentIsNew'
    BY <1>2 DEF AbsentIsNew
  <1>5. ASSUME NEW j \in Jobs, jobs'[j].attempt_count < jobs[j].attempt_count
        PROVE  jobs[j].status = "dead_lettered" /\ jobs'[j].status = "pending"
    BY <1>1, <1>2, <1>3, <1>5 DEF AbsentIsNew
  <1> QED
    BY <1>4, <1>5

\* The premises of StepShown.
LEMMA AlwaysShown ==
    ASSUME OneScheduler, "fetch" \notin StallPoints
    PROVE  Spec => [][Shown]_vars
  <1>1. TypeOK /\ OwnerMatchesStatus /\ FencesWithOwnId /\ Untouched /\ ViewIsCurrent
          /\ [Next]_vars => [Shown]_vars
    BY StepShown DEF RecoveryPremises
  <1> QED
    BY <1>1, TypeCorrect, OwnerMatches, OwnIdFence, UntouchedAlways, ViewIsCurrentAlways, PTL
       DEF Spec

\* The premises of ForgetsNothing.
LEMMA AbsentIsNewAlways ==
    ASSUME OneScheduler, "fetch" \notin StallPoints
    PROVE  Spec => []AbsentIsNew
  <1>1. Init => AbsentIsNew
    BY DEF Init, StoreInit, AbsentRow, AbsentIsNew
  <1>2. AbsentIsNew /\ UNCHANGED vars => AbsentIsNew'
    BY DEF vars, storeVars, AbsentIsNew
  <1>3. TypeOK /\ TypeOK' /\ AbsentIsNew /\ [Shown]_vars => AbsentIsNew'
    BY <1>2, ForgetsNothing
  <1> QED
    BY <1>1, <1>3, TypeCorrect, AlwaysShown, PTL DEF Spec

\* A failed attempt stays on the books until POST /jobs/{id}/retry
\* (SCHEDULE_RETRY, DEFER_TO_NEXT_WINDOW, RECOVER_STALE_CLAIMED).
THEOREM AttemptsKept ==
    ASSUME OneScheduler, "fetch" \notin StallPoints
    PROVE  Spec => AttemptsNeverForgotten
  <1>1. TypeOK /\ TypeOK' /\ AbsentIsNew /\ [Shown]_vars
          => [\A j \in Jobs :
                 jobs'[j].attempt_count < jobs[j].attempt_count
                     => jobs[j].status = "dead_lettered" /\ jobs'[j].status = "pending"]_vars
    BY ForgetsNothing
  <1> QED
    BY <1>1, TypeCorrect, AbsentIsNewAlways, AlwaysShown, PTL DEF AttemptsNeverForgotten, Spec

\* As long as no tick is abandoned half-way, a poll of the status sees a job
\* move along the life cycle of DESIGN 5: every claim ends in one outcome that
\* counts at most once, and a job at the cap is buried, never promoted.
THEOREM LifecycleImplemented ==
    ASSUME OneScheduler, "fetch" \notin StallPoints, Budget["tick"] = 0
    PROVE  Spec => ImplementsLifecycle
  <1>1. Init => Rows!Init
    BY DEF Init, StoreInit, AbsentRow, Rows!Init, Rows!Answer, StatusView
  <1>2. ASSUME TypeOK, AttemptCap', NEW B \in SUBSET Jobs, Promotion(B)
        PROVE  Rows!Promote(B)
    <2>1. ASSUME NEW j \in B
          PROVE  StatusView[j].attempt_count < MaxAttempts
      <3>1. StatusView'[j] = Rows!Answer("queued", StatusView[j].attempt_count)
        BY <1>2 DEF Promotion
      <3>2. /\ jobs'[j].status = "queued"
            /\ jobs'[j].attempt_count = StatusView[j].attempt_count
        BY <3>1 DEF StatusView, Rows!Answer
      <3> QED
        BY <1>2, <3>2 DEF AttemptCap
    <2> QED
      BY <1>2, <2>1 DEF Promotion, Rows!Promote, Letters
  <1>3. TypeOK /\ AttemptCap' /\ Shown => [Rows!Next]_(Rows!lifecycleVars)
    BY <1>2 DEF Shown, Invisible, Rows!Next, Rows!lifecycleVars, Letters
  <1>4. UNCHANGED vars => UNCHANGED Rows!lifecycleVars
    BY DEF vars, storeVars, StatusView, Rows!lifecycleVars
  <1>5. TypeOK /\ AttemptCap' /\ [Shown]_vars => [Rows!Next]_(Rows!lifecycleVars)
    BY <1>3, <1>4
  <1> QED
    BY <1>1, <1>5, TypeCorrect, CapRespected, AlwaysShown, PTL
       DEF ImplementsLifecycle, Rows!Spec, Spec

-----------------------------------------------------------------------------
\* What a move of the life cycle is to a client.
LEMMA ClientMove ==
    ASSUME NEW j \in Jobs, NEW to, NEW attempt,
           StatusView' = [StatusView EXCEPT ![j] = Rows!Answer(to, attempt)]
    PROVE  ClientView' = [ClientView EXCEPT ![j] = PhaseOf(to)]
  <1>1. \A k \in Jobs : /\ jobs[k].status = StatusView[k].status
                        /\ jobs'[k].status = StatusView'[k].status
    BY DEF StatusView
  <1>2. \A k \in Jobs : jobs'[k].status = IF k = j THEN to ELSE jobs[k].status
    <2>1. \A k \in Jobs : StatusView'[k] = IF k = j THEN Rows!Answer(to, attempt)
                                                    ELSE StatusView[k]
      BY DEF StatusView
    <2> QED
      BY <1>1, <2>1 DEF Rows!Answer
  <1>3. \A k \in Jobs : PhaseOf(jobs'[k].status) = IF k = j THEN PhaseOf(to)
                                                            ELSE PhaseOf(jobs[k].status)
    BY <1>2
  <1> QED
    BY <1>3 DEF ClientView

\* Rows that keep their phase.
LEMMA ClientSame ==
    ASSUME \A j \in Jobs : PhaseOf(StatusView'[j].status) = PhaseOf(StatusView[j].status)
    PROVE  ClientView' = ClientView
  BY DEF ClientView, StatusView

\* A step of the pipeline to a client.
LEMMA ContractStep ==
    ASSUME Shown
    PROVE  [Contract!Next]_(Contract!contractVars)
  <1>1. \A j \in Jobs : ClientView[j] = PhaseOf(StatusView[j].status)
    BY DEF ClientView, StatusView
  <1>2. CASE Invisible
    BY <1>2, ClientSame DEF Invisible, Letters, Contract!contractVars
  <1>3. ASSUME NEW j \in Jobs, Rows!JobStep(j)
        PROVE  [Contract!Next]_(Contract!contractVars)
    <2>1. ASSUME NEW from, NEW to, NEW attempt, Rows!Move(j, from, to, attempt)
          PROVE  /\ ClientView[j] = PhaseOf(from)
                 /\ ClientView' = [ClientView EXCEPT ![j] = PhaseOf(to)]
                 /\ UNCHANGED dead_letter_queue
      <3>1. StatusView[j].status = from /\ UNCHANGED dead_letter_queue
        BY <2>1 DEF Rows!Move
      <3>2. StatusView' = [StatusView EXCEPT ![j] = Rows!Answer(to, attempt)]
        BY <2>1 DEF Rows!Move
      <3>3. ClientView' = [ClientView EXCEPT ![j] = PhaseOf(to)]
        BY <3>2, ClientMove
      <3> QED
        BY <1>1, <3>1, <3>3
    <2>2. CASE Rows!Accept(j)
      BY <2>1, <2>2
         DEF Rows!Accept, PhaseOf, Contract!Next, Contract!Accept, Contract!Move
    <2>3. CASE Rows!Send(j)
      BY <2>1, <2>3
         DEF Rows!Send, PhaseOf, Contract!Next, Contract!Send, Contract!Move
    <2>4. CASE Rows!Replay(j)
      BY <2>1, <2>4
         DEF Rows!Replay, PhaseOf, Contract!Next, Contract!Replay, Contract!Move
    <2>5. CASE Rows!Claim(j) \/ Rows!Retry(j) \/ Rows!Defer(j)
      <3>1. /\ ClientView[j] = "scheduled"
            /\ ClientView' = [ClientView EXCEPT ![j] = "scheduled"]
            /\ UNCHANGED dead_letter_queue
        BY <2>1, <2>5 DEF Rows!Claim, Rows!Retry, Rows!Defer, PhaseOf
      <3>2. ClientView' = ClientView
        BY <3>1 DEF ClientView
      <3> QED
        BY <3>1, <3>2 DEF Contract!contractVars
    <2>6. ASSUME NEW extra \in {0, 1}, Rows!Bury(j, StatusView[j].attempt_count + extra)
          PROVE  Contract!GiveUp(j)
      <3>1. /\ StatusView[j].status \in {"pending", "claimed"}
            /\ StatusView' = [StatusView EXCEPT ![j] =
                                 Rows!Answer("dead_lettered", StatusView[j].attempt_count + extra)]
            /\ dead_letter_queue' = [dead_letter_queue EXCEPT ![j] = @ + 1]
        BY <2>6 DEF Rows!Bury
      <3>2. ClientView' = [ClientView EXCEPT ![j] = "dead"]
        <4>1. ClientView' = [ClientView EXCEPT ![j] = PhaseOf("dead_lettered")]
          BY <3>1, ClientMove
        <4> QED
          BY <4>1 DEF PhaseOf
      <3> QED
        BY <1>1, <3>1, <3>2 DEF Contract!GiveUp, Contract!Move, PhaseOf
    <2> QED
      BY <1>3, <2>2, <2>3, <2>4, <2>5, <2>6 DEF Rows!JobStep, Contract!Next
  <1>4. ASSUME NEW B \in SUBSET Jobs, Promotion(B) \/ Rows!Reclaim(B)
        PROVE  [Contract!Next]_(Contract!contractVars)
    <2>1. \A j \in Jobs :
            \/ StatusView'[j] = StatusView[j]
            \/ /\ StatusView[j].status \in {"pending", "claimed"}
               /\ StatusView'[j].status \in {"queued", "pending"}
      BY <1>4 DEF Promotion, Rows!Reclaim, Rows!Answer
    <2>2. \A j \in Jobs : PhaseOf(StatusView'[j].status) = PhaseOf(StatusView[j].status)
      BY <2>1 DEF PhaseOf
    <2> QED
      BY <1>4, <2>2, ClientSame DEF Promotion, Rows!Reclaim, Contract!contractVars, Letters
  <1> QED
    BY <1>2, <1>3, <1>4 DEF Shown

\* Every step of the pipeline is a step of the client's contract or invisible
\* to it, also when ticks fail half-way: sent is final, only a replay revives
\* a dead-lettered job, and each burial writes one row (dead_letter).
THEOREM ContractImplemented ==
    ASSUME OneScheduler, "fetch" \notin StallPoints
    PROVE  Spec => ImplementsContract
  <1>1. Init => Contract!Init
    BY DEF Init, StoreInit, AbsentRow, Contract!Init, ClientView, PhaseOf
  <1>2. UNCHANGED vars => UNCHANGED Contract!contractVars
    BY DEF vars, storeVars, ClientView, Contract!contractVars
  <1>3. [Shown]_vars => [Contract!Next]_(Contract!contractVars)
    BY <1>2, ContractStep
  <1> QED
    BY <1>1, <1>3, AlwaysShown, PTL DEF ImplementsContract, Contract!Spec, Spec

\* The life cycle itself keeps the contract: whatever the status endpoint shows,
\* as long as it moves like Lifecycle, a client gets what DeliveryContract
\* promises (DESIGN 5).
THEOREM LifecycleKeepsContract == ImplementsLifecycle => ImplementsContract
  <1>1. Rows!Init => Contract!Init
    <2>. SUFFICES ASSUME Rows!Init
                  PROVE  Contract!Init
      OBVIOUS
    <2>1. ASSUME NEW j \in Jobs
          PROVE  jobs[j].status = "absent"
      <3>1. StatusView[j] = Rows!Answer("absent", 0)
        BY DEF Rows!Init
      <3> QED
        BY <3>1 DEF StatusView, Rows!Answer
    <2> QED
      BY <2>1 DEF Rows!Init, Contract!Init, ClientView, PhaseOf
  <1>2. Rows!Next => Shown
    BY DEF Rows!Next, Rows!Promote, Shown, Promotion, Letters
  <1>3. UNCHANGED Rows!lifecycleVars => Shown
    BY DEF Rows!lifecycleVars, Shown, Invisible, Letters
  <1>4. [Rows!Next]_(Rows!lifecycleVars) => [Contract!Next]_(Contract!contractVars)
    BY <1>2, <1>3, ContractStep
  <1> QED
    BY <1>1, <1>4, PTL DEF ImplementsLifecycle, ImplementsContract, Rows!Spec, Contract!Spec

-----------------------------------------------------------------------------
(* How many deliveries max_attempts allows.                                *)

\* Every claim taken back cost an attempt of this life or a whole earlier life.
PaidFor ==
    \A j \in Jobs :
        /\ jobs[j].attempt_count <= MaxAttempts
        /\ jobs[j].status = "sent" => jobs[j].attempt_count < MaxAttempts
        /\ reclaims[j] + MaxAttempts <= jobs[j].attempt_count + MaxAttempts * Lives(j)

\* What a visible step does to the attempts and the lives of a job.
LEMMA LivesMove ==
    ASSUME TypeOK, AbsentIsNew, AttemptCap, PaidFor, Shown, NEW j \in Jobs
    PROVE  \/ /\ jobs'[j].attempt_count >= jobs[j].attempt_count
              /\ jobs'[j].attempt_count <= MaxAttempts
              /\ jobs'[j].status = "sent" => jobs'[j].attempt_count < MaxAttempts
              /\ Lives(j)' = Lives(j)
           \/ /\ jobs'[j].status = "pending" /\ jobs'[j].attempt_count = 0
              /\ Lives(j)' = Lives(j) + 1
  <1>. DEFINE old == StatusView[j]
              new == StatusView'[j]
              Older == /\ new.attempt_count >= old.attempt_count
                       /\ new.attempt_count <= MaxAttempts
                       /\ new.status = "sent" => new.attempt_count < MaxAttempts
              Same == (new.status = "dead_lettered") = (old.status = "dead_lettered")
                      /\ Letters'[j] = Letters[j]
  <1>1. /\ DOMAIN StatusView = Jobs /\ StatusView = [k \in Jobs |-> StatusView[k]]
        /\ Letters \in [Jobs -> Nat] /\ MaxAttempts \in Nat \ {0}
        /\ old.attempt_count \in Nat /\ old.attempt_count <= MaxAttempts
        /\ old.status \in {"claimed", "sent"} => old.attempt_count < MaxAttempts
        /\ old.status = "absent" => old.attempt_count = 0
    BY StoreAssumption DEF TypeOK, StoreTypeOK, Row, StatusView, Letters, PaidFor, AttemptCap,
                           AbsentIsNew
  <1>2. /\ jobs[j].status = old.status /\ jobs[j].attempt_count = old.attempt_count
        /\ jobs'[j].status = new.status /\ jobs'[j].attempt_count = new.attempt_count
    BY DEF StatusView
  <1>. HIDE DEF StatusView, Letters
  <1>3. ASSUME Invisible
        PROVE  Older /\ Same
    BY <1>1, <1>3 DEF Invisible
  <1>4. ASSUME NEW k \in Jobs, Rows!JobStep(k)
        PROVE  \/ Older /\ Same
               \/ /\ Older /\ old.status # "dead_lettered" /\ new.status = "dead_lettered"
                  /\ Letters'[j] = Letters[j] + 1
               \/ /\ old.status = "dead_lettered" /\ new.status = "pending"
                  /\ new.attempt_count = 0 /\ Letters'[j] = Letters[j]
    <2>1. CASE Rows!Accept(k) \/ Rows!Replay(k)
      BY <1>1, <2>1 DEF Rows!Accept, Rows!Replay, Rows!Move, Rows!Answer, Letters
    <2>2. CASE Rows!Claim(k) \/ Rows!Send(k)
      BY <1>1, <2>2 DEF Rows!Claim, Rows!Send, Rows!Move, Rows!Answer, Letters
    <2>3. CASE Rows!Retry(k) \/ Rows!Defer(k)
      BY <1>1, <2>3 DEF Rows!Retry, Rows!Defer, Rows!Move, Rows!Answer, Letters
    <2>4. ASSUME NEW extra \in {0, 1}, Rows!Bury(k, StatusView[k].attempt_count + extra)
          PROVE  \/ Older /\ Same
                 \/ /\ Older /\ old.status # "dead_lettered" /\ new.status = "dead_lettered"
                    /\ Letters'[j] = Letters[j] + 1
      BY <1>1, <2>4 DEF Rows!Bury, Rows!Answer, Letters
    <2> QED
      BY <1>4, <2>1, <2>2, <2>3, <2>4 DEF Rows!JobStep
  <1>5. ASSUME NEW B \in SUBSET Jobs, Promotion(B)
        PROVE  Older /\ Same
    BY <1>1, <1>5 DEF Promotion, Rows!Answer
  <1>6. ASSUME NEW B \in SUBSET Jobs, Rows!Reclaim(B)
        PROVE  Older /\ Same
    <2>1. Letters' = Letters
      BY <1>6 DEF Rows!Reclaim, Letters
    <2>2. \/ new = old
          \/ /\ old.status = "claimed" /\ new.status = "pending"
             /\ new.attempt_count = old.attempt_count + 1
      BY <1>1, <1>6 DEF Rows!Reclaim, Rows!Answer
    <2>. HIDE DEF old, new
    <2> QED
      BY <1>1, <2>1, <2>2
  <1>7. /\ Lives(j) = Letters[j] + IF old.status = "dead_lettered" THEN 0 ELSE 1
        /\ Lives(j)' = Letters'[j] + IF new.status = "dead_lettered" THEN 0 ELSE 1
    BY <1>2 DEF Lives, Letters
  <1>. HIDE DEF old, new
  <1> QED
    BY <1>1, <1>2, <1>3, <1>4, <1>5, <1>6, <1>7 DEF Shown

\* Only RECOVER_STALE_CLAIMED takes a claim back.
LEMMA ReclaimsMove ==
    ASSUME TypeOK, [Next]_vars, NEW j \in Jobs
    PROVE  \/ reclaims'[j] = reclaims[j]
           \/ /\ reclaims'[j] = reclaims[j] + 1 /\ jobs[j].status = "claimed"
              /\ jobs'[j] = RECOVER_STALE_CLAIMED(jobs[j])
              /\ dead_letter_queue' = dead_letter_queue
  <1>1. ASSUME NEW s \in Schedulers, Reclaim(s), j \in StaleClaims
        PROVE  /\ reclaims'[j] = reclaims[j] + 1 /\ jobs[j].status = "claimed"
               /\ jobs'[j] = RECOVER_STALE_CLAIMED(jobs[j])
               /\ dead_letter_queue' = dead_letter_queue
    BY <1>1 DEF Reclaim, RecoverStaleClaimed, StaleClaims, StaleClaim
  <1>2. ASSUME NEW s \in Schedulers, Reclaim(s), j \notin StaleClaims
        PROVE  reclaims'[j] = reclaims[j]
    BY <1>2 DEF Reclaim, TypeOK
  <1>3. reclaims' = reclaims \/ \E s \in Schedulers : Reclaim(s)
    BY DEF Next, vars, WorkerProgress, WorkerFailure, HeartbeatTask, SchedulerProgress,
           SchedulerFailure, ApiCall, PassageOfTime, Outage, historyVars
  <1> QED
    BY <1>1, <1>2, <1>3

\* The attempts keep pace with the claims taken back.
LEMMA PaidForStep ==
    ASSUME RecoveryPremises, TypeOK', Untouched, ViewIsCurrent, AbsentIsNew, AttemptCap, PaidFor,
           [Next]_vars
    PROVE  PaidFor'
  <1>. SUFFICES ASSUME NEW j \in Jobs
                PROVE  /\ jobs'[j].attempt_count <= MaxAttempts
                       /\ jobs'[j].status = "sent" => jobs'[j].attempt_count < MaxAttempts
                       /\ reclaims'[j] + MaxAttempts
                            <= jobs'[j].attempt_count + MaxAttempts * Lives(j)'
    BY DEF PaidFor
  <1>1. /\ MaxAttempts \in Nat \ {0} /\ jobs[j] \in Row
        /\ jobs[j].attempt_count \in Nat /\ jobs'[j].attempt_count \in Nat
        /\ reclaims[j] \in Nat /\ reclaims'[j] \in Nat
        /\ Lives(j) \in Nat /\ Lives(j)' \in Nat
    BY StoreAssumption DEF RecoveryPremises, TypeOK, StoreTypeOK, Row, Lives
  <1>2. /\ jobs[j].attempt_count <= MaxAttempts
        /\ reclaims[j] + MaxAttempts <= jobs[j].attempt_count + MaxAttempts * Lives(j)
    BY DEF PaidFor
  <1>3. CASE reclaims'[j] = reclaims[j]
    <2>1. \A m, n \in Nat : m * (n + 1) = m * n + m
      OBVIOUS
    <2>2. MaxAttempts * (Lives(j) + 1) = MaxAttempts * Lives(j) + MaxAttempts
      BY <1>1, <2>1
    <2>3. \/ /\ jobs'[j].attempt_count >= jobs[j].attempt_count
             /\ jobs'[j].attempt_count <= MaxAttempts
             /\ jobs'[j].status = "sent" => jobs'[j].attempt_count < MaxAttempts
             /\ Lives(j)' = Lives(j)
          \/ /\ jobs'[j].status = "pending" /\ jobs'[j].attempt_count = 0
             /\ Lives(j)' = Lives(j) + 1
      BY StepShown, LivesMove DEF RecoveryPremises
    <2>4. MaxAttempts * Lives(j) \in Nat
      BY <1>1
    <2> QED
      BY <1>1, <1>2, <1>3, <2>2, <2>3, <2>4
  <1>4. CASE /\ reclaims'[j] = reclaims[j] + 1 /\ jobs[j].status = "claimed"
             /\ jobs'[j] = RECOVER_STALE_CLAIMED(jobs[j])
             /\ dead_letter_queue' = dead_letter_queue
    <2>1. /\ jobs'[j].status = "pending" /\ jobs'[j].attempt_count = jobs[j].attempt_count + 1
      <3>1. 0 \in Nat
        OBVIOUS
      <3> QED
        BY <1>1, <1>4, <3>1, SystemFields
    <2>2. jobs[j].attempt_count < MaxAttempts
      BY <1>4 DEF AttemptCap
    <2>3. Lives(j)' = Lives(j)
      BY <1>4, <2>1 DEF Lives
    <2>4. MaxAttempts * Lives(j) \in Nat
      BY <1>1
    <2> QED
      BY <1>1, <1>2, <1>4, <2>1, <2>2, <2>3, <2>4
  <1> QED
    BY <1>3, <1>4, ReclaimsMove DEF RecoveryPremises

\* With one scheduler and no tick abandoned half-way, max_attempts bounds the
\* deliveries of a job until it is replayed, duplicates by stalled workers and
\* failed iterations included (RECOVER_STALE_CLAIMED, execute_delivery).
THEOREM AttemptsBoundDeliveries ==
    ASSUME OneScheduler, "fetch" \notin StallPoints, Budget["tick"] = 0, IsFiniteSet(Workers)
    PROVE  Spec => []DeliveriesWithinAttempts
  <1>1. Init => PaidFor
    <2>. SUFFICES ASSUME Init, NEW j \in Jobs
                  PROVE  /\ jobs[j].attempt_count = 0 /\ jobs[j].status = "absent"
                         /\ reclaims[j] = 0 /\ Lives(j) = 1
      BY StoreAssumption DEF PaidFor
    <2> QED
      BY DEF Init, StoreInit, AbsentRow, Lives
  <1>2. TypeOK /\ TypeOK' /\ OwnerMatchesStatus /\ FencesWithOwnId /\ Untouched /\ ViewIsCurrent
          /\ AbsentIsNew /\ AttemptCap /\ PaidFor /\ [Next]_vars => PaidFor'
    BY PaidForStep DEF RecoveryPremises
  <1>3. TypeOK /\ Balanced /\ AttemptCap /\ PaidFor => DeliveriesWithinAttempts
    <2>. SUFFICES ASSUME TypeOK, Balanced, AttemptCap, PaidFor, NEW j \in Jobs
                  PROVE  delivered[j] <= MaxAttempts * Lives(j)
      BY DEF DeliveriesWithinAttempts
    <2>1. /\ MaxAttempts \in Nat /\ Lives(j) \in Nat /\ jobs[j].attempt_count \in Nat
          /\ delivered[j] \in Nat /\ reclaims[j] \in Nat
          /\ delivered[j] <= reclaims[j] + Licence(j)
      BY PaidDeliveries, StoreAssumption DEF TypeOK, StoreTypeOK, Row, Lives
    <2>2. MaxAttempts * Lives(j) \in Nat
      BY <2>1
    <2>3. Licence(j) \in {0, 1} /\ jobs[j].attempt_count + Licence(j) <= MaxAttempts
      BY <2>1 DEF Licence, PaidFor, AttemptCap
    <2>4. reclaims[j] + MaxAttempts <= jobs[j].attempt_count + MaxAttempts * Lives(j)
      BY DEF PaidFor
    <2> QED
      BY <2>1, <2>2, <2>3, <2>4
  <1> QED
    BY <1>1, <1>2, <1>3, TypeCorrect, OwnerMatches, OwnIdFence, UntouchedAlways,
       ViewIsCurrentAlways, AbsentIsNewAlways, CapRespected, BalancedAlways, PTL DEF Spec

===============================================================================
