------------------------------ MODULE WorkerLoop ------------------------------
(***************************************************************************)
(* The worker pool: every worker_id runs one claim/deliver loop and, while *)
(* it processes a job, one heartbeat task.  A step ends at an await: each  *)
(* Redis command and each SQL statement is a step of its own.              *)
(*                                                                         *)
(*   poll    ZPOPMIN queue:<tier>          (claim_next_job)                *)
(*   lock    SET job:lock NX               (claim_next_job)                *)
(*   claim   CLAIM_QUEUED_JOB              (claim_next_job)                *)
(*   unlock  DEL job:lock after a lost claim                               *)
(*   fetch   FETCH_JOB                     (execute_delivery)              *)
(*   deliver rate limit, then the delivery (execute_delivery)              *)
(*   sent, failed, defer   the outcome's fenced statement                  *)
(*   release, release_deferred   DEL job:lock after the outcome            *)
(*   webhook fire_webhook                                                  *)
(***************************************************************************)
EXTENDS JobStore

VARIABLES
    pc,     \* where a worker's loop stands; "dead" once its process is gone
    tier,   \* the queue claim_next_job looks at
    held,   \* the job in hand: popped, claimed or being delivered
    view    \* the columns of the fetched row that the outcome uses

workerVars == <<pc, tier, held, view>>

\* process_job is running: the heartbeat task is alive.
ProcessingPcs == {"fetch", "deliver", "sent", "failed", "defer",
                  "release", "release_deferred", "webhook"}

OutcomePcs == {"sent", "failed", "defer"}

WorkerPcs == {"poll", "lock", "claim", "unlock", "dead"} \cup ProcessingPcs

View == [worker_id : WorkerId, attempt_count : Nat]

NoView == [worker_id |-> NULL, attempt_count |-> 0]

WorkerTypeOK ==
    /\ pc \in [Workers -> WorkerPcs]
    /\ tier \in [Workers -> 1..Tiers]
    /\ held \in [Workers -> Jobs \cup {NULL}]
    /\ view \in [Workers -> View]
    /\ \A w \in Workers : pc[w] \notin {"poll", "dead"} => held[w] \in Jobs

WorkerInit ==
    /\ pc = [w \in Workers |-> "poll"]
    /\ tier = [w \in Workers |-> 1]
    /\ held = [w \in Workers |-> NULL]
    /\ view = [w \in Workers |-> NoView]

Processing(w, j) == pc[w] \in ProcessingPcs /\ held[w] = j

-----------------------------------------------------------------------------
(* Control of the loop.                                                    *)

Goto(w, label) ==
    /\ pc' = [pc EXCEPT ![w] = label]
    /\ UNCHANGED <<tier, held, view>>

\* The loop starts over at `label' with nothing in hand.
Drop(w, label, t) ==
    /\ pc' = [pc EXCEPT ![w] = label]
    /\ tier' = [tier EXCEPT ![w] = t]
    /\ held' = [held EXCEPT ![w] = NULL]
    /\ view' = [view EXCEPT ![w] = NoView]

\* process_job returned, or claim_next_job returned None.
EndIteration(w) == Drop(w, "poll", 1)

\* A mistake EveryJobResolved has to notice: the last tier is never reached.
WrongNextTier(w) == Drop(w, "poll", IF tier[w] + 1 < Tiers THEN tier[w] + 1 ELSE 1)

\* The `continue' of claim_next_job: on to the next tier, never to the same
\* one again; after the last tier claim_next_job returns None.
NextTier(w) == Drop(w, "poll", IF tier[w] < Tiers THEN tier[w] + 1 ELSE 1)

-----------------------------------------------------------------------------
(* claim_next_job.                                                         *)

Waiting(t) == {j \in queue : TierOf[j] = t}

PollEmpty(w) ==
    /\ pc[w] = "poll"
    /\ Waiting(tier[w]) = {}
    /\ NextTier(w)
    /\ UNCHANGED storeVars

\* Gate 1.  The member with the lowest score is popped; scores grow with
\* send_at, which is not represented, so any member may be it.
PopMin(w) ==
    /\ pc[w] = "poll"
    /\ \E j \in Waiting(tier[w]) :
         /\ queue' = queue \ {j}
         /\ held' = [held EXCEPT ![w] = j]
    /\ pc' = [pc EXCEPT ![w] = "lock"]
    /\ UNCHANGED <<jobs, dead_letter_queue, lock, tier, view>>

\* Gate 2.
AcquireLock(w) ==
    /\ pc[w] = "lock"
    /\ lock[held[w]] = NULL
    /\ lock' = [lock EXCEPT ![held[w]] = w]
    /\ Goto(w, "claim")
    /\ UNCHANGED <<jobs, dead_letter_queue, queue>>

\* The popped entry is gone from Redis.
LockRefused(w) ==
    /\ pc[w] = "lock"
    /\ lock[held[w]] # NULL
    /\ NextTier(w)
    /\ UNCHANGED storeVars

\* Gate 3.
Claim(w) ==
    /\ pc[w] = "claim"
    /\ Claimable(jobs[held[w]])
    /\ Update(held[w], CLAIM_QUEUED_JOB(jobs[held[w]], w))
    /\ pc' = [pc EXCEPT ![w] = "fetch"]
    /\ tier' = [tier EXCEPT ![w] = 1]
    /\ UNCHANGED <<dead_letter_queue, queue, lock, held, view>>

ClaimRefused(w) ==
    /\ pc[w] = "claim"
    /\ ~Claimable(jobs[held[w]])
    /\ Goto(w, "unlock")
    /\ UNCHANGED storeVars

UnlockRefused(w) ==
    /\ pc[w] = "unlock"
    /\ DeleteLock(held[w])
    /\ NextTier(w)
    /\ UNCHANGED <<jobs, dead_letter_queue, queue>>

-----------------------------------------------------------------------------
(* execute_delivery.                                                       *)

\* The row is read back by id alone: worker_id is whatever it holds by now.
FetchJob(w) ==
    /\ pc[w] = "fetch"
    /\ view' = [view EXCEPT ![w] =
                  [worker_id     |-> jobs[held[w]].worker_id,
                   attempt_count |-> jobs[held[w]].attempt_count]]
    /\ pc' = [pc EXCEPT ![w] = "deliver"]
    /\ UNCHANGED <<storeVars, tier, held>>

\* check_rate_limit answers (False, retry_after).
RateLimited(w) ==
    /\ pc[w] = "deliver"
    /\ Goto(w, "defer")
    /\ UNCHANGED storeVars

\* check_rate_limit answers (True, 0); the stub delivery follows without an
\* await in between.
Deliver(w) ==
    /\ pc[w] = "deliver"
    /\ Goto(w, "sent")
    /\ UNCHANGED storeVars

DeliveryFails(w) ==
    /\ pc[w] = "deliver"
    /\ Goto(w, "failed")
    /\ UNCHANGED storeVars

-----------------------------------------------------------------------------
(* The outcomes: handle_success, handle_failure, defer_job, dead_letter.   *)
(* The fence uses the worker_id of the fetched row.                        *)

Fenced(w) == OwnedBy(jobs[held[w]], view[w].worker_id)

HandleSuccess(w) ==
    /\ pc[w] = "sent"
    /\ Fenced(w)
    /\ Update(held[w], MARK_SENT(jobs[held[w]]))
    /\ Goto(w, "release")
    /\ UNCHANGED <<dead_letter_queue, queue, lock>>

Attempt(w) == view[w].attempt_count + 1

\* A mistake ImplementsLifecycle has to notice: one attempt too many.
WrongExhausted(attempt) == attempt > MaxAttempts

Exhausted(attempt) == attempt >= MaxAttempts

ScheduleRetry(w) ==
    /\ pc[w] = "failed"
    /\ ~Exhausted(Attempt(w))
    /\ Fenced(w)
    /\ Update(held[w], SCHEDULE_RETRY(jobs[held[w]], Attempt(w)))
    /\ Goto(w, "release")
    /\ UNCHANGED <<dead_letter_queue, queue, lock>>

DeadLetter(w) ==
    /\ pc[w] = "failed"
    /\ Exhausted(Attempt(w))
    /\ HeldUnder(jobs[held[w]], view[w].worker_id)
    /\ DeadLetterTransaction(held[w], Attempt(w))
    /\ Goto(w, "release")
    /\ UNCHANGED <<queue, lock>>

DeferJob(w) ==
    /\ pc[w] = "defer"
    /\ Fenced(w)
    /\ Update(held[w], DEFER_TO_NEXT_WINDOW(jobs[held[w]]))
    /\ Goto(w, "release_deferred")
    /\ UNCHANGED <<dead_letter_queue, queue, lock>>

\* "no longer owned": the statement matched no row; the lock is kept and no
\* webhook fires.
OutcomeLost(w) ==
    /\ pc[w] \in OutcomePcs
    /\ IF pc[w] = "failed" /\ Exhausted(Attempt(w))
         THEN ~HeldUnder(jobs[held[w]], view[w].worker_id)
         ELSE ~Fenced(w)
    /\ EndIteration(w)
    /\ UNCHANGED storeVars

ReleaseLock(w) ==
    /\ pc[w] = "release"
    /\ DeleteLock(held[w])
    /\ Goto(w, "webhook")
    /\ UNCHANGED <<jobs, dead_letter_queue, queue>>

ReleaseDeferred(w) ==
    /\ pc[w] = "release_deferred"
    /\ DeleteLock(held[w])
    /\ EndIteration(w)
    /\ UNCHANGED <<jobs, dead_letter_queue, queue>>

\* fire_webhook writes webhook_log only.
FireWebhook(w) ==
    /\ pc[w] = "webhook"
    /\ EndIteration(w)
    /\ UNCHANGED storeVars

-----------------------------------------------------------------------------
(* The heartbeat task, and failures.                                       *)

\* UPDATE_HEARTBEAT is given the worker's own id, not the fetched one.
Heartbeat(w) ==
    /\ pc[w] \in ProcessingPcs
    /\ OwnedBy(jobs[held[w]], w)
    /\ Update(held[w], UPDATE_HEARTBEAT(jobs[held[w]]))
    /\ UNCHANGED <<dead_letter_queue, queue, lock, workerVars>>

\* An await raised: worker_loop logs it and starts the next iteration under
\* the same worker_id.
IterationFails(w) ==
    /\ held[w] # NULL
    /\ EndIteration(w)
    /\ UNCHANGED storeVars

\* The process is killed; a new one would have new worker_ids.
Crash(w) ==
    /\ pc[w] # "dead"
    /\ Drop(w, "dead", 1)
    /\ UNCHANGED storeVars

ClaimStep(w) ==
    \/ PollEmpty(w) \/ PopMin(w) \/ AcquireLock(w) \/ LockRefused(w)
    \/ Claim(w) \/ ClaimRefused(w) \/ UnlockRefused(w)

OutcomeStep(w) ==
    \/ HandleSuccess(w) \/ ScheduleRetry(w) \/ DeadLetter(w) \/ DeferJob(w)
    \/ OutcomeLost(w)
    \/ ReleaseLock(w) \/ ReleaseDeferred(w) \/ FireWebhook(w)

===============================================================================
