------------------------------ MODULE NotifyQueue ------------------------------
(***************************************************************************)
(* The whole job pipeline: the API, the schedulers and the workers over    *)
(* one job store, with the passage of time and the failures the design     *)
(* document discusses.  Every failure is charged to a budget, so that a    *)
(* behaviour has finitely many of them.                                    *)
(***************************************************************************)
EXTENDS WorkerLoop, SchedulerLoop, Api

CONSTANTS
    StallPoints,  \* where a worker may be silent for longer than the
                  \* heartbeat timeout without being dead
    Budget        \* how often each kind of failure may happen

\* error   an await of a worker's iteration raises
\* crash   a worker's process is killed
\* tick    a scheduler tick raises, or the scheduler is restarted
\* stall   a worker stays silent past the heartbeat timeout, then goes on
\* redis   Redis loses its data
\* denial  check_rate_limit denies a delivery
\* replay  POST /jobs/{id}/retry
Kinds == {"error", "crash", "tick", "stall", "redis", "denial", "replay"}

ASSUME NotifyQueueAssumption ==
    /\ StallPoints \subseteq ProcessingPcs
    /\ Budget \in [Kinds -> Nat]

VARIABLES
    used,       \* failures so far, by kind
    delivered,  \* history: successful deliveries of a job
    reclaims    \* history: times a claim of a job was taken back

historyVars == <<delivered, reclaims>>

vars == <<storeVars, workerVars, schedulerVars, used, historyVars>>

TypeOK ==
    /\ StoreTypeOK
    /\ WorkerTypeOK
    /\ SchedulerTypeOK
    /\ used \in [Kinds -> Nat]
    /\ delivered \in [Jobs -> Nat]
    /\ reclaims \in [Jobs -> Nat]

Init ==
    /\ StoreInit
    /\ WorkerInit
    /\ SchedulerInit
    /\ used = [k \in Kinds |-> 0]
    /\ delivered = [j \in Jobs |-> 0]
    /\ reclaims = [j \in Jobs |-> 0]

Spend(kind) ==
    /\ used[kind] < Budget[kind]
    /\ used' = [used EXCEPT ![kind] = @ + 1]

-----------------------------------------------------------------------------
(* Workers.                                                                *)

DeliverOnce(w) ==
    /\ Deliver(w)
    /\ delivered' = [delivered EXCEPT ![held[w]] = @ + 1]
    /\ UNCHANGED used

WorkerProgress(w) ==
    /\ \/ DeliverOnce(w)
       \/ RateLimited(w) /\ Spend("denial") /\ UNCHANGED delivered
       \/ /\ ClaimStep(w) \/ FetchJob(w) \/ DeliveryFails(w) \/ OutcomeStep(w)
          /\ UNCHANGED <<used, delivered>>
    /\ UNCHANGED <<schedulerVars, reclaims>>

WorkerFailure(w) ==
    /\ \/ IterationFails(w) /\ Spend("error")
       \/ Crash(w) /\ Spend("crash")
    /\ UNCHANGED <<schedulerVars, historyVars>>

HeartbeatTask(w) == Heartbeat(w) /\ UNCHANGED <<schedulerVars, used, historyVars>>

-----------------------------------------------------------------------------
(* Schedulers.                                                             *)

Reclaim(s) ==
    /\ RecoverStaleClaimed(s)
    /\ reclaims' = [j \in Jobs |-> reclaims[j] + IF j \in StaleClaims THEN 1 ELSE 0]

SchedulerProgress(s) ==
    /\ \/ Reclaim(s)
       \/ /\ \/ PromoteDueJobs(s) \/ EnqueuePromoted(s) \/ UnlockReclaimed(s)
             \/ BuryReclaimed(s) \/ BuryRefused(s) \/ UnlockBuried(s)
             \/ SelectStaleQueued(s) \/ EnqueueStale(s)
          /\ UNCHANGED reclaims
    /\ UNCHANGED <<workerVars, used, delivered>>

SchedulerFailure(s) ==
    /\ TickFails(s)
    /\ Spend("tick")
    /\ UNCHANGED <<workerVars, historyVars>>

-----------------------------------------------------------------------------
(* API calls.                                                              *)

ApiCall(j) ==
    /\ \/ CreateJob(j) /\ UNCHANGED used
       \/ RetryDeadLettered(j) /\ Spend("replay")
    /\ UNCHANGED <<workerVars, schedulerVars, historyVars>>

-----------------------------------------------------------------------------
(* Time passes: each timestamp crosses the threshold it is compared with.  *)

\* send_at comes within the lookahead of NOW().
BecomesDue(j) ==
    /\ jobs[j].status = "pending" /\ ~jobs[j].due
    /\ jobs' = [jobs EXCEPT ![j].due = TRUE]
    /\ UNCHANGED <<dead_letter_queue, queue, lock, used>>

\* updated_at of a queued row falls behind.
QueuedTooLong(j) ==
    /\ jobs[j].status = "queued" /\ ~jobs[j].aged
    /\ jobs' = [jobs EXCEPT ![j].aged = TRUE]
    /\ UNCHANGED <<dead_letter_queue, queue, lock, used>>

HeartbeatFallsBehind(j) ==
    /\ jobs[j].status = "claimed" /\ jobs[j].fresh
    /\ jobs' = [jobs EXCEPT ![j].fresh = FALSE]
    /\ UNCHANGED <<dead_letter_queue, queue, lock>>

\* Nobody sends heartbeats for the claim: its iteration failed or its
\* process is gone.
ClaimAbandoned(j) ==
    /\ HeartbeatFallsBehind(j)
    /\ ~Processing(jobs[j].worker_id, j)
    /\ UNCHANGED used

\* The owner is alive but silent: a long pause, a partition, or a heartbeat
\* task that died on a database error.
OwnerStalls(j) ==
    /\ HeartbeatFallsBehind(j)
    /\ Processing(jobs[j].worker_id, j)
    /\ pc[jobs[j].worker_id] \in StallPoints
    /\ Spend("stall")

\* The lock's TTL runs out; nothing renews it.
LockExpires(j) ==
    /\ lock[j] # NULL
    /\ DeleteLock(j)
    /\ UNCHANGED <<jobs, dead_letter_queue, queue, used>>

RedisLosesData ==
    /\ queue' = {}
    /\ lock' = [j \in Jobs |-> NULL]
    /\ Spend("redis")
    /\ UNCHANGED <<jobs, dead_letter_queue>>

PassageOfTime(j) ==
    /\ BecomesDue(j) \/ QueuedTooLong(j) \/ ClaimAbandoned(j) \/ LockExpires(j)
    /\ UNCHANGED <<workerVars, schedulerVars, historyVars>>

Outage ==
    /\ RedisLosesData \/ \E j \in Jobs : OwnerStalls(j)
    /\ UNCHANGED <<workerVars, schedulerVars, historyVars>>

-----------------------------------------------------------------------------
Next ==
    \/ \E w \in Workers : WorkerProgress(w) \/ WorkerFailure(w) \/ HeartbeatTask(w)
    \/ \E s \in Schedulers : SchedulerProgress(s) \/ SchedulerFailure(s)
    \/ \E j \in Jobs : ApiCall(j) \/ PassageOfTime(j)
    \/ Outage

Spec == Init /\ [][Next]_vars

\* The loops keep running and time keeps passing.  Failures, API calls and
\* the heartbeat of a worker are under no obligation.
Fairness ==
    /\ \A w \in Workers : WF_vars(WorkerProgress(w))
    /\ \A s \in Schedulers : WF_vars(SchedulerProgress(s))
    /\ \A j \in Jobs : WF_vars(PassageOfTime(j))

FairSpec == Spec /\ Fairness

-----------------------------------------------------------------------------
(* Properties.                                                             *)

\* Every outcome a worker writes is written on its own current claim, never
\* on a row that was reclaimed or belongs to another worker: the ownership
\* fence of handle_success, handle_failure, defer_job and dead_letter.
FencedOutcome ==
    [][\A w \in Workers :
          (pc[w] \in OutcomePcs /\ pc'[w] # pc[w] /\ jobs' # jobs)
              => OwnedBy(jobs[held[w]], w)]_vars

\* What another worker claimed is that worker's to change: "must not overwrite
\* state that now belongs to another worker", the comment on the fence of
\* MARK_SENT.
ClaimsOfOthersKept ==
    [][\A v, w \in Workers :
          (v # w /\ pc[w] \in OutcomePcs /\ pc'[w] # pc[w] /\ OwnedBy(jobs[held[w]], v))
              => jobs'[held[w]] = jobs[held[w]]]_vars

\* The worker_id read back from the row is the worker's own, and a job it is
\* delivering counts as its own only while it is claimed: what the fence of
\* the outcomes, dead_letter's in particular, rests on.
FencesWithOwnId ==
    \A w \in Workers :
        /\ pc[w] = "fetch" => OwnedBy(jobs[held[w]], w) /\ jobs[held[w]].fresh
        /\ pc[w] \in {"deliver"} \cup OutcomePcs => view[w].worker_id = w
        /\ (pc[w] \in {"fetch", "deliver"} \cup OutcomePcs /\ jobs[held[w]].worker_id = w)
              => jobs[held[w]].status = "claimed"

\* A row has a worker_id exactly while it is claimed and after it was sent:
\* what lets the recovery path use worker_id IS NULL as its fence.
OwnerMatchesStatus ==
    \A j \in Jobs : (jobs[j].worker_id # NULL) <=> (jobs[j].status \in {"claimed", "sent"})

\* No job that used up max_attempts is offered to a worker again: the
\* recovery path dead-letters it before the scheduler can promote it.
AttemptCap ==
    \A j \in Jobs : jobs[j].status \in {"queued", "claimed"}
                        => jobs[j].attempt_count < MaxAttempts

\* A failed attempt stays on the books until a replay: deferrals and the late
\* outcomes of stale workers never lower attempt_count.
AttemptsNeverForgotten ==
    [][\A j \in Jobs :
          jobs'[j].attempt_count < jobs[j].attempt_count
              => jobs[j].status = "dead_lettered" /\ jobs'[j].status = "pending"]_vars

\* A job is delivered once, and once more at most for each time the
\* scheduler took a claim of it back: duplicated queue entries, expired
\* locks and lost Redis data never add a delivery.
DeliveryBound == \A j \in Jobs : delivered[j] <= 1 + reclaims[j]

\* Times a job was on its way: each burial ends one, each replay begins one.
Lives(j) == dead_letter_queue[j] + IF jobs[j].status = "dead_lettered" THEN 0 ELSE 1

\* Until a replay, max_attempts bounds the deliveries as well, the duplicates
\* by stalled workers and failed iterations included: each costs an attempt.
DeliveriesWithinAttempts == \A j \in Jobs : delivered[j] <= MaxAttempts * Lives(j)

\* Once MARK_SENT committed, no late statement of anyone changes the status.
SentIsFinal ==
    [][\A j \in Jobs : jobs[j].status = "sent" => jobs'[j].status = "sent"]_vars

\* The recovery path dead-letters a job in the state it has just reset it to,
\* not one that was promoted, claimed, replayed or buried in the meantime.
BuriesOwnReset ==
    [][\A s \in Schedulers :
          (spc[s] = "bury" /\ spc'[s] = "unlock_dead")
              => /\ jobs[cur[s].id].status = "pending"
                 /\ jobs[cur[s].id].attempt_count = cur[s].attempt_count]_vars

\* What GET /jobs/{id}/status answers.
StatusView ==
    [j \in Jobs |-> [status        |-> jobs[j].status,
                    attempt_count |-> jobs[j].attempt_count]]

Rows == INSTANCE Lifecycle WITH row <- StatusView, letters <- dead_letter_queue

\* The status endpoint only ever shows the moves of Lifecycle: each claim ends
\* in one outcome, counted at most once, and no job without attempts left is
\* promoted.
ImplementsLifecycle == Rows!Spec

\* The client's view of the rows; the contract it gets.
PhaseOf(status) ==
    CASE status = "absent"        -> "unknown"
      [] status = "sent"          -> "sent"
      [] status = "dead_lettered" -> "dead"
      [] OTHER                    -> "scheduled"

ClientView == [j \in Jobs |-> PhaseOf(jobs[j].status)]

Contract == INSTANCE DeliveryContract WITH phase <- ClientView, letters <- dead_letter_queue

\* Every step of the pipeline is a step of the contract or invisible to the
\* client: sent is final, and each burial writes one dead-letter row.
ImplementsContract == Contract!Spec

\* Every accepted job is sent or dead-lettered in the end.
EveryJobResolved == Contract!Resolved

===============================================================================
