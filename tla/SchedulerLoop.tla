----------------------------- MODULE SchedulerLoop -----------------------------
(***************************************************************************)
(* The scheduler: promote -> recover -> requeue -> sleep, for ever.  It    *)
(* keeps nothing between ticks, so a tick that raises and a process that   *)
(* is restarted look alike.  Several instances may run.                    *)
(*                                                                         *)
(*   promote      PROMOTE_DUE_JOBS                                         *)
(*   enqueue      ZADD of the promoted batch                               *)
(*   recover      RECOVER_STALE_CLAIMED                                    *)
(*   unlock       DEL job:lock of one reclaimed job                        *)
(*   bury         the dead-letter transaction of a job at the cap          *)
(*   unlock_dead  DEL job:lock after it, then the webhook                  *)
(*   requeue      REQUEUE_STALE_QUEUED                                     *)
(*   reenqueue    ZADD of the rows it selected                             *)
(***************************************************************************)
EXTENDS JobStore

CONSTANTS
    Schedulers,  \* scheduler instances
    BatchSize    \* settings.scheduler_batch_size

ASSUME SchedulerAssumption == BatchSize \in Nat \ {0}

VARIABLES
    spc,        \* where the tick stands
    batch,      \* rows a SELECT or UPDATE returned, about to be enqueued
    reclaimed,  \* rows RECOVER_STALE_CLAIMED returned and the loop has left
    cur         \* the reclaimed row being dead-lettered

schedulerVars == <<spc, batch, reclaimed, cur>>

SchedulerPcs == {"promote", "enqueue", "recover", "unlock", "bury", "unlock_dead",
                 "requeue", "reenqueue"}

\* The RETURNING columns the loop uses.
ReclaimedRow == [id : Jobs, attempt_count : Nat]

SchedulerTypeOK ==
    /\ spc \in [Schedulers -> SchedulerPcs]
    /\ batch \in [Schedulers -> SUBSET Jobs]
    /\ reclaimed \in [Schedulers -> SUBSET ReclaimedRow]
    /\ cur \in [Schedulers -> ReclaimedRow \cup {NULL}]
    /\ \A s \in Schedulers : spc[s] \in {"bury", "unlock_dead"} => cur[s] \in ReclaimedRow

SchedulerInit ==
    /\ spc = [s \in Schedulers |-> "promote"]
    /\ batch = [s \in Schedulers |-> {}]
    /\ reclaimed = [s \in Schedulers |-> {}]
    /\ cur = [s \in Schedulers |-> NULL]

-----------------------------------------------------------------------------
(* promote_due_jobs.                                                       *)

\* LIMIT n.
Limited(found) ==
    {B \in SUBSET found :
        Cardinality(B) = IF Cardinality(found) < BatchSize
                           THEN Cardinality(found) ELSE BatchSize}

\* ORDER BY priority: nothing more urgent is left out.
Urgent(B, found) == \A j \in B, k \in found \ B : TierOf[j] <= TierOf[k]

\* SKIP LOCKED only keeps two instances from waiting for each other: the
\* statements of two instances still take effect one after the other.
PromoteDueJobs(s) ==
    /\ spc[s] = "promote"
    /\ LET due == {j \in Jobs : Promotable(jobs[j])}
       IN  \E B \in Limited(due) :
             /\ Urgent(B, due)
             /\ jobs' = [j \in Jobs |-> IF j \in B THEN PROMOTE_DUE_JOBS(jobs[j]) ELSE jobs[j]]
             /\ batch' = [batch EXCEPT ![s] = B]
             /\ spc' = [spc EXCEPT ![s] = IF B = {} THEN "recover" ELSE "enqueue"]
    /\ UNCHANGED <<dead_letter_queue, queue, lock, reclaimed, cur>>

\* One MULTI/EXEC pipeline; ZADD of a member already there changes nothing.
AddToQueues(s, label) ==
    /\ queue' = queue \cup batch[s]
    /\ batch' = [batch EXCEPT ![s] = {}]
    /\ spc' = [spc EXCEPT ![s] = label]
    /\ UNCHANGED <<jobs, dead_letter_queue, lock, reclaimed, cur>>

EnqueuePromoted(s) == spc[s] = "enqueue" /\ AddToQueues(s, "recover")

-----------------------------------------------------------------------------
(* recover_stale_claimed_jobs.                                             *)

StaleClaims == {j \in Jobs : StaleClaim(jobs[j])}

\* A mistake AttemptCap has to notice: the loop over the rows is skipped.
WrongNextRow(rows) == "requeue"

\* The for loop over the reclaimed rows, or the statement after it.
NextRow(rows) == IF rows = {} THEN "requeue" ELSE "unlock"

\* All stale claims at once: this statement has no LIMIT.
RecoverStaleClaimed(s) ==
    /\ spc[s] = "recover"
    /\ jobs' = [j \in Jobs |-> IF j \in StaleClaims THEN RECOVER_STALE_CLAIMED(jobs[j])
                                                     ELSE jobs[j]]
    /\ LET rows == {[id |-> j, attempt_count |-> jobs[j].attempt_count + 1] : j \in StaleClaims}
       IN  /\ reclaimed' = [reclaimed EXCEPT ![s] = rows]
           /\ spc' = [spc EXCEPT ![s] = NextRow(rows)]
    /\ UNCHANGED <<dead_letter_queue, queue, lock, batch, cur>>

\* A mistake DeliveriesWithinAttempts has to notice: one attempt too many.
WrongAtCap(row) == row.attempt_count > MaxAttempts

AtCap(row) == row.attempt_count >= MaxAttempts

UnlockReclaimed(s) ==
    /\ spc[s] = "unlock"
    /\ \E row \in reclaimed[s] :
         LET rest == reclaimed[s] \ {row}
         IN  /\ DeleteLock(row.id)
             /\ reclaimed' = [reclaimed EXCEPT ![s] = rest]
             /\ spc' = [spc EXCEPT ![s] = IF AtCap(row) THEN "bury" ELSE NextRow(rest)]
             /\ cur' = [cur EXCEPT ![s] = IF AtCap(row) THEN row ELSE NULL]
    /\ UNCHANGED <<jobs, dead_letter_queue, queue, batch>>

\* dead_letter with expected_worker_id = None.
BuryReclaimed(s) ==
    /\ spc[s] = "bury"
    /\ HeldUnder(jobs[cur[s].id], NULL)
    /\ DeadLetterTransaction(cur[s].id, cur[s].attempt_count)
    /\ spc' = [spc EXCEPT ![s] = "unlock_dead"]
    /\ UNCHANGED <<queue, lock, batch, reclaimed, cur>>

BuryRefused(s) ==
    /\ spc[s] = "bury"
    /\ ~HeldUnder(jobs[cur[s].id], NULL)
    /\ spc' = [spc EXCEPT ![s] = NextRow(reclaimed[s])]
    /\ cur' = [cur EXCEPT ![s] = NULL]
    /\ UNCHANGED <<storeVars, batch, reclaimed>>

UnlockBuried(s) ==
    /\ spc[s] = "unlock_dead"
    /\ DeleteLock(cur[s].id)
    /\ spc' = [spc EXCEPT ![s] = NextRow(reclaimed[s])]
    /\ cur' = [cur EXCEPT ![s] = NULL]
    /\ UNCHANGED <<jobs, dead_letter_queue, queue, batch, reclaimed>>

-----------------------------------------------------------------------------
(* requeue_stale_queued_jobs.                                              *)

\* A plain SELECT: by the time of the ZADD a row may have moved on.
SelectStaleQueued(s) ==
    /\ spc[s] = "requeue"
    /\ \E B \in Limited({j \in Jobs : StaleQueued(jobs[j])}) :
         /\ batch' = [batch EXCEPT ![s] = B]
         /\ spc' = [spc EXCEPT ![s] = IF B = {} THEN "promote" ELSE "reenqueue"]
    /\ UNCHANGED <<storeVars, reclaimed, cur>>

EnqueueStale(s) == spc[s] = "reenqueue" /\ AddToQueues(s, "promote")

-----------------------------------------------------------------------------
\* An await raised, or the process was restarted: the tick is abandoned with
\* whatever it had not done yet.
TickFails(s) ==
    /\ spc[s] # "promote"
    /\ spc' = [spc EXCEPT ![s] = "promote"]
    /\ batch' = [batch EXCEPT ![s] = {}]
    /\ reclaimed' = [reclaimed EXCEPT ![s] = {}]
    /\ cur' = [cur EXCEPT ![s] = NULL]
    /\ UNCHANGED storeVars

===============================================================================
