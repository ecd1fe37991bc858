------------------------------- MODULE JobStore -------------------------------
(***************************************************************************)
(* The state shared by the API, the scheduler and the workers: the         *)
(* PostgreSQL tables `jobs' and `dead_letter_queue', the Redis priority    *)
(* queues and the Redis job locks, with the SQL statements the components  *)
(* run on them.  A statement is one atomic step: its WHERE clause is a     *)
(* predicate on a row, its SET clause a function from rows to rows.        *)
(*                                                                         *)
(* Timestamps are abstracted to the one comparison the code makes with     *)
(* each of them:                                                           *)
(*    due    send_at <= NOW() + scheduler_lookahead_seconds                *)
(*    fresh  heartbeat_at >= NOW() - heartbeat_timeout_seconds             *)
(*    aged   updated_at < NOW() - queued_requeue_seconds                   *)
(***************************************************************************)
EXTENDS Naturals, FiniteSets

CONSTANTS
    Jobs,         \* ids that POST /jobs can hand out
    Workers,      \* worker_ids: one per claim/deliver loop
    NULL,         \* SQL NULL; also "no job in hand" and "lock not set"
    MaxAttempts,  \* settings.max_attempts, copied to every row
    Tiers,        \* number of priority queues; 1 is the most urgent
    TierOf        \* the priority of a job: fixed when it is created

ASSUME StoreAssumption ==
    /\ NULL \notin Workers
    /\ NULL \notin Jobs
    /\ MaxAttempts \in Nat \ {0}
    /\ Tiers \in Nat \ {0}
    /\ TierOf \in [Jobs -> 1..Tiers]

VARIABLES
    jobs,               \* table jobs: one row per id
    dead_letter_queue,  \* table dead_letter_queue: number of rows of a job
    queue,              \* ids in the sorted sets queue:<priority of the id>
    lock                \* job:lock:<id>: the worker it was set by, or NULL

storeVars == <<jobs, dead_letter_queue, queue, lock>>

-----------------------------------------------------------------------------
(* Rows.  "absent" stands for an id not inserted yet.  The enum also has   *)
(* 'failed', which no statement writes.                                    *)

JobStatus == {"absent", "pending", "queued", "claimed", "sent", "dead_lettered"}

WorkerId == Workers \cup {NULL}

Row == [status : JobStatus, attempt_count : Nat, worker_id : WorkerId,
        due : BOOLEAN, fresh : BOOLEAN, aged : BOOLEAN]

AbsentRow == [status |-> "absent", attempt_count |-> 0, worker_id |-> NULL,
              due |-> FALSE, fresh |-> FALSE, aged |-> FALSE]

StoreTypeOK ==
    /\ jobs \in [Jobs -> Row]
    /\ dead_letter_queue \in [Jobs -> Nat]
    /\ queue \subseteq Jobs
    /\ lock \in [Jobs -> WorkerId]

StoreInit ==
    /\ jobs = [j \in Jobs |-> AbsentRow]
    /\ dead_letter_queue = [j \in Jobs |-> 0]
    /\ queue = {}
    /\ lock = [j \in Jobs |-> NULL]

-----------------------------------------------------------------------------
(* WHERE clauses.  A "wrong" definition is a mistake the properties have   *)
(* to notice; no step uses it.                                             *)

Promotable(r) == r.status = "pending" /\ r.due

WrongStaleClaim(r) == r.status = "claimed"

StaleClaim(r) == r.status = "claimed" /\ ~r.fresh

WrongStaleQueued(r) == r.status = "pending" /\ r.aged

StaleQueued(r) == r.status = "queued" /\ r.aged

WrongClaimable(r) == r.status # "absent"

\* CLAIM_QUEUED_JOB: the third gate.
Claimable(r) == r.status = "queued"

WrongOwnedBy(r, w) == r.status = "claimed"

\* The ownership fence of the outcome statements and of the heartbeat.
\* `worker_id = $n' is never true when the parameter is NULL.
OwnedBy(r, w) == w # NULL /\ r.worker_id = w /\ r.status = "claimed"

WrongHeldUnder(r, expected) == r.status # "absent"

\* The fence of MARK_DEAD_LETTERED: IS NOT DISTINCT FROM matches NULL with
\* NULL, and the status is not tested.
HeldUnder(r, expected) == r.worker_id = expected

-----------------------------------------------------------------------------
(* SET clauses.                                                            *)

WrongDisowned(r) == [r EXCEPT !.fresh = FALSE, !.aged = FALSE]

\* worker_id, claimed_at and heartbeat_at = NULL, updated_at = NOW().
Disowned(r) == [r EXCEPT !.worker_id = NULL, !.fresh = FALSE, !.aged = FALSE]

INSERT_JOB(due) == [AbsentRow EXCEPT !.status = "pending", !.due = due]

PROMOTE_DUE_JOBS(r) == [r EXCEPT !.status = "queued", !.aged = FALSE]

CLAIM_QUEUED_JOB(r, w) ==
    [r EXCEPT !.status = "claimed", !.worker_id = w, !.fresh = TRUE, !.aged = FALSE]

UPDATE_HEARTBEAT(r) == [r EXCEPT !.fresh = TRUE]

WrongMARK_SENT(r) == [Disowned(r) EXCEPT !.status = "sent"]

\* worker_id and heartbeat_at keep their values.
MARK_SENT(r) == [r EXCEPT !.status = "sent"]

WrongSCHEDULE_RETRY(r, attempt) ==
    [Disowned(r) EXCEPT !.status = "failed", !.attempt_count = attempt]

\* send_at moves to a later time, which has to come before a promotion.
SCHEDULE_RETRY(r, attempt) ==
    [Disowned(r) EXCEPT !.status = "pending", !.attempt_count = attempt, !.due = FALSE]

WrongDEFER_TO_NEXT_WINDOW(r) ==
    [Disowned(r) EXCEPT !.status = "pending", !.attempt_count = 0, !.due = FALSE]

DEFER_TO_NEXT_WINDOW(r) == [Disowned(r) EXCEPT !.status = "pending", !.due = FALSE]

MARK_DEAD_LETTERED(r, attempt) ==
    [Disowned(r) EXCEPT !.status = "dead_lettered", !.attempt_count = attempt]

WrongRECOVER_STALE_CLAIMED(r) ==
    [Disowned(r) EXCEPT !.status = "queued", !.attempt_count = @ + 1]

\* send_at is left alone: the job is due as soon as it is reclaimed.
RECOVER_STALE_CLAIMED(r) ==
    [Disowned(r) EXCEPT !.status = "pending", !.attempt_count = @ + 1]

RETRY_DEAD_LETTERED_JOB(r) ==
    [Disowned(r) EXCEPT !.status = "pending", !.attempt_count = 0, !.due = TRUE]

-----------------------------------------------------------------------------
(* Statements on one row, and the dead-letter transaction.                 *)

Update(j, row) == jobs' = [jobs EXCEPT ![j] = row]

\* UPDATE and INSERT commit together.
DeadLetterTransaction(j, attempt) ==
    /\ Update(j, MARK_DEAD_LETTERED(jobs[j], attempt))
    /\ dead_letter_queue' = [dead_letter_queue EXCEPT ![j] = @ + 1]

\* DEL job:lock:<id>, whoever set it.
DeleteLock(j) == lock' = [lock EXCEPT ![j] = NULL]

===============================================================================
