--------------------------------- MODULE Api ---------------------------------
(***************************************************************************)
(* The two endpoints that write: POST /jobs and POST /jobs/{id}/retry.     *)
(* Both only touch PostgreSQL; the scheduler is what enqueues.  Keys of    *)
(* POST /jobs are the subject of Submission.                               *)
(***************************************************************************)
EXTENDS JobStore

\* The schedule of a valid body: at most one of the two fields is given.  "now"
\* and "soon" are within scheduler_lookahead_seconds, "later" is not.
JobCreate ==
    {body \in [send_at : {NULL, "past", "soon", "later"}, delay_seconds : {NULL, "now", "later"}] :
        body.send_at = NULL \/ body.delay_seconds = NULL}

\* resolved_send_at: is the answer within the lookahead?
resolved_due(body) ==
    IF body.send_at # NULL THEN body.send_at # "later" ELSE body.delay_seconds # "later"

\* create_job without a key.
CreateJob(j) ==
    /\ jobs[j].status = "absent"
    /\ \E body \in JobCreate : Update(j, INSERT_JOB(resolved_due(body)))
    /\ UNCHANGED <<dead_letter_queue, queue, lock>>

\* retry_dead_lettered_job: any other status is answered with 409.
RetryDeadLettered(j) ==
    /\ jobs[j].status = "dead_lettered"
    /\ Update(j, RETRY_DEAD_LETTERED_JOB(jobs[j]))
    /\ UNCHANGED <<dead_letter_queue, queue, lock>>

===============================================================================
