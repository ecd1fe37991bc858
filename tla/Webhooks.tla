------------------------------- MODULE Webhooks -------------------------------
(***************************************************************************)
(* fire_webhook and its callers: what a job's callback URL is told, and    *)
(* what webhook_log keeps of it.  A worker commits an outcome of the job   *)
(* it fetched and announces it; a scheduler announces the jobs it buries.  *)
(* The claim is given up with the outcome, so while a caller is still      *)
(* posting the job may already be in other hands.                          *)
(*                                                                         *)
(*   idle     nothing in hand, or a scheduler between two rows             *)
(*   fetch    a worker has claimed a job, FETCH_JOB is on its way          *)
(*   deliver  a worker has read the row and ends the attempt               *)
(*   post     client.post of one attempt                                   *)
(*   log      INSERT_WEBHOOK_LOG of that attempt                           *)
(*                                                                         *)
(* Queues and locks are in WorkerLoop and SchedulerLoop: a promoted row    *)
(* may be claimed at once here.  No job is replayed.                       *)
(***************************************************************************)
EXTENDS Naturals, Sequences

CONSTANTS
    Workers, Schedulers,
    Jobs,
    NULL,
    MaxAttempts,       \* of a job
    MaxTries,          \* settings.webhook_max_attempts
    StallsBeforeFetch, \* a worker may miss its heartbeats before FETCH_JOB
    AttemptBound       \* bound: the attempt_count at which no claim is taken back

ASSUME WebhookAssumption ==
    /\ NULL \notin Workers \cup Schedulers \cup Jobs \cup {"ok", "error"}
    /\ Workers \cap Schedulers = {}
    /\ MaxAttempts \in Nat \ {0}
    /\ MaxTries \in Nat \ {0}
    /\ StallsBeforeFetch \in BOOLEAN
    /\ AttemptBound \in Nat

Callers == Workers \cup Schedulers

VARIABLES
    callback_url, \* of a job: never updated, and not validated
    jobs,         \* status, worker_id and attempt_count of a job's row
    outcomes,     \* history: the statuses committed for a job, in order
    reclaimed,    \* the rows of a recovery pass still to be dead-lettered
    call,         \* what a caller is doing
    webhook_log,  \* the table
    travelling,   \* requests the sender has given up on but may still arrive
    received,     \* history: the callbacks that reached the client
    cut           \* history: announcements that were broken off

jobVars == <<jobs, outcomes>>
netVars == <<travelling, received>>
webhookVars == <<callback_url, jobVars, reclaimed, call, webhook_log, netVars, cut>>

Status == {"failed", "sent", "dead_lettered"}

\* http_status: below 500, 500 or more, or NULL.
Http == {"ok", "error", NULL}

\* An announcement is named by the job and the number of its outcome.
Announcement == [job : Jobs, n : Nat]

Row(status, worker_id, attempt_count) ==
    [status |-> status, worker_id |-> worker_id, attempt_count |-> attempt_count]

\* view is the fetched row.
Idle == [stage |-> "idle", job |-> NULL, view |-> NULL,
         n |-> 0, status |-> NULL, try |-> 0, http |-> NULL]

\* No URL, one that httpx can post to, or a string that is none.
Callbacks == {NULL, "url", "invalid"}

Rows == [status : {"pending", "queued", "claimed", "sent", "dead_lettered"},
         worker_id : Workers \cup {NULL}, attempt_count : Nat]

TypeOK ==
    /\ callback_url \in [Jobs -> Callbacks]
    /\ jobs \in [Jobs -> Rows]
    /\ outcomes \in [Jobs -> Seq(Status)]
    /\ reclaimed \in [Schedulers -> SUBSET [job : Jobs, attempt_count : Nat]]
    /\ call \in [Callers -> [stage : {"idle", "fetch", "deliver", "post", "log"},
                             job : Jobs \cup {NULL}, view : Rows \cup {NULL}, n : Nat,
                             status : Status \cup {NULL}, try : 0..MaxTries, http : Http]]
    /\ webhook_log \subseteq [about : Announcement, status_change : Status,
                              attempt : 1..MaxTries, http_status : Http]
    /\ travelling \cup received
          \subseteq [about : Announcement, status : Status, try : 1..MaxTries]
    /\ cut \subseteq Announcement

Init ==
    /\ callback_url \in [Jobs -> Callbacks]
    /\ jobs = [j \in Jobs |-> Row("pending", NULL, 0)]
    /\ outcomes = [j \in Jobs |-> <<>>]
    /\ reclaimed = [s \in Schedulers |-> {}]
    /\ call = [c \in Callers |-> Idle]
    /\ webhook_log = {}
    /\ travelling = {}
    /\ received = {}
    /\ cut = {}

-----------------------------------------------------------------------------
(* Commits.  The parameter worker_id is what the statement's caller holds. *)

\* The fence of MARK_SENT, SCHEDULE_RETRY and DEFER_TO_NEXT_WINDOW.
OwnedBy(j, worker_id) ==
    worker_id # NULL /\ jobs[j].worker_id = worker_id /\ jobs[j].status = "claimed"

\* A mistake Truthful has to notice: the burial of a worker that came too late.
WrongHeldUnder(j, worker_id) == TRUE

\* The fence of MARK_DEAD_LETTERED: NULL matches NULL, and any status will do.
HeldUnder(j, worker_id) == jobs[j].worker_id = worker_id

\* fire_webhook begins, or returns at once without a callback URL.
Fire(c, j, status) ==
    call' = [call EXCEPT ![c] =
               IF callback_url[j] = NULL
                 THEN Idle
                 ELSE [stage |-> "post", job |-> j, view |-> NULL, n |-> Len(outcomes[j]) + 1,
                       status |-> status, try |-> 1, http |-> NULL]]

\* The outcome's statement matched the row and changed it into `row'.
CommitAndFire(c, j, status, row) ==
    /\ jobs' = [jobs EXCEPT ![j] = row]
    /\ outcomes' = [outcomes EXCEPT ![j] = Append(@, status)]
    /\ Fire(c, j, status)

-----------------------------------------------------------------------------
(* Workers.                                                                *)

Claim(w, j) ==
    /\ call[w] = Idle
    /\ jobs[j].status = "queued"
    /\ jobs' = [jobs EXCEPT ![j] = Row("claimed", w, @.attempt_count)]
    /\ call' = [call EXCEPT ![w] = [Idle EXCEPT !.stage = "fetch", !.job = j]]
    /\ UNCHANGED <<outcomes, reclaimed, webhook_log, netVars, cut>>

\* Whatever the row is by now.
FetchJob(w) ==
    /\ call[w].stage = "fetch"
    /\ call' = [call EXCEPT ![w].stage = "deliver", ![w].view = jobs[call[w].job]]
    /\ UNCHANGED <<jobVars, reclaimed, webhook_log, netVars, cut>>

Ending(w) == call[w].stage = "deliver"

\* handle_success; a sent row keeps its worker_id.
Succeed(w) ==
    LET j == call[w].job
    IN  /\ Ending(w)
        /\ OwnedBy(j, call[w].view.worker_id)
        /\ CommitAndFire(w, j, "sent", [jobs[j] EXCEPT !.status = "sent"])
        /\ UNCHANGED <<reclaimed, webhook_log, netVars, cut>>

\* handle_failure with attempts left.
Fail(w) ==
    LET j == call[w].job
        attempt == call[w].view.attempt_count + 1
    IN  /\ Ending(w)
        /\ attempt < MaxAttempts
        /\ OwnedBy(j, call[w].view.worker_id)
        /\ CommitAndFire(w, j, "failed", Row("pending", NULL, attempt))
        /\ UNCHANGED <<reclaimed, webhook_log, netVars, cut>>

\* handle_failure, dead_letter.
GiveUp(w) ==
    LET j == call[w].job
        attempt == call[w].view.attempt_count + 1
    IN  /\ Ending(w)
        /\ attempt >= MaxAttempts
        /\ HeldUnder(j, call[w].view.worker_id)
        /\ CommitAndFire(w, j, "dead_lettered", Row("dead_lettered", NULL, attempt))
        /\ UNCHANGED <<reclaimed, webhook_log, netVars, cut>>

\* defer_job: no outcome, nobody is told.
DeferJob(w) ==
    LET j == call[w].job
    IN  /\ Ending(w)
        /\ OwnedBy(j, call[w].view.worker_id)
        /\ jobs' = [jobs EXCEPT ![j] = Row("pending", NULL, @.attempt_count)]
        /\ call' = [call EXCEPT ![w] = Idle]
        /\ UNCHANGED <<outcomes, reclaimed, webhook_log, netVars, cut>>

\* "no longer owned": nothing is written and nothing is announced.
OutcomeLost(w) ==
    /\ Ending(w)
    /\ ~OwnedBy(call[w].job, call[w].view.worker_id)
    /\ call' = [call EXCEPT ![w] = Idle]
    /\ UNCHANGED <<jobVars, reclaimed, webhook_log, netVars, cut>>

-----------------------------------------------------------------------------
(* Schedulers.                                                             *)

\* The next function of the tick, or the next tick.
BetweenPasses(s) == call[s] = Idle /\ reclaimed[s] = {}

Promote(s, B) ==
    /\ BetweenPasses(s)
    /\ \A j \in B : jobs[j].status = "pending"
    /\ jobs' = [j \in Jobs |-> IF j \in B THEN [jobs[j] EXCEPT !.status = "queued"] ELSE jobs[j]]
    /\ UNCHANGED <<outcomes, reclaimed, call, webhook_log, netVars, cut>>

\* The heartbeats of a claim may be late while its worker stalls, and stay
\* away once it is gone.
MayBeStale(j) ==
    /\ jobs[j].status = "claimed"
    /\ jobs[j].attempt_count < AttemptBound
    /\ StallsBeforeFetch \/ \A w \in Workers : ~(call[w].stage = "fetch" /\ call[w].job = j)

\* RECOVER_STALE_CLAIMED: the attempt counts, but is announced only when it
\* was the last; of the other rows the loop only deletes the locks.
RecoverStaleClaimed(s, B) ==
    LET attempt(j) == jobs[j].attempt_count + 1
    IN  /\ BetweenPasses(s)
        /\ \A j \in B : MayBeStale(j)
        /\ jobs' = [j \in Jobs |-> IF j \in B THEN Row("pending", NULL, attempt(j)) ELSE jobs[j]]
        /\ reclaimed' = [reclaimed EXCEPT ![s] =
                           {[job |-> j, attempt_count |-> attempt(j)] :
                              j \in {k \in B : attempt(k) >= MaxAttempts}}]
        /\ UNCHANGED <<outcomes, call, webhook_log, netVars, cut>>

\* One row of the loop: dead_letter for a job that is taken to be unowned.
InLoop(s, r) ==
    /\ call[s] = Idle
    /\ r \in reclaimed[s]
    /\ reclaimed' = [reclaimed EXCEPT ![s] = @ \ {r}]

\* Refused only when another scheduler moved the row on.
Bury(s, r) ==
    /\ InLoop(s, r)
    /\ IF HeldUnder(r.job, NULL)
         THEN CommitAndFire(s, r.job, "dead_lettered",
                            Row("dead_lettered", NULL, r.attempt_count))
         ELSE UNCHANGED <<jobVars, call>>
    /\ UNCHANGED <<webhook_log, netVars, cut>>

-----------------------------------------------------------------------------
(* fire_webhook.                                                           *)

About(c) == [job |-> call[c].job, n |-> call[c].n]

Posted(c, http) ==
    /\ call[c].stage = "post"
    /\ callback_url[call[c].job] = "url"
    /\ call' = [call EXCEPT ![c].stage = "log", ![c].http = http]

Request(c) == [about |-> About(c), status |-> call[c].status, try |-> call[c].try]

\* The request arrived; so did the answer, unless it took too long.
Reach(c) ==
    /\ \E http \in Http : Posted(c, http)
    /\ received' = received \cup {Request(c)}
    /\ UNCHANGED <<jobVars, reclaimed, webhook_log, travelling, cut>>

\* httpx.HTTPError before the request arrived; perhaps it still does.
Miss(c) ==
    /\ Posted(c, NULL)
    /\ travelling' = travelling \cup {Request(c)}
    /\ UNCHANGED <<jobVars, reclaimed, webhook_log, received, cut>>

Arrive(m) ==
    /\ m \in travelling
    /\ travelling' = travelling \ {m}
    /\ received' = received \cup {m}
    /\ UNCHANGED <<jobVars, reclaimed, call, webhook_log, cut>>

\* A mistake EveryOutcomeAnnounced has to notice: no answer ends the loop.
WrongAccepted(http) == http # "error"

\* http_status is not None and below 500.
Accepted(http) == http = "ok"

\* A mistake AuditTrail has to notice: only answered attempts are logged.
WrongLogRow(c) ==
    IF call[c].http = NULL THEN {}
    ELSE {[about |-> About(c), status_change |-> call[c].status,
           attempt |-> call[c].try, http_status |-> call[c].http]}

LogRow(c) == {[about |-> About(c), status_change |-> call[c].status,
               attempt |-> call[c].try, http_status |-> call[c].http]}

\* A mistake the type invariant has to notice: one try more.
WrongLastTry(try) == try > MaxTries

LastTry(try) == try >= MaxTries

\* A mistake EveryCallEnds has to notice: the tries are not counted.
WrongNextTry(try) == try

\* The for loop; the sleep between two attempts only takes time.
NextTry(try) == try + 1

Log(c) ==
    /\ call[c].stage = "log"
    /\ webhook_log' = webhook_log \cup LogRow(c)
    /\ call' = [call EXCEPT ![c] =
                  IF Accepted(call[c].http) \/ LastTry(call[c].try)
                    THEN Idle
                    ELSE [call[c] EXCEPT !.stage = "post", !.try = NextTry(call[c].try),
                                         !.http = NULL]]
    /\ UNCHANGED <<jobVars, reclaimed, netVars, cut>>

\* The caller drops what it has in hand, a scheduler the rest of its pass too.
BreakOff(c) ==
    /\ call' = [call EXCEPT ![c] = Idle]
    /\ reclaimed' = [s \in Schedulers |-> IF s = c THEN {} ELSE reclaimed[s]]
    /\ cut' = IF call[c].stage \in {"post", "log"} THEN cut \cup {About(c)} ELSE cut
    /\ UNCHANGED <<jobVars, webhook_log, netVars>>

\* httpx.InvalidURL and the like are no HTTPError: the exception leaves
\* fire_webhook before the attempt is logged.
Refused(c) ==
    /\ call[c].stage = "post"
    /\ callback_url[call[c].job] = "invalid"
    /\ BreakOff(c)

\* Any await raised, or the caller's process was killed and another one took
\* its place; the next iteration or tick starts over.
Abort(c) ==
    /\ call[c].stage # "idle" \/ (c \in Schedulers /\ reclaimed[c] # {})
    /\ BreakOff(c)

FireStep(c) == Reach(c) \/ Miss(c) \/ Log(c) \/ Refused(c)

WorkerStep(w) ==
    \/ \E j \in Jobs : Claim(w, j)
    \/ FetchJob(w) \/ Succeed(w) \/ Fail(w) \/ GiveUp(w) \/ DeferJob(w) \/ OutcomeLost(w)

SchedulerStep(s) ==
    \/ \E B \in SUBSET Jobs : Promote(s, B) \/ RecoverStaleClaimed(s, B)
    \/ \E r \in reclaimed[s] : Bury(s, r)

Next ==
    /\ \/ \E w \in Workers : WorkerStep(w)
       \/ \E s \in Schedulers : SchedulerStep(s)
       \/ \E c \in Callers : FireStep(c) \/ Abort(c)
       \/ \E m \in travelling : Arrive(m)
    /\ UNCHANGED callback_url

Spec == Init /\ [][Next]_webhookVars

\* Once fire_webhook has begun, its caller goes on with it.
FairSpec == Spec /\ \A c \in Callers : WF_webhookVars(FireStep(c) /\ UNCHANGED callback_url)

-----------------------------------------------------------------------------
(* Properties.                                                             *)

RowsOf(a) == {r \in webhook_log : r.about = a}

\* What the client is told was committed, and it hears of one end at most: the
\* final status of a callback is the status of the job, now and later, and
\* every other callback is about a failed attempt before it.  Nothing is said
\* of the order of arrival: such a "failed" may well be the last to arrive.
Truthful ==
    \A m \in received :
        LET j == m.about.job
        IN  /\ m.about.n \in 1..Len(outcomes[j])
            /\ m.status = outcomes[j][m.about.n]
            /\ m.status # "failed" => m.status = jobs[j].status /\ m.about.n = Len(outcomes[j])

\* webhook_log has one row per attempt and no attempt without the ones before
\* it, none of them accepted; a callback the client got is in it, unless its
\* row is being written or the announcement was broken off.
AuditTrail ==
    /\ \A q, r \in webhook_log : q.about = r.about /\ q.attempt = r.attempt => q = r
    /\ \A r \in webhook_log : \A t \in 1..(r.attempt - 1) :
           \E q \in RowsOf(r.about) : q.attempt = t /\ q.http_status # "ok"
    /\ \A m \in received :
           \/ m.about \in cut
           \/ \E c \in Callers : call[c].stage = "log" /\ About(c) = m.about
           \/ \E r \in RowsOf(m.about) : r.attempt = m.try /\ r.status_change = m.status

\* A committed outcome of a job with a callback URL is being announced, was
\* accepted, was tried webhook_max_attempts times, or its announcement was
\* broken off by an exception or a crash: there is no other way to silence.
EveryOutcomeAnnounced ==
    \A j \in Jobs : callback_url[j] # NULL =>
        \A n \in 1..Len(outcomes[j]) :
            LET a == [job |-> j, n |-> n]
            IN  \/ a \in cut
                \/ \E c \in Callers : call[c].stage \in {"post", "log"} /\ About(c) = a
                \/ \E r \in RowsOf(a) : r.http_status = "ok" \/ r.attempt = MaxTries

\* An announcement holds its caller, the scheduler's loop included, only for
\* a while.
EveryCallEnds ==
    \A c \in Callers : call[c].stage \in {"post", "log"} ~> call[c].stage = "idle"

===============================================================================
