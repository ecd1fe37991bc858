# A TLA+ model of notify_queue

notify_queue is a delayed-notification service: clients submit jobs over HTTP, a scheduler moves due jobs into Redis
priority queues, a pool of workers claims and delivers them, and PostgreSQL holds the truth. This directory contains
TLA+ modules of its core, TLC configurations that check them on small instances, and proofs of the most important
results for instances of any size.

Paths below are relative to the repository's root, e.g. `src/notify_queue/dlq.py`; "DESIGN 7.8" is a section of
`DESIGN.md`. In `PROJECT.json` the same paths start with `src/`.

## 1. The system

| component | source | state | operations |
|---|---|---|---|
| job store | `migrations/001_initial.sql`, the SQL of the others | tables `jobs`, `dead_letter_queue`; Redis `queue:<tier>`, `job:lock:<id>` | the SQL statements, ZADD/ZPOPMIN, SET NX/DEL |
| HTTP API | `api/routes.py`, `models.py` | none | create a job, replay a dead-lettered job; read-only endpoints |
| scheduler | `scheduler/` | none between ticks | promote, recover, requeue, sleep |
| worker pool | `worker/` | position in the loop, job in hand, fetched row | claim, deliver, four outcomes, heartbeat |
| dead-letter queue | `dlq.py` | its table | one transaction, called by workers and scheduler |
| rate limiter | `ratelimit.py` | Redis counter per recipient and hour | check, deferral |
| webhooks | `webhooks.py` | `webhook_log` | fire with retries |
| idempotency | `api/routes.py`, `job_idempotency`, the pool of `db.py` | its table | part of create |
| seed script | `scripts/seed.py` | none | inserts rows of every status |
| simulation script | `scripts/simulate.py` | position, baseline, last answers | submit, poll, verdict |
| dashboard | `web/` | none | polling |

The components never talk to each other directly. They share rows, queue entries and locks, and every statement or Redis
command is an `await`: anything may happen between two of them. What makes the system hard:

- **Two stores.** A promotion writes PostgreSQL first and Redis later; a claim pops Redis first and writes PostgreSQL
  later. A failure in between leaves a queued row nobody can see, or an entry without a row to claim.
- **Zombies.** A worker that is silent for 30 seconds loses its job and may wake up at any later point of its
  delivery. The fence (`worker_id = <mine> AND status = 'claimed'`) has to stop every late write.
- **A recovery that is not atomic.** The reset of all stale claims commits at once; the dead-lettering of those at
  the cap follows row by row, with Redis commands and webhooks in between.
- **Several schedulers.** `SKIP LOCKED` separates promotions, nothing else.
- **Callbacks after the fact.** A job is given up before its outcome is announced, so the announcement of one attempt
  may still be under way when the next attempt ends; a request the sender gave up on may arrive all the same.
- **Reports on a moving system.** The simulation script computes its verdict from two requests and a baseline, while
  jobs move, and from totals in which other clients' jobs are included.
- **Two INSERTs and a pool.** The loser of an idempotency race waits inside its own transaction, on a connection that
  others wait for, and must leave nothing behind.
- **Rate limiting across awaits.** The clock is read before the counter is incremented, the overshoot is undone by a
  second command, the deferral reads the clock again.

What each component owes: the worker pool and the store, that outcomes are written by the owner only, that duplicated
entries and lost locks cause no extra delivery, and that a claim left behind is found again; the scheduler, that no
due job is forgotten and no job exceeds its attempts; the dead-letter queue, one row per burial and none without; the
rate limiter, that a window's budget is neither exceeded nor withheld; the API, that only a replay revives a buried
job and that a key stands for one job; the webhooks, that a client hears nothing but committed outcomes and of one end
only, and that the log is complete; the simulation, that its verdict can be relied on; all together, that an accepted
job is sent or buried in the end.

## 2. Modules

    JobStore            tables, queues, locks; the statements as row predicates and row functions
      WorkerLoop        claim_next_job, process_job, execute_delivery, the outcomes, heartbeat_loop
      SchedulerLoop     promote_due_jobs, recover_stale_claimed_jobs, requeue_stale_queued_jobs
      Api               the schedule of a request, create_job, retry_dead_lettered_job
        NotifyQueue     all of them together, time, failures; the properties
          MCNotifyQueue       instances for TLC
          NotifyQueueProofs   types, ownership, the fence, how often a job is delivered
            OneSchedulerProofs   burials, the cap, the two refinements, deliveries against attempts
          Seeder        seed.py beside the pipeline
            MCSeeder          an instance for TLC
            SeederProofs      the theorems that survive it; uses OneSchedulerProofs
    Lifecycle           status and attempt_count as the status endpoint shows them; NotifyQueue implements it
      Simulation        simulate.py against any pipeline that behaves like Lifecycle
        SimulationProofs
    DeliveryContract    what a client is promised; NotifyQueue implements it
    RateLimit           check_rate_limit with a clock, key expiry, deferral and promotion
      MCRateLimit, RateLimitProofs
    Submission          create_job await by await: pool, transaction, idempotency key
      MCSubmission, SubmissionProofs
    KeyedCreation       what a key promises; Submission implements it
    Webhooks            fire_webhook and its callers
      WebhookProofs
    PriorityScore       priority_score, with two theorems

### JobStore

A row keeps `status`, `attempt_count` and `worker_id`. Each timestamp is compared with one threshold by the code, so the
row keeps the outcome of the comparison: `due` (`send_at` within the lookahead), `fresh` (`heartbeat_at` within the
timeout), `aged` (`updated_at` of a queued row too old). A WHERE clause is a predicate on rows, a SET clause an operator
of the statement's name. `claimed_at`, `next_retry_at` and the descriptive columns are never compared and are left out.
A queue is the set of its members: within a tier the code pops the lowest `send_at`, which is not represented, so any
member may be popped. The status `failed` of the enum is written by no statement. One statement is one step; the
dead-letter transaction is one step because both of its statements commit together and only its first can refuse.

### WorkerLoop

`pc` names the await a worker stands at; `held` is the popped job; `view` holds `worker_id` and `attempt_count` of the row
FETCH_JOB returned, the two columns later statements use. The fence of an outcome uses `view`, as the code does: the
worker's own id is passed to the heartbeat but not to `execute_delivery`. A heartbeat may come at every point of
`process_job`. `IterationFails` is the `except Exception` of `worker_loop`, at any await with a job in hand, and covers
commands that took effect and lost their answer. `Crash` removes a worker_id for good; a new process has new ids, so it
is one of the other workers, idle until then. A graceful stop only ends a loop between two iterations, like a worker that
takes no further step, and has no action. Delivery is a coin flip in the code (a stub), and a free choice here; so is
the answer of the rate limiter.

### SchedulerLoop

`spc` names the await of a tick; `batch` and `reclaimed` are the rows a statement returned, `cur` the one being buried.
A LIMIT takes any subset of the batch size, of the most urgent tiers where the statement orders by priority.
`TickFails` is the `except` of the tick, and equally a restart, since nothing is kept between ticks. The webhook that
`dead_letter` fires for the scheduler delays the loop but changes nothing else modelled here: its exceptions are part
of `TickFails`, and its content is the subject of `Webhooks`.

### NotifyQueue

Composes the three, adds time (`BecomesDue`, `QueuedTooLong`, `ClaimAbandoned`, `LockExpires`), outages (`OwnerStalls`,
`RedisLosesData`) and two history variables, `delivered` and `reclaims`. `OwnerStalls` lets a live worker lose its
heartbeat at one of the `StallPoints`; it stands for a pause, a partition, or a heartbeat task that ended on an exception.
A lock may expire at any time, so no property depends on its TTL.

### Lifecycle and DeliveryContract

Two abstract specifications of one job. `DeliveryContract` knows whether a job was accepted, sent or buried, and how many
dead-letter rows it has. `Lifecycle` knows its `status` and `attempt_count`, and says which statement may follow which.
`NotifyQueue` instantiates both, with `StatusView` and `ClientView` as the mapping. Promotion and recovery take a set of
jobs at once, as their UPDATEs do. In `Lifecycle` a job without attempts left is never promoted; the pipeline keeps that
only while ticks do not fail, see section 4.

### Seeder

`seed.py` writes rows of every status next to the running services: a queued row without a queue entry, a claimed row
whose `worker_id` is made up (a member of `Ghosts`, a worker that is dead from the start), retrying rows with attempts
nobody made, a dead-lettered row whose dead-letter row follows in a second statement. `Insert` starts from the
defaults of the script's `insert`. A seeded sent row has no `worker_id`, unlike a delivered one, so `OwnerMatchesStatus`
is a property of the services alone. The script's synthetic `webhook_log` rows and keys are left out, and so is `--wipe`,
which truncates the tables under a pipeline that holds their ids.

### Simulation

The script submits the jobs of its three tests, then polls GET /metrics and GET /jobs?status=pending until nothing
is active, and compares `sent + dead + deferred` with what it submitted. The pipeline is `Lifecycle` with one
addition, the set `deferred` of pending jobs whose `send_at` lies beyond `DEFERRAL_THRESHOLD`; a retry never is (at most
240 seconds against 600), a job denied by the rate limiter or submitted for later may be. `HourNears` is the clock
bringing it into the threshold. `Listed` cuts the list at the limit in any way. `torn` is a history variable: something
moved, or the list was cut, since the metrics were read.

The script neither empties the database nor has it to itself. `RowsBefore` are the rows a `Foreign` job may have when it
starts, in every status, from an earlier run or from `seed.py`; any of the pending ones may be deferred. Other clients
submit jobs (`OtherSubmits`) and replay dead-lettered ones, the script's included (`OtherReplays`), at any time. Sent
and dead jobs are counted as differences to the baseline, deferred ones are not, so jobs of others can make up for the
script's own. `SoundVerdict` says exactly how many: `Missing` are the script's jobs still under way, `MadeUp` the foreign
ones that are done or deferred and not in the baseline (`booked`), `replayed` those replayed since the counts were
read. Without these two terms the property is false, see section 4.

### Submission and KeyedCreation

A call of POST /jobs walks from the pool through INSERT_JOB, INSERT_IDEMPOTENCY_KEY and COMMIT to its answer. What a
transaction wrote is invisible before the commit, except that a second INSERT of the same key waits for the first
one's transaction (`Writes`), as PostgreSQL's unique index does. `KeyRejected` is UniqueViolationError: the
transaction is rolled back on the way out of its block, and the lookup runs on the same connection. `Lose` is the
process, the database connection or the client's connection going away, before or after the commit. A retry of a
client is another call with the same key. `KeyedCreation` creates job and key in one step, in the call that finds the
key free.

### Webhooks

A worker commits an outcome and posts it, `MaxTries` times at most; one `webhook_log` row follows each attempt. `Reach`
is a request that arrived, whatever became of its answer; `Miss` one the sender gave up on, which `Arrive` may
deliver later, or never. `callback_url` is absent, a URL, or a string httpx refuses with InvalidURL: that exception is
no HTTPError and leaves `fire_webhook` (`Refused`) before the attempt is logged. `Abort` is any other exception, or a
killed process; a scheduler drops the rest of its recovery pass with it. Time between attempts is not represented.

What is announced depends on who may write an outcome, so the rows are here with what that takes: `status`,
`worker_id` and `attempt_count`, the claim, the row a worker fetched (`view`), the fence `OwnedBy` of sent, retry and
deferral on the fetched `worker_id`, and the fence `HeldUnder` of a burial, which compares `worker_id` alone. A
recovery pass first resets all stale claims (`RecoverStaleClaimed`) and then buries those at the cap one by one
(`Bury`), with the callback of each in between. `StallsBeforeFetch` lets claims be taken back before the worker has
read its row; the run leaves that out, as it breaks the fence (section 4), and the theorems that do not need the fence
include it. That a burial is refused takes a second scheduler and is likewise left to the theorems. Queues and locks
are left to `NotifyQueue`: every promoted row may be claimed at once, which allows more, not less. `outcomes` numbers
the committed statuses of a job, and a callback carries the number it was sent for, so that `Truthful` can compare
them with each other and with the row.

`Truthful` is about content, not about order: the code promises none, and a callback about a failed attempt may well
arrive after the one about the end. It excludes a second end: no client hears "sent" and then "dead_lettered", or
either of them for a job that goes on.

### PriorityScore

`priority_score` on whole seconds. The theorems give the order of scores for all dates; floats represent these numbers
with a precision of microseconds.

### RateLimit

One recipient, since recipients share no key. `clock` advances by ticks; a key expires at a tick. `counter` and
`expireAt` are a Redis key per hour. A delivery goes through `pending`, `queued`, then the awaits of `check_rate_limit`
and `defer_job`. `MaxStall` bounds the time from reading the clock to the end of the deferral; `Window` is the hour and
the TTL is twice that, as 3600 and 7200 seconds are. A deferral here always finds its row: whether its fence matches is
the pipeline's question, and a lost deferral only means one delivery fewer.

### Mistakes kept on purpose

Definitions named `Wrong...` stand in front of the definition they distort: a dropped status test, a missing reset, a
loop that is skipped, an off-by-one. No specification uses them. Substituting one for its original makes the property
named for it in `PROJECT.json` fail, which shows that the property depends on the code.

## 3. What TLC checks

| run | instance | checks |
|---|---|---|
| `fenced` | 2 workers, 1 job, 1 scheduler, 2 attempts; one each of stall, error, denial, replay | types; owner and status agree; outcomes go to the own claim; recovery buries its own reset; attempts survive; deliveries bounded by reclaims, and by the attempts of each life; both contracts are implemented |
| `two_schedulers` | 2 schedulers, 2 workers, 1 job, 1 attempt; stall, failed tick, replay | fence, delivery bound and finality of sent with two interleaved recoveries |
| `resolved` | 2 workers, 1 job; error, crash, failed tick, Redis loss | liveness: the job is resolved |
| `seeded` | 1 worker and a ghost, 2 jobs in 2 tiers, one of them possibly seeded, batch 1, 2 attempts; error | the attempt cap over passes of several rows; liveness with competition and with rows no service wrote |
| `rate_limit` | 4 deliveries, limit 2, windows of 4, horizon 9, at most one Redis loss | budget, denials, deferrals, TTLs |
| `webhooks` | 2 workers, 1 scheduler, 1 job, 2 attempts, 2 tries | callbacks tell of one end at most and of the right one, the log is complete, no outcome is skipped, every announcement ends |
| `idempotency` | 5 calls, 3 of them with one key, 2 connections | one job per key, no orphan, nobody waits for ever, `KeyedCreation` is implemented |
| `simulation` | 2 jobs of the script, one of which may be replayed, 1 foreign job in any status, list limit 2 | the verdict is sound, alarms come from torn polls only, the script ends |
| `fetch_stalls`, `tick_fails`, `late_burial`, `counter_without_ttl` | the smallest instance that shows it | a statement of the documentation that the code does not keep, section 4 |

**Bounds.** `Budget` limits how often each kind of failure happens in a behaviour; everything else is unlimited, and
the state space is finite because `attempt_count` grows only through failures, stalls and reclaims and each path ends
in a burial at `MaxAttempts`. One stall is what a zombie needs, and reclaims of abandoned claims are not limited. Two
workers are the zombie and the new owner; two schedulers are the lagging one and the other. Two attempts let a job be
retried once and be buried after; where one attempt is used, every failure is a burial. `Horizon` stops the clock of
the rate limit after two windows and a bit, which includes the expiry of the first window's key; deadlock is not
checked there because the clock really stops. In the pipeline runs a deadlock would be reported: the scheduler never
stops. The runs of `Webhooks`, `Submission` and `Simulation` end, so deadlock is not checked there; `EveryCallEnds`
and `EveryRunEnds` say that they do. Five calls on two connections are enough for a writer and a waiter to occupy the
whole pool while others queue for it, and the third call of the same key comes after both. Two tries are a first,
which is retried, and a last one. `AttemptBound` ends the reclaims of `Webhooks` one above the cap, so that a job
whose burial was abandoned is claimed, buried and announced beyond it. The foreign job of `simulation` makes the
baseline differ from zero, and a limit of two cuts the list of three. `Replayable` and `LetterBound` let one job of
the script be replayed once, and the guard of `WorldStep` leaves out what happens after the script has ended, about
which nothing is said. In `seeded` one of two jobs may be the script's, so that a seeded row and one of the API meet
in a batch; `MaxAttempts` is 2 there, where the script writes 5, and `Drawn` keeps its attempts below that. Symmetry
is used among workers, schedulers and deliveries in safety runs, which none of the properties tells apart, and not in
the liveness runs.

**Fairness.** Weak fairness of each worker's loop, each scheduler's loop and the passage of time for each job: both
loops catch every exception and are only left on a signal, and timestamps age by themselves. API calls, failures,
stalls and heartbeats are under no obligation. In `Submission` every call is served by event loop and database; in
`Webhooks` a caller that has begun to announce goes on with it, since the POST has a timeout and the INSERT succeeds
or raises; in `Simulation` the script polls and its deadline comes, while the pipeline is under no obligation at all.
Nothing obliges a worker to take a job in `Webhooks`, or anyone to run the seed script. `EveryJobResolved` needs
nothing stronger: failures are finite in number, and a worker that was killed leaves another one in `resolved`. A
denial of the rate limit is not among the failures of the liveness runs: with unlimited denials a job may be deferred
for ever, in the model as in the code.

**Condition on stalls.** `StallsAfterFetch` leaves out a silence between the claim's UPDATE and FETCH_JOB, two
consecutive awaits. With that stall included the fence fails (`fetch_stalls`). The positive runs show that nothing else
breaks it.

**Several schedulers.** `AttemptsNeverForgotten` and `BuriesOwnReset` are checked with one scheduler. With two, a
late burial can hit a row that moved on (`late_burial`) and can also write an old `attempt_count` over a newer one.

**Redis losses.** `WindowBudget` and `CounterHasTtl` say nothing after a loss of the data, which forgets what was
admitted; `DeniedOnlyWhenSpent` and `DeferredToNextWindow` hold all the same.

## 4. Where code and documentation differ

Each has a run that TLC refutes, and an entry under `findings` in `PROJECT.json` with the quoted lines.

1. `fetch_stalls`: a worker that is silent between its claim and FETCH_JOB until another worker has claimed the job
   reads the *other's* id and passes the fence with it. A retry, deferral, sent or burial is then written on the other
   worker's claim; in the trace the job is marked sent before the other worker has fetched it. If the read comes
   earlier, after the reset, it finds NULL: MARK_SENT matches nothing then, but `worker_id IS NOT DISTINCT FROM NULL`
   matches the pending row, and a worker whose last attempt fails buries a job nobody owns. If it comes later, after
   the other worker has marked the job sent, the row still carries the other's id, and the burial hits a sent job.
   `ClaimsOfOthersKept` is the first of these, `FencedOutcome` excludes all three.
2. `tick_fails`: a tick abandoned between RECOVER_STALE_CLAIMED and `dead_letter` leaves a job at the cap pending, to be
   promoted by the next tick and delivered once more.
3. `late_burial`: with two schedulers, `worker_id IS NULL` is not "the job it has just reset".
4. `counter_without_ttl`: DECR on a key that vanished since the increment leaves a counter at -1 without a TTL. While its
   hour lasts, two further checks repair that, because the second INCR returns 1 and runs EXPIRE (and the window has
   one more to admit than the limit). If the hour ends first, as in the trace, where the check straddles the
   boundary, no check uses that key again: it blocks nobody, but it stays in Redis.

Also seen while modelling, without a run of their own:

- `worker/claim.py:41`: losing a lock or claim race sends a worker to the next tier while the current one has jobs,
  against DESIGN 10.9, "Workers poll `queue:high` first on every iteration, so the next free worker takes it".
- `scheduler/scheduler.py:22`: the promotion lookahead takes a deferred job a few seconds before its window opens; it is
  denied and deferred again, in every tick until the boundary, where DESIGN 10.7 says that such jobs "promote the
  moment it opens".
- `webhooks.py:47`: a `callback_url` that httpx refuses ends the iteration, or the scheduler's recovery loop, after the
  outcome was committed (`Refused` in `Webhooks`). In a recovery pass that is one of the ways into `tick_fails`.
- `scripts/simulate.py:158-159`: between the two requests a job may leave `pending` for `queued`; it is then in neither
  count, and the script reports "books do not balance" although nothing is lost. `AlarmOnlyWhenTorn` shows that two
  requests that see different states, or a list that was cut off, are the only reason for a false alarm;
  `SoundVerdict`, that the opposite mistake takes a job of somebody else, or a replay.
- `scripts/simulate.py:80`: sent and dead are differences to a baseline, deferred (`:152`) is not. A job that was
  deferred or scheduled for later before the script started (`make seed`, a run earlier in the hour) is one too many; it
  makes up for a job of the script that moves from pending to queued between the two requests, and "books balance" is
  printed while that one is under way. `MadeUp` in `SoundVerdict` is this case; without that term TLC refutes it.
- DESIGN 6.2 says the weight "exceeds any representable delivery time", and the comment at `PRIORITY_WEIGHTS` says
  "regardless of send_at". `WeightsDominate` has the exact limit: a `send_at` before 10^10, in the year 2286.
  Requests may carry later ones; separate queues per tier make it harmless.
- The comment in `ratelimit.py` speaks of *permanently* blocking a recipient, while a key only concerns its hour.

## 5. What is proved

Theorems hold for all constants that satisfy the assumptions named in the modules and the conditions below: any sets of
jobs, workers and schedulers, any number of attempts and tiers, any failure budgets; any calls, keys and connections;
any callers, attempts and tries; any finite set of deliveries, any limit, window and bounds.

| theorem | says | under |
|---|---|---|
| `TypeCorrect` | `[]TypeOK` of the pipeline | |
| `OwnerMatches` | `[]OwnerMatchesStatus`: a row has an owner exactly while claimed or sent | |
| `OwnIdFence` | `[]FencesWithOwnId`: the fetched id is the worker's own | no stall before the fetch |
| `Fencing` | `FencedOutcome`: outcomes are written on the own current claim | no stall before the fetch |
| `SentFinal` | `SentIsFinal`: nothing moves a sent row | no stall before the fetch |
| `DeliveriesBounded` | `[]DeliveryBound` | finitely many workers |
| `AttemptsBoundDeliveries` | `[]DeliveriesWithinAttempts` | finitely many workers, one scheduler, no failed tick, no stall before the fetch |
| `BurialsAreOwn` | `BuriesOwnReset` | one scheduler, no stall before the fetch |
| `AttemptsKept` | `AttemptsNeverForgotten` | one scheduler, no stall before the fetch |
| `ContractImplemented` | `ImplementsContract` | one scheduler, no stall before the fetch |
| `LifecycleKeepsContract` | `ImplementsLifecycle => ImplementsContract` | |
| `CapRespected` | `[]AttemptCap` | one scheduler, no failed tick |
| `LifecycleImplemented` | `ImplementsLifecycle` | one scheduler, no failed tick, no stall before the fetch |
| `SeededTypes` | `[]TypeOK` with the seed script beside the pipeline | |
| `SeededFencing`, `SeededSentFinal` | `FencedOutcome` and `SentIsFinal` with seeded rows | no stall before the fetch |
| `SeededDeliveries` | `[]DeliveryBound` with seeded rows | finitely many workers |
| `SeededCap` | `[]AttemptCap` with seeded rows | one scheduler, no failed tick |
| `SimulationTypes` | `[]TypeOK` of the simulation | |
| `SoundReport` | `SoundVerdict`: a reported balance holds, but for jobs of others and replays that make up for it | |
| `AlarmsJustified` | `[]AlarmOnlyWhenTorn` | |
| `RateLimitTypes` | `[]TypeOK` of the rate limit | |
| `Denials` | `DeniedOnlyWhenSpent` | |
| `WithinBudget` | `[]WindowBudget` | a check takes at most one window |
| `CountersExpire` | `[]CounterHasTtl` | a check takes at most one window |
| `Deferral` | `[]DeferredToNextWindow` | a check takes less than a window minus one unit |
| `SubmissionTypes`, `OneJobPerKey`, `LosersRolledBack` | the invariants of `idempotency` | |
| `Refinement` | `ImplementsKeyedCreation` | |
| `WebhookTypes`, `OutcomesAnnounced`, `LogFaithful` | `[]TypeOK`, `[]EveryOutcomeAnnounced`, `[]AuditTrail` of the callbacks | |
| `CallbacksTruthful` | `[]Truthful`: callbacks tell of one end at most, which is the job's | one scheduler, no stall before the fetch |
| `WeightsDominate`, `EarlierFirst` | the order of scores | |

The conditions exclude what section 4 describes: a stall before the fetch breaks the fence (`fetch_stalls`), a failed
tick the cap (`tick_fails`), a second scheduler the burials (`late_burial`). "No stall before the fetch" is `"fetch"
\notin StallPoints` (in `Webhooks` `~StallsBeforeFetch`), "one scheduler" `OneScheduler`, "no failed tick"
`Budget["tick"] = 0`.

**The fence.** `RowMoves` lists everything a step may do to a row: one of the worker's statements, one of the system's, or
nothing; `WorkerMoves` lists how a worker enters and passes the stretch from claim to outcome. `FencesWithOwnId` is the
inductive core. Between claim and fetch the row must be owned *and fresh*, or recovery could take it away before its id
is read: this is where the condition on stalls enters. After the fetch the row may be lost, but then its `worker_id` is
no longer the worker's, and no other worker's claim writes this worker's id into it. `MARK_DEAD_LETTERED` tests only
`worker_id`, so the invariant also has to say that a row in the worker's name is still claimed while the outcome is
outstanding; together with `OwnerMatchesStatus`, which keeps NULL-fenced burials away from sent rows, this gives
`Fencing` and `SentFinal`.

**The recovery path.** While the only scheduler works through the rows it reset, nobody else moves them: they are
pending, unowned, and promotion is the same scheduler's. So each of them still has the status and the attempts the
UPDATE returned when its burial comes (`BurialsAreOwn`). These invariants, the fence and the cap say of every statement
which move of `Lifecycle` it is, which is the whole of the refinement. That `Lifecycle` in turn keeps the client's
contract needs nothing about the pipeline (`LifecycleKeepsContract`).

**The cap.** If no tick is abandoned, every pending row at the cap is in the list of the recovery pass (`CapHeld`), and
the list is empty when the next promotion looks. This must not rest on the fence: after a stall before the fetch a
worker may hold NULL as its id and bury a row of the list, and a client may replay it at once. `Parked` therefore says
only that the rows of the list are pending or dead-lettered, and `Unowned` that such a row has no owner, so that its
burial is never refused. With that, `CapRespected` holds wherever workers stall.

**Deliveries.** `DeliveryBound` is not inductive: a delivery and a reclaim lie apart. `Balanced` counts what is still
outstanding: successful deliveries so far, plus one for each worker that may still deliver the job, are at most the
reclaims plus one while the row is claimed or sent (`Licence`). The claim is the only step that adds a worker, and it
turns an unclaimed row into a claimed one; what takes a claim away either counts a reclaim or is the end of an attempt
that delivered nothing. This needs no fence on the worker's own id, so it holds with any number of schedulers and with
every stall; the set of workers has to be finite to be counted.

`DeliveriesWithinAttempts` turns reclaims into attempts. `Lives` counts burials, and the present life unless the job is
buried. `PaidFor` says that a reclaim has cost an attempt of this life or belongs to an earlier one, each of which had
`MaxAttempts`: RECOVER_STALE_CLAIMED counts the attempt in the statement that takes the claim back, a burial opens room
for a whole life before a replay sets the attempts to zero. An abandoned tick or a foreign burial would break this
account, hence the conditions. A claim still open at `attempt_count < MaxAttempts` covers the delivery `Licence` allows.

**Seeded rows.** A row is inserted where none was, so nothing a process has in hand changes under it. The exception to
`OwnerMatchesStatus` is the seeded sent row, which has no owner: `worker_id IS NULL` matches it, and only the fact that
no process ever comes across it keeps it safe. `SealedUnreached` says so: a row that is absent, or sent without an
owner, is in no queue, no batch, no list of reclaimed rows and no worker's hands, since all of these are filled from
promoted or claimed rows. A seeded claim counts as a `Licence`, and what the script draws as attempts is below the cap.

**The simulation.** The totals of GET /metrics count the rows of the moment they are read. `SoundReport` follows because
sent and dead rows stay so unless they are replayed: what was counted is covered by the rows that are done now and the
jobs replayed since (`SeenIsCovered`). What the baseline counted is `booked` (`BaselineIsBooked`), and each listed
deferred job is counted once. So the sum that reached the total consists of the script's jobs that are settled, of
`MadeUp` and of `replayed`, and what is missing of the first has to be in the others. `AlarmsJustified` needs that
the totals are current while nothing moved (`SeenIsCurrent`); then an untorn poll accounts for every job once nothing is
active, a booked job that was replayed and done again included.

**One job per key.** While a call stands between its key and its commit no other call does, for the same key, and the key
is free. So a commit never replaces a key's owner, and a rejected call finds one. The refinement maps
`Commit` to `Create`, the two answers to `Confirm` and `Refuse`, and everything else to a stutter.

**Webhooks.** Requests under way, travelling and received all carry the number and the status of a committed outcome
(`AllTold`). For the log, each caller's announcement is its own: two callers never announce the same outcome, and a
caller at try n has logged n - 1 rows or is about to log the n-th. This needs no fence: an outcome is new whoever
commits it, so it holds for any schedulers and every stall.

`CallbacksTruthful` needs to know that nothing is committed after an end (`OneEnd`), which is a question of the fences. A
sent row keeps its owner and a dead-lettered one has none. `Fence` says of a worker between its claim and its read that
the row is still its own claim, and of one that has read it that the `worker_id` it read is its own, and that the row,
while it carries that id, is still claimed: what the worker itself has marked sent is out of its hands.
Of the rows a recovery pass still has to bury it says that they are pending and unowned; with a second
scheduler they could be promoted, claimed and sent, or buried already, and NULL would match a dead-lettered row.
An abandoned pass does no harm here: its rows are promoted, and announced when they end.

**The rate limit.** `Undoing(h)` is the set of checks whose DECR is outstanding. While a key exists,
`counter = admitted + |Undoing|` (`KeyOf`), so an admission leaves `admitted <= Limit`. A key outlives its hour by a whole
window and a check does not, so no check meets a missing key that had been counted. `Denials` needs neither: it rests on
`counter <= admitted + |Undoing|` and on the fact that nothing is undone before the budget is spent (`Counted`), both of
which survive a loss of the data.

Only model-checked: liveness (`EveryJobResolved`, `EveryCallEnds`, `EveryRunEnds`), since temporal reasoning about
fairness and ENABLED is outside the proof system's reach. Every invariant and every action property of the passing runs
is stated by a theorem. With seeded rows the two refinements do not hold and are not claimed: a row appears in a status
that `Lifecycle` only reaches by moves.

## 6. Not modelled

- Durations: length of a scheduler tick, backoff delays, idle sleeps, the interval of heartbeats against their
  timeout. No property is about them, except those of the rate limit.
- Clock skew between hosts: workers, Redis and PostgreSQL share one clock in the model.
- A graceful stop: it ends a loop between two iterations and needs no action.
- The replay of a dead-lettered job in `Webhooks`, after which outcomes would follow a final one by design.
- `seed.py --wipe`, its random data and its synthetic log rows; command-line arguments of the scripts.
- The checks of recipient, channel, payload and key, which reject a request before it changes anything; the mock
  receiver, which only logs; the dashboard; settings, logging and connection set-up: no state of the system, or pure
  I/O.
- The rounding of scores: within a tier it could swap jobs whose `send_at` differ by microseconds.

## 7. State of the plan

Done: JobStore, WorkerLoop, SchedulerLoop, Api, NotifyQueue with the failures; DeliveryContract, Lifecycle and both
refinements; RateLimit; Submission and KeyedCreation; Webhooks; Seeder and Simulation; PriorityScore; the theorems of
section 5.

Left:

1. A timed model of heartbeat interval, timeout and lock TTL, for when `OwnerStalls` can happen at all.
2. Replays in `Webhooks`, with outcomes numbered per life of a job.
3. `DeliveriesWithinAttempts` with seeded rows: TLC finds it to hold on the instance of `seeded`; the proof needs the
   steps of `Lifecycle` without `OwnerMatchesStatus`.
