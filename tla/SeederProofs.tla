------------------------------ MODULE SeederProofs ------------------------------
(***************************************************************************)
(* Theorems about the pipeline beside the seed script, for any number of   *)
(* jobs, workers and schedulers: rows that did not come through the API    *)
(* and carry states the pipeline never writes change nothing about the     *)
(* fence, the finality of sent, the deliveries and the cap.                *)
(***************************************************************************)
EXTENDS Seeder, OneSchedulerProofs

-----------------------------------------------------------------------------
(* What the script does.                                                   *)

\* What the script inserts: attempts short of the cap unless the row is dead,
\* and an owner exactly on a claimed row; a sent row has none.
Seedling(r) ==
    /\ r \in Row /\ r.status # "absent"
    /\ r.status # "dead_lettered" => r.attempt_count < MaxAttempts
    /\ r.worker_id # NULL <=> r.status = "claimed"

\* Every row a seed_ function builds is one.
LEMMA SeedInserts ==
    ASSUME NEW j \in Jobs, Seed(j)
    PROVE  \E row : Seedling(row) /\ Insert(j, row)
  <1>1. /\ SeededRow \in Row
        /\ SeededRow.status = "pending" /\ SeededRow.attempt_count = 0
        /\ SeededRow.worker_id = NULL
    <2>1. AbsentRow \in Row /\ AbsentRow.attempt_count = 0 /\ AbsentRow.worker_id = NULL
      BY DEF AbsentRow, Row, JobStatus, WorkerId
    <2>. HIDE DEF AbsentRow
    <2> QED
      BY <2>1 DEF SeededRow, Row, JobStatus
  <1>2. MaxAttempts \in Nat /\ 0 < MaxAttempts /\ \A n \in Drawn : n \in Nat /\ n < MaxAttempts
    BY StoreAssumption DEF Drawn
  <1>. HIDE DEF SeededRow
  <1>. USE <1>1, <1>2 DEF Seedling, Row, JobStatus, WorkerId
  <1>3. ASSUME NEW n \in Drawn, Insert(j, [SeededRow EXCEPT !.status = "sent", !.attempt_count = n])
        PROVE  \E row : Seedling(row) /\ Insert(j, row)
    <2>1. Seedling([SeededRow EXCEPT !.status = "sent", !.attempt_count = n])
      OBVIOUS
    <2> QED
      BY ONLY <1>3, <2>1
  <1>4. ASSUME NEW n \in Drawn,
               Insert(j, [SeededRow EXCEPT !.attempt_count = n, !.due = FALSE])
        PROVE  \E row : Seedling(row) /\ Insert(j, row)
    <2>1. Seedling([SeededRow EXCEPT !.attempt_count = n, !.due = FALSE])
      OBVIOUS
    <2> QED
      BY ONLY <1>4, <2>1
  <1>5. ASSUME Insert(j, [SeededRow EXCEPT !.due = FALSE])
        PROVE  \E row : Seedling(row) /\ Insert(j, row)
    <2>1. Seedling([SeededRow EXCEPT !.due = FALSE])
      OBVIOUS
    <2> QED
      BY ONLY <1>5, <2>1
  <1>6. ASSUME Insert(j, [SeededRow EXCEPT !.status = "queued"])
        PROVE  \E row : Seedling(row) /\ Insert(j, row)
    <2>1. Seedling([SeededRow EXCEPT !.status = "queued"])
      OBVIOUS
    <2> QED
      BY ONLY <1>6, <2>1
  <1>7. ASSUME NEW g \in Ghosts,
               Insert(j, [SeededRow EXCEPT !.status = "claimed", !.worker_id = g, !.fresh = TRUE])
        PROVE  \E row : Seedling(row) /\ Insert(j, row)
    <2>1. g \in Workers /\ g # NULL
      BY StoreAssumption, SeederAssumption
    <2>2. Seedling([SeededRow EXCEPT !.status = "claimed", !.worker_id = g, !.fresh = TRUE])
      BY <2>1
    <2> QED
      BY ONLY <1>7, <2>2
  <1>8. ASSUME Insert(j, [SeededRow EXCEPT !.status = "dead_lettered",
                                           !.attempt_count = MaxAttempts])
        PROVE  \E row : Seedling(row) /\ Insert(j, row)
    <2>1. Seedling([SeededRow EXCEPT !.status = "dead_lettered", !.attempt_count = MaxAttempts])
      OBVIOUS
    <2> QED
      BY ONLY <1>8, <2>1
  <1> QED
    BY ONLY Seed(j), <1>3, <1>4, <1>5, <1>6, <1>7, <1>8
       DEF Seed, seed_sent, seed_pending_future, seed_retrying, seed_queued, seed_claimed,
           seed_dead_lettered

\* The script's statements: an INSERT of a row that was not there, or of a
\* dead letter; queues, locks and processes are left alone.
LEMMA SeederMoves ==
    ASSUME TypeOK, SeederStep
    PROVE  /\ UNCHANGED <<queue, lock, workerVars, schedulerVars, used, historyVars>>
           /\ jobs' \in [Jobs -> Row] /\ dead_letter_queue' \in [Jobs -> Nat]
           /\ \A j \in Jobs : \/ jobs'[j] = jobs[j]
                              \/ jobs[j].status = "absent" /\ Seedling(jobs'[j])
  <1>. USE DEF TypeOK, StoreTypeOK
  <1>1. UNCHANGED <<workerVars, schedulerVars, used, historyVars>>
    BY DEF SeederStep
  <1>2. ASSUME NEW k \in Jobs, NEW row, Seedling(row), Insert(k, row)
        PROVE  /\ UNCHANGED <<queue, lock>>
               /\ jobs' \in [Jobs -> Row] /\ dead_letter_queue' \in [Jobs -> Nat]
               /\ \A j \in Jobs : \/ jobs'[j] = jobs[j]
                                  \/ jobs[j].status = "absent" /\ Seedling(jobs'[j])
    <2>1. /\ row \in Row /\ jobs[k].status = "absent" /\ jobs' = [jobs EXCEPT ![k] = row]
          /\ UNCHANGED <<queue, lock, dead_letter_queue>>
      BY <1>2 DEF Insert, Update, Seedling
    <2>2. jobs'[k] = row /\ \A j \in Jobs : j # k => jobs'[j] = jobs[j]
      BY <2>1
    <2> QED
      BY <1>2, <2>1, <2>2
  <1>3. PICK k \in Seeded : Seed(k) \/ INSERT_DEAD_LETTER(k)
    BY DEF SeederStep
  <1>4. k \in Jobs
    BY SeederAssumption
  <1>5. CASE Seed(k)
    BY <1>1, <1>2, <1>4, <1>5, SeedInserts
  <1>6. CASE INSERT_DEAD_LETTER(k)
    BY <1>1, <1>4, <1>6 DEF INSERT_DEAD_LETTER
  <1> QED
    BY <1>3, <1>5, <1>6

\* Every step is one of the pipeline or of the script.
LEMMA SeederSteps == [SeederNext]_seederVars => SeederStep \/ [Next]_vars
  BY DEF SeederNext, seederVars

\* The state before the first step is that of the pipeline, but for the ghosts.
LEMMA SeederStart ==
    ASSUME SeederInit
    PROVE  /\ StoreInit /\ SchedulerInit
           /\ tier = [w \in Workers |-> 1] /\ held = [w \in Workers |-> NULL]
           /\ view = [w \in Workers |-> NoView]
           /\ pc \in [Workers -> {"poll", "dead"}]
           /\ used = [k \in Kinds |-> 0]
           /\ delivered = [j \in Jobs |-> 0] /\ reclaims = [j \in Jobs |-> 0]
  BY DEF SeederInit

\* Every row of the script fits the schema, and no step of the pipeline takes
\* it out of it again (Seeder.insert).
THEOREM SeededTypes == SeederSpec => []TypeOK
  <1>1. SeederInit => TypeOK
    <2>. SUFFICES ASSUME SeederInit
                  PROVE  TypeOK
      OBVIOUS
    <2>1. StoreTypeOK
      <3>1. AbsentRow \in Row /\ NULL \in WorkerId
        BY DEF AbsentRow, Row, JobStatus, WorkerId
      <3> QED
        BY <3>1, SeederStart DEF StoreInit, StoreTypeOK
    <2>2. SchedulerTypeOK
      BY SeederStart DEF SchedulerInit, SchedulerTypeOK, SchedulerPcs
    <2>3. WorkerTypeOK
      <3>1. 1 \in 1..Tiers /\ NoView \in View
        BY StoreAssumption DEF NoView, View, WorkerId
      <3>2. pc \in [Workers -> {"poll", "dead"}]
        BY SeederStart
      <3> QED
        BY <3>1, <3>2, SeederStart DEF WorkerTypeOK, WorkerPcs
    <2> QED
      BY <2>1, <2>2, <2>3, SeederStart DEF TypeOK
  <1>2. TypeOK /\ SeederStep => TypeOK'
    <2>. SUFFICES ASSUME TypeOK, SeederStep
                  PROVE  TypeOK'
      OBVIOUS
    <2>1. StoreTypeOK'
      BY SeederMoves DEF TypeOK, StoreTypeOK
    <2>2. UNCHANGED <<workerVars, schedulerVars, used, historyVars>>
      BY SeederMoves
    <2> QED
      BY <2>1, <2>2
         DEF TypeOK, WorkerTypeOK, SchedulerTypeOK, workerVars, schedulerVars, historyVars
  <1>3. TypeOK /\ [SeederNext]_seederVars => TypeOK'
    BY <1>2, SeederSteps, TypeStep
  <1> QED
    BY <1>1, <1>3, PTL DEF SeederSpec

-----------------------------------------------------------------------------
(* Owners, and rows nobody has in hand.                                    *)

\* A claimed row has an owner, a row that is neither claimed nor sent has none.
\* OwnerMatchesStatus says it of sent rows too, but a seeded one has no owner.
ClaimsOwned == \A j \in Jobs : jobs[j].status = "claimed" => jobs[j].worker_id # NULL

\* Not there yet, or sent without anybody having sent it.
Sealed(j) ==
    \/ jobs[j].status = "absent"
    \/ jobs[j].status = "sent" /\ jobs[j].worker_id = NULL

\* No process has the job in hand or will come across it.
Unreached(j) ==
    /\ j \notin queue
    /\ \A w \in Workers : held[w] # j
    /\ \A s \in Schedulers :
         /\ j \notin batch[s]
         /\ \A r \in reclaimed[s] : r.id # j
         /\ spc[s] = "bury" => cur[s].id # j

SealedUnreached == \A j \in Jobs : Sealed(j) => Unreached(j)

OwnersInv == ClaimsOwned /\ Unowned /\ SealedUnreached

\* What a statement of the pipeline leaves behind fits the owners, and is not
\* sealed.
LEMMA OwnedRows ==
    ASSUME TypeOK, ClaimsOwned, Unowned, [Next]_vars, NEW j \in Jobs
    PROVE  /\ jobs'[j].status = "claimed" => jobs'[j].worker_id # NULL
           /\ jobs'[j].status \notin {"claimed", "sent"} => jobs'[j].worker_id = NULL
           /\ Sealed(j)' => jobs'[j] = jobs[j]
  <1>1. jobs[j] \in Row
    BY DEF TypeOK, StoreTypeOK
  <1>2. /\ jobs[j].status = "claimed" => jobs[j].worker_id # NULL
        /\ jobs[j].status \notin {"claimed", "sent"} => jobs[j].worker_id = NULL
    BY DEF ClaimsOwned, Unowned
  <1>. DEFINE Fit(r) == /\ r.status = "claimed" => r.worker_id # NULL
                        /\ r.status \notin {"claimed", "sent"} => r.worker_id = NULL
                        /\ r.status # "absent"
                        /\ r.status = "sent" => r.worker_id # NULL
  <1>3. CASE BySystem(j)
    <2>. SUFFICES Fit(jobs'[j])
      BY DEF Sealed
    <2>1. CASE \/ \E due \in BOOLEAN : jobs'[j] = INSERT_JOB(due)
               \/ Promotable(jobs[j]) /\ jobs'[j] = PROMOTE_DUE_JOBS(jobs[j])
      BY <1>1, <1>2, <2>1 DEF INSERT_JOB, AbsentRow, Promotable, PROMOTE_DUE_JOBS, Row
    <2>2. CASE \/ jobs'[j] = RECOVER_STALE_CLAIMED(jobs[j])
               \/ \E n \in Nat : jobs'[j] = MARK_DEAD_LETTERED(jobs[j], n)
               \/ jobs'[j] = RETRY_DEAD_LETTERED_JOB(jobs[j])
      BY <1>1, <2>2
         DEF RECOVER_STALE_CLAIMED, MARK_DEAD_LETTERED, RETRY_DEAD_LETTERED_JOB, Disowned, Row
    <2>3. CASE \/ jobs[j].status = "pending" /\ jobs'[j] = [jobs[j] EXCEPT !.due = TRUE]
               \/ jobs[j].status = "queued" /\ jobs'[j] = [jobs[j] EXCEPT !.aged = TRUE]
               \/ jobs[j].status = "claimed" /\ jobs'[j] = [jobs[j] EXCEPT !.fresh = FALSE]
      BY <1>1, <1>2, <2>3 DEF Row
    <2> QED
      BY ONLY <1>3, <2>1, <2>2, <2>3 DEF BySystem
  <1>4. ASSUME NEW w \in Workers, ByWorker(w, j)
        PROVE  Fit(jobs'[j])
    <2>1. CASE Outcome(w, j)
      BY <1>1, <1>2, <2>1
         DEF Outcome, Row, OwnedBy, MARK_SENT, SCHEDULE_RETRY, DEFER_TO_NEXT_WINDOW,
             MARK_DEAD_LETTERED, Disowned
    <2>2. CASE jobs'[j] = CLAIM_QUEUED_JOB(jobs[j], w)
      BY <1>1, <2>2, StoreAssumption DEF Row, CLAIM_QUEUED_JOB
    <2>3. CASE OwnedBy(jobs[j], w) /\ jobs'[j] = UPDATE_HEARTBEAT(jobs[j])
      BY <1>1, <1>2, <2>3 DEF Row, UPDATE_HEARTBEAT, OwnedBy
    <2> QED
      BY <1>4, <2>1, <2>2, <2>3 DEF ByWorker
  <1> QED
    BY <1>2, <1>3, <1>4, RowMoves DEF Sealed

\* The processes only come across rows that were promoted, or are claimed.
LEMMA UnreachedStep ==
    ASSUME TypeOK, NEW j \in Jobs, Sealed(j), Unreached(j), [Next]_vars
    PROVE  Unreached(j)'
  <1>. USE DEF Unreached
  <1>1. NULL # j /\ jobs[j].status \notin {"pending", "queued", "claimed"}
    BY StoreAssumption DEF Sealed
  <1>2. ASSUME UNCHANGED schedulerVars, queue' \subseteq queue,
               \A w \in Workers : held'[w] \in {held[w], NULL} \cup queue
        PROVE  Unreached(j)'
    BY <1>1, <1>2 DEF schedulerVars
  <1>3. ASSUME NEW w \in Workers, WorkerProgress(w) \/ WorkerFailure(w) \/ HeartbeatTask(w)
        PROVE  Unreached(j)'
    <2>1. \A v \in Workers : v # w => held'[v] = held[v]
      BY <1>3, OthersStay DEF TypeOK
    <2>2. UNCHANGED schedulerVars
      BY <1>3, SchedulerVarsStay
    <2>3. queue' \subseteq queue /\ held'[w] \in {held[w], NULL} \cup queue
      <3>. USE DEF TypeOK, WorkerTypeOK
      <3>1. CASE ClaimStep(w)
        BY <3>1
           DEF ClaimStep, PollEmpty, PopMin, Waiting, AcquireLock, LockRefused, Claim,
               ClaimRefused, UnlockRefused, Goto, NextTier, Drop, storeVars
      <3>2. CASE OutcomeStep(w)
        BY <3>2
           DEF OutcomeStep, HandleSuccess, ScheduleRetry, DeadLetter, DeferJob, OutcomeLost,
               ReleaseLock, ReleaseDeferred, FireWebhook, Goto, EndIteration, Drop, storeVars
      <3>3. CASE FetchJob(w) \/ RateLimited(w) \/ Deliver(w) \/ DeliveryFails(w)
                 \/ IterationFails(w) \/ Crash(w)
        BY <3>3
           DEF FetchJob, RateLimited, Deliver, DeliveryFails, IterationFails, Crash, Goto,
               EndIteration, Drop, storeVars
      <3>4. CASE HeartbeatTask(w)
        BY <3>4 DEF HeartbeatTask, Heartbeat, workerVars
      <3> QED
        BY <1>3, <3>1, <3>2, <3>3, <3>4 DEF WorkerProgress, WorkerFailure, DeliverOnce
    <2> QED
      BY <1>2, <2>1, <2>2, <2>3
  <1>4. ASSUME NEW s \in Schedulers, SchedulerProgress(s) \/ SchedulerFailure(s)
        PROVE  Unreached(j)'
    <2>. USE DEF TypeOK, SchedulerTypeOK
    <2>1. held' = held
      BY <1>4 DEF SchedulerProgress, SchedulerFailure, workerVars
    <2>2. CASE PromoteDueJobs(s) \/ SelectStaleQueued(s)
      <3>1. /\ UNCHANGED <<queue, reclaimed, cur>>
            /\ \E B : batch' = [batch EXCEPT ![s] = B] /\ j \notin B
        <4>1. ASSUME NEW found, NEW B \in Limited(found), j \notin found
              PROVE  j \notin B
          BY <4>1 DEF Limited
        <4>2. j \notin {k \in Jobs : Promotable(jobs[k])} \cup {k \in Jobs : StaleQueued(jobs[k])}
          BY <1>1 DEF Promotable, StaleQueued
        <4> QED
          BY <2>2, <4>1, <4>2 DEF PromoteDueJobs, SelectStaleQueued, storeVars
      <3>2. \A t \in Schedulers : spc'[t] = "bury" => spc[t] = "bury"
        BY <2>2 DEF PromoteDueJobs, SelectStaleQueued
      <3> QED
        BY <2>1, <3>1, <3>2
    <2>3. CASE EnqueuePromoted(s) \/ EnqueueStale(s)
      BY <2>1, <2>3 DEF EnqueuePromoted, EnqueueStale, AddToQueues
    <2>4. CASE RecoverStaleClaimed(s)
      <3>. DEFINE rows == {[id |-> k, attempt_count |-> jobs[k].attempt_count + 1] : k \in StaleClaims}
      <3>1. /\ UNCHANGED <<queue, batch, cur>>
            /\ reclaimed' = [reclaimed EXCEPT ![s] = rows]
            /\ spc' = [spc EXCEPT ![s] = NextRow(rows)]
        BY <2>4 DEF RecoverStaleClaimed
      <3>2. j \notin StaleClaims
        BY <1>1 DEF StaleClaims, StaleClaim
      <3>3. \A r \in rows : r.id # j
        BY <3>2
      <3>. HIDE DEF rows
      <3> QED
        BY <2>1, <3>1, <3>3 DEF NextRow
    <2>5. CASE UnlockReclaimed(s)
      <3>1. PICK row \in reclaimed[s] :
              LET rest == reclaimed[s] \ {row}
              IN  /\ DeleteLock(row.id)
                  /\ reclaimed' = [reclaimed EXCEPT ![s] = rest]
                  /\ spc' = [spc EXCEPT ![s] = IF AtCap(row) THEN "bury" ELSE NextRow(rest)]
                  /\ cur' = [cur EXCEPT ![s] = IF AtCap(row) THEN row ELSE NULL]
        BY <2>5 DEF UnlockReclaimed
      <3>2. UNCHANGED <<queue, batch>>
        BY <2>5 DEF UnlockReclaimed
      <3>3. spc'[s] = "bury" => cur'[s] = row
        BY <3>1 DEF NextRow
      <3> QED
        BY <2>1, <3>1, <3>2, <3>3
    <2>6. CASE BuryReclaimed(s) \/ BuryRefused(s) \/ UnlockBuried(s)
      BY <2>1, <2>6 DEF BuryReclaimed, BuryRefused, UnlockBuried, NextRow, storeVars
    <2>7. CASE TickFails(s)
      BY <2>1, <2>7 DEF TickFails, storeVars
    <2> QED
      BY <1>4, <2>2, <2>3, <2>4, <2>5, <2>6, <2>7
         DEF SchedulerProgress, SchedulerFailure, Reclaim
  <1>5. CASE Outage \/ \E k \in Jobs : ApiCall(k) \/ PassageOfTime(k)
    <2>1. UNCHANGED <<schedulerVars, held>> /\ queue' \subseteq queue
      BY <1>5
         DEF Outage, ApiCall, PassageOfTime, CreateJob, RetryDeadLettered, BecomesDue,
             QueuedTooLong, ClaimAbandoned, HeartbeatFallsBehind, LockExpires, RedisLosesData,
             OwnerStalls, workerVars
    <2> QED
      BY <1>2, <2>1
  <1>6. CASE UNCHANGED vars
    BY <1>2, <1>6 DEF vars, storeVars, workerVars
  <1> QED
    BY <1>3, <1>4, <1>5, <1>6 DEF Next

\* The pipeline keeps the owners and leaves sealed rows alone.
LEMMA OwnersStep ==
    ASSUME TypeOK, OwnersInv, [Next]_vars
    PROVE  OwnersInv'
  <1>1. ClaimsOwned' /\ Unowned'
    BY OwnedRows DEF OwnersInv, ClaimsOwned, Unowned
  <1>2. \A j \in Jobs : Sealed(j)' => Sealed(j)
    BY OwnedRows DEF OwnersInv, Sealed
  <1>3. SealedUnreached'
    BY <1>2, UnreachedStep DEF OwnersInv, SealedUnreached
  <1> QED
    BY <1>1, <1>3 DEF OwnersInv

\* So does the script: what it inserts was not there.
LEMMA OwnersSeeded ==
    ASSUME TypeOK, OwnersInv, SeederStep
    PROVE  OwnersInv'
  <1>1. \A j \in Jobs : Unreached(j)' <=> Unreached(j)
    BY SeederMoves DEF Unreached, workerVars, schedulerVars
  <1>2. \A j \in Jobs : Sealed(j)' => Sealed(j)
    BY SeederMoves DEF Sealed
  <1>3. SealedUnreached'
    BY <1>1, <1>2 DEF OwnersInv, SealedUnreached
  <1>4. ClaimsOwned' /\ Unowned'
    BY SeederMoves DEF OwnersInv, ClaimsOwned, Unowned, Seedling
  <1> QED
    BY <1>3, <1>4 DEF OwnersInv

\* So they hold throughout.
LEMMA OwnersAlways == SeederSpec => []OwnersInv
  <1>1. SeederInit => OwnersInv
    <2>. SUFFICES ASSUME SeederInit
                  PROVE  OwnersInv
      OBVIOUS
    <2>1. \A j \in Jobs : jobs[j].status = "absent" /\ jobs[j].worker_id = NULL
      BY SeederStart DEF StoreInit, AbsentRow
    <2>2. \A j \in Jobs : Unreached(j)
      BY SeederStart, StoreAssumption DEF StoreInit, SchedulerInit, Unreached
    <2> QED
      BY <2>1, <2>2 DEF OwnersInv, ClaimsOwned, Unowned, SealedUnreached
  <1>2. TypeOK /\ OwnersInv /\ [SeederNext]_seederVars => OwnersInv'
    BY SeederSteps, OwnersStep, OwnersSeeded
  <1> QED
    BY <1>1, <1>2, SeededTypes, PTL DEF SeederSpec

-----------------------------------------------------------------------------
(* The theorems of the pipeline, with the script beside it.                *)

\* A worker that has claimed has a row that is there: the script cannot put
\* another under it.
LEMMA SeededOwnIds ==
    ASSUME "fetch" \notin StallPoints
    PROVE  SeederSpec => []FencesWithOwnId
  <1>1. SeederInit => FencesWithOwnId
    BY SeederStart DEF FencesWithOwnId, OutcomePcs
  <1>2. ASSUME TypeOK, FencesWithOwnId, SeederStep
        PROVE  FencesWithOwnId'
    <2>1. UNCHANGED <<pc, held, view>>
      BY <1>2, SeederMoves DEF workerVars
    <2>. SUFFICES ASSUME NEW w \in Workers, pc[w] \in Inside
                  PROVE  /\ pc[w] = "fetch"
                               => OwnedBy(jobs'[held[w]], w) /\ jobs'[held[w]].fresh
                         /\ pc[w] \in {"deliver"} \cup OutcomePcs => view[w].worker_id = w
                         /\ jobs'[held[w]].worker_id = w => jobs'[held[w]].status = "claimed"
      BY <2>1 DEF FencesWithOwnId, Inside, OwnedBy
    <2>2. held[w] \in Jobs /\ w # NULL
      BY <1>2, StoreAssumption DEF TypeOK, WorkerTypeOK, Inside, OutcomePcs
    <2>3. \/ jobs'[held[w]] = jobs[held[w]]
          \/ jobs[held[w]].status = "absent" /\ Seedling(jobs'[held[w]])
      BY <1>2, <2>2, SeederMoves
    <2> QED
      BY <1>2, <2>2, <2>3 DEF FencesWithOwnId, Inside, OwnedBy, Seedling
  <1>3. TypeOK /\ FencesWithOwnId /\ [SeederNext]_seederVars => FencesWithOwnId'
    BY <1>2, SeederSteps, FencesWithOwnIdStep
  <1> QED
    BY <1>1, <1>3, SeededTypes, PTL DEF SeederSpec

\* Seeded rows, the claims of ghosts included, do not get in the way of the
\* ownership fence (handle_success, handle_failure, defer_job, dead_letter).
THEOREM SeededFencing ==
    ASSUME "fetch" \notin StallPoints
    PROVE  SeederSpec => FencedOutcome
  <1>1. ASSUME TypeOK, FencesWithOwnId, [SeederNext]_seederVars
        PROVE  [\A w \in Workers :
                   (pc[w] \in OutcomePcs /\ pc'[w] # pc[w] /\ jobs' # jobs)
                       => OwnedBy(jobs[held[w]], w)]_vars
    <2>1. CASE SeederStep
      <3>1. pc' = pc
        BY <1>1, <2>1, SeederMoves DEF workerVars
      <3> QED
        BY <3>1
    <2>2. CASE [Next]_vars
      BY <1>1, <2>2, FencedOutcomeStep
    <2> QED
      BY <1>1, <2>1, <2>2, SeederSteps
  <1> QED
    BY <1>1, SeededTypes, SeededOwnIds, PTL DEF SeederSpec, FencedOutcome

\* A burial without an owner hits no claimed and no sent row, seeded ones
\* included.
LEMMA SealedUnburied ==
    ASSUME TypeOK, OwnersInv
    PROVE  BurialsUnclaimed
  BY DEF TypeOK, SchedulerTypeOK, ReclaimedRow, OwnersInv, ClaimsOwned, SealedUnreached, Sealed,
         Unreached, BurialsUnclaimed

\* A row inserted as sent, without a worker_id and without a delivery, stays
\* sent as well: no process ever has it in hand (seed_sent, dead_letter).
THEOREM SeededSentFinal ==
    ASSUME "fetch" \notin StallPoints
    PROVE  SeederSpec => SentIsFinal
  <1>1. ASSUME TypeOK, OwnersInv, FencesWithOwnId, [Next]_vars,
               NEW j \in Jobs, jobs[j].status = "sent"
        PROVE  jobs'[j].status = "sent"
    <2>1. BySystem(j) => FALSE
      BY <1>1, SealedUnburied DEF BySystem, Promotable, StaleClaim, HeldUnder, BurialsUnclaimed
    <2>2. ASSUME NEW w \in Workers, ByWorker(w, j)
          PROVE  FALSE
      <3>1. Outcome(w, j) /\ held[w] = j
        BY <1>1, <2>2 DEF ByWorker, Claimable, OwnedBy
      <3>2. view[w].worker_id = w /\ (jobs[j].worker_id = w => jobs[j].status = "claimed")
        BY <1>1, <3>1 DEF Outcome, FencesWithOwnId, OutcomePcs
      <3> QED
        BY <1>1, <3>1, <3>2 DEF Outcome, OwnedBy, HeldUnder
    <2> QED
      BY <1>1, <2>1, <2>2, RowMoves
  <1>2. ASSUME TypeOK, SeederStep, NEW j \in Jobs, jobs[j].status = "sent"
        PROVE  jobs'[j].status = "sent"
    BY <1>2, SeederMoves
  <1>3. TypeOK /\ OwnersInv /\ FencesWithOwnId /\ [SeederNext]_seederVars
          => [\A j \in Jobs : jobs[j].status = "sent" => jobs'[j].status = "sent"]_vars
    BY <1>1, <1>2, SeederSteps
  <1> QED
    BY <1>3, SeededTypes, OwnersAlways, SeededOwnIds, PTL DEF SeederSpec, SentIsFinal

\* A seeded claim may be delivered once it is taken back, a seeded sent row
\* never: the bound on deliveries is that of jobs that came through the API
\* (seed_claimed, seed_sent).
THEOREM SeededDeliveries ==
    ASSUME IsFiniteSet(Workers)
    PROVE  SeederSpec => []DeliveryBound
  <1>1. SeederInit => Balanced
    <2>. SUFFICES ASSUME SeederInit, NEW j \in Jobs
                  PROVE  delivered[j] + Cardinality(InFlight(j)) <= reclaims[j] + Licence(j)
      BY DEF Balanced
    <2>1. InFlight(j) = {} /\ delivered[j] = 0 /\ reclaims[j] = 0
      BY SeederStart DEF InFlight, OnItsWay
    <2> QED
      BY <2>1, FS_EmptySet DEF Licence
  <1>2. ASSUME TypeOK, Balanced, SeederStep
        PROVE  Balanced'
    <2>. SUFFICES ASSUME NEW j \in Jobs
                  PROVE  delivered'[j] + Cardinality(InFlight(j)') <= reclaims'[j] + Licence(j)'
      BY DEF Balanced
    <2>1. UNCHANGED <<pc, held, delivered, reclaims>>
      BY <1>2, SeederMoves DEF workerVars, historyVars
    <2>2. InFlight(j)' = InFlight(j)
      BY <2>1 DEF InFlight, OnItsWay
    <2>3. Licence(j) \in {0, 1} /\ Licence(j)' \in {0, 1} /\ Licence(j)' >= Licence(j)
      BY <1>2, SeederMoves DEF Licence
    <2>4. /\ delivered[j] \in Nat /\ reclaims[j] \in Nat /\ Cardinality(InFlight(j)) \in Nat
          /\ delivered[j] + Cardinality(InFlight(j)) <= reclaims[j] + Licence(j)
      BY <1>2, InFlightFinite DEF TypeOK, Balanced
    <2> QED
      BY <2>1, <2>2, <2>3, <2>4
  <1>3. TypeOK /\ TypeOK' /\ OwnersInv /\ Balanced /\ [SeederNext]_seederVars => Balanced'
    BY <1>2, SeederSteps, SealedUnburied, BalancedStep
  <1>4. TypeOK /\ Balanced => DeliveryBound
    BY PaidDeliveries DEF DeliveryBound, Licence
  <1> QED
    BY <1>1, <1>3, <1>4, SeededTypes, OwnersAlways, PTL DEF SeederSpec

\* What the script draws is below the cap, so that with one scheduler whose
\* ticks do not fail no seeded job comes to a claim without an attempt left
\* either (seed_retrying, recover_stale_claimed_jobs).
THEOREM SeededCap ==
    ASSUME OneScheduler, Budget["tick"] = 0
    PROVE  SeederSpec => []AttemptCap
  <1>1. SeederInit => CapInv
    <2>. SUFFICES ASSUME SeederInit
                  PROVE  CapInv
      OBVIOUS
    <2>1. \A j \in Jobs : jobs[j].status = "absent"
      BY SeederStart DEF StoreInit, AbsentRow
    <2> QED
      BY <2>1, SeederStart DEF SchedulerInit, CapInv, Parked, AttemptCap, CapHeld, InHand
  <1>2. ASSUME TypeOK, CapInv, SeederStep
        PROVE  CapInv'
    <2>1. /\ UNCHANGED <<spc, reclaimed, cur>>
          /\ \A s \in Schedulers : InHand(s)' = InHand(s)
      BY <1>2, SeederMoves DEF schedulerVars, InHand
    <2>2. \A s \in Schedulers : \A r \in InHand(s) : r.id \in Jobs
      BY <1>2 DEF TypeOK, SchedulerTypeOK, InHand, ReclaimedRow
    <2>3. \A s \in Schedulers : \A r \in InHand(s) : jobs'[r.id] = jobs[r.id]
      BY <1>2, <2>2, SeederMoves DEF CapInv, Parked
    <2>4. Parked'
      BY <1>2, <2>1, <2>3 DEF CapInv, Parked
    <2>5. AttemptCap'
      BY <1>2, SeederMoves DEF CapInv, AttemptCap, Seedling
    <2>6. CapHeld'
      <3>. SUFFICES ASSUME NEW j \in Jobs,
                           jobs'[j].status = "pending", jobs'[j].attempt_count >= MaxAttempts
                    PROVE  \E s \in Schedulers : \E r \in InHand(s) : r.id = j /\ AtCap(r)
        BY <2>1 DEF CapHeld
      <3>1. MaxAttempts \in Nat /\ jobs'[j].attempt_count \in Nat
        BY <1>2, SeederMoves, StoreAssumption DEF Row
      <3>2. jobs'[j] = jobs[j]
        BY <1>2, <3>1, SeederMoves DEF Seedling
      <3> QED
        BY <1>2, <3>2 DEF CapInv, CapHeld
    <2> QED
      BY <2>4, <2>5, <2>6 DEF CapInv
  <1>3. TypeOK /\ OwnersInv /\ CapInv /\ [SeederNext]_seederVars => CapInv'
    BY <1>2, SeederSteps, CapStep DEF OwnersInv
  <1>4. CapInv => AttemptCap
    BY DEF CapInv
  <1> QED
    BY <1>1, <1>3, <1>4, SeededTypes, OwnersAlways, PTL DEF SeederSpec

===============================================================================
