-------------------------------- MODULE Seeder --------------------------------
(***************************************************************************)
(* scripts/seed.py beside the running pipeline: it inserts rows of every   *)
(* status without going through the API, Redis or a worker.  A seeded      *)
(* queued row is in no queue, a claimed one belongs to a worker that never *)
(* was, a retrying one has no attempts behind it, and the dead-letter row  *)
(* is a second statement.  --wipe is left out.                             *)
(***************************************************************************)
EXTENDS NotifyQueue

CONSTANTS
    Seeded,  \* ids the script may hand out
    Ghosts   \* the worker_ids made up by seed_claimed

ASSUME SeederAssumption == Seeded \subseteq Jobs /\ Ghosts \subseteq Workers

VARIABLE letter_due  \* seed_dead_lettered is between its two INSERTs

seederVars == <<vars, letter_due>>

SeederInit ==
    /\ StoreInit /\ SchedulerInit
    /\ pc = [w \in Workers |-> IF w \in Ghosts THEN "dead" ELSE "poll"]
    /\ tier = [w \in Workers |-> 1]
    /\ held = [w \in Workers |-> NULL]
    /\ view = [w \in Workers |-> NoView]
    /\ used = [k \in Kinds |-> 0]
    /\ delivered = [j \in Jobs |-> 0]
    /\ reclaims = [j \in Jobs |-> 0]
    /\ letter_due = {}

\* insert: the defaults are those of a pending row of long ago.
SeededRow == [AbsentRow EXCEPT !.status = "pending", !.due = TRUE, !.aged = TRUE]

Insert(j, row) ==
    /\ jobs[j].status = "absent"
    /\ Update(j, row)
    /\ UNCHANGED <<dead_letter_queue, queue, lock>>

\* The attempts seed_sent and seed_retrying draw stay below max_attempts.
Drawn == 0..(MaxAttempts - 1)

seed_sent(j) ==
    \E n \in Drawn :
        Insert(j, [SeededRow EXCEPT !.status = "sent", !.attempt_count = n])

seed_pending_future(j) == Insert(j, [SeededRow EXCEPT !.due = FALSE])

seed_retrying(j) ==
    \E n \in Drawn \ {0} :
        Insert(j, [SeededRow EXCEPT !.attempt_count = n, !.due = FALSE])

\* A mistake EveryJobResolved has to notice: a status nothing takes up.
Wrongseed_queued(j) == Insert(j, [SeededRow EXCEPT !.status = "failed"])

seed_queued(j) == Insert(j, [SeededRow EXCEPT !.status = "queued"])

seed_claimed(j) ==
    \E g \in Ghosts :
        Insert(j, [SeededRow EXCEPT !.status = "claimed", !.worker_id = g, !.fresh = TRUE])

seed_dead_lettered(j) ==
    /\ Insert(j, [SeededRow EXCEPT !.status = "dead_lettered", !.attempt_count = MaxAttempts])
    /\ letter_due' = letter_due \cup {j}

INSERT_DEAD_LETTER(j) ==
    /\ j \in letter_due
    /\ letter_due' = letter_due \ {j}
    /\ dead_letter_queue' = [dead_letter_queue EXCEPT ![j] = @ + 1]
    /\ UNCHANGED <<jobs, queue, lock>>

Seed(j) ==
    /\ letter_due = {}
    /\ \/ seed_dead_lettered(j)
       \/ /\ \/ seed_sent(j) \/ seed_pending_future(j) \/ seed_retrying(j)
             \/ seed_queued(j) \/ seed_claimed(j)
          /\ UNCHANGED letter_due

SeederStep ==
    /\ \E j \in Seeded : Seed(j) \/ INSERT_DEAD_LETTER(j)
    /\ UNCHANGED <<workerVars, schedulerVars, used, historyVars>>

SeederNext ==
    \/ SeederStep
    \/ Next /\ UNCHANGED letter_due

\* Nobody has to run the script, and it may be killed.
SeederSpec == SeederInit /\ [][SeederNext]_seederVars /\ Fairness

===============================================================================
