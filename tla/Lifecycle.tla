------------------------------- MODULE Lifecycle -------------------------------
(***************************************************************************)
(* A job as GET /jobs/{id}/status shows it: its status and its             *)
(* attempt_count, and how they may move (DESIGN 5).  Who moves them, the   *)
(* queues, the locks and the timestamps are hidden; a promotion and a      *)
(* recovery take several jobs at once.  It stands between the pipeline,    *)
(* which implements it, and DeliveryContract, which it implements.         *)
(***************************************************************************)
EXTENDS Naturals

CONSTANTS Jobs, MaxAttempts

ASSUME LifecycleAssumption == MaxAttempts \in Nat \ {0}

VARIABLES
    row,     \* the status and the attempt_count of a job
    letters  \* number of dead_letter_queue rows of a job

lifecycleVars == <<row, letters>>

Statuses == {"absent", "pending", "queued", "claimed", "sent", "dead_lettered"}

Answer(status, attempt) == [status |-> status, attempt_count |-> attempt]

RowTypeOK ==
    /\ row \in [Jobs -> [status : Statuses, attempt_count : Nat]]
    /\ letters \in [Jobs -> Nat]

Init ==
    /\ row = [j \in Jobs |-> Answer("absent", 0)]
    /\ letters = [j \in Jobs |-> 0]

\* One job's row changes; nothing is written to the dead-letter queue.
Move(j, from, to, attempt) ==
    /\ row[j].status = from
    /\ row' = [row EXCEPT ![j] = Answer(to, attempt)]
    /\ UNCHANGED letters

Accept(j) == Move(j, "absent", "pending", 0)

\* A job without attempts left is never offered to a worker again.
Promote(B) ==
    /\ \A j \in B : row[j].status = "pending" /\ row[j].attempt_count < MaxAttempts
    /\ row' = [j \in Jobs |-> IF j \in B THEN Answer("queued", row[j].attempt_count) ELSE row[j]]
    /\ UNCHANGED letters

Claim(j) == Move(j, "queued", "claimed", row[j].attempt_count)

Send(j) == Move(j, "claimed", "sent", row[j].attempt_count)

\* A mistake the type invariants have to notice: a status nothing takes up.
WrongRetry(j) == Move(j, "claimed", "failed", row[j].attempt_count + 1)

Retry(j) ==
    /\ row[j].attempt_count + 1 < MaxAttempts
    /\ Move(j, "claimed", "pending", row[j].attempt_count + 1)

Defer(j) == Move(j, "claimed", "pending", row[j].attempt_count)

\* Counts an attempt, also the last one: those jobs wait for their burial.
Reclaim(B) ==
    /\ \A j \in B : row[j].status = "claimed"
    /\ row' = [j \in Jobs |-> IF j \in B THEN Answer("pending", row[j].attempt_count + 1)
                                         ELSE row[j]]
    /\ UNCHANGED letters

\* By the worker that failed for the last time, or by the recovery path.
Bury(j, attempt) ==
    /\ \/ row[j].status = "claimed" /\ attempt = row[j].attempt_count + 1
       \/ row[j].status = "pending" /\ attempt = row[j].attempt_count
    /\ attempt >= MaxAttempts
    /\ row' = [row EXCEPT ![j] = Answer("dead_lettered", attempt)]
    /\ letters' = [letters EXCEPT ![j] = @ + 1]

Replay(j) == Move(j, "dead_lettered", "pending", 0)

JobStep(j) ==
    \/ Accept(j) \/ Claim(j) \/ Send(j) \/ Retry(j) \/ Defer(j) \/ Replay(j)
    \/ \E extra \in {0, 1} : Bury(j, row[j].attempt_count + extra)

Next ==
    \/ \E j \in Jobs : JobStep(j)
    \/ \E B \in SUBSET Jobs : Promote(B) \/ Reclaim(B)

Spec == Init /\ [][Next]_lifecycleVars

===============================================================================
