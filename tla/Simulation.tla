------------------------------ MODULE Simulation ------------------------------
(***************************************************************************)
(* scripts/simulate.py: it submits jobs, polls until they are drained and  *)
(* checks that the books balance.  The pipeline it drives is Lifecycle:    *)
(* what the status endpoint may show, in any order and at any speed.       *)
(*                                                                         *)
(* A poll is two requests, GET /metrics and then GET /jobs?status=pending, *)
(* and the pipeline goes on in between.  The script neither empties the    *)
(* database nor has it to itself: other jobs may be there in any status    *)
(* when it starts (make seed, an earlier run), more may be submitted at    *)
(* any time, and anybody may replay a dead-lettered job.                   *)
(***************************************************************************)
EXTENDS Lifecycle, FiniteSets

CONSTANTS
    Spread, Pair, Burst,  \* the jobs of the delivery, idempotency and rate-limit tests
    ListLimit,            \* the `limit' of GET /jobs
    Replayable,           \* bound: the jobs that are replayed
    LetterBound           \* bound: a job with as many dead-letter rows is not

Own == Spread \cup Pair \cup Burst

Foreign == Jobs \ Own

ASSUME SimulationAssumption ==
    Own \subseteq Jobs /\ IsFiniteSet(Jobs) /\ ListLimit \in Nat /\ LetterBound \in Nat

VARIABLES
    deferred,  \* pending jobs with a send_at beyond DEFERRAL_THRESHOLD
    pc,        \* where the script stands, or how it ended
    baseline,  \* the first answer of GET /metrics
    seen,      \* the last answer of GET /metrics
    late,      \* time.monotonic() >= deadline
    torn,      \* history: a row moved between the requests of the last poll,
               \* or its list was cut short
    booked,    \* history: the jobs the baseline counts as sent or dead
    replayed   \* history: the jobs replayed since the last GET /metrics

scriptVars == <<pc, baseline, seen, late>>

historyVars == <<torn, booked, replayed>>

simulationVars == <<lifecycleVars, deferred, scriptVars, historyVars>>

Ended == {"balanced", "imbalance", "timeout", "idle", "aborted"}

With(statuses) == {j \in Jobs : row[j].status \in statuses}

Counts == [sent |-> Cardinality(With({"sent"})),
           dead |-> Cardinality(With({"dead_lettered"})),
           active |-> Cardinality(With({"queued", "claimed"}))]

\* A mistake AlarmOnlyWhenTorn has to notice: claimed jobs are not active.
Wrongmetrics == [Counts EXCEPT !.active = Cardinality(With({"queued"}))]

\* GET /metrics; active is queued + claimed.
metrics == Counts

\* The rows there may be before the script starts.
RowsBefore ==
    {r \in [status : Statuses, attempt_count : 0..MaxAttempts] :
        /\ r.status = "absent" => r.attempt_count = 0
        /\ r.status = "dead_lettered" => r.attempt_count = MaxAttempts
        /\ r.status \in {"queued", "claimed", "sent"} => r.attempt_count < MaxAttempts}

SimulationInit ==
    /\ row \in {f \in [Jobs -> RowsBefore] : \A j \in Own : f[j] = Answer("absent", 0)}
    /\ letters = [j \in Jobs |-> IF row[j].status = "dead_lettered" THEN 1 ELSE 0]
    /\ deferred \in SUBSET {j \in With({"pending"}) : row[j].attempt_count < MaxAttempts}
    /\ pc = "baseline"
    /\ baseline = [sent |-> 0, dead |-> 0, active |-> 0]
    /\ seen = baseline
    /\ late = FALSE
    /\ torn = FALSE
    /\ booked = {}
    /\ replayed = {}

-----------------------------------------------------------------------------
(* The pipeline, and other clients of the API.                             *)

\* A job joins the pending ones with a send_at that may be far off.
MayBeFarOff(j) == deferred' \in {deferred, deferred \cup {j}}

PipelineStep ==
    /\ \/ \E j \in Jobs : Defer(j) /\ MayBeFarOff(j)
       \/ /\ \/ \E j \in Jobs : Claim(j) \/ Send(j) \/ Retry(j)
             \/ \E j \in Jobs, n \in {0, 1} : Bury(j, row[j].attempt_count + n)
             \/ \E B \in SUBSET (Jobs \ deferred) : Promote(B)
             \/ \E B \in SUBSET Jobs : Reclaim(B)
          /\ UNCHANGED deferred
    /\ torn' = (torn \/ row' # row)
    /\ UNCHANGED <<scriptVars, booked, replayed>>

HourNears(j) ==
    /\ j \in deferred
    /\ deferred' = deferred \ {j}
    /\ torn' = TRUE
    /\ UNCHANGED <<lifecycleVars, scriptVars, booked, replayed>>

\* POST /jobs by somebody else.
OtherSubmits(j) ==
    /\ j \in Foreign
    /\ Accept(j)
    /\ MayBeFarOff(j)
    /\ torn' = TRUE
    /\ UNCHANGED <<scriptVars, booked, replayed>>

\* POST /jobs/{id}/retry, of the script's jobs too.
OtherReplays(j) ==
    /\ j \in Replayable /\ letters[j] < LetterBound
    /\ Replay(j)
    /\ replayed' = replayed \cup {j}
    /\ torn' = TRUE
    /\ UNCHANGED <<deferred, scriptVars, booked>>

\* Bound: what comes after the end of the script is not looked at.
WorldStep ==
    /\ pc \notin Ended
    /\ PipelineStep \/ \E j \in Jobs : HourNears(j) \/ OtherSubmits(j) \/ OtherReplays(j)

-----------------------------------------------------------------------------
(* The script.                                                             *)

Goto(label) == pc' = label

ReadBaseline ==
    /\ pc = "baseline"
    /\ baseline' = metrics
    /\ booked' = With({"sent", "dead_lettered"})
    /\ Goto("delivery")
    /\ UNCHANGED <<lifecycleVars, deferred, seen, late, torn, replayed>>

\* One POST /jobs after the other; anything but 201 ends the script.
Submit(here, batch, next) ==
    /\ pc = here
    /\ \/ (\E j \in batch : Accept(j)) /\ UNCHANGED pc
       \/ batch \cap With({"absent"}) = {} /\ Goto(next) /\ UNCHANGED lifecycleVars
    /\ UNCHANGED <<deferred, baseline, seen, late, historyVars>>

\* The second call with the key is answered 409 and inserts nothing.
SubmitAgain ==
    /\ pc = "again"
    /\ Goto("burst")
    /\ UNCHANGED <<lifecycleVars, deferred, baseline, seen, late, historyVars>>

StartWatching ==
    /\ pc = "start"
    /\ Goto(IF Own = {} THEN "idle" ELSE "watch")
    /\ UNCHANGED <<lifecycleVars, deferred, baseline, seen, late, historyVars>>

ReadMetrics ==
    /\ pc = "watch"
    /\ seen' = metrics
    /\ torn' = FALSE
    /\ replayed' = {}
    /\ Goto("list")
    /\ UNCHANGED <<lifecycleVars, deferred, baseline, late, booked>>

\* ORDER BY updated_at LIMIT n: which rows are cut off is left open.
Listed(found) ==
    {L \in SUBSET found :
        Cardinality(L) = IF Cardinality(found) < ListLimit THEN Cardinality(found) ELSE ListLimit}

\* A mistake SoundVerdict has to notice: the totals since the database exists.
WrongAccounted(pending) == seen.sent + seen.dead + Cardinality(pending \cap deferred)

\* Sent and dead since the baseline; deferred is whatever is, whoever
\* submitted it and however long ago.
Accounted(pending) ==
    (seen.sent - baseline.sent) + (seen.dead - baseline.dead) + Cardinality(pending \cap deferred)

\* A mistake EveryRunEnds has to notice: the loop has no deadline.
WrongTimedOut == FALSE

TimedOut == late

AfterPoll(pending) ==
    IF seen.active + Cardinality(pending \ deferred) = 0
      THEN IF Accounted(pending) < Cardinality(Own) THEN "imbalance" ELSE "balanced"
      ELSE IF TimedOut THEN "timeout" ELSE "watch"

ListPending ==
    /\ pc = "list"
    /\ \E pending \in Listed(With({"pending"})) :
         /\ Goto(AfterPoll(pending))
         /\ torn' = (torn \/ pending # With({"pending"}))
    /\ UNCHANGED <<lifecycleVars, deferred, baseline, seen, late, booked, replayed>>

DeadlinePasses ==
    /\ pc \in {"watch", "list"} /\ ~late
    /\ late' = TRUE
    /\ UNCHANGED <<lifecycleVars, deferred, pc, baseline, seen, historyVars>>

\* A request raised, or answered with an unexpected status: the script exits.
Abort ==
    /\ pc \notin Ended
    /\ Goto("aborted")
    /\ UNCHANGED <<lifecycleVars, deferred, baseline, seen, late, historyVars>>

ScriptStep ==
    \/ ReadBaseline
    \/ Submit("delivery", Spread, "pair") \/ Submit("pair", Pair, "again") \/ SubmitAgain
    \/ Submit("burst", Burst, "start") \/ StartWatching
    \/ ReadMetrics \/ ListPending

SimulationNext == ScriptStep \/ Abort \/ DeadlinePasses \/ WorldStep

\* The script polls on and the clock runs; the pipeline may stop for ever.
SimulationSpec ==
    /\ SimulationInit /\ [][SimulationNext]_simulationVars
    /\ WF_simulationVars(ScriptStep) /\ WF_simulationVars(DeadlinePasses)

-----------------------------------------------------------------------------
(* Properties.                                                             *)

TypeOK ==
    /\ RowTypeOK
    /\ deferred \subseteq With({"pending"})
    /\ pc \in {"baseline", "delivery", "pair", "again", "burst", "start", "watch", "list"} \cup Ended
    /\ {baseline, seen} \subseteq [sent : Nat, dead : Nat, active : Nat]
    /\ late \in BOOLEAN /\ torn \in BOOLEAN
    /\ booked \subseteq Foreign /\ replayed \subseteq Jobs

Settled(j) == row[j].status \in {"sent", "dead_lettered"} \/ j \in deferred

\* The script's jobs that are still under way.
Missing == {j \in Own : ~Settled(j)}

\* Jobs of others that pass for jobs of the script: they were done, or put off,
\* after the baseline had counted what was done -- or put off before it.
MadeUp == {j \in Foreign \ booked : Settled(j)}

\* "books balance" overlooks no job of the script but one for each job of
\* somebody else that makes up for it, or that was replayed during the poll,
\* although the counts and the list were read at different times: with the
\* system to itself the script is never wrong.
SoundVerdict ==
    [][(pc = "list" /\ pc' = "balanced")
          => Cardinality(Missing) <= Cardinality(MadeUp) + Cardinality(replayed)]_simulationVars

\* "books do not balance" is printed only when the two requests saw different
\* states or the list was full: a poll of one state never raises the alarm.
AlarmOnlyWhenTorn == pc = "imbalance" => torn

\* The script ends, whatever the pipeline does: its deadline.
EveryRunEnds == <>(pc \in Ended)

===============================================================================
