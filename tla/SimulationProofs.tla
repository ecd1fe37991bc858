--------------------------- MODULE SimulationProofs ---------------------------
(***************************************************************************)
(* The verdicts of scripts/simulate.py, for any number of jobs, its own    *)
(* and those of others in any status, and any limit of the list: how many  *)
(* of its jobs "books balance" can overlook although a poll is two         *)
(* requests, and that the alarm is raised only when the two saw different  *)
(* states or the list was cut short.                                       *)
(***************************************************************************)
EXTENDS Simulation, FiniteSetTheorems, TLAPS

UnderWay == {"pending", "queued", "claimed"}

\* How a step may change the row of a job: not at all, by its submission, by
\* the pipeline as long as the job is under way, or by a replay.
Submitted(j) == /\ row[j].status = "absent" /\ row'[j] = Answer("pending", 0)
                /\ j \in Foreign \/ pc # "baseline"

Advances(j) == row[j].status \in UnderWay /\ row'[j].status # "absent"

Restarted(j) == /\ row[j].status = "dead_lettered" /\ row'[j] = Answer("pending", 0)
                /\ j \in replayed'

\* A job whose attempts are used up is neither offered again nor deferred.
WithinCap ==
    \A j \in Jobs : (row[j].status \in {"queued", "claimed"} \/ j \in deferred)
                        => row[j].attempt_count < MaxAttempts

\* The script has submitted nothing before it reads the baseline.
NothingYet == pc = "baseline" => \A j \in Own : row[j].status = "absent"

TypeInv == TypeOK /\ WithinCap /\ NothingYet

\* The sets the script counts.
LEMMA Counted ==
    ASSUME NEW S, S \subseteq Jobs
    PROVE  IsFiniteSet(S) /\ Cardinality(S) \in Nat
  BY SimulationAssumption, FS_Subset, FS_CardinalityType

\* The statements of the pipeline, a row at a time.
LEMMA PipelineRows ==
    ASSUME TypeInv, PipelineStep, NEW j \in Jobs
    PROVE  /\ row'[j] \in [status : Statuses, attempt_count : Nat]
           /\ row'[j] = row[j] \/ Advances(j)
           /\ row'[j].status \in {"queued", "claimed"} => row'[j].attempt_count < MaxAttempts
  <1>. DEFINE Good == /\ row'[j] \in [status : Statuses, attempt_count : Nat]
                      /\ row'[j] = row[j] \/ Advances(j)
                      /\ row'[j].status \in {"queued", "claimed"}
                            => row'[j].attempt_count < MaxAttempts
  <1>. USE DEF TypeInv, TypeOK, RowTypeOK, WithinCap, Answer, Statuses, Advances, UnderWay
  <1>1. ASSUME NEW k \in Jobs, Defer(k) \/ Claim(k) \/ Send(k) \/ Retry(k)
        PROVE  Good
    BY <1>1 DEF Defer, Claim, Send, Retry, Move
  <1>2. ASSUME NEW k \in Jobs, NEW n \in {0, 1}, Bury(k, row[k].attempt_count + n)
        PROVE  Good
    BY <1>2 DEF Bury
  <1>3. ASSUME NEW B \in SUBSET Jobs, Promote(B) \/ Reclaim(B)
        PROVE  Good
    BY <1>3 DEF Promote, Reclaim
  <1> QED
    BY <1>1, <1>2, <1>3 DEF PipelineStep

\* A deferred job is left alone, and a newly deferred one has attempts left.
LEMMA PipelineDeferred ==
    ASSUME TypeInv, PipelineStep, NEW j \in deferred'
    PROVE  /\ j \in Jobs /\ row'[j].status = "pending"
           /\ row'[j].attempt_count < MaxAttempts
  <1>. USE DEF TypeInv, TypeOK, RowTypeOK, WithinCap, With, Answer
  <1>1. ASSUME NEW k \in Jobs, Defer(k), MayBeFarOff(k)
        PROVE  /\ j \in Jobs /\ row'[j].status = "pending"
               /\ row'[j].attempt_count < MaxAttempts
    BY <1>1 DEF MayBeFarOff, Defer, Move
  <1>2. ASSUME j \in deferred, row'[j] = row[j]
        PROVE  /\ j \in Jobs /\ row'[j].status = "pending"
               /\ row'[j].attempt_count < MaxAttempts
    BY <1>2
  <1>3. ASSUME NEW k \in Jobs, deferred' = deferred, Claim(k) \/ Send(k) \/ Retry(k)
        PROVE  row'[j] = row[j]
    BY <1>3 DEF Claim, Send, Retry, Move
  <1>4. ASSUME NEW k \in Jobs, NEW n \in {0, 1}, deferred' = deferred,
               Bury(k, row[k].attempt_count + n)
        PROVE  row'[j] = row[j]
    BY <1>4, LifecycleAssumption DEF Bury
  <1>5. ASSUME NEW B \in SUBSET (Jobs \ deferred), deferred' = deferred, Promote(B)
        PROVE  row'[j] = row[j]
    BY <1>5 DEF Promote
  <1>6. ASSUME NEW B \in SUBSET Jobs, deferred' = deferred, Reclaim(B)
        PROVE  row'[j] = row[j]
    BY <1>6 DEF Reclaim
  <1> QED
    BY <1>1, <1>2, <1>3, <1>4, <1>5, <1>6 DEF PipelineStep

\* Every step, a row at a time.
LEMMA RowStep ==
    ASSUME TypeInv, [SimulationNext]_simulationVars, NEW j \in Jobs
    PROVE  row'[j] = row[j] \/ Submitted(j) \/ Advances(j) \/ Restarted(j)
  <1>1. ASSUME NEW here \in {"delivery", "pair", "burst"}, NEW batch \in SUBSET Own, NEW next,
               Submit(here, batch, next)
        PROVE  row'[j] = row[j] \/ Submitted(j)
    BY <1>1 DEF Submit, Accept, Move, lifecycleVars, TypeInv, TypeOK, RowTypeOK, Submitted
  <1>2. CASE ScriptStep
    <2>1. Spread \in SUBSET Own /\ Pair \in SUBSET Own /\ Burst \in SUBSET Own
      BY DEF Own
    <2> QED
      BY <1>1, <1>2, <2>1
         DEF ScriptStep, ReadBaseline, SubmitAgain, StartWatching, ReadMetrics, ListPending,
             lifecycleVars
  <1>3. CASE PipelineStep
    BY <1>3, PipelineRows
  <1>4. ASSUME NEW k \in Jobs, OtherSubmits(k)
        PROVE  row'[j] = row[j] \/ Submitted(j)
    BY <1>4 DEF OtherSubmits, Accept, Move, TypeInv, TypeOK, RowTypeOK, Submitted
  <1>5. ASSUME NEW k \in Jobs, OtherReplays(k)
        PROVE  row'[j] = row[j] \/ Restarted(j)
    BY <1>5 DEF OtherReplays, Replay, Move, TypeInv, TypeOK, RowTypeOK, Restarted
  <1>6. CASE \/ Abort \/ DeadlinePasses \/ \E k \in Jobs : HourNears(k)
             \/ UNCHANGED simulationVars
    BY <1>6 DEF Abort, DeadlinePasses, HourNears, simulationVars, lifecycleVars
  <1> QED
    BY <1>2, <1>3, <1>4, <1>5, <1>6 DEF SimulationNext, WorldStep

\* The rows stay well typed, and nobody who used up the attempts is offered.
LEMMA RowsTyped ==
    ASSUME TypeInv, [SimulationNext]_simulationVars
    PROVE  /\ RowTypeOK'
           /\ deferred' \subseteq With({"pending"})'
           /\ WithinCap'
  <1>. USE DEF TypeInv, TypeOK, RowTypeOK
  <1>1. CASE PipelineStep
    <2>1. row' \in [Jobs -> [status : Statuses, attempt_count : Nat]]
      <3>1. DOMAIN row' = Jobs /\ row' = [j \in Jobs |-> row'[j]]
        BY <1>1
           DEF PipelineStep, Defer, Claim, Send, Retry, Move, Bury, Promote,
               Reclaim
      <3> QED
        BY <1>1, <3>1, PipelineRows
    <2>2. letters' \in [Jobs -> Nat]
      BY <1>1
         DEF PipelineStep, Defer, Claim, Send, Retry, Move, Bury, Promote,
             Reclaim
    <2>3. deferred' \subseteq With({"pending"})'
      BY <1>1, PipelineDeferred DEF With
    <2>4. WithinCap'
      BY <1>1, PipelineRows, PipelineDeferred DEF WithinCap
    <2> QED
      BY <2>1, <2>2, <2>3, <2>4
  <1>2. CASE \E here, batch, next : Submit(here, batch, next)
    <2>1. CASE \E j \in Jobs : Accept(j)
      BY <1>2, <2>1, LifecycleAssumption
         DEF Submit, Accept, Move, With, WithinCap, Answer, Statuses
    <2>2. CASE UNCHANGED lifecycleVars
      BY <1>2, <2>2 DEF Submit, With, WithinCap, lifecycleVars
    <2>3. \A j : Accept(j) => j \in Jobs \/ UNCHANGED lifecycleVars
      BY DEF Accept, Move, lifecycleVars
    <2> QED
      BY <1>2, <2>1, <2>2, <2>3 DEF Submit
  <1>3. CASE UNCHANGED lifecycleVars /\ deferred' \subseteq deferred
    BY <1>3 DEF lifecycleVars, With, WithinCap
  <1>4. ASSUME NEW j \in Jobs, OtherSubmits(j)
        PROVE  /\ RowTypeOK'
               /\ deferred' \subseteq With({"pending"})'
               /\ WithinCap'
    BY <1>4, LifecycleAssumption
       DEF OtherSubmits, MayBeFarOff, Accept, Move, With, WithinCap, Answer, Statuses
  <1>5. ASSUME NEW j \in Jobs, OtherReplays(j)
        PROVE  /\ RowTypeOK'
               /\ deferred' \subseteq With({"pending"})'
               /\ WithinCap'
    BY <1>5, LifecycleAssumption DEF OtherReplays, Replay, Move, With, WithinCap, Answer, Statuses
  <1> QED
    BY <1>1, <1>2, <1>3, <1>4, <1>5
       DEF SimulationNext, WorldStep, ScriptStep, ReadBaseline, SubmitAgain, StartWatching,
           ReadMetrics, ListPending, Abort, DeadlinePasses, HourNears, simulationVars

\* So do the variables of the script.
LEMMA ScriptTyped ==
    ASSUME TypeInv, [SimulationNext]_simulationVars
    PROVE  /\ pc' \in {"baseline", "delivery", "pair", "again", "burst", "start", "watch", "list"}
                      \cup Ended
           /\ {baseline', seen'} \subseteq [sent : Nat, dead : Nat, active : Nat]
           /\ late' \in BOOLEAN /\ torn' \in BOOLEAN /\ replayed' \subseteq Jobs
  <1>1. metrics \in [sent : Nat, dead : Nat, active : Nat]
    BY Counted DEF metrics, Counts, With
  <1>2. CASE ScriptStep
    BY <1>1, <1>2
       DEF ScriptStep, ReadBaseline, Submit, SubmitAgain, StartWatching, ReadMetrics, ListPending,
           AfterPoll, Goto, Ended, TypeInv, TypeOK, historyVars
  <1>3. CASE WorldStep
    BY <1>3
       DEF WorldStep, PipelineStep, HourNears, OtherSubmits, OtherReplays, scriptVars, TypeInv,
           TypeOK
  <1>4. CASE Abort \/ DeadlinePasses \/ UNCHANGED simulationVars
    BY <1>4
       DEF Abort, DeadlinePasses, scriptVars, historyVars, simulationVars, Goto, Ended, TypeInv,
           TypeOK
  <1> QED
    BY <1>2, <1>3, <1>4 DEF SimulationNext

\* Nor has the baseline counted a job of the script.
LEMMA BookedTyped ==
    ASSUME TypeInv, [SimulationNext]_simulationVars
    PROVE  booked' \subseteq Foreign /\ NothingYet'
  <1>1. ASSUME pc' = "baseline"
        PROVE  pc = "baseline"
    BY <1>1
       DEF SimulationNext, ScriptStep, ReadBaseline, Submit, SubmitAgain, StartWatching,
           ReadMetrics, ListPending, AfterPoll, Abort, DeadlinePasses, WorldStep, PipelineStep,
           HourNears, OtherSubmits, OtherReplays, scriptVars, simulationVars, Goto
  <1>2. NothingYet'
    BY <1>1, RowStep, SimulationAssumption
       DEF TypeInv, NothingYet, Submitted, Advances, Restarted, UnderWay, Foreign
  <1>3. CASE ReadBaseline
    <2>1. booked' \subseteq Foreign
      BY <1>3 DEF ReadBaseline, TypeInv, NothingYet, With, Foreign
    <2> QED
      BY <1>2, <2>1
  <1>4. CASE booked' = booked
    BY <1>2, <1>4 DEF TypeInv, TypeOK
  <1> QED
    BY <1>2, <1>3, <1>4
       DEF SimulationNext, ScriptStep, Submit, SubmitAgain, StartWatching, ReadMetrics,
           ListPending, Abort, DeadlinePasses, WorldStep, PipelineStep, HourNears, OtherSubmits,
           OtherReplays, historyVars, simulationVars

\* So the types are kept.
LEMMA TypeInvStep == TypeInv /\ [SimulationNext]_simulationVars => TypeInv'
  BY RowsTyped, ScriptTyped, BookedTyped DEF TypeInv, TypeOK

\* The initial books: nothing of the script.
LEMMA InitialRows ==
    ASSUME SimulationInit
    PROVE  TypeInv /\ \A j \in Own : row[j].status = "absent"
  <1>1. row \in [Jobs -> RowsBefore] /\ \A j \in Own : row[j] = Answer("absent", 0)
    BY DEF SimulationInit
  <1>2. row \in [Jobs -> [status : Statuses, attempt_count : Nat]]
    <2>1. RowsBefore \subseteq [status : Statuses, attempt_count : Nat]
      BY LifecycleAssumption DEF RowsBefore
    <2> QED
      BY <1>1, <2>1
  <1>3. letters \in [Jobs -> Nat]
    BY DEF SimulationInit
  <1>4. deferred \subseteq {j \in With({"pending"}) : row[j].attempt_count < MaxAttempts}
    BY DEF SimulationInit
  <1>5. TypeOK
    <2>1. {baseline, seen} \subseteq [sent : Nat, dead : Nat, active : Nat]
      BY DEF SimulationInit
    <2>2. /\ pc = "baseline" /\ late = FALSE /\ torn = FALSE
          /\ booked = {} /\ replayed = {}
      BY DEF SimulationInit
    <2> QED
      BY <1>2, <1>3, <1>4, <2>1, <2>2 DEF TypeOK, RowTypeOK
  <1>6. WithinCap
    BY <1>1, <1>4 DEF WithinCap, RowsBefore
  <1>7. \A j \in Own : row[j].status = "absent"
    BY <1>1 DEF Answer
  <1> QED
    BY <1>5, <1>6, <1>7 DEF TypeInv, NothingYet

\* Only pending jobs count as deferred, and the totals read from GET /metrics
\* are counts (scripts/simulate.py, watch_until_drained).
THEOREM SimulationTypes == SimulationSpec => []TypeOK
  <1>1. SimulationInit => TypeInv
    BY InitialRows
  <1>2. TypeInv => TypeOK
    BY DEF TypeInv
  <1> QED
    BY <1>1, <1>2, TypeInvStep, PTL DEF SimulationSpec

-----------------------------------------------------------------------------
(* What the script's numbers stand for.                                    *)

\* The baseline counts the booked jobs, and none of them disappears.
BaselineIsBooked ==
    /\ booked \cap With({"absent"}) = {}
    /\ pc \notin {"baseline", "aborted"} => baseline.sent + baseline.dead = Cardinality(booked)

Done == With({"sent", "dead_lettered"})

\* Done is final but for a replay, so the totals of an old poll stay covered.
SeenIsCovered == pc = "list" => seen.sent + seen.dead <= Cardinality(Done \cup replayed)

\* The batches are submitted one after the other.
BatchesSubmitted ==
    /\ pc \in {"pair", "again", "burst", "start", "watch", "list"}
          => Spread \cap With({"absent"}) = {}
    /\ pc \in {"again", "burst", "start", "watch", "list"} => Pair \cap With({"absent"}) = {}
    /\ pc \in {"start", "watch", "list"} => Burst \cap With({"absent"}) = {}

\* As long as no row has moved, the totals are those of this very state.
SeenIsCurrent == pc = "list" /\ ~torn => seen = Counts

BooksInv == BaselineIsBooked /\ SeenIsCovered

AlarmInv == BaselineIsBooked /\ BatchesSubmitted /\ SeenIsCurrent /\ AlarmOnlyWhenTorn

\* Disjoint groups of jobs are counted one by one.
LEMMA Disjoint ==
    ASSUME NEW S, NEW T, S \subseteq Jobs, T \subseteq Jobs, S \cap T = {}
    PROVE  /\ S \cup T \subseteq Jobs
           /\ Cardinality(S \cup T) = Cardinality(S) + Cardinality(T)
  <1>1. IsFiniteSet(S) /\ IsFiniteSet(T) /\ Cardinality(S) \in Nat /\ Cardinality(T) \in Nat
    BY Counted
  <1>2. Cardinality(S \cup T) = Cardinality(S) + Cardinality(T) - Cardinality(S \cap T)
    BY <1>1, FS_Union
  <1>3. Cardinality(S \cap T) = 0
    BY FS_EmptySet
  <1> QED
    BY <1>1, <1>2, <1>3

\* Other groups by no less.
LEMMA Together ==
    ASSUME NEW S, NEW T, S \subseteq Jobs, T \subseteq Jobs
    PROVE  Cardinality(S \cup T) <= Cardinality(S) + Cardinality(T)
  <1>1. /\ IsFiniteSet(S) /\ IsFiniteSet(T) /\ Cardinality(S) \in Nat /\ Cardinality(T) \in Nat
        /\ Cardinality(S \cap T) \in Nat
    BY Counted
  <1>2. Cardinality(S \cup T) = Cardinality(S) + Cardinality(T) - Cardinality(S \cap T)
    BY <1>1, FS_Union
  <1> QED
    BY <1>1, <1>2

\* A part is no more than the whole.
LEMMA Part ==
    ASSUME NEW S, NEW T, T \subseteq Jobs, S \subseteq T
    PROVE  Cardinality(S) <= Cardinality(T)
  BY Counted, FS_Subset

\* The sent and the dead are the done.
LEMMA DoneCounted ==
    Cardinality(Done) = Cardinality(With({"sent"})) + Cardinality(With({"dead_lettered"}))
  <1>1. /\ With({"sent"}) \subseteq Jobs /\ With({"dead_lettered"}) \subseteq Jobs
        /\ With({"sent"}) \cap With({"dead_lettered"}) = {}
        /\ Done = With({"sent"}) \cup With({"dead_lettered"})
    BY DEF With, Done
  <1> QED
    BY <1>1, Disjoint

\* Jobs that are done with stay so unless they are replayed, and a job that was
\* submitted does not disappear.
LEMMA DoneIsFinal ==
    ASSUME TypeInv, [SimulationNext]_simulationVars
    PROVE  Done \subseteq Done' \cup replayed' /\ With({"absent"})' \subseteq With({"absent"})
  BY RowStep DEF Done, With, Submitted, Advances, Restarted, UnderWay, Answer

-----------------------------------------------------------------------------
\* The baseline counts what is done with when it is read.
LEMMA BaselineStep ==
    ASSUME TypeInv, BaselineIsBooked, [SimulationNext]_simulationVars
    PROVE  BaselineIsBooked'
  <1>1. CASE ReadBaseline
    <2>1. /\ booked' = Done /\ UNCHANGED row
          /\ baseline' = [sent |-> Cardinality(With({"sent"})),
                          dead |-> Cardinality(With({"dead_lettered"})),
                          active |-> Cardinality(With({"queued", "claimed"}))]
      BY <1>1 DEF ReadBaseline, metrics, Counts, Done, lifecycleVars
    <2>2. booked' \cap With({"absent"})' = {}
      BY <2>1 DEF Done, With
    <2>3. baseline'.sent + baseline'.dead = Cardinality(booked')
      BY <2>1, DoneCounted
    <2> QED
      BY <2>2, <2>3 DEF BaselineIsBooked
  <1>2. ASSUME ~ReadBaseline
        PROVE  /\ booked' = booked
               /\ pc' \notin {"baseline", "aborted"}
                     => baseline' = baseline /\ pc \notin {"baseline", "aborted"}
    BY <1>2
       DEF SimulationNext, ScriptStep, Submit, SubmitAgain, StartWatching, ReadMetrics,
           ListPending, Abort, DeadlinePasses, WorldStep, PipelineStep, HourNears, OtherSubmits,
           OtherReplays, scriptVars, historyVars, simulationVars, Goto, Ended
  <1>3. CASE ~ReadBaseline
    BY <1>2, <1>3, DoneIsFinal DEF BaselineIsBooked
  <1> QED
    BY <1>1, <1>3

\* What a poll has read stays covered by the jobs that are done with or were
\* replayed since.
LEMMA SeenIsCoveredStep ==
    ASSUME TypeInv, SeenIsCovered, [SimulationNext]_simulationVars
    PROVE  SeenIsCovered'
  <1>. SUFFICES ASSUME pc' = "list"
                PROVE  seen'.sent + seen'.dead <= Cardinality((Done \cup replayed)')
    BY DEF SeenIsCovered
  <1>1. CASE ReadMetrics
    <2>1. /\ (Done \cup replayed)' = Done
          /\ seen' = [sent |-> Cardinality(With({"sent"})),
                      dead |-> Cardinality(With({"dead_lettered"})),
                      active |-> Cardinality(With({"queued", "claimed"}))]
      BY <1>1 DEF ReadMetrics, metrics, Counts, Done, With, lifecycleVars
    <2>2. /\ Cardinality(With({"sent"})) \in Nat /\ Cardinality(With({"dead_lettered"})) \in Nat
      BY Counted DEF With
    <2>3. seen'.sent + seen'.dead = Cardinality(Done)
      BY <2>1, DoneCounted
    <2>4. Cardinality(Done) <= Cardinality(Done)
      BY <2>2, DoneCounted
    <2> QED
      BY <2>1, <2>3, <2>4
  <1>2. ASSUME ~ReadMetrics
        PROVE  pc = "list" /\ seen' = seen /\ replayed \subseteq replayed'
    BY <1>2
       DEF SimulationNext, ScriptStep, ReadBaseline, Submit, SubmitAgain, StartWatching,
           ListPending, AfterPoll, Abort, DeadlinePasses, WorldStep, PipelineStep, HourNears,
           OtherSubmits, OtherReplays, scriptVars, historyVars, simulationVars, Goto
  <1>3. CASE ~ReadMetrics
    <2>1. Done \cup replayed \subseteq (Done \cup replayed)'
      BY <1>2, <1>3, DoneIsFinal
    <2>2. (Done \cup replayed)' \subseteq Jobs /\ Done \cup replayed \subseteq Jobs
      <3>1. replayed \subseteq Jobs /\ replayed' \subseteq Jobs
        BY TypeInvStep DEF TypeInv, TypeOK
      <3> QED
        BY <3>1 DEF Done, With
    <2>3. Cardinality(Done \cup replayed) <= Cardinality((Done \cup replayed)')
      BY <2>1, <2>2, Part
    <2>4. /\ Cardinality(Done \cup replayed) \in Nat /\ Cardinality((Done \cup replayed)') \in Nat
          /\ seen.sent \in Nat /\ seen.dead \in Nat
      BY <2>2, Counted DEF TypeInv, TypeOK
    <2> QED
      BY <1>2, <1>3, <2>3, <2>4 DEF SeenIsCovered
  <1> QED
    BY <1>1, <1>3

\* When the script is content, what it counted covers its jobs but for those
\* that others make up for.
LEMMA VerdictIsSound ==
    ASSUME TypeInv, BooksInv, pc = "list", pc' = "balanced", [SimulationNext]_simulationVars
    PROVE  Cardinality(Missing) <= Cardinality(MadeUp) + Cardinality(replayed)
  <1>1. ListPending
    BY DEF SimulationNext, ScriptStep, ReadBaseline, Submit, SubmitAgain, StartWatching,
           ReadMetrics, Abort, DeadlinePasses, WorldStep, PipelineStep, HourNears, OtherSubmits,
           OtherReplays, scriptVars, simulationVars, Goto
  <1>2. PICK pending \in SUBSET With({"pending"}) :
            ~ (Accounted(pending) < Cardinality(Own))
    BY <1>1 DEF ListPending, Listed, AfterPoll, Goto
  <1>. DEFINE P == pending \cap deferred
              Found == Own \ Missing
  <1>3. /\ Done \subseteq Jobs /\ P \subseteq Jobs /\ Done \cap P = {}
        /\ Own \subseteq Jobs /\ booked \subseteq Jobs /\ replayed \subseteq Jobs
        /\ Missing \subseteq Jobs /\ MadeUp \subseteq Jobs /\ Found \subseteq Jobs
    BY SimulationAssumption DEF With, Done, TypeInv, TypeOK, Foreign, Missing, MadeUp
  <1>4. Done \cup P \subseteq Found \cup (booked \cup MadeUp)
    <2>1. \A j \in Done \cup P : j \in Jobs /\ Settled(j)
      BY <1>3 DEF Done, With, Settled
    <2> QED
      BY <2>1 DEF Missing, MadeUp, Foreign
  <1>5. /\ Found \cap Missing = {} /\ Found \cup Missing = Own
    BY DEF Missing
  <1>6. Accounted(pending) = (seen.sent - baseline.sent) + (seen.dead - baseline.dead)
                                + Cardinality(P)
    BY DEF Accounted
  <1>7. /\ seen.sent \in Nat /\ seen.dead \in Nat /\ baseline.sent \in Nat /\ baseline.dead \in Nat
        /\ baseline.sent + baseline.dead = Cardinality(booked)
        /\ seen.sent + seen.dead <= Cardinality(Done \cup replayed)
    BY DEF BooksInv, BaselineIsBooked, SeenIsCovered, TypeInv, TypeOK
  <1>. HIDE DEF P, Found, Accounted, Missing, MadeUp, Done, Own
  <1>8. /\ Cardinality(Done) \in Nat /\ Cardinality(P) \in Nat /\ Cardinality(Own) \in Nat
        /\ Cardinality(booked) \in Nat /\ Cardinality(replayed) \in Nat
        /\ Cardinality(Missing) \in Nat /\ Cardinality(MadeUp) \in Nat /\ Cardinality(Found) \in Nat
        /\ Cardinality(Done \cup replayed) \in Nat
        /\ Cardinality(Done \cup P) \in Nat /\ Cardinality(booked \cup MadeUp) \in Nat
        /\ Cardinality(Found \cup (booked \cup MadeUp)) \in Nat
    <2>1. /\ Done \cup replayed \subseteq Jobs /\ Done \cup P \subseteq Jobs
          /\ booked \cup MadeUp \subseteq Jobs /\ Found \cup (booked \cup MadeUp) \subseteq Jobs
      BY <1>3
    <2> QED
      BY <1>3, <2>1, Counted
  <1>9. Cardinality(Own) + Cardinality(booked) <= Cardinality(Done) + Cardinality(P)
                                                     + Cardinality(replayed)
    <2>1. Cardinality(Done \cup replayed) <= Cardinality(Done) + Cardinality(replayed)
      BY <1>3, Together
    <2> QED
      BY <1>2, <1>6, <1>7, <1>8, <2>1
  <1>10. Cardinality(Done) + Cardinality(P)
            <= Cardinality(Found) + Cardinality(booked) + Cardinality(MadeUp)
    <2>1. Cardinality(Done \cup P) = Cardinality(Done) + Cardinality(P)
      BY <1>3, Disjoint
    <2>2. Cardinality(Done \cup P) <= Cardinality(Found \cup (booked \cup MadeUp))
      BY <1>3, <1>4, Part
    <2>3. /\ booked \cup MadeUp \subseteq Jobs
          /\ Cardinality(Found \cup (booked \cup MadeUp))
                <= Cardinality(Found) + Cardinality(booked \cup MadeUp)
          /\ Cardinality(booked \cup MadeUp) <= Cardinality(booked) + Cardinality(MadeUp)
      BY <1>3, Together
    <2> QED
      BY <1>8, <2>1, <2>2, <2>3
  <1>11. Cardinality(Own) = Cardinality(Found) + Cardinality(Missing)
    BY <1>3, <1>5, Disjoint
  <1> QED
    BY <1>8, <1>9, <1>10, <1>11

\* "books balance" overlooks at most as many jobs of the script as there are
\* jobs of others that were done or put off without the baseline knowing, or
\* that were replayed during the poll, however the pipeline moves between the
\* two requests (scripts/simulate.py, watch_until_drained).
THEOREM SoundReport == SimulationSpec => SoundVerdict
  <1>1. SimulationInit => TypeInv /\ BooksInv
    BY InitialRows DEF SimulationInit, BooksInv, BaselineIsBooked, SeenIsCovered
  <1>2. TypeInv /\ BooksInv /\ [SimulationNext]_simulationVars => TypeInv' /\ BooksInv'
    BY TypeInvStep, BaselineStep, SeenIsCoveredStep DEF BooksInv
  <1>3. TypeInv /\ BooksInv /\ [SimulationNext]_simulationVars
          => [(pc = "list" /\ pc' = "balanced")
                 => Cardinality(Missing) <= Cardinality(MadeUp) + Cardinality(replayed)
             ]_simulationVars
    BY VerdictIsSound
  <1> QED
    BY <1>1, <1>2, <1>3, PTL DEF SimulationSpec, SoundVerdict

-----------------------------------------------------------------------------
\* A batch is left behind only when all of it was accepted.
LEMMA BatchesStep ==
    ASSUME TypeInv, BatchesSubmitted, [SimulationNext]_simulationVars
    PROVE  BatchesSubmitted'
  <1>1. With({"absent"})' \subseteq With({"absent"})
    BY DoneIsFinal
  <1>2. CASE pc' = pc \/ pc' \in Ended
    BY <1>1, <1>2 DEF BatchesSubmitted, Ended
  <1>3. ASSUME NEW here, NEW batch, NEW next, Submit(here, batch, next), pc' # pc
        PROVE  pc = here /\ pc' = next /\ batch \cap With({"absent"}) = {}
    BY <1>3 DEF Submit, Goto
  <1>4. CASE \/ Submit("delivery", Spread, "pair") \/ Submit("pair", Pair, "again")
             \/ Submit("burst", Burst, "start")
    <2>1. CASE pc' # pc
      BY <1>1, <1>3, <1>4, <2>1 DEF BatchesSubmitted
    <2> QED
      BY <1>2, <2>1
  <1>5. CASE ReadBaseline \/ SubmitAgain \/ StartWatching \/ ReadMetrics \/ ListPending
    BY <1>1, <1>5
       DEF ReadBaseline, SubmitAgain, StartWatching, ReadMetrics, ListPending, AfterPoll, Goto,
           BatchesSubmitted
  <1> QED
    BY <1>2, <1>4, <1>5
       DEF SimulationNext, ScriptStep, Abort, DeadlinePasses, WorldStep, PipelineStep, HourNears,
           OtherSubmits, OtherReplays, scriptVars, simulationVars, Goto, Ended

\* The totals of the last poll are current until a row moves.
LEMMA SeenIsCurrentStep ==
    ASSUME TypeInv, SeenIsCurrent, [SimulationNext]_simulationVars
    PROVE  SeenIsCurrent'
  <1>. SUFFICES ASSUME pc' = "list", ~torn'
                PROVE  seen' = Counts'
    BY DEF SeenIsCurrent
  <1>1. row' = row => Counts' = Counts
    BY DEF Counts, With
  <1>2. CASE ReadMetrics
    BY <1>1, <1>2 DEF ReadMetrics, metrics, lifecycleVars
  <1>3. CASE pc = "list" /\ seen' = seen /\ ~torn /\ row' = row
    BY <1>1, <1>3 DEF SeenIsCurrent
  <1> QED
    BY <1>2, <1>3
       DEF SimulationNext, ScriptStep, ReadBaseline, Submit, SubmitAgain, StartWatching,
           ListPending, AfterPoll, Abort, DeadlinePasses, WorldStep, PipelineStep, HourNears,
           OtherSubmits, OtherReplays, scriptVars, historyVars, simulationVars, lifecycleVars,
           Goto, Ended, TypeInv, TypeOK

\* A poll of one state that finds nothing active finds every job of the script
\* and every job the baseline has counted.
LEMMA PollOfOneState ==
    ASSUME TypeInv, AlarmInv, pc = "list", ~torn,
           seen.active + Cardinality(With({"pending"}) \ deferred) = 0
    PROVE  ~ (Accounted(With({"pending"})) < Cardinality(Own))
  <1>. DEFINE S == With({"sent"})
              D == With({"dead_lettered"})
              P == With({"pending"})
              A == With({"queued", "claimed"})
  <1>1. /\ S \subseteq Jobs /\ D \subseteq Jobs /\ P \subseteq Jobs /\ A \subseteq Jobs
        /\ P \ deferred \subseteq Jobs /\ Own \subseteq Jobs /\ booked \subseteq Jobs
        /\ S \cap D = {} /\ (S \cup D) \cap P = {} /\ Own \cap booked = {}
    BY SimulationAssumption DEF With, TypeInv, TypeOK, Foreign
  <1>2. /\ Cardinality(S) \in Nat /\ Cardinality(D) \in Nat /\ Cardinality(P) \in Nat
        /\ Cardinality(A) \in Nat /\ Cardinality(P \ deferred) \in Nat
        /\ IsFiniteSet(A) /\ IsFiniteSet(P \ deferred)
        /\ Cardinality(Own) \in Nat /\ Cardinality(booked) \in Nat
    <2>. HIDE DEF S, D, P, A, Own
    <2> QED
      BY <1>1, Counted
  <1>3. /\ seen.sent = Cardinality(S) /\ seen.dead = Cardinality(D)
        /\ seen.active = Cardinality(A)
    BY DEF AlarmInv, SeenIsCurrent, Counts
  <1>4. A = {} /\ P \ deferred = {}
    <2>1. Cardinality(A) = 0 /\ Cardinality(P \ deferred) = 0
      <3>. HIDE DEF A
      <3> QED
        BY <1>2, <1>3
    <2>. HIDE DEF A, P
    <2> QED
      BY <1>2, <2>1, FS_EmptySet
  <1>5. Own \cup booked \subseteq S \cup D \cup P
    <2>1. (Own \cup booked) \cap With({"absent"}) = {}
      BY DEF AlarmInv, BatchesSubmitted, BaselineIsBooked, Own
    <2> QED
      BY <1>1, <1>4, <2>1 DEF With, TypeInv, TypeOK, RowTypeOK, Statuses
  <1>6. P \cap deferred = P
    BY <1>4
  <1>7. Accounted(P) = (Cardinality(S) - baseline.sent) + (Cardinality(D) - baseline.dead)
                          + Cardinality(P)
    BY <1>3, <1>6 DEF Accounted
  <1>8. /\ baseline.sent + baseline.dead = Cardinality(booked)
        /\ baseline.sent \in Nat /\ baseline.dead \in Nat
    BY DEF AlarmInv, BaselineIsBooked, TypeInv, TypeOK
  <1>. HIDE DEF S, D, P, Own, Accounted
  <1>9. Cardinality(Own) + Cardinality(booked) <= Cardinality(S) + Cardinality(D) + Cardinality(P)
    <2>1. /\ S \cup D \subseteq Jobs /\ S \cup D \cup P \subseteq Jobs
          /\ Cardinality(S \cup D) = Cardinality(S) + Cardinality(D)
      BY <1>1, Disjoint
    <2>2. Cardinality(S \cup D \cup P) = Cardinality(S \cup D) + Cardinality(P)
      BY <1>1, <2>1, Disjoint
    <2>3. Cardinality(Own \cup booked) = Cardinality(Own) + Cardinality(booked)
      BY <1>1, Disjoint
    <2>4. Cardinality(Own \cup booked) <= Cardinality(S \cup D \cup P)
      BY <1>5, <2>1, Part
    <2> QED
      BY <2>1, <2>2, <2>3, <2>4
  <1>10. ~ (Accounted(P) < Cardinality(Own))
    BY <1>2, <1>7, <1>8, <1>9
  <1> QED
    BY <1>10 DEF P

\* So only a torn poll can raise the alarm.
LEMMA AlarmStep ==
    ASSUME TypeInv, AlarmInv, [SimulationNext]_simulationVars
    PROVE  AlarmOnlyWhenTorn'
  <1>. SUFFICES ASSUME pc' = "imbalance"
                PROVE  torn'
    BY DEF AlarmOnlyWhenTorn
  <1>1. CASE pc = "imbalance"
    <2>1. torn
      BY <1>1 DEF AlarmInv, AlarmOnlyWhenTorn
    <2> QED
      BY <1>1, <2>1
         DEF SimulationNext, ScriptStep, ReadBaseline, Submit, SubmitAgain, StartWatching,
             ReadMetrics, ListPending, Abort, DeadlinePasses, WorldStep, PipelineStep, HourNears,
             OtherSubmits, OtherReplays, scriptVars, historyVars, simulationVars, Goto, Ended,
             TypeInv, TypeOK
  <1>2. CASE ListPending
    <2>1. PICK pending \in Listed(With({"pending"})) :
            /\ Goto(AfterPoll(pending))
            /\ torn' = (torn \/ pending # With({"pending"}))
      BY <1>2 DEF ListPending
    <2>2. /\ seen.active + Cardinality(pending \ deferred) = 0
          /\ Accounted(pending) < Cardinality(Own)
      BY <2>1 DEF Goto, AfterPoll
    <2> QED
      BY <1>2, <2>1, <2>2, PollOfOneState DEF ListPending
  <1> QED
    BY <1>1, <1>2
       DEF SimulationNext, ScriptStep, ReadBaseline, Submit, SubmitAgain, StartWatching,
           ReadMetrics, Abort, DeadlinePasses, WorldStep, PipelineStep, HourNears, OtherSubmits,
           OtherReplays, scriptVars, simulationVars, Goto

\* "books do not balance" is printed only when a row moved between GET /metrics
\* and GET /jobs or the list was cut off at its limit: no job is ever missing
\* (scripts/simulate.py, watch_until_drained).
THEOREM AlarmsJustified == SimulationSpec => []AlarmOnlyWhenTorn
  <1>1. SimulationInit => TypeInv /\ AlarmInv
    BY InitialRows
       DEF SimulationInit, AlarmInv, BaselineIsBooked, BatchesSubmitted, SeenIsCurrent,
           AlarmOnlyWhenTorn
  <1>2. TypeInv /\ AlarmInv /\ [SimulationNext]_simulationVars => TypeInv' /\ AlarmInv'
    BY TypeInvStep, BaselineStep, BatchesStep, SeenIsCurrentStep, AlarmStep DEF AlarmInv
  <1>3. AlarmInv => AlarmOnlyWhenTorn
    BY DEF AlarmInv
  <1> QED
    BY <1>1, <1>2, <1>3, PTL DEF SimulationSpec

===============================================================================
