----------------------------- MODULE WebhookProofs -----------------------------
(***************************************************************************)
(* Theorems about Webhooks, for any number of callers and jobs and any     *)
(* caps: no outcome goes unannounced but for a failure, and webhook_log is *)
(* a faithful record, whatever becomes of the claims meanwhile; and a      *)
(* client hears of one end of its job at most, as long as there is one     *)
(* scheduler and no worker stalls before it has read its row.              *)
(***************************************************************************)
EXTENDS Webhooks, SequenceTheorems, TLAPS

CallType == [stage : {"idle", "fetch", "deliver", "post", "log"},
             job : Jobs \cup {NULL}, view : Rows \cup {NULL}, n : Nat,
             status : Status \cup {NULL}, try : 0..MaxTries, http : Http]

ReclaimedType == [Schedulers -> SUBSET [job : Jobs, attempt_count : Nat]]

\* The caller is at an attempt of an announcement.
Announcing(c) == call[c].stage \in {"post", "log"}

\* What the stages of a call say about its other fields.
CallShape ==
    \A c \in Callers :
        /\ Announcing(c) => /\ call[c].job \in Jobs /\ callback_url[call[c].job] # NULL
                            /\ call[c].status \in Status
                            /\ call[c].try \in 1..MaxTries
        /\ call[c].stage \in {"fetch", "deliver"} => c \in Workers /\ call[c].job \in Jobs
        /\ call[c].stage = "deliver" => call[c].view \in Rows

\* The n-th outcome of the job.
Told(j, n, status) == n \in 1..Len(outcomes[j]) /\ status = outcomes[j][n]

\* Everything said and still to be said is true.
AllTold ==
    /\ \A m \in travelling \cup received : Told(m.about.job, m.about.n, m.status)
    /\ \A c \in Callers : Announcing(c) => Told(call[c].job, call[c].n, call[c].status)

Inv == TypeOK /\ CallShape /\ AllTold

-----------------------------------------------------------------------------
(* The steps that commit an outcome.                                       *)

\* The two ends of a burial.
Buried(s, r) ==
    /\ InLoop(s, r)
    /\ HeldUnder(r.job, NULL)
    /\ CommitAndFire(s, r.job, "dead_lettered", Row("dead_lettered", NULL, r.attempt_count))
    /\ UNCHANGED <<webhook_log, netVars, cut>>

BuryRefused(s, r) ==
    /\ InLoop(s, r)
    /\ UNCHANGED <<jobVars, call, webhook_log, netVars, cut>>

\* dead_letter's early return.
LEMMA BuriedOrRefused ==
    ASSUME NEW s \in Schedulers, NEW r \in reclaimed[s], Bury(s, r)
    PROVE  Buried(s, r) \/ BuryRefused(s, r)
BY DEF Bury, Buried, BuryRefused, jobVars

\* It is added to the job's, and its caller begins to announce it; whatever
\* the row becomes, the log is left alone.
Commit(c, j, status) ==
    /\ c \in Callers /\ j \in Jobs /\ status \in Status
    /\ call[c].stage \in {"idle", "deliver"}
    /\ outcomes' = [outcomes EXCEPT ![j] = Append(@, status)]
    /\ Fire(c, j, status)
    /\ jobs' \in [Jobs -> Rows] /\ reclaimed' \in ReclaimedType
    /\ UNCHANGED <<webhook_log, netVars, cut>>

\* The list of outcomes afterwards.
LEMMA Appended ==
    ASSUME TypeOK, NEW j \in Jobs, NEW status \in Status,
           outcomes' = [outcomes EXCEPT ![j] = Append(@, status)]
    PROVE  /\ outcomes' \in [Jobs -> Seq(Status)]
           /\ Len(outcomes'[j]) = Len(outcomes[j]) + 1
           /\ outcomes'[j][Len(outcomes[j]) + 1] = status
           /\ \A i \in 1..Len(outcomes[j]) : outcomes'[j][i] = outcomes[j][i]
           /\ \A k \in Jobs : k # j => outcomes'[k] = outcomes[k]
           /\ Len(outcomes[j]) \in Nat
  <1>1. outcomes[j] \in Seq(Status) /\ outcomes'[j] = Append(outcomes[j], status)
    BY DEF TypeOK
  <1>2. Append(outcomes[j], status) \in Seq(Status)
    BY <1>1
  <1> QED
    BY <1>1, <1>2 DEF TypeOK

\* The fields of a call that begins.
LEMMA Fired ==
    ASSUME TypeOK, NEW c \in Callers, NEW j \in Jobs, NEW status \in Status, Fire(c, j, status)
    PROVE  /\ call' \in [Callers -> CallType]
           /\ \A d \in Callers : d # c => call'[d] = call[d]
           /\ callback_url[j] = NULL => call'[c].stage = "idle"
           /\ callback_url[j] # NULL =>
                 /\ call'[c].stage = "post" /\ call'[c].job = j
                 /\ call'[c].n = Len(outcomes[j]) + 1
                 /\ call'[c].status = status /\ call'[c].try = 1
  <1>. DEFINE post == [stage |-> "post", job |-> j, view |-> NULL, n |-> Len(outcomes[j]) + 1,
                       status |-> status, try |-> 1, http |-> NULL]
  <1>1. Len(outcomes[j]) + 1 \in Nat
    BY DEF TypeOK
  <1>2. /\ post \in CallType /\ post.stage = "post" /\ post.job = j
        /\ post.n = Len(outcomes[j]) + 1 /\ post.status = status /\ post.try = 1
    BY <1>1, WebhookAssumption DEF CallType, Http
  <1>3. Idle \in CallType /\ Idle.stage = "idle"
    BY WebhookAssumption DEF Idle, CallType, Http
  <1>4. call \in [Callers -> CallType]
    BY DEF TypeOK, CallType
  <1>5. call' = [call EXCEPT ![c] = IF callback_url[j] = NULL THEN Idle ELSE post]
    BY DEF Fire
  <1>. HIDE DEF post
  <1> QED
    BY <1>2, <1>3, <1>4, <1>5

\* A row that a commit writes.
LEMMA RowType ==
    ASSUME NEW status \in {"pending", "queued", "claimed", "sent", "dead_lettered"},
           NEW worker_id \in Workers \cup {NULL}, NEW attempt_count \in Nat
    PROVE  Row(status, worker_id, attempt_count) \in Rows
  BY DEF Row, Rows

\* A worker ends the attempt of a job whose row it has read.
LEMMA AtTheEnd ==
    ASSUME Inv, NEW w \in Workers, Ending(w)
    PROVE  /\ w \in Callers /\ call[w].job \in Jobs
           /\ call[w].view.attempt_count \in Nat
           /\ call[w].stage = "deliver"
  <1>1. w \in Callers /\ call[w].stage = "deliver"
    BY DEF Callers, Ending
  <1>2. call[w].job \in Jobs /\ call[w].view \in Rows
    BY <1>1 DEF Inv, CallShape
  <1> QED
    BY <1>1, <1>2 DEF Rows

\* The four steps that commit.
LEMMA Commits ==
    ASSUME Inv
    PROVE  /\ \A w \in Workers : Succeed(w) => Commit(w, call[w].job, "sent")
           /\ \A w \in Workers : Fail(w) => Commit(w, call[w].job, "failed")
           /\ \A w \in Workers : GiveUp(w) => Commit(w, call[w].job, "dead_lettered")
           /\ \A s \in Schedulers : \A r \in reclaimed[s] :
                 Buried(s, r) => Commit(s, r.job, "dead_lettered")
  <1>1. ASSUME NEW c \in Callers, NEW j \in Jobs, NEW status \in Status, NEW row \in Rows,
               call[c].stage \in {"idle", "deliver"},
               CommitAndFire(c, j, status, row), reclaimed' \in ReclaimedType,
               UNCHANGED <<webhook_log, netVars, cut>>
        PROVE  Commit(c, j, status)
    <2>1. jobs' \in [Jobs -> Rows]
      BY <1>1 DEF CommitAndFire, Inv, TypeOK
    <2> QED
      BY <1>1, <2>1 DEF CommitAndFire, Commit
  <1>2. reclaimed \in ReclaimedType
    BY DEF Inv, TypeOK, ReclaimedType
  <1>3. "sent" \in Status /\ "failed" \in Status /\ "dead_lettered" \in Status
    BY DEF Status
  <1>4. ASSUME NEW w \in Workers, Succeed(w)
        PROVE  Commit(w, call[w].job, "sent")
    <2>1. /\ w \in Callers /\ call[w].job \in Jobs /\ call[w].stage = "deliver"
      BY <1>4, AtTheEnd DEF Succeed
    <2>2. [jobs[call[w].job] EXCEPT !.status = "sent"] \in Rows
      <3>1. jobs[call[w].job] \in Rows
        BY <2>1 DEF Inv, TypeOK
      <3> QED
        BY <3>1 DEF Rows
    <2>3. /\ CommitAndFire(w, call[w].job, "sent", [jobs[call[w].job] EXCEPT !.status = "sent"])
          /\ UNCHANGED <<reclaimed, webhook_log, netVars, cut>>
      BY <1>4 DEF Succeed
    <2> QED
      BY <1>1, <1>2, <1>3, <2>1, <2>2, <2>3
  <1>5. ASSUME NEW w \in Workers, Fail(w)
        PROVE  Commit(w, call[w].job, "failed")
    <2>. DEFINE attempt == call[w].view.attempt_count + 1
    <2>1. /\ w \in Callers /\ call[w].job \in Jobs /\ call[w].stage = "deliver"
          /\ attempt \in Nat
      BY <1>5, AtTheEnd DEF Fail
    <2>2. /\ CommitAndFire(w, call[w].job, "failed", Row("pending", NULL, attempt))
          /\ UNCHANGED <<reclaimed, webhook_log, netVars, cut>>
      BY <1>5 DEF Fail
    <2>. HIDE DEF attempt
    <2>3. Row("pending", NULL, attempt) \in Rows
      BY <2>1, RowType
    <2> QED
      BY <1>1, <1>2, <1>3, <2>1, <2>2, <2>3
  <1>6. ASSUME NEW w \in Workers, GiveUp(w)
        PROVE  Commit(w, call[w].job, "dead_lettered")
    <2>. DEFINE attempt == call[w].view.attempt_count + 1
    <2>1. /\ w \in Callers /\ call[w].job \in Jobs /\ call[w].stage = "deliver"
          /\ attempt \in Nat
      BY <1>6, AtTheEnd DEF GiveUp
    <2>2. /\ CommitAndFire(w, call[w].job, "dead_lettered", Row("dead_lettered", NULL, attempt))
          /\ UNCHANGED <<reclaimed, webhook_log, netVars, cut>>
      BY <1>6 DEF GiveUp
    <2>. HIDE DEF attempt
    <2>3. Row("dead_lettered", NULL, attempt) \in Rows
      BY <2>1, RowType
    <2> QED
      BY <1>1, <1>2, <1>3, <2>1, <2>2, <2>3
  <1>7. ASSUME NEW s \in Schedulers, NEW r \in reclaimed[s], Buried(s, r)
        PROVE  Commit(s, r.job, "dead_lettered")
    <2>1. /\ s \in Callers /\ r \in [job : Jobs, attempt_count : Nat]
          /\ call[s].stage \in {"idle", "deliver"}
      BY <1>7 DEF Buried, InLoop, Idle, Callers, Inv, TypeOK
    <2>2. /\ CommitAndFire(s, r.job, "dead_lettered",
                           Row("dead_lettered", NULL, r.attempt_count))
          /\ UNCHANGED <<webhook_log, netVars, cut>>
      BY <1>7 DEF Buried
    <2>3. Row("dead_lettered", NULL, r.attempt_count) \in Rows
      BY <2>1, RowType
    <2>4. reclaimed' \in ReclaimedType
      BY <1>2, <1>7 DEF Buried, InLoop, ReclaimedType
    <2> QED
      BY <1>1, <1>3, <2>1, <2>2, <2>3, <2>4
  <1> QED
    BY <1>4, <1>5, <1>6, <1>7

\* A commit keeps the types and the shapes.
LEMMA CommitTypes ==
    ASSUME Inv, NEW c, NEW j, NEW status, Commit(c, j, status), UNCHANGED callback_url
    PROVE  TypeOK' /\ CallShape'
  <1>1. /\ c \in Callers /\ j \in Jobs /\ status \in Status
        /\ outcomes' = [outcomes EXCEPT ![j] = Append(@, status)]
        /\ TypeOK /\ Fire(c, j, status)
    BY DEF Commit, Inv
  <1>2. /\ call' \in [Callers -> CallType]
        /\ \A d \in Callers : d # c => call'[d] = call[d]
        /\ callback_url[j] = NULL => call'[c].stage = "idle"
        /\ callback_url[j] # NULL =>
              /\ call'[c].stage = "post" /\ call'[c].job = j
              /\ call'[c].status = status /\ call'[c].try = 1
    BY <1>1, Fired
  <1>3. TypeOK'
    BY <1>1, <1>2, Appended DEF Commit, Inv, TypeOK, CallType, ReclaimedType, netVars
  <1>4. CallShape'
    <2>1. ASSUME NEW d \in Callers, d # c
          PROVE  /\ Announcing(d)' => /\ call'[d].job \in Jobs
                                      /\ callback_url'[call'[d].job] # NULL
                                      /\ call'[d].status \in Status
                                      /\ call'[d].try \in 1..MaxTries
                 /\ call'[d].stage \in {"fetch", "deliver"} => d \in Workers /\ call'[d].job \in Jobs
                 /\ call'[d].stage = "deliver" => call'[d].view \in Rows
      BY <1>2, <2>1 DEF Inv, CallShape, Announcing
    <2>2. /\ Announcing(c)' => /\ call'[c].job \in Jobs
                               /\ callback_url'[call'[c].job] # NULL
                               /\ call'[c].status \in Status
                               /\ call'[c].try \in 1..MaxTries
          /\ call'[c].stage \notin {"fetch", "deliver"}
      BY <1>1, <1>2, WebhookAssumption DEF Announcing
    <2> QED
      BY <2>1, <2>2 DEF CallShape
  <1> QED
    BY <1>3, <1>4

\* What was said before a commit stays true, and the new call is.
LEMMA CommitTells ==
    ASSUME Inv, NEW c, NEW j, NEW status, Commit(c, j, status), UNCHANGED callback_url
    PROVE  AllTold'
  <1>1. /\ c \in Callers /\ j \in Jobs /\ status \in Status /\ TypeOK
        /\ outcomes' = [outcomes EXCEPT ![j] = Append(@, status)] /\ Fire(c, j, status)
    BY DEF Commit, Inv
  <1>2. /\ Len(outcomes'[j]) = Len(outcomes[j]) + 1 /\ Len(outcomes[j]) \in Nat
        /\ outcomes'[j][Len(outcomes[j]) + 1] = status
        /\ \A i \in 1..Len(outcomes[j]) : outcomes'[j][i] = outcomes[j][i]
        /\ \A k \in Jobs : k # j => outcomes'[k] = outcomes[k]
    BY <1>1, Appended
  <1>3. ASSUME NEW k \in Jobs, NEW n, NEW st, Told(k, n, st)
        PROVE  n \in 1..Len(outcomes'[k]) /\ st = outcomes'[k][n]
    BY <1>2, <1>3 DEF Told
  <1>4. ASSUME NEW m \in travelling' \cup received'
        PROVE  Told(m.about.job, m.about.n, m.status)'
    <2>1. m \in travelling \cup received
      BY DEF Commit, netVars
    <2>2. m.about.job \in Jobs
      BY <2>1 DEF Inv, TypeOK, Announcement
    <2> QED
      BY <1>3, <2>1, <2>2 DEF Inv, AllTold, Told
  <1>5. ASSUME NEW d \in Callers, Announcing(d)'
        PROVE  Told(call[d].job, call[d].n, call[d].status)'
    <2>1. CASE d # c
      <3>1. call'[d] = call[d]
        BY <1>1, <2>1, Fired
      <3>2. Announcing(d)
        BY <1>5, <3>1 DEF Announcing
      <3>3. call[d].job \in Jobs /\ Told(call[d].job, call[d].n, call[d].status)
        BY <3>2 DEF Inv, CallShape, AllTold
      <3> QED
        BY <1>3, <3>1, <3>3 DEF Told
    <2>2. CASE d = c
      <3>1. /\ call'[c].job = j /\ call'[c].n = Len(outcomes[j]) + 1
            /\ call'[c].status = status
        BY <1>1, <1>5, <2>2, Fired DEF Announcing
      <3> QED
        BY <1>2, <2>2, <3>1 DEF Told
    <2> QED
      BY <2>1, <2>2
  <1> QED
    BY <1>4, <1>5 DEF AllTold

-----------------------------------------------------------------------------
(* The other steps.  They leave the list of outcomes alone.                *)

\* The row, the claim or the rest of a pass changes hands: nobody who is
\* announcing takes part, and nobody is told anything.
HandOver ==
    /\ UNCHANGED <<outcomes, webhook_log, netVars, cut>>
    /\ jobs' \in [Jobs -> Rows] /\ reclaimed' \in ReclaimedType
    /\ call' \in [Callers -> CallType]
    /\ \A c \in Callers :
          \/ call'[c] = call[c]
          \/ /\ ~Announcing(c)
             /\ \/ call'[c].stage = "idle"
                \/ /\ call'[c].stage \in {"fetch", "deliver"}
                   /\ c \in Workers /\ call'[c].job \in Jobs
                   /\ call'[c].stage = "deliver" => call'[c].view \in Rows

Posting ==
    \/ \E c \in Callers : Reach(c) \/ Miss(c) \/ Log(c) \/ BreakOff(c)
    \/ \E m \in travelling : Arrive(m)

\* A worker that has nothing to announce.
LEMMA WorkerHandsOver ==
    ASSUME Inv, NEW w \in Workers,
           \/ \E j \in Jobs : Claim(w, j)
           \/ FetchJob(w) \/ DeferJob(w) \/ OutcomeLost(w)
    PROVE  HandOver
  <1>1. /\ jobs \in [Jobs -> Rows] /\ reclaimed \in ReclaimedType /\ call \in [Callers -> CallType]
        /\ w \in Callers /\ call[w] \in CallType
    BY DEF Inv, TypeOK, ReclaimedType, CallType, Callers
  <1>2. Idle \in CallType /\ Idle.stage = "idle"
    BY WebhookAssumption DEF Idle, CallType, Http
  <1>3. ASSUME NEW j \in Jobs, Claim(w, j)
        PROVE  HandOver
    <2>. DEFINE begun == [Idle EXCEPT !.stage = "fetch", !.job = j]
                row == Row("claimed", w, jobs[j].attempt_count)
    <2>1. begun \in CallType /\ begun.stage = "fetch" /\ begun.job = j
      BY <1>2 DEF CallType, Idle
    <2>2. row \in Rows
      <3>1. jobs[j].attempt_count \in Nat
        BY <1>1 DEF Rows
      <3> QED
        BY <3>1, RowType
    <2>3. /\ jobs' = [jobs EXCEPT ![j] = row] /\ call' = [call EXCEPT ![w] = begun]
          /\ UNCHANGED <<outcomes, reclaimed, webhook_log, netVars, cut>>
          /\ ~Announcing(w)
      BY <1>2, <1>3 DEF Claim, Announcing
    <2>. HIDE DEF begun, row
    <2> QED
      BY <1>1, <2>1, <2>2, <2>3 DEF HandOver
  <1>4. ASSUME FetchJob(w)
        PROVE  HandOver
    <2>. DEFINE j == call[w].job
                read == [call[w] EXCEPT !.stage = "deliver", !.view = jobs[j]]
    <2>1. call[w].stage = "fetch" /\ j \in Jobs /\ ~Announcing(w)
      BY <1>1, <1>4 DEF FetchJob, Inv, CallShape, Announcing
    <2>2. read \in CallType /\ read.stage = "deliver" /\ read.job = j /\ read.view = jobs[j]
      BY <1>1, <2>1 DEF CallType
    <2>3. call' = [call EXCEPT ![w] = read]
      BY <1>1, <1>4 DEF FetchJob
    <2>4. jobs' = jobs /\ UNCHANGED <<outcomes, reclaimed, webhook_log, netVars, cut>>
      BY <1>4 DEF FetchJob, jobVars
    <2>. HIDE DEF j, read
    <2> QED
      BY <1>1, <2>1, <2>2, <2>3, <2>4 DEF HandOver
  <1>5. ASSUME DeferJob(w)
        PROVE  HandOver
    <2>. DEFINE j == call[w].job
                row == Row("pending", NULL, jobs[j].attempt_count)
    <2>1. j \in Jobs /\ ~Announcing(w)
      BY <1>5, AtTheEnd DEF DeferJob, Announcing
    <2>2. row \in Rows
      <3>1. jobs[j].attempt_count \in Nat
        BY <1>1, <2>1 DEF Rows
      <3> QED
        BY <3>1, RowType
    <2>3. /\ jobs' = [jobs EXCEPT ![j] = row] /\ call' = [call EXCEPT ![w] = Idle]
          /\ UNCHANGED <<outcomes, reclaimed, webhook_log, netVars, cut>>
      BY <1>5 DEF DeferJob
    <2>. HIDE DEF j, row
    <2> QED
      BY <1>1, <1>2, <2>1, <2>2, <2>3 DEF HandOver
  <1>6. ASSUME OutcomeLost(w)
        PROVE  HandOver
    <2>1. ~Announcing(w) /\ call' = [call EXCEPT ![w] = Idle] /\ jobs' = jobs
          /\ UNCHANGED <<outcomes, reclaimed, webhook_log, netVars, cut>>
      BY <1>6, AtTheEnd DEF OutcomeLost, Announcing, jobVars
    <2> QED
      BY <1>1, <1>2, <2>1 DEF HandOver
  <1> QED
    BY <1>3, <1>4, <1>5, <1>6

\* A scheduler that does not bury.
LEMMA SchedulerHandsOver ==
    ASSUME Inv, NEW s \in Schedulers,
           \/ \E B \in SUBSET Jobs : Promote(s, B) \/ RecoverStaleClaimed(s, B)
           \/ \E r \in reclaimed[s] : BuryRefused(s, r)
    PROVE  HandOver
  <1>1. /\ jobs \in [Jobs -> Rows] /\ reclaimed \in ReclaimedType /\ call \in [Callers -> CallType]
        /\ s \in Callers
    BY DEF Inv, TypeOK, ReclaimedType, CallType, Callers
  <1>2. ASSUME NEW B \in SUBSET Jobs, Promote(s, B)
        PROVE  HandOver
    <2>1. \A j \in Jobs : [jobs[j] EXCEPT !.status = "queued"] \in Rows
      BY <1>1 DEF Rows
    <2>2. jobs' = [j \in Jobs |-> IF j \in B THEN [jobs[j] EXCEPT !.status = "queued"] ELSE jobs[j]]
      BY <1>2 DEF Promote
    <2>3. jobs' \in [Jobs -> Rows]
      BY <1>1, <2>1, <2>2
    <2> QED
      BY <1>1, <1>2, <2>3 DEF Promote, HandOver
  <1>3. ASSUME NEW B \in SUBSET Jobs, RecoverStaleClaimed(s, B)
        PROVE  HandOver
    <2>. DEFINE attempt(j) == jobs[j].attempt_count + 1
                reset(j) == Row("pending", NULL, attempt(j))
                left == {[job |-> j, attempt_count |-> attempt(j)] :
                           j \in {k \in B : attempt(k) >= MaxAttempts}}
    <2>1. \A j \in Jobs : attempt(j) \in Nat
      BY <1>1 DEF Rows
    <2>. HIDE DEF attempt
    <2>2. \A j \in Jobs : reset(j) \in Rows
      BY <2>1, RowType
    <2>3. left \in SUBSET [job : Jobs, attempt_count : Nat]
      BY <2>1
    <2>4. /\ jobs' = [j \in Jobs |-> IF j \in B THEN reset(j) ELSE jobs[j]]
          /\ reclaimed' = [reclaimed EXCEPT ![s] = left]
          /\ UNCHANGED <<outcomes, call, webhook_log, netVars, cut>>
      BY <1>3 DEF RecoverStaleClaimed, attempt
    <2>. HIDE DEF reset, left
    <2>5. jobs' \in [Jobs -> Rows] /\ reclaimed' \in ReclaimedType
      BY <1>1, <2>2, <2>3, <2>4 DEF ReclaimedType
    <2> QED
      BY <1>1, <2>4, <2>5 DEF HandOver
  <1>4. ASSUME NEW r \in reclaimed[s], BuryRefused(s, r)
        PROVE  HandOver
    <2>1. reclaimed' \in ReclaimedType
      BY <1>1, <1>4 DEF BuryRefused, InLoop, ReclaimedType
    <2> QED
      BY <1>1, <1>4, <2>1 DEF BuryRefused, jobVars, HandOver
  <1> QED
    BY <1>2, <1>3, <1>4

\* There are no other steps.
LEMMA Steps ==
    ASSUME Inv, Next
    PROVE  /\ UNCHANGED callback_url
           /\ HandOver \/ Posting \/ \E c, j, status : Commit(c, j, status)
  <1>1. ASSUME NEW w \in Workers, WorkerStep(w)
        PROVE  HandOver \/ \E c, j, status : Commit(c, j, status)
    BY <1>1, WorkerHandsOver, Commits DEF WorkerStep
  <1>2. ASSUME NEW s \in Schedulers, SchedulerStep(s)
        PROVE  HandOver \/ \E c, j, status : Commit(c, j, status)
    BY <1>2, SchedulerHandsOver, Commits, BuriedOrRefused DEF SchedulerStep
  <1>3. ASSUME NEW c \in Callers, FireStep(c) \/ Abort(c)
        PROVE  Posting
    BY <1>3 DEF FireStep, Refused, Abort, Posting
  <1> QED
    BY <1>1, <1>2, <1>3 DEF Next, Posting

\* The claim changes hands.
LEMMA HandOverKeeps ==
    ASSUME Inv, HandOver, UNCHANGED callback_url
    PROVE  /\ Inv'
           /\ \A c \in Callers : /\ Announcing(c)' <=> Announcing(c)
                                 /\ Announcing(c) => call'[c] = call[c]
  <1>1. TypeOK'
    BY DEF HandOver, Inv, TypeOK, CallType, ReclaimedType, netVars
  <1>2. CallShape'
    BY DEF HandOver, Inv, CallShape, Announcing
  <1>3. \A c \in Callers : /\ Announcing(c)' <=> Announcing(c)
                           /\ Announcing(c) => call'[c] = call[c]
    BY DEF HandOver, Announcing
  <1>4. AllTold'
    BY <1>3 DEF HandOver, netVars, Inv, AllTold, Told
  <1> QED
    BY <1>1, <1>2, <1>3, <1>4 DEF Inv

\* The attempts of an announcement.
LEMMA PostingKeeps ==
    ASSUME Inv, Posting, UNCHANGED callback_url
    PROVE  Inv'
  <1>. USE DEF Inv, TypeOK
  <1>1. Idle \in CallType
    BY WebhookAssumption DEF Idle, CallType, Http
  <1>2. UNCHANGED jobVars
    BY DEF Posting, Reach, Miss, Log, BreakOff, Arrive
  <1>3. ASSUME NEW c \in Callers, Announcing(c)
        PROVE  /\ About(c) \in Announcement
               /\ Request(c) \in [about : Announcement, status : Status, try : 1..MaxTries]
               /\ Told(Request(c).about.job, Request(c).about.n, Request(c).status)
    BY <1>3 DEF CallShape, AllTold, About, Request, Announcement
  <1>4. ASSUME NEW c \in Callers, NEW http \in Http, Posted(c, http)
        PROVE  /\ Announcing(c) /\ call'[c].stage = "log"
               /\ call' \in [Callers -> CallType]
               /\ \A d \in Callers : d # c => call'[d] = call[d]
               /\ call'[c].job = call[c].job /\ call'[c].n = call[c].n
               /\ call'[c].status = call[c].status /\ call'[c].try = call[c].try
    BY <1>4 DEF Posted, CallType, Announcing
  <1>5. ASSUME NEW c \in Callers, Log(c)
        PROVE  /\ Announcing(c)
               /\ call' \in [Callers -> CallType]
               /\ \A d \in Callers : d # c => call'[d] = call[d]
               /\ \/ call'[c].stage = "idle"
                  \/ /\ call'[c].stage = "post"
                     /\ call'[c].job = call[c].job /\ call'[c].n = call[c].n
                     /\ call'[c].status = call[c].status /\ call'[c].try \in 1..MaxTries
    <2>1. Announcing(c) /\ call[c] \in CallType /\ call[c].try \in 1..MaxTries
      BY <1>5 DEF Log, Announcing, CallShape, CallType
    <2>. DEFINE again == [call[c] EXCEPT !.stage = "post", !.try = NextTry(call[c].try), !.http = NULL]
    <2>2. ~(LastTry(call[c].try)) =>
            call[c].try + 1 \in 1..MaxTries /\ call[c].try + 1 \in 0..MaxTries
      BY <2>1, WebhookAssumption DEF LastTry
    <2>3. /\ again.stage = "post" /\ again.job = call[c].job /\ again.n = call[c].n
          /\ again.status = call[c].status /\ again.try = call[c].try + 1
          /\ ~(LastTry(call[c].try)) => again \in CallType
      BY <2>1, <2>2 DEF CallType, Http, NextTry
    <2>4. call' = [call EXCEPT ![c] = IF Accepted(call[c].http) \/ LastTry(call[c].try)
                                        THEN Idle ELSE again]
      BY <1>5 DEF Log
    <2>. HIDE DEF again
    <2>5. Idle.stage = "idle"
      BY DEF Idle
    <2>6. /\ call' \in [Callers -> CallType]
          /\ \A d \in Callers : d # c => call'[d] = call[d]
          /\ call'[c] = Idle \/ (~(LastTry(call[c].try)) /\ call'[c] = again)
      BY <1>1, <2>3, <2>4 DEF CallType
    <2> QED
      BY <2>1, <2>2, <2>3, <2>5, <2>6
  <1>6. ASSUME NEW c \in Callers, BreakOff(c)
        PROVE  /\ call' \in [Callers -> CallType] /\ call'[c].stage = "idle"
               /\ \A d \in Callers : d # c => call'[d] = call[d]
               /\ cut' \subseteq Announcement
    <2> QED
      BY <1>1, <1>3, <1>6 DEF BreakOff, Announcing, CallType, Idle
  <1>7. \/ call' = call
        \/ \E c \in Callers :
              /\ call' \in [Callers -> CallType]
              /\ \A d \in Callers : d # c => call'[d] = call[d]
              /\ \/ call'[c].stage = "idle"
                 \/ /\ Announcing(c) /\ Announcing(c)'
                    /\ call'[c].job = call[c].job /\ call'[c].n = call[c].n
                    /\ call'[c].status = call[c].status /\ call'[c].try \in 1..MaxTries
    <2>1. ASSUME NEW c \in Callers, Announcing(c)
          PROVE  call[c].try \in 1..MaxTries
      BY <2>1 DEF CallShape
    <2>2. NULL \in Http
      BY DEF Http
    <2>3. ASSUME NEW c \in Callers, Reach(c) \/ Miss(c)
          PROVE  \E http \in Http : Posted(c, http)
      BY <2>2, <2>3 DEF Reach, Miss
    <2>4. \A m \in travelling : Arrive(m) => call' = call
      BY DEF Arrive
    <2> QED
      BY <1>4, <1>5, <1>6, <2>1, <2>3, <2>4 DEF Posting, Announcing
  <1>8. CallShape'
    BY <1>7 DEF CallShape, Announcing
  <1>10. ASSUME NEW m \in travelling' \cup received'
         PROVE  m \in travelling \cup received \/ \E c \in Callers : Announcing(c) /\ m = Request(c)
    BY <1>10 DEF Posting, Reach, Miss, Posted, Log, BreakOff, Arrive, netVars, Announcing
  <1>11. AllTold'
    <2>1. \A j, n, status : Told(j, n, status)' <=> Told(j, n, status)
      BY <1>2 DEF jobVars, Told
    <2>2. \A m \in travelling' \cup received' : Told(m.about.job, m.about.n, m.status)
      BY <1>3, <1>10 DEF AllTold
    <2>3. \A c \in Callers : Announcing(c)' =>
              /\ Announcing(c)
              /\ call'[c].job = call[c].job /\ call'[c].n = call[c].n
              /\ call'[c].status = call[c].status
      BY <1>7 DEF Announcing
    <2>4. \A c \in Callers : Announcing(c)' => Told(call'[c].job, call'[c].n, call'[c].status)
      BY <2>3 DEF AllTold
    <2> QED
      BY <1>2, <2>2, <2>4 DEF jobVars, AllTold, Told
  <1>12. TypeOK'
    <2>1. travelling' \cup received' \subseteq [about : Announcement, status : Status, try : 1..MaxTries]
      BY <1>3, <1>10
    <2>2. webhook_log' \subseteq [about : Announcement, status_change : Status,
                                 attempt : 1..MaxTries, http_status : Http]
      <3>1. ASSUME NEW c \in Callers, Log(c)
            PROVE  LogRow(c) \subseteq [about : Announcement, status_change : Status,
                                       attempt : 1..MaxTries, http_status : Http]
        BY <1>3, <1>5, <3>1 DEF LogRow, CallShape
      <3>2. \/ webhook_log' = webhook_log
            \/ \E c \in Callers : Log(c) /\ webhook_log' = webhook_log \cup LogRow(c)
        BY DEF Posting, Reach, Miss, Log, BreakOff, Arrive
      <3>. HIDE DEF LogRow
      <3> QED
        BY <3>1, <3>2
    <2>3. cut' \subseteq Announcement
      BY <1>6 DEF Posting, Reach, Miss, Log, Arrive
    <2>4. call' \in [Callers -> CallType]
      BY <1>7 DEF CallType
    <2>5. reclaimed' \in [Schedulers -> SUBSET [job : Jobs, attempt_count : Nat]]
      BY DEF Posting, Reach, Miss, Log, BreakOff, Arrive
    <2> QED
      BY <1>2, <2>1, <2>2, <2>3, <2>4, <2>5 DEF jobVars, CallType
  <1> QED
    BY <1>8, <1>11, <1>12

\* From step to step.
LEMMA InvStep == Inv /\ [Next]_webhookVars => Inv'
  <1>. SUFFICES ASSUME Inv, [Next]_webhookVars
                PROVE  Inv'
    OBVIOUS
  <1>1. CASE Next
    <2>1. ASSUME NEW c, NEW j, NEW status, Commit(c, j, status), UNCHANGED callback_url
          PROVE  Inv'
      BY <2>1, CommitTypes, CommitTells DEF Inv
    <2> QED
      BY <1>1, <2>1, Steps, HandOverKeeps, PostingKeeps
  <1>2. CASE UNCHANGED webhookVars
    BY <1>2
       DEF webhookVars, jobVars, netVars, Inv, TypeOK, CallShape, Announcing, AllTold, Told
  <1> QED
    BY <1>1, <1>2

\* Nothing was committed and nobody announces anything.
LEMMA InvInit == Init => Inv
  <1>. SUFFICES ASSUME Init
                PROVE  Inv
    OBVIOUS
  <1>1. <<>> \in Seq(Status) /\ Len(<<>>) = 0
    OBVIOUS
  <1>2. Idle \in CallType /\ Idle.stage = "idle"
    BY WebhookAssumption DEF Idle, CallType, Http
  <1>3. TypeOK
    <2>1. jobs \in [Jobs -> Rows]
      BY RowType DEF Init
    <2> QED
      BY <1>1, <1>2, <2>1 DEF Init, TypeOK, CallType
  <1>4. CallShape /\ AllTold
    BY <1>2 DEF Init, CallShape, AllTold, Announcing
  <1> QED
    BY <1>3, <1>4 DEF Inv

\* The invariant the three properties rest on.
LEMMA InvAlways == Spec => []Inv
  BY InvInit, InvStep, PTL DEF Spec

\* A caller that announces has a committed outcome of a job in hand, and makes
\* no more tries than webhook_max_attempts (the loop of fire_webhook).
THEOREM WebhookTypes == Spec => []TypeOK
  <1>1. Inv => TypeOK
    BY DEF Inv
  <1> QED
    BY <1>1, InvAlways, PTL

-----------------------------------------------------------------------------
(* No silence.                                                             *)

\* An outcome is being announced, or its announcement has ended.
Settled(a) ==
    \/ a \in cut
    \/ \E c \in Callers : Announcing(c) /\ About(c) = a
    \/ \E r \in RowsOf(a) : r.http_status = "ok" \/ r.attempt = MaxTries

\* The end of an announcement is written down, and so is its interruption.
LEMMA SettledStays ==
    ASSUME Inv, Next, NEW a, Settled(a)
    PROVE  Settled(a)'
  <1>. USE DEF Inv, TypeOK
  <1>1. webhook_log \subseteq webhook_log' /\ cut \subseteq cut'
    BY Steps DEF HandOver, Commit, Posting, Reach, Miss, Log, BreakOff, Arrive
  <1>2. CASE a \in cut \/ \E r \in RowsOf(a) : r.http_status = "ok" \/ r.attempt = MaxTries
    BY <1>1, <1>2 DEF Settled, RowsOf
  <1>3. ASSUME NEW c \in Callers, Announcing(c), About(c) = a
        PROVE  \/ Announcing(c)' /\ About(c)' = a
               \/ a \in cut'
               \/ \E r \in RowsOf(a)' : r.http_status = "ok" \/ r.attempt = MaxTries
    <2>1. CASE HandOver
      BY <1>3, <2>1, HandOverKeeps, Steps DEF About
    <2>2. ASSUME NEW d, NEW j, NEW status, Commit(d, j, status)
          PROVE  Announcing(c)' /\ About(c)' = a
      <3>1. d # c
        BY <1>3, <2>2 DEF Commit, Announcing
      <3>2. call'[c] = call[c]
        BY <2>2, <3>1, Fired DEF Commit
      <3> QED
        BY <1>3, <3>2 DEF Announcing, About
    <2>3. ASSUME NEW d \in Callers, d # c,
                 Reach(d) \/ Miss(d) \/ Log(d) \/ BreakOff(d)
          PROVE  Announcing(c)' /\ About(c)' = a
      BY <1>3, <2>3 DEF Reach, Miss, Posted, Log, BreakOff, Announcing, About
    <2>4. ASSUME NEW m \in travelling, Arrive(m)
          PROVE  Announcing(c)' /\ About(c)' = a
      BY <1>3, <2>4 DEF Arrive, Announcing, About
    <2>5. CASE Reach(c) \/ Miss(c)
      BY <1>3, <2>5 DEF Reach, Miss, Posted, Announcing, About
    <2>6. CASE BreakOff(c)
      BY <1>3, <2>6 DEF BreakOff, Announcing
    <2>7. CASE Log(c)
      <3>1. CASE Accepted(call[c].http) \/ LastTry(call[c].try)
        <4>. DEFINE r == [about |-> About(c), status_change |-> call[c].status,
                          attempt |-> call[c].try, http_status |-> call[c].http]
        <4>1. r \in webhook_log' /\ r.about = a
          BY <1>3, <2>7 DEF Log, LogRow
        <4>2. call[c].try \in 1..MaxTries
          BY <1>3 DEF CallShape
        <4>3. r.http_status = "ok" \/ r.attempt = MaxTries
          BY <3>1, <4>2, WebhookAssumption DEF Accepted, LastTry
        <4> QED
          BY <4>1, <4>3 DEF RowsOf
      <3>2. CASE ~(Accepted(call[c].http) \/ LastTry(call[c].try))
        BY <1>3, <2>7, <3>2 DEF Log, Announcing, About
      <3> QED
        BY <3>1, <3>2
    <2> QED
      BY <2>1, <2>2, <2>3, <2>4, <2>5, <2>6, <2>7, Steps DEF Posting
  <1> QED
    BY <1>2, <1>3 DEF Settled

\* A new outcome is announced by the caller that committed it.
LEMMA AnnouncedStep ==
    ASSUME Inv, EveryOutcomeAnnounced, Next
    PROVE  EveryOutcomeAnnounced'
  <1>. SUFFICES ASSUME NEW j \in Jobs, callback_url'[j] # NULL, NEW n \in 1..Len(outcomes'[j])
                PROVE  Settled([job |-> j, n |-> n])'
    BY DEF EveryOutcomeAnnounced, Settled, Announcing
  <1>1. callback_url[j] # NULL
    BY Steps
  <1>2. CASE n \in 1..Len(outcomes[j])
    <2>1. Settled([job |-> j, n |-> n])
      BY <1>1, <1>2 DEF EveryOutcomeAnnounced, Settled, Announcing
    <2> QED
      BY <2>1, SettledStays
  <1>3. CASE n \notin 1..Len(outcomes[j])
    <2>1. outcomes'[j] # outcomes[j]
      BY <1>3
    <2>2. PICK c, k, status : Commit(c, k, status)
      <3>1. HandOver \/ Posting => outcomes' = outcomes
        BY DEF HandOver, Posting, Reach, Miss, Log, BreakOff, Arrive, jobVars
      <3> QED
        BY <2>1, <3>1, Steps
    <2>3. /\ k = j /\ status \in Status /\ c \in Callers /\ Fire(c, j, status)
          /\ outcomes' = [outcomes EXCEPT ![j] = Append(@, status)]
      <3>1. /\ c \in Callers /\ k \in Jobs /\ status \in Status /\ Fire(c, k, status)
            /\ outcomes' = [outcomes EXCEPT ![k] = Append(@, status)]
        BY <2>2 DEF Commit
      <3>2. k = j
        BY <2>1, <3>1
      <3> QED
        BY <3>1, <3>2
    <2>4. n = Len(outcomes[j]) + 1
      BY <1>3, <2>3, Appended DEF Inv
    <2>5. Announcing(c)' /\ About(c)' = [job |-> j, n |-> n]
      BY <1>1, <2>3, <2>4, Fired DEF Inv, Announcing, About
    <2> QED
      BY <2>3, <2>5 DEF Settled
  <1> QED
    BY <1>2, <1>3

\* A client with a callback URL hears of every outcome, or webhook_log shows
\* that all attempts failed, or an exception or a crash broke the announcement
\* off: the loop of fire_webhook has no other way out.
THEOREM OutcomesAnnounced == Spec => []EveryOutcomeAnnounced
  <1>1. Init => EveryOutcomeAnnounced
    BY DEF Init, EveryOutcomeAnnounced
  <1>2. EveryOutcomeAnnounced /\ UNCHANGED webhookVars => EveryOutcomeAnnounced'
    BY DEF webhookVars, jobVars, EveryOutcomeAnnounced, About, RowsOf
  <1>3. Inv /\ EveryOutcomeAnnounced /\ [Next]_webhookVars => EveryOutcomeAnnounced'
    BY <1>2, AnnouncedStep
  <1> QED
    BY <1>1, <1>3, InvAlways, PTL DEF Spec

-----------------------------------------------------------------------------
(* The log.                                                                *)

\* An announcement is made by one caller, and is about a committed outcome.
OneVoice ==
    /\ \A c, d \in Callers : Announcing(c) /\ Announcing(d) /\ About(c) = About(d) => c = d
    /\ \A r \in webhook_log : r.about.n \in 1..Len(outcomes[r.about.job])

\* The rows of an announcement under way are those of its attempts so far.
UpToDate ==
    \A c \in Callers : Announcing(c) =>
        /\ \A r \in RowsOf(About(c)) : r.attempt < call[c].try
        /\ \A t \in 1..(call[c].try - 1) :
               \E q \in RowsOf(About(c)) : q.attempt = t /\ q.http_status # "ok"

\* What became of a callback that was sent.
Logged(m) ==
    \/ m.about \in cut
    \/ \E c \in Callers : /\ call[c].stage = "log" /\ About(c) = m.about
                         /\ call[c].try = m.try /\ call[c].status = m.status
    \/ \E r \in RowsOf(m.about) : r.attempt = m.try /\ r.status_change = m.status

LogInv ==
    /\ OneVoice
    /\ UpToDate
    /\ \A q, r \in webhook_log : q.about = r.about /\ q.attempt = r.attempt => q = r
    /\ \A r \in webhook_log : \A t \in 1..(r.attempt - 1) :
           \E q \in RowsOf(r.about) : q.attempt = t /\ q.http_status # "ok"
    /\ \A m \in travelling \cup received : Logged(m)

\* A step that writes no row: the announcements under way are old ones or that
\* of a new outcome, and keep their attempt.
LEMMA LogUntouched ==
    ASSUME LogInv, webhook_log' = webhook_log, cut \subseteq cut',
           \A r \in webhook_log : r.about.n \in 1..Len(outcomes'[r.about.job]),
           NEW Fresh,
           \A c \in Callers : Announcing(c)' =>
               \/ /\ Announcing(c) /\ About(c)' = About(c)
                  /\ call'[c].try = call[c].try /\ call'[c].status = call[c].status
               \/ /\ About(c)' = Fresh /\ call'[c].try = 1
                  /\ \A d \in Callers : Announcing(d) => About(d) # Fresh
                  /\ \A r \in webhook_log : r.about # Fresh
                  /\ \A d \in Callers : d # c /\ Announcing(d)' => About(d)' # Fresh,
           \A m \in travelling' \cup received' : Logged(m)'
    PROVE  LogInv'
  <1>1. \A a : RowsOf(a)' = RowsOf(a)
    BY DEF RowsOf
  <1>2. OneVoice'
    BY DEF LogInv, OneVoice
  <1>3. UpToDate'
    <2>. SUFFICES ASSUME NEW c \in Callers, Announcing(c)'
                  PROVE  /\ \A r \in RowsOf(About(c)') : r.attempt < call'[c].try
                         /\ \A t \in 1..(call'[c].try - 1) :
                               \E q \in RowsOf(About(c)') : q.attempt = t /\ q.http_status # "ok"
      BY <1>1 DEF UpToDate
    <2>1. CASE Announcing(c) /\ About(c)' = About(c) /\ call'[c].try = call[c].try
      BY <2>1 DEF LogInv, UpToDate
    <2>2. CASE About(c)' = Fresh /\ call'[c].try = 1 /\ \A r \in webhook_log : r.about # Fresh
      BY <2>2 DEF RowsOf
    <2> QED
      BY <2>1, <2>2
  <1> QED
    BY <1>1, <1>2, <1>3 DEF LogInv

\* A commit starts an announcement that nobody else makes.
LEMMA CommitLogs ==
    ASSUME Inv, LogInv, NEW c, NEW j, NEW status, Commit(c, j, status)
    PROVE  LogInv'
  <1>. DEFINE Fresh == [job |-> j, n |-> Len(outcomes[j]) + 1]
  <1>1. /\ c \in Callers /\ j \in Jobs /\ status \in Status
        /\ call[c].stage \in {"idle", "deliver"}
        /\ outcomes' = [outcomes EXCEPT ![j] = Append(@, status)]
        /\ UNCHANGED <<webhook_log, travelling, received, cut>>
        /\ \A d \in Callers : d # c => call'[d] = call[d]
        /\ Announcing(c)' => call'[c].job = j /\ call'[c].n = Len(outcomes[j]) + 1
                             /\ call'[c].try = 1
    <2>1. /\ c \in Callers /\ j \in Jobs /\ status \in Status /\ Fire(c, j, status) /\ TypeOK
      BY DEF Commit, Inv
    <2> QED
      BY <2>1, Fired DEF Commit, netVars, Announcing
  <1>2. /\ Len(outcomes'[j]) = Len(outcomes[j]) + 1 /\ Len(outcomes[j]) \in Nat
        /\ \A k \in Jobs : k # j => outcomes'[k] = outcomes[k]
    BY <1>1, Appended DEF Inv
  <1>3. \A d \in Callers : Announcing(d) => About(d) # Fresh
    <2>1. \A d \in Callers : Announcing(d) => call[d].n \in 1..Len(outcomes[call[d].job])
      BY DEF Inv, AllTold, Told
    <2> QED
      BY <1>2, <2>1 DEF About
  <1>4. \A r \in webhook_log : r.about # Fresh /\ r.about.n \in 1..Len(outcomes'[r.about.job])
    <2>1. \A r \in webhook_log : r.about.n \in 1..Len(outcomes[r.about.job]) /\ r.about.job \in Jobs
      BY DEF LogInv, OneVoice, Inv, TypeOK, Announcement
    <2> QED
      BY <1>2, <2>1
  <1>5. \A d \in Callers : d # c /\ Announcing(d)' =>
            /\ Announcing(d) /\ About(d)' = About(d)
            /\ call'[d].try = call[d].try /\ call'[d].status = call[d].status
    BY <1>1 DEF Announcing, About
  <1>6. Announcing(c)' => About(c)' = Fresh /\ call'[c].try = 1
    BY <1>1 DEF About
  <1>7. \A m \in travelling' \cup received' : Logged(m)'
    <2>1. \A d \in Callers : call[d].stage = "log" => call'[d] = call[d]
      BY <1>1
    <2>2. ASSUME NEW m \in travelling \cup received
          PROVE  Logged(m)'
      <3>1. CASE \/ m.about \in cut
                 \/ \E r \in RowsOf(m.about) : r.attempt = m.try /\ r.status_change = m.status
        BY <1>1, <3>1 DEF Logged, RowsOf
      <3>2. CASE \E d \in Callers : /\ call[d].stage = "log" /\ About(d) = m.about
                                   /\ call[d].try = m.try /\ call[d].status = m.status
        BY <2>1, <3>2 DEF Logged, About
      <3> QED
        BY <3>1, <3>2 DEF LogInv, Logged
    <2> QED
      BY <1>1, <2>2
  <1>. HIDE DEF Fresh
  <1> QED
    BY <1>1, <1>3, <1>4, <1>5, <1>6, <1>7, LogUntouched

\* So does any other step that does not write to the log.
LEMMA QuietLogs ==
    ASSUME Inv, LogInv,
           HandOver \/ (Posting /\ \A c \in Callers : ~Log(c)),
           UNCHANGED callback_url
    PROVE  LogInv'
  <1>. USE DEF Inv, TypeOK
  <1>1. webhook_log' = webhook_log /\ cut \subseteq cut'
    BY DEF HandOver, Posting, Reach, Miss, BreakOff, Arrive
  <1>2. \A r \in webhook_log : r.about.n \in 1..Len(outcomes'[r.about.job])
    <2>1. outcomes' = outcomes
      BY DEF HandOver, Posting, Reach, Miss, Log, BreakOff, Arrive, jobVars
    <2> QED
      BY <2>1 DEF LogInv, OneVoice
  <1>3. ASSUME NEW c \in Callers
        PROVE  /\ Announcing(c)' => /\ Announcing(c) /\ About(c)' = About(c)
                                    /\ call'[c].try = call[c].try
                                    /\ call'[c].status = call[c].status
               /\ call[c].stage = "log" => call'[c] = call[c] \/ About(c) \in cut'
    <2>1. CASE HandOver
      <3>1. Announcing(c) => call'[c] = call[c]
        BY <2>1, HandOverKeeps
      <3>2. Announcing(c)' => Announcing(c)
        BY <2>1, HandOverKeeps
      <3> QED
        BY <3>1, <3>2 DEF Announcing, About
    <2>2. ASSUME NEW d \in Callers, Reach(d) \/ Miss(d) \/ BreakOff(d), c # d
          PROVE  call'[c] = call[c]
      BY <2>2 DEF Reach, Miss, Posted, BreakOff
    <2>3. CASE Reach(c) \/ Miss(c)
      BY <2>3 DEF Reach, Miss, Posted, Announcing, About
    <2>4. CASE BreakOff(c)
      BY <2>4 DEF BreakOff, Announcing, Idle
    <2>5. ASSUME NEW m \in travelling, Arrive(m)
          PROVE  call'[c] = call[c]
      BY <2>5 DEF Arrive
    <2> QED
      BY <2>1, <2>2, <2>3, <2>4, <2>5 DEF Posting, Announcing, About
  <1>4. ASSUME NEW m \in travelling \cup received
        PROVE  Logged(m)'
    <2>1. Logged(m)
      BY DEF LogInv
    <2>2. CASE m.about \in cut \/ \E r \in RowsOf(m.about) : r.attempt = m.try /\ r.status_change = m.status
      BY <1>1, <2>2 DEF Logged, RowsOf
    <2>3. CASE \E c \in Callers : /\ call[c].stage = "log" /\ About(c) = m.about
                                 /\ call[c].try = m.try /\ call[c].status = m.status
      BY <1>3, <2>3 DEF Logged, About
    <2> QED
      BY <2>1, <2>2, <2>3 DEF Logged
  <1>5. ASSUME NEW m \in travelling' \cup received', m \notin travelling \cup received
        PROVE  Logged(m)'
    <2>1. PICK c \in Callers : (Reach(c) \/ Miss(c)) /\ m = Request(c)
      BY <1>5 DEF HandOver, Posting, BreakOff, Arrive, Reach, Miss, netVars
    <2>2. call'[c].stage = "log"
      BY <2>1 DEF Reach, Miss, Posted
    <2> QED
      BY <1>3, <2>1, <2>2 DEF Logged, Request, Announcing
  <1>6. \A m \in travelling' \cup received' : Logged(m)'
    BY <1>4, <1>5
  <1> QED
    BY <1>1, <1>2, <1>3, <1>6, LogUntouched

\* The INSERT writes the row of the attempt just made.
LEMMA LogLogs ==
    ASSUME Inv, LogInv, NEW c \in Callers, Log(c)
    PROVE  LogInv'
  <1>. USE DEF Inv, TypeOK
  <1>. DEFINE row == [about |-> About(c), status_change |-> call[c].status,
                      attempt |-> call[c].try, http_status |-> call[c].http]
  <1>1. /\ Announcing(c) /\ call[c].stage = "log" /\ call[c].try \in 1..MaxTries
        /\ webhook_log' = webhook_log \cup {row}
        /\ UNCHANGED <<outcomes, travelling, received, cut>>
        /\ \A d \in Callers : d # c => call'[d] = call[d]
        /\ Announcing(c)' => /\ About(c)' = About(c) /\ call'[c].try = call[c].try + 1
                             /\ call[c].http # "ok"
    BY DEF Log, LogRow, CallShape, Announcing, Idle, About, NextTry, Accepted, jobVars, netVars
  <1>. HIDE DEF Inv, TypeOK
  <1>2. /\ row.about = About(c) /\ row.status_change = call[c].status
        /\ row.attempt = call[c].try /\ row.http_status = call[c].http
    OBVIOUS
  <1>. HIDE DEF row
  <1>3. \A a : RowsOf(a)' = IF a = About(c) THEN RowsOf(a) \cup {row} ELSE RowsOf(a)
    BY <1>1, <1>2 DEF RowsOf
  <1>4. \A d \in Callers : Announcing(d)' => Announcing(d) /\ About(d)' = About(d)
    BY <1>1 DEF Announcing, About
  <1>5. OneVoice'
    <2>1. row.about.n \in 1..Len(outcomes[row.about.job])
      BY <1>1, <1>2 DEF Inv, AllTold, Told, About
    <2> QED
      BY <1>1, <1>4, <2>1 DEF LogInv, OneVoice
  <1>6. UpToDate'
    <2>. SUFFICES ASSUME NEW d \in Callers, Announcing(d)'
                  PROVE  /\ \A r \in RowsOf(About(d))' : r.attempt < call'[d].try
                         /\ \A t \in 1..(call'[d].try - 1) :
                               \E q \in RowsOf(About(d))' : q.attempt = t /\ q.http_status # "ok"
      BY DEF UpToDate
    <2>1. Announcing(d) /\ About(d)' = About(d)
      BY <1>4
    <2>2. CASE d # c
      <3>1. About(d) # About(c)
        BY <1>1, <2>1, <2>2 DEF LogInv, OneVoice
      <3>2. RowsOf(About(d))' = RowsOf(About(d))
        BY <1>3, <2>1, <3>1 DEF RowsOf
      <3> QED
        BY <1>1, <2>1, <2>2, <3>2 DEF LogInv, UpToDate
    <2>3. CASE d = c
      <3>1. RowsOf(About(c))' = RowsOf(About(c)) \cup {row} /\ call'[c].try = call[c].try + 1
        BY <1>1, <1>3, <2>1, <2>3 DEF RowsOf
      <3>2. /\ \A r \in RowsOf(About(c)) : r.attempt < call[c].try
            /\ \A t \in 1..(call[c].try - 1) :
                  \E q \in RowsOf(About(c)) : q.attempt = t /\ q.http_status # "ok"
        BY <1>1 DEF LogInv, UpToDate
      <3>3. \A r \in RowsOf(About(c)) : r.attempt \in Nat
        BY WebhookAssumption DEF Inv, TypeOK, RowsOf
      <3>4. \A r \in RowsOf(About(c)) \cup {row} : r.attempt < call[c].try + 1
        BY <1>1, <1>2, <3>2, <3>3
      <3>5. ASSUME NEW t \in 1..call[c].try
            PROVE  \E q \in RowsOf(About(c)) \cup {row} : q.attempt = t /\ q.http_status # "ok"
        <4>1. CASE t = call[c].try
          <5>1. row.attempt = t /\ row.http_status # "ok"
            BY <1>1, <1>2, <2>3, <4>1
          <5> QED
            BY <5>1
        <4>2. CASE t # call[c].try
          <5>1. t \in 1..(call[c].try - 1)
            BY <1>1, <4>2
          <5> QED
            BY <3>2, <5>1
        <4> QED
          BY <4>1, <4>2
      <3> QED
        BY <1>1, <2>3, <3>1, <3>4, <3>5
    <2> QED
      BY <2>2, <2>3
  <1>7. \A r \in RowsOf(About(c)) : r.attempt < call[c].try
    BY <1>1 DEF LogInv, UpToDate
  <1>8. \A q, r \in webhook_log' : q.about = r.about /\ q.attempt = r.attempt => q = r
    <2>1. \A r \in webhook_log : r.about = row.about => r.attempt # row.attempt
      BY <1>1, <1>2, <1>7, WebhookAssumption DEF Inv, TypeOK, RowsOf
    <2> QED
      BY <1>1, <2>1 DEF LogInv
  <1>9. \A r \in webhook_log' : \A t \in 1..(r.attempt - 1) :
           \E q \in RowsOf(r.about)' : q.attempt = t /\ q.http_status # "ok"
    <2>1. ASSUME NEW t \in 1..(row.attempt - 1)
          PROVE  \E q \in webhook_log' : /\ q.about = row.about
                                         /\ q.attempt = t /\ q.http_status # "ok"
      <3>1. \A u \in 1..(call[c].try - 1) :
               \E q \in RowsOf(About(c)) : q.attempt = u /\ q.http_status # "ok"
        BY <1>1 DEF LogInv, UpToDate
      <3>2. t \in 1..(call[c].try - 1)
        BY <1>2
      <3>3. PICK q \in RowsOf(About(c)) : q.attempt = t /\ q.http_status # "ok"
        BY <3>1, <3>2
      <3>4. q \in webhook_log' /\ q.about = row.about
        BY <1>1, <1>2, <3>3 DEF RowsOf
      <3> QED
        BY <3>3, <3>4
    <2>2. \A a : RowsOf(a) \subseteq RowsOf(a)'
      BY <1>3
    <2>3. ASSUME NEW r \in webhook_log, NEW t \in 1..(r.attempt - 1)
          PROVE  \E q \in RowsOf(r.about)' : q.attempt = t /\ q.http_status # "ok"
      BY <2>2, <2>3 DEF LogInv
    <2>. SUFFICES ASSUME NEW r \in webhook_log', NEW t \in 1..(r.attempt - 1)
                  PROVE  \E q \in RowsOf(r.about)' : q.attempt = t /\ q.http_status # "ok"
      OBVIOUS
    <2>4. CASE r = row
      BY <2>1, <2>4 DEF RowsOf
    <2>5. CASE r \in webhook_log
      BY <2>3, <2>5
    <2> QED
      BY <1>1, <2>4, <2>5
  <1>10. ASSUME NEW m \in travelling' \cup received'
         PROVE  Logged(m)'
    <2>1. Logged(m)
      BY <1>1 DEF LogInv
    <2>2. CASE m.about \in cut \/ \E r \in RowsOf(m.about) : r.attempt = m.try /\ r.status_change = m.status
      BY <1>1, <1>3, <2>2 DEF Logged, RowsOf
    <2>3. ASSUME NEW d \in Callers, call[d].stage = "log", About(d) = m.about,
                 call[d].try = m.try, call[d].status = m.status
          PROVE  Logged(m)'
      <3>1. CASE d = c
        BY <1>1, <1>2, <1>3, <2>3, <3>1 DEF Logged, RowsOf
      <3>2. CASE d # c
        <4>1. call'[d] = call[d] /\ About(d)' = About(d)
          BY <1>1, <3>2 DEF About
        <4> QED
          BY <2>3, <4>1 DEF Logged
      <3> QED
        BY <3>1, <3>2
    <2> QED
      BY <2>1, <2>2, <2>3 DEF Logged
  <1> QED
    BY <1>5, <1>6, <1>8, <1>9, <1>10 DEF LogInv

\* webhook_log is a faithful record: one row per attempt, none after an accepted
\* one, and a row for every callback the client got, unless it is about to be
\* written or the announcement was broken off (INSERT_WEBHOOK_LOG).
THEOREM LogFaithful == Spec => []AuditTrail
  <1>1. Init => LogInv
    BY DEF Init, LogInv, OneVoice, UpToDate, Announcing, Idle
  <1>2. ASSUME Inv, LogInv, Next
        PROVE  LogInv'
    <2>1. CASE HandOver \/ Posting
      BY <1>2, <2>1, Steps, QuietLogs, LogLogs
    <2> QED
      BY <1>2, <2>1, Steps, CommitLogs
  <1>3. LogInv /\ UNCHANGED webhookVars => LogInv'
    BY DEF webhookVars, jobVars, netVars, LogInv, OneVoice, UpToDate, Announcing, About,
           RowsOf, Logged
  <1>4. LogInv => AuditTrail
    BY DEF LogInv, Logged, AuditTrail
  <1> QED
    BY <1>1, <1>2, <1>3, <1>4, InvAlways, PTL DEF Spec

-----------------------------------------------------------------------------
(* One end.  With one scheduler, and no worker that stalls before it has   *)
(* read its row, the fences of the statements do what they are for.        *)

OneScheduler == \A s, t \in Schedulers : s = t

\* A worker reads the row it has claimed, and as long as the row names it the
\* claim is its own; a row names a worker just when it is claimed or sent; and
\* the rows a recovery pass has left to bury are as the pass has reset them.
Fence ==
    /\ \A w \in Workers :
          /\ call[w].stage = "fetch" =>
                jobs[call[w].job].status = "claimed" /\ jobs[call[w].job].worker_id = w
          /\ call[w].stage = "deliver" =>
                /\ call[w].view.worker_id = w
                /\ jobs[call[w].job].worker_id = w => jobs[call[w].job].status = "claimed"
    /\ \A j \in Jobs : jobs[j].worker_id # NULL <=> jobs[j].status \in {"claimed", "sent"}
    /\ \A s \in Schedulers : \A r \in reclaimed[s] :
          jobs[r.job].status = "pending" /\ jobs[r.job].attempt_count = r.attempt_count

\* The job has come to an end.
Over(j) == jobs[j].status \in {"sent", "dead_lettered"}

\* Only the last outcome of a job can be an end, and the row says which.
OneEnd ==
    \A j \in Jobs : \A i \in 1..Len(outcomes[j]) :
        outcomes[j][i] # "failed" => i = Len(outcomes[j]) /\ jobs[j].status = outcomes[j][i]

\* A job that is over stays as it is, and only one that is not has a new
\* outcome, which its row shows if it is an end.
Orderly ==
    /\ \A j \in Jobs : Over(j) => jobs'[j].status = jobs[j].status
    /\ \/ outcomes' = outcomes
       \/ \E j \in Jobs, status \in Status :
             /\ ~Over(j)
             /\ outcomes' = [outcomes EXCEPT ![j] = Append(@, status)]
             /\ status # "failed" => jobs'[j].status = status

\* A worker gives the claim up that it holds.
LEMMA LettingGo ==
    ASSUME Inv, Fence, NEW w \in Workers, NEW row,
           Ending(w), jobs[call[w].job].worker_id = w,
           row.worker_id # NULL <=> row.status = "sent",
           row.worker_id \in {NULL, w}, row.status # "claimed",
           jobs' = [jobs EXCEPT ![call[w].job] = row], reclaimed' = reclaimed,
           call'[w].stage \notin {"fetch", "deliver"},
           \A v \in Workers : v # w => call'[v] = call[v]
    PROVE  Fence' /\ jobs[call[w].job].status = "claimed"
  <1>. DEFINE j == call[w].job
  <1>1. j \in Jobs /\ call[w].stage = "deliver" /\ w # NULL
    BY AtTheEnd, WebhookAssumption
  <1>2. jobs[j].status = "claimed"
    BY <1>1 DEF Fence
  <1>3. jobs'[j] = row /\ \A k \in Jobs : k # j => jobs'[k] = jobs[k]
    BY <1>1 DEF Inv, TypeOK
  <1>. HIDE DEF j
  <1>4. ASSUME NEW v \in Workers
        PROVE  /\ call'[v].stage = "fetch" =>
                     jobs'[call'[v].job].status = "claimed" /\ jobs'[call'[v].job].worker_id = v
               /\ call'[v].stage = "deliver" =>
                     /\ call'[v].view.worker_id = v
                     /\ jobs'[call'[v].job].worker_id = v => jobs'[call'[v].job].status = "claimed"
    <2>1. CASE v # w
      <3>1. call'[v] = call[v] /\ v # NULL /\ v \in Callers
        BY <2>1, WebhookAssumption DEF Callers
      <3>2. call[v].stage \in {"fetch", "deliver"} => call[v].job \in Jobs
        BY <3>1 DEF Inv, CallShape
      <3>3. jobs[j].worker_id = w
        BY DEF j
      <3> QED
        BY <1>3, <2>1, <3>1, <3>2, <3>3 DEF Fence
    <2> QED
      BY <2>1
  <1>5. \A k \in Jobs : jobs'[k].worker_id # NULL <=> jobs'[k].status \in {"claimed", "sent"}
    BY <1>3 DEF Fence
  <1>6. \A s \in Schedulers : \A r \in reclaimed'[s] :
           jobs'[r.job].status = "pending" /\ jobs'[r.job].attempt_count = r.attempt_count
    BY <1>2, <1>3 DEF Fence, Inv, TypeOK
  <1> QED
    BY <1>2, <1>4, <1>5, <1>6 DEF Fence, j

\* The statements of the worker's loop.
LEMMA WorkerFenced ==
    ASSUME Inv, Fence, NEW w \in Workers, WorkerStep(w)
    PROVE  Fence' /\ Orderly
  <1>1. /\ w \in Callers /\ w # NULL /\ call[w].stage \in {"idle", "fetch", "deliver", "post", "log"}
        /\ jobs \in [Jobs -> Rows] /\ call \in [Callers -> CallType]
    BY WebhookAssumption DEF Callers, Inv, TypeOK, CallType
  <1>2. \A v \in Workers : v \in Callers /\ v # NULL
    BY WebhookAssumption DEF Callers
  <1>3. \A v \in Workers : call[v].stage \in {"fetch", "deliver"} => call[v].job \in Jobs
    BY <1>2 DEF Inv, CallShape
  <1>4. ASSUME NEW j \in Jobs, Claim(w, j)
        PROVE  Fence' /\ Orderly
    <2>1. /\ jobs[j].status = "queued"
          /\ jobs' = [jobs EXCEPT ![j] = Row("claimed", w, jobs[j].attempt_count)]
          /\ call' = [call EXCEPT ![w] = [Idle EXCEPT !.stage = "fetch", !.job = j]]
          /\ UNCHANGED <<outcomes, reclaimed>>
      BY <1>1, <1>4 DEF Claim
    <2>2. /\ jobs'[j].status = "claimed" /\ jobs'[j].worker_id = w
          /\ \A k \in Jobs : k # j => jobs'[k] = jobs[k]
          /\ call'[w].stage = "fetch" /\ call'[w].job = j
          /\ \A v \in Workers : v # w => call'[v] = call[v]
      BY <1>1, <1>2, <2>1 DEF Row, Idle
    <2>3. Fence'
      BY <1>1, <1>2, <1>3, <2>1, <2>2 DEF Fence, Inv, TypeOK
    <2>4. Orderly
      BY <2>1, <2>2 DEF Orderly, Over
    <2> QED
      BY <2>3, <2>4
  <1>5. ASSUME FetchJob(w)
        PROVE  Fence' /\ Orderly
    <2>1. /\ call[w].stage = "fetch" /\ call'[w].stage = "deliver" /\ call'[w].job = call[w].job
          /\ call'[w].view = jobs[call[w].job]
          /\ \A v \in Workers : v # w => call'[v] = call[v]
          /\ UNCHANGED <<jobs, outcomes, reclaimed>>
      BY <1>1, <1>2, <1>5 DEF FetchJob, jobVars, CallType
    <2>2. Fence'
      BY <1>1, <2>1 DEF Fence
    <2> QED
      BY <2>1, <2>2 DEF Orderly
  <1>6. ASSUME NEW status \in Status, NEW row,
               Ending(w), jobs[call[w].job].worker_id = w,
               row.worker_id # NULL <=> row.status = "sent",
               row.worker_id \in {NULL, w}, row.status # "claimed",
               status # "failed" => row.status = status,
               CommitAndFire(w, call[w].job, status, row), reclaimed' = reclaimed
        PROVE  Fence' /\ Orderly
    <2>1. call[w].job \in Jobs /\ call[w].stage = "deliver"
      BY <1>6, AtTheEnd
    <2>2. /\ jobs' = [jobs EXCEPT ![call[w].job] = row]
          /\ outcomes' = [outcomes EXCEPT ![call[w].job] = Append(@, status)]
      BY <1>6 DEF CommitAndFire
    <2>3. /\ call'[w].stage \in {"idle", "post"}
          /\ \A v \in Workers : v # w => call'[v] = call[v]
      BY <1>1, <1>2, <1>6, <2>1, Fired DEF CommitAndFire, Inv
    <2>4. Fence' /\ jobs[call[w].job].status = "claimed"
      BY <1>6, <2>2, <2>3, LettingGo
    <2>5. Orderly
      BY <1>1, <1>6, <2>1, <2>2, <2>4 DEF Orderly, Over
    <2> QED
      BY <2>4, <2>5
  <1>7. Ending(w) => call[w].view.worker_id = w /\ call[w].job \in Jobs
    BY AtTheEnd DEF Fence, Ending
  <1>8. "sent" \in Status /\ "failed" \in Status /\ "dead_lettered" \in Status
    BY DEF Status
  <1>9. CASE Succeed(w)
    <2>. DEFINE row == [jobs[call[w].job] EXCEPT !.status = "sent"]
    <2>1. Ending(w) /\ jobs[call[w].job].worker_id = w /\ call[w].job \in Jobs
      BY <1>7, <1>9 DEF Succeed, OwnedBy
    <2>2. row.status = "sent" /\ row.worker_id = w
      <3>1. jobs[call[w].job] \in Rows
        BY <1>1, <2>1
      <3> QED
        BY <2>1, <3>1 DEF Rows
    <2>3. CommitAndFire(w, call[w].job, "sent", row) /\ reclaimed' = reclaimed
      BY <1>9 DEF Succeed
    <2>. HIDE DEF row
    <2> QED
      BY <1>1, <1>6, <1>8, <2>1, <2>2, <2>3
  <1>10. CASE Fail(w)
    <2>. DEFINE row == Row("pending", NULL, call[w].view.attempt_count + 1)
    <2>1. Ending(w) /\ jobs[call[w].job].worker_id = w
      BY <1>7, <1>10 DEF Fail, OwnedBy
    <2>2. row.status = "pending" /\ row.worker_id = NULL
      BY DEF Row
    <2>3. CommitAndFire(w, call[w].job, "failed", row) /\ reclaimed' = reclaimed
      BY <1>10 DEF Fail
    <2>. HIDE DEF row
    <2> QED
      BY <1>6, <1>8, <2>1, <2>2, <2>3
  <1>11. CASE GiveUp(w)
    <2>. DEFINE row == Row("dead_lettered", NULL, call[w].view.attempt_count + 1)
    <2>1. Ending(w) /\ jobs[call[w].job].worker_id = w
      BY <1>7, <1>11 DEF GiveUp, HeldUnder
    <2>2. row.status = "dead_lettered" /\ row.worker_id = NULL
      BY DEF Row
    <2>3. CommitAndFire(w, call[w].job, "dead_lettered", row) /\ reclaimed' = reclaimed
      BY <1>11 DEF GiveUp
    <2>. HIDE DEF row
    <2> QED
      BY <1>6, <1>8, <2>1, <2>2, <2>3
  <1>12. CASE DeferJob(w)
    <2>. DEFINE row == Row("pending", NULL, jobs[call[w].job].attempt_count)
    <2>1. Ending(w) /\ jobs[call[w].job].worker_id = w /\ call[w].job \in Jobs
      BY <1>7, <1>12 DEF DeferJob, OwnedBy
    <2>2. row.status = "pending" /\ row.worker_id = NULL
      BY DEF Row
    <2>3. /\ jobs' = [jobs EXCEPT ![call[w].job] = row]
          /\ outcomes' = outcomes /\ reclaimed' = reclaimed
          /\ call'[w].stage = "idle" /\ \A v \in Workers : v # w => call'[v] = call[v]
      BY <1>1, <1>2, <1>12 DEF DeferJob, Idle
    <2>. HIDE DEF row
    <2>4. Fence' /\ jobs[call[w].job].status = "claimed"
      BY <2>1, <2>2, <2>3, LettingGo
    <2>5. Orderly
      BY <1>1, <2>1, <2>3, <2>4 DEF Orderly, Over
    <2> QED
      BY <2>4, <2>5
  <1>13. CASE OutcomeLost(w)
    <2>1. /\ call'[w].stage = "idle" /\ \A v \in Workers : v # w => call'[v] = call[v]
          /\ UNCHANGED <<jobs, outcomes, reclaimed>>
      BY <1>1, <1>2, <1>13 DEF OutcomeLost, jobVars, Idle
    <2>2. Fence'
      BY <2>1 DEF Fence
    <2> QED
      BY <2>1, <2>2 DEF Orderly
  <1> QED
    BY <1>4, <1>5, <1>9, <1>10, <1>11, <1>12, <1>13 DEF WorkerStep

\* The statements of the tick.
LEMMA SchedulerFenced ==
    ASSUME OneScheduler, ~StallsBeforeFetch,
           Inv, Fence, NEW s \in Schedulers, SchedulerStep(s)
    PROVE  Fence' /\ Orderly
  <1>1. /\ jobs \in [Jobs -> Rows] /\ s \in Callers /\ s \notin Workers
        /\ reclaimed \in ReclaimedType /\ TypeOK
        /\ \A t \in Schedulers : t = s
    BY WebhookAssumption DEF OneScheduler, Callers, Inv, TypeOK, ReclaimedType
  <1>2. \A w \in Workers : w \in Callers /\ w # NULL
    BY WebhookAssumption DEF Callers
  <1>3. \A w \in Workers : call[w].stage \in {"fetch", "deliver"} => call[w].job \in Jobs
    BY <1>2 DEF Inv, CallShape
  <1>4. ASSUME NEW B \in SUBSET Jobs, Promote(s, B)
        PROVE  Fence' /\ Orderly
    <2>1. /\ call' = call /\ reclaimed' = reclaimed /\ outcomes' = outcomes
          /\ \A t \in Schedulers : reclaimed[t] = {}
      BY <1>1, <1>4 DEF Promote, BetweenPasses
    <2>2. \A j \in Jobs :
             \/ jobs'[j] = jobs[j]
             \/ /\ jobs[j].status = "pending" /\ jobs'[j].status = "queued"
                /\ jobs'[j].worker_id = jobs[j].worker_id
      BY <1>1, <1>4 DEF Promote, Rows
    <2>3. Fence'
      BY <1>2, <1>3, <2>1, <2>2 DEF Fence
    <2> QED
      BY <2>1, <2>2, <2>3 DEF Orderly, Over
  <1>5. ASSUME NEW B \in SUBSET Jobs, RecoverStaleClaimed(s, B)
        PROVE  Fence' /\ Orderly
    <2>1. call' = call /\ outcomes' = outcomes
      BY <1>5 DEF RecoverStaleClaimed
    <2>2. \A j \in Jobs :
             /\ j \notin B => jobs'[j] = jobs[j]
             /\ j \in B =>
                   /\ jobs[j].status = "claimed" /\ jobs'[j].status = "pending"
                   /\ jobs'[j].worker_id = NULL
                   /\ jobs'[j].attempt_count = jobs[j].attempt_count + 1
      BY <1>5 DEF RecoverStaleClaimed, MayBeStale, Row
    <2>3. \A w \in Workers : call[w].stage = "fetch" => call[w].job \notin B
      BY <1>5 DEF RecoverStaleClaimed, MayBeStale
    <2>4. \A r \in reclaimed'[s] : r.job \in B /\ r.attempt_count = jobs[r.job].attempt_count + 1
      BY <1>1, <1>5 DEF RecoverStaleClaimed, ReclaimedType
    <2>5. \A w \in Workers :
             /\ call'[w].stage = "fetch" =>
                   /\ jobs'[call'[w].job].status = "claimed"
                   /\ jobs'[call'[w].job].worker_id = w
             /\ call'[w].stage = "deliver" =>
                   /\ call'[w].view.worker_id = w
                   /\ jobs'[call'[w].job].worker_id = w => jobs'[call'[w].job].status = "claimed"
      BY <1>2, <1>3, <2>1, <2>2, <2>3 DEF Fence
    <2>6. \A j \in Jobs : jobs'[j].worker_id # NULL <=> jobs'[j].status \in {"claimed", "sent"}
      BY <2>2 DEF Fence
    <2>7. \A t \in Schedulers : \A r \in reclaimed'[t] :
             jobs'[r.job].status = "pending" /\ jobs'[r.job].attempt_count = r.attempt_count
      BY <1>1, <2>2, <2>4
    <2>8. Fence'
      BY <2>5, <2>6, <2>7 DEF Fence
    <2> QED
      BY <2>1, <2>2, <2>8 DEF Orderly, Over
  <1>6. ASSUME NEW r \in reclaimed[s], Buried(s, r)
        PROVE  Fence' /\ Orderly
    <2>1. r.job \in Jobs /\ r.attempt_count \in Nat /\ r \in [job : Jobs, attempt_count : Nat]
      BY <1>1 DEF ReclaimedType
    <2>2. /\ jobs' = [jobs EXCEPT ![r.job] = Row("dead_lettered", NULL, r.attempt_count)]
          /\ outcomes' = [outcomes EXCEPT ![r.job] = Append(@, "dead_lettered")]
          /\ Fire(s, r.job, "dead_lettered")
          /\ reclaimed' = [reclaimed EXCEPT ![s] = @ \ {r}]
      BY <1>6 DEF Buried, InLoop, CommitAndFire
    <2>3. /\ jobs'[r.job].status = "dead_lettered" /\ jobs'[r.job].worker_id = NULL
          /\ \A k \in Jobs : k # r.job => jobs'[k] = jobs[k]
      BY <1>1, <2>1, <2>2 DEF Row
    <2>4. jobs[r.job].status = "pending"
      BY DEF Fence
    <2>5. \A w \in Workers : call'[w] = call[w]
      <3>1. "dead_lettered" \in Status
        BY DEF Status
      <3> QED
        BY <1>1, <1>2, <2>1, <2>2, <3>1, Fired
    <2>6. ASSUME NEW t \in Schedulers, NEW q \in reclaimed'[t]
          PROVE  jobs'[q.job].status = "pending" /\ jobs'[q.job].attempt_count = q.attempt_count
      <3>1. t = s /\ q \in reclaimed[s] /\ q # r
        BY <1>1, <2>2 DEF ReclaimedType
      <3>2. q \in [job : Jobs, attempt_count : Nat]
        BY <1>1, <3>1 DEF ReclaimedType
      <3>3. /\ jobs[q.job].status = "pending" /\ jobs[q.job].attempt_count = q.attempt_count
            /\ jobs[r.job].attempt_count = r.attempt_count
        BY <3>1 DEF Fence
      <3>4. q.job # r.job
        BY <2>1, <3>1, <3>2, <3>3
      <3> QED
        BY <2>3, <3>2, <3>3, <3>4
    <2>7. Fence'
      BY <1>2, <1>3, <2>3, <2>4, <2>5, <2>6 DEF Fence
    <2>8. Orderly
      BY <2>1, <2>2, <2>3, <2>4 DEF Orderly, Over, Status
    <2> QED
      BY <2>7, <2>8
  <1>7. ASSUME NEW r \in reclaimed[s], BuryRefused(s, r)
        PROVE  Fence' /\ Orderly
    <2>1. /\ UNCHANGED <<jobs, outcomes, call>>
          /\ \A t \in Schedulers : reclaimed'[t] \subseteq reclaimed[t]
      BY <1>1, <1>7 DEF BuryRefused, InLoop, jobVars, ReclaimedType
    <2>2. Fence'
      BY <2>1 DEF Fence
    <2> QED
      BY <2>1, <2>2 DEF Orderly
  <1> QED
    BY <1>4, <1>5, <1>6, <1>7, BuriedOrRefused DEF SchedulerStep

\* Announcing touches neither rows nor claims; a caller that breaks off drops
\* what it has in hand.
LEMMA PostingFenced ==
    ASSUME Inv, Fence, Posting
    PROVE  Fence' /\ Orderly
  <1>1. jobs' = jobs /\ outcomes' = outcomes
    BY DEF Posting, Reach, Miss, Log, BreakOff, Arrive, jobVars
  <1>2. \A s \in Schedulers : reclaimed'[s] \subseteq reclaimed[s]
    BY DEF Posting, Reach, Miss, Log, BreakOff, Arrive
  <1>3. \A w \in Workers : call'[w] = call[w] \/ call'[w].stage \notin {"fetch", "deliver"}
    <2>1. call \in [Callers -> CallType] /\ \A w \in Workers : w \in Callers
      BY DEF Inv, TypeOK, CallType, Callers
    <2>2. ASSUME NEW c \in Callers, NEW w \in Workers, Reach(c) \/ Miss(c)
          PROVE  call'[w] = call[w] \/ call'[w].stage \notin {"fetch", "deliver"}
      BY <2>1, <2>2 DEF Reach, Miss, Posted, CallType
    <2>3. ASSUME NEW c \in Callers, NEW w \in Workers, Log(c)
          PROVE  call'[w] = call[w] \/ call'[w].stage \notin {"fetch", "deliver"}
      <3>1. CASE w = c
        <4>. DEFINE again == [call[c] EXCEPT !.stage = "post", !.try = NextTry(call[c].try),
                                             !.http = NULL]
        <4>1. again.stage = "post" /\ Idle.stage = "idle"
          BY <2>1 DEF CallType, Idle
        <4>2. call'[c] = Idle \/ call'[c] = again
          BY <2>1, <2>3 DEF Log
        <4>. HIDE DEF again
        <4> QED
          BY <3>1, <4>1, <4>2
      <3>2. CASE w # c
        BY <2>1, <2>3, <3>2 DEF Log
      <3> QED
        BY <3>1, <3>2
    <2>4. ASSUME NEW c \in Callers, NEW w \in Workers, BreakOff(c)
          PROVE  call'[w] = call[w] \/ call'[w].stage \notin {"fetch", "deliver"}
      BY <2>1, <2>4 DEF BreakOff, Idle
    <2>5. ASSUME NEW m \in travelling, Arrive(m)
          PROVE  call' = call
      BY <2>5 DEF Arrive
    <2> QED
      BY <2>2, <2>3, <2>4, <2>5 DEF Posting
  <1>4. Fence'
    BY <1>1, <1>2, <1>3 DEF Fence
  <1> QED
    BY <1>1, <1>4 DEF Orderly

LEMMA FenceStep ==
    ASSUME OneScheduler, ~StallsBeforeFetch, Inv, Fence, Next
    PROVE  Fence' /\ Orderly
  <1>1. ASSUME NEW c \in Callers, FireStep(c) \/ Abort(c)
        PROVE  Posting
    BY <1>1 DEF FireStep, Refused, Abort, Posting
  <1>2. ASSUME NEW m \in travelling, Arrive(m)
        PROVE  Posting
    BY <1>2 DEF Posting
  <1> QED
    BY <1>1, <1>2, WorkerFenced, SchedulerFenced, PostingFenced DEF Next

\* No end is followed by another outcome.
LEMMA OneEndStep ==
    ASSUME Inv, OneEnd, Orderly
    PROVE  OneEnd'
  <1>. SUFFICES ASSUME NEW j \in Jobs, NEW i \in 1..Len(outcomes'[j]), outcomes'[j][i] # "failed"
                PROVE  i = Len(outcomes'[j]) /\ jobs'[j].status = outcomes'[j][i]
    BY DEF OneEnd
  <1>1. outcomes[j] \in Seq(Status)
    BY DEF Inv, TypeOK
  <1>2. CASE outcomes'[j] = outcomes[j]
    <2>1. i = Len(outcomes[j]) /\ jobs[j].status = outcomes[j][i]
      BY <1>2 DEF OneEnd
    <2>2. outcomes[j][i] \in Status
      BY <1>1, <1>2
    <2> QED
      BY <1>2, <2>1, <2>2 DEF Orderly, Over, Status
  <1>3. CASE outcomes'[j] # outcomes[j]
    <2>1. PICK status \in Status :
             /\ ~Over(j) /\ outcomes' = [outcomes EXCEPT ![j] = Append(@, status)]
             /\ status # "failed" => jobs'[j].status = status
      <3>1. PICK k \in Jobs, status \in Status :
               /\ ~Over(k) /\ outcomes' = [outcomes EXCEPT ![k] = Append(@, status)]
               /\ status # "failed" => jobs'[k].status = status
        BY <1>3 DEF Orderly
      <3>2. k = j
        BY <1>3, <3>1 DEF Inv, TypeOK
      <3> QED
        BY <3>1, <3>2
    <2>2. /\ Len(outcomes'[j]) = Len(outcomes[j]) + 1 /\ Len(outcomes[j]) \in Nat
          /\ outcomes'[j][Len(outcomes[j]) + 1] = status
          /\ \A l \in 1..Len(outcomes[j]) : outcomes'[j][l] = outcomes[j][l]
      BY <2>1, Appended DEF Inv
    <2>3. \A l \in 1..Len(outcomes[j]) : outcomes[j][l] = "failed"
      <3>1. \A l \in 1..Len(outcomes[j]) : outcomes[j][l] \in Status
        BY <1>1
      <3> QED
        BY <2>1, <3>1 DEF OneEnd, Over, Status
    <2>4. i = Len(outcomes[j]) + 1
      BY <2>2, <2>3
    <2> QED
      BY <2>1, <2>2, <2>4
  <1> QED
    BY <1>2, <1>3

\* A client hears of one end of its job at most, and a final callback names
\* the status the job has and keeps (fire_webhook after the commit; the
\* ownership fences of MARK_SENT, SCHEDULE_RETRY and MARK_DEAD_LETTERED).  Two
\* schedulers, or a stall before FETCH_JOB, get round the fences.
THEOREM CallbacksTruthful ==
    ASSUME OneScheduler, ~StallsBeforeFetch
    PROVE  Spec => []Truthful
  <1>. DEFINE Fenced == Fence /\ OneEnd
  <1>1. Init => Fenced
    <2>. SUFFICES ASSUME Init
                  PROVE  Fence /\ OneEnd
      OBVIOUS
    <2>1. \A c \in Callers : call[c].stage = "idle"
      BY DEF Init, Idle
    <2>2. \A j \in Jobs : jobs[j].worker_id = NULL /\ jobs[j].status = "pending"
      BY DEF Init, Row
    <2>3. \A w \in Workers : w \in Callers
      BY DEF Callers
    <2>4. Fence
      BY <2>1, <2>2, <2>3 DEF Init, Fence
    <2>5. OneEnd
      BY DEF Init, OneEnd
    <2> QED
      BY <2>4, <2>5
  <1>2. Inv /\ Fenced /\ [Next]_webhookVars => Fenced'
    <2>1. CASE Next
      BY <2>1, FenceStep, OneEndStep
    <2>2. CASE UNCHANGED webhookVars
      BY <2>2 DEF webhookVars, jobVars, Fence, OneEnd
    <2> QED
      BY <2>1, <2>2
  <1>3. Inv /\ Fenced => Truthful
    <2>. SUFFICES ASSUME Inv, OneEnd, NEW m \in received
                  PROVE  /\ m.about.n \in 1..Len(outcomes[m.about.job])
                         /\ m.status = outcomes[m.about.job][m.about.n]
                         /\ m.status # "failed" => /\ m.status = jobs[m.about.job].status
                                                   /\ m.about.n = Len(outcomes[m.about.job])
      BY DEF Truthful
    <2>1. Told(m.about.job, m.about.n, m.status) /\ m.about.job \in Jobs
      BY DEF Inv, AllTold, TypeOK, Announcement
    <2> QED
      BY <2>1 DEF Told, OneEnd
  <1>. HIDE DEF Fenced
  <1> QED
    BY <1>1, <1>2, <1>3, InvAlways, PTL DEF Spec

===============================================================================
