--------------------------- MODULE SubmissionProofs ---------------------------
(***************************************************************************)
(* Theorems about create_job, for any number of calls and keys, any        *)
(* assignment of keys to calls and any size of the pool.                   *)
(***************************************************************************)
EXTENDS Submission, TLAPS

-----------------------------------------------------------------------------
(* The inductive invariant.                                                *)

BeforeCommit == {"new", "insert_job", "insert_key", "commit", "lookup"}

\* A committed job carries its key, and a key its job.
Committed ==
    /\ \A c \in jobs : KeyOf[c] # NULL => job_idempotency[KeyOf[c]] = c
    /\ \A k \in Keys : job_idempotency[k] # NULL
                         => job_idempotency[k] \in jobs /\ KeyOf[job_idempotency[k]] = k

\* What the primary key of job_idempotency guarantees to a transaction that
\* has inserted its key: it is free, and nobody else has inserted it.
Exclusive ==
    \A c \in Calls :
        (pc[c] = "commit" /\ KeyOf[c] # NULL)
            => /\ job_idempotency[KeyOf[c]] = NULL
               /\ \A d \in Calls : Writes(d, KeyOf[c]) => d = c

\* Where a call stands tells what it has done.
Progress ==
    \A c \in Calls :
        /\ pc[c] \in BeforeCommit => c \notin jobs
        /\ pc[c] \in BeforeCommit \cup {"reply"} => answer[c] = NULL
        /\ pc[c] = "reply" => c \in jobs
        /\ pc[c] = "insert_key" => KeyOf[c] # NULL
        /\ pc[c] = "lookup" => KeyOf[c] # NULL /\ job_idempotency[KeyOf[c]] # NULL

\* An answer names a committed job: the one of the key, if there is a key.
Answered ==
    \A c \in Calls :
        answer[c] # NULL
            => /\ answer[c].job \in jobs
               /\ KeyOf[c] # NULL => job_idempotency[KeyOf[c]] = answer[c].job

Inductive == TypeOK /\ Committed /\ Exclusive /\ Progress /\ Answered

\* The steps that change nothing but where a call stands.
Quiet(c) ==
    \/ Acquire(c) \/ InsertJob(c) \/ InsertKey(c) \/ KeyRejected(c) \/ Lose(c)

-----------------------------------------------------------------------------
\* Nothing has happened yet.
LEMMA InductiveInit == Init => Inductive
  BY SubmissionAssumption
     DEF Init, Inductive, TypeOK, Committed, Exclusive, Progress, Answered, Writes,
         BeforeCommit, Connected

\* The steps up to the end of the transaction, and losing a call.
LEMMA QuietStep ==
    ASSUME Inductive, NEW c \in Calls, Quiet(c)
    PROVE  Inductive'
  <1>. USE SubmissionAssumption
  <1>1. UNCHANGED <<jobs, job_idempotency, answer>>
    BY DEF Quiet, Acquire, InsertJob, InsertKey, KeyRejected, Lose
  <1>2. PICK label \in {"insert_job", "insert_key", "commit", "lookup", "lost"} :
          pc' = [pc EXCEPT ![c] = label]
    BY DEF Quiet, Acquire, InsertJob, InsertKey, KeyRejected, Lose, Goto
  <1>3. TypeOK'
    BY <1>1, <1>2 DEF Inductive, TypeOK, Connected
  <1>4. Committed' /\ Answered'
    BY <1>1 DEF Inductive, Committed, Answered
  <1>5. \A d \in Calls : pc'[d] = IF d = c THEN label ELSE pc[d]
    BY <1>2 DEF Inductive, TypeOK
  <1>6. (label = "commit" /\ KeyOf[c] # NULL)
          => ~Taken(KeyOf[c]) /\ \A d \in Calls \ {c} : ~Writes(d, KeyOf[c])
    BY <1>2, <1>5
       DEF Quiet, Acquire, InsertJob, InsertKey, KeyRejected, Lose, Goto, Inductive, TypeOK
  <1>7. Exclusive'
    BY <1>1, <1>5, <1>6 DEF Inductive, Exclusive, Writes, Taken
  <1>8. label # "lost" => pc[c] \in BeforeCommit
    BY <1>2, <1>5
       DEF Quiet, Acquire, InsertJob, InsertKey, KeyRejected, Lose, Goto, BeforeCommit
  <1>9. /\ label = "insert_key" => KeyOf[c] # NULL
        /\ label = "lookup" => KeyOf[c] # NULL /\ job_idempotency[KeyOf[c]] # NULL
    BY <1>2, <1>5
       DEF Quiet, Acquire, InsertJob, InsertKey, KeyRejected, Lose, Goto, Taken, Inductive,
           Progress
  <1>10. Progress'
    BY <1>1, <1>5, <1>8, <1>9 DEF Inductive, Progress, BeforeCommit
  <1> QED
    BY <1>3, <1>4, <1>7, <1>10 DEF Inductive

\* COMMIT: the key is still free, because the call is the only one that has
\* inserted it.
LEMMA CommitStep ==
    ASSUME Inductive, NEW c \in Calls, Commit(c)
    PROVE  Inductive'
  <1>. USE SubmissionAssumption DEF Inductive
  <1>1. /\ pc[c] = "commit" /\ jobs' = jobs \cup {c} /\ answer' = answer
        /\ \A k \in Keys : job_idempotency'[k] = IF k = KeyOf[c] THEN c ELSE job_idempotency[k]
        /\ \A d \in Calls : pc'[d] = IF d = c THEN "reply" ELSE pc[d]
    BY DEF Commit, Goto, TypeOK
  <1>2. KeyOf[c] # NULL => KeyOf[c] \in Keys /\ job_idempotency[KeyOf[c]] = NULL
    BY <1>1 DEF Exclusive
  <1>3. \A d \in Calls : KeyOf[d] # NULL => KeyOf[d] \in Keys
    OBVIOUS
  <1>4. TypeOK'
    BY <1>1 DEF Commit, Goto, TypeOK, Connected
  <1>5. jobs \subseteq Calls /\ c # NULL
    BY DEF TypeOK
  <1>6. Committed'
    BY <1>1, <1>2, <1>3, <1>5 DEF Committed
  <1>7. Exclusive'
    BY <1>1, <1>3 DEF Exclusive, Writes
  <1>8. Progress'
    BY <1>1, <1>3, <1>5 DEF Progress, BeforeCommit
  <1>9. Answered'
    BY <1>1, <1>2, <1>3, <1>5 DEF Answered, Committed
  <1> QED
    BY <1>4, <1>6, <1>7, <1>8, <1>9

\* The two answers.
LEMMA AnswerStep ==
    ASSUME Inductive, NEW c \in Calls, AnswerCreated(c) \/ AnswerDuplicate(c)
    PROVE  Inductive'
  <1>. USE SubmissionAssumption DEF Inductive
  <1>1. PICK code \in {201, 409}, job \in jobs :
          /\ Respond(c, code, job)
          /\ KeyOf[c] # NULL => job_idempotency[KeyOf[c]] = job
    BY DEF AnswerCreated, AnswerDuplicate, Progress, Committed
  <1>2. jobs \subseteq Calls /\ [code |-> code, job |-> job] \in Answers
    BY DEF TypeOK, Answers
  <1>3. /\ UNCHANGED <<jobs, job_idempotency>>
        /\ \A d \in Calls : pc'[d] = IF d = c THEN "done" ELSE pc[d]
        /\ \A d \in Calls : answer'[d] = IF d = c THEN [code |-> code, job |-> job] ELSE answer[d]
    BY <1>1 DEF Respond, Goto, TypeOK
  <1>4. TypeOK'
    BY <1>1, <1>2, <1>3 DEF Respond, Goto, TypeOK
  <1>5. Committed' /\ Exclusive'
    BY <1>3 DEF Committed, Exclusive, Writes
  <1>6. Progress' /\ Answered'
    BY <1>1, <1>3 DEF Progress, Answered, BeforeCommit
  <1> QED
    BY <1>4, <1>5, <1>6

\* Every step of create_job keeps the invariant.
LEMMA InductiveStep == Inductive /\ [Next]_submissionVars => Inductive'
  <1>. SUFFICES ASSUME Inductive, [Next]_submissionVars
                PROVE  Inductive'
    OBVIOUS
  <1>1. CASE UNCHANGED submissionVars
    BY <1>1
       DEF submissionVars, Inductive, TypeOK, Committed, Exclusive, Progress, Answered, Writes
  <1>2. CASE Next
    BY <1>2, QuietStep, CommitStep, AnswerStep DEF Next, Step, Quiet
  <1> QED
    BY <1>1, <1>2

\* So it holds for ever.
LEMMA InductiveAlways == Spec => []Inductive
  BY InductiveInit, InductiveStep, PTL DEF Spec

-----------------------------------------------------------------------------
(* The theorems.                                                           *)

\* The tables and the answers are well typed: a 409 always has an id to name,
\* since the winner has committed by the time the loser looks it up.
THEOREM SubmissionTypes == Spec => []TypeOK
  BY InductiveAlways, PTL DEF Inductive

\* Calls with one key are told one job, however they interleave, whichever of
\* them are lost and however often the client retries (create_job).
THEOREM OneJobPerKey == Spec => []SameJobForSameKey
  <1>1. Inductive => SameJobForSameKey
    BY DEF Inductive, Answered, SameJobForSameKey, SameKey
  <1> QED
    BY <1>1, InductiveAlways, PTL

\* The loser of a race leaves no job behind: the rollback of the transaction
\* takes INSERT_JOB back, and a key and its job appear together.
THEOREM LosersRolledBack == Spec => []NoOrphanJob
  <1>1. Inductive => NoOrphanJob
    BY DEF Inductive, Committed, NoOrphanJob
  <1> QED
    BY <1>1, InductiveAlways, PTL

\* create_job implements the promise of KeyedCreation: COMMIT is the creation,
\* the two answers are answers, and everything else is invisible.
THEOREM Refinement == Spec => ImplementsKeyedCreation
  <1>1. Init => Promise!Init
    BY DEF Init, Promise!Init
  <1>2. Inductive /\ [Next]_submissionVars => [Promise!Next]_(Promise!creationVars)
    <2>. SUFFICES ASSUME Inductive, [Next]_submissionVars
                  PROVE  Promise!Next \/ UNCHANGED Promise!creationVars
      OBVIOUS
    <2>. USE DEF Inductive, Promise!creationVars
    <2>1. ASSUME NEW c \in Calls, Quiet(c)
          PROVE  UNCHANGED Promise!creationVars
      BY <2>1 DEF Quiet, Acquire, InsertJob, InsertKey, KeyRejected, Lose
    <2>2. ASSUME NEW c \in Calls, Commit(c)
          PROVE  Promise!Next
      <3>1. c \notin jobs /\ answer[c] = NULL
        BY <2>2 DEF Commit, Progress, BeforeCommit
      <3>2. Promise!Free(c)
        BY <2>2 DEF Commit, Exclusive, Promise!Free
      <3> QED
        BY <2>2, <3>1, <3>2 DEF Commit, Promise!Create, Promise!Next
    <2>3. ASSUME NEW c \in Calls, AnswerCreated(c)
          PROVE  Promise!Next
      BY <2>3 DEF AnswerCreated, Respond, Progress, Promise!Confirm, Promise!Answer, Promise!Next
    <2>4. ASSUME NEW c \in Calls, AnswerDuplicate(c)
          PROVE  Promise!Next
      <3>1. KeyOf[c] # NULL /\ job_idempotency[KeyOf[c]] # NULL /\ c \notin jobs /\ answer[c] = NULL
        BY <2>4 DEF AnswerDuplicate, Progress, BeforeCommit
      <3>2. job_idempotency[KeyOf[c]] \in jobs
        BY <3>1, SubmissionAssumption DEF Committed
      <3> QED
        BY <2>4, <3>1, <3>2
           DEF AnswerDuplicate, Respond, Promise!Refuse, Promise!Answer, Promise!Next
    <2>5. CASE UNCHANGED submissionVars
      BY <2>5 DEF submissionVars
    <2> QED
      BY <2>1, <2>2, <2>3, <2>4, <2>5 DEF Next, Step, Quiet
  <1> QED
    BY <1>1, <1>2, InductiveAlways, PTL DEF Spec, ImplementsKeyedCreation, Promise!Spec

===============================================================================
