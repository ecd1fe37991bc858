------------------------------ MODULE Submission ------------------------------
(***************************************************************************)
(* create_job, the handler of POST /jobs, call by call.  A call takes a    *)
(* connection from the pool and runs one transaction on it:                *)
(*                                                                         *)
(*   new         waits for a connection (pool.acquire)                     *)
(*   insert_job  INSERT_JOB                                                *)
(*   insert_key  INSERT_IDEMPOTENCY_KEY, if the request carries a key      *)
(*   commit      the end of `async with conn.transaction()'                *)
(*   reply       the job is committed, the 201 is on its way               *)
(*   lookup      SELECT_EXISTING_JOB_ID after a rollback, then the 409     *)
(*   done, lost  answered; or the process or a connection died before      *)
(*                                                                         *)
(* Nobody sees the rows of a transaction before it commits, but a second   *)
(* INSERT of the same key waits until the first one's transaction ended.   *)
(* The id of the job a call inserts is the call itself: a fresh UUID.  A   *)
(* client's retry is another call with the same key.                       *)
(***************************************************************************)
EXTENDS Naturals, FiniteSets

CONSTANTS
    Calls,    \* calls of POST /jobs
    Keys,     \* idempotency keys
    NULL,     \* SQL NULL; also "no key" and "no answer yet"
    KeyOf,    \* the key of a call, or NULL
    PoolSize  \* connections of the API's pool

Answers == [code : {201, 409}, job : Calls]

ASSUME SubmissionAssumption ==
    /\ NULL \notin Calls \cup Keys \cup Answers
    /\ KeyOf \in [Calls -> Keys \cup {NULL}]
    /\ PoolSize \in Nat \ {0}

VARIABLES
    pc,               \* where a call stands
    jobs,             \* table jobs: the committed rows
    job_idempotency,  \* table job_idempotency: the job of a committed key
    answer            \* what a client was answered

submissionVars == <<pc, jobs, job_idempotency, answer>>

\* A call in these places has one of the pool's connections.
Connected == {"insert_job", "insert_key", "commit", "reply", "lookup"}

TypeOK ==
    /\ pc \in [Calls -> {"new", "done", "lost"} \cup Connected]
    /\ jobs \subseteq Calls
    /\ job_idempotency \in [Keys -> Calls \cup {NULL}]
    /\ answer \in [Calls -> Answers \cup {NULL}]

Init ==
    /\ pc = [c \in Calls |-> "new"]
    /\ jobs = {}
    /\ job_idempotency = [k \in Keys |-> NULL]
    /\ answer = [c \in Calls |-> NULL]

-----------------------------------------------------------------------------
Goto(c, label) == pc' = [pc EXCEPT ![c] = label]

Acquire(c) ==
    /\ pc[c] = "new"
    /\ Cardinality({d \in Calls : pc[d] \in Connected}) < PoolSize
    /\ Goto(c, "insert_job")
    /\ UNCHANGED <<jobs, job_idempotency, answer>>

\* A mistake NoOrphanJob has to notice: the job is committed on its own.
WrongInsertJob(c) ==
    /\ pc[c] = "insert_job"
    /\ jobs' = jobs \cup {c}
    /\ Goto(c, IF KeyOf[c] = NULL THEN "commit" ELSE "insert_key")
    /\ UNCHANGED <<job_idempotency, answer>>

InsertJob(c) ==
    /\ pc[c] = "insert_job"
    /\ Goto(c, IF KeyOf[c] = NULL THEN "commit" ELSE "insert_key")
    /\ UNCHANGED <<jobs, job_idempotency, answer>>

WrongWrites(d, k) == pc[d] \in {"commit", "lost"} /\ KeyOf[d] = k

\* The transaction of d has inserted the key and not ended yet.
Writes(d, k) == pc[d] = "commit" /\ KeyOf[d] = k

WrongTaken(k) == FALSE

\* A mistake TypeOK has to notice: rejected without waiting for the writer, the
\* loser looks the winner up too early.
WrongTakenEarly(k) == job_idempotency[k] # NULL \/ \E d \in Calls : Writes(d, k)

\* The key is committed: the primary key rejects another INSERT of it.
Taken(k) == job_idempotency[k] # NULL

\* Waits for whoever is writing the key.
InsertKey(c) ==
    /\ pc[c] = "insert_key"
    /\ ~Taken(KeyOf[c])
    /\ \A d \in Calls \ {c} : ~Writes(d, KeyOf[c])
    /\ Goto(c, "commit")
    /\ UNCHANGED <<jobs, job_idempotency, answer>>

\* UniqueViolationError leaves the transaction block: the job is rolled back.
KeyRejected(c) ==
    /\ pc[c] = "insert_key"
    /\ Taken(KeyOf[c])
    /\ Goto(c, "lookup")
    /\ UNCHANGED <<jobs, job_idempotency, answer>>

\* Job and key become visible together.
Commit(c) ==
    /\ pc[c] = "commit"
    /\ jobs' = jobs \cup {c}
    /\ job_idempotency' = [k \in Keys |-> IF k = KeyOf[c] THEN c ELSE job_idempotency[k]]
    /\ Goto(c, "reply")
    /\ UNCHANGED answer

Respond(c, code, job) ==
    /\ answer' = [answer EXCEPT ![c] = [code |-> code, job |-> job]]
    /\ Goto(c, "done")
    /\ UNCHANGED <<jobs, job_idempotency>>

AnswerCreated(c) == pc[c] = "reply" /\ Respond(c, 201, c)

\* A mistake SameJobForSameKey has to notice: the id of the job rolled back.
WrongAnswerDuplicate(c) == pc[c] = "lookup" /\ Respond(c, 409, c)

\* On the same connection, outside of any transaction.
AnswerDuplicate(c) == pc[c] = "lookup" /\ Respond(c, 409, job_idempotency[KeyOf[c]])

\* The API process is killed, or the connection to the client or to the
\* database breaks: an open transaction is rolled back, a committed one stays.
Lose(c) ==
    /\ pc[c] \in Connected
    /\ Goto(c, "lost")
    /\ UNCHANGED <<jobs, job_idempotency, answer>>

Step(c) ==
    \/ Acquire(c) \/ InsertJob(c) \/ InsertKey(c) \/ KeyRejected(c) \/ Commit(c)
    \/ AnswerCreated(c) \/ AnswerDuplicate(c)

Next == \E c \in Calls : Step(c) \/ Lose(c)

Spec == Init /\ [][Next]_submissionVars

\* The event loop and the database serve every call.
FairSpec == Spec /\ \A c \in Calls : WF_submissionVars(Step(c))

-----------------------------------------------------------------------------
(* Properties.                                                             *)

SameKey(c, d) == KeyOf[c] # NULL /\ KeyOf[c] = KeyOf[d]

\* Whatever calls with one key are told, 201 or 409, concurrent or repeated
\* after a lost answer, names one and the same existing job (DESIGN 10.6).
SameJobForSameKey ==
    \A c, d \in Calls :
        (SameKey(c, d) /\ answer[c] # NULL /\ answer[d] # NULL)
            => answer[c].job = answer[d].job /\ answer[c].job \in jobs

\* A job that was created under a key is the one its key stands for: the
\* loser of a race leaves no job behind, and no key lacks its job.
NoOrphanJob ==
    /\ \A c \in jobs : KeyOf[c] # NULL => job_idempotency[KeyOf[c]] = c
    /\ \A k \in Keys : job_idempotency[k] # NULL => job_idempotency[k] \in jobs

\* A call that waits for a connection, or for the writer of its key, gets on:
\* nobody waits for ever, also when every connection is in use.
EveryCallEnds == \A c \in Calls : pc[c] = "new" ~> pc[c] \in {"done", "lost"}

Promise == INSTANCE KeyedCreation
             WITH created <- jobs, owner <- job_idempotency, reply <- answer

\* Every step of create_job is a step of the promise or invisible.
ImplementsKeyedCreation == Promise!Spec

===============================================================================
