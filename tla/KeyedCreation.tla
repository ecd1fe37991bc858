----------------------------- MODULE KeyedCreation -----------------------------
(***************************************************************************)
(* What POST /jobs promises about idempotency keys: a key belongs to the   *)
(* first call that creates a job under it, the job and the key appear      *)
(* together, and every other call with the key is told that job's id.      *)
(* Transactions, waiting and lost connections are hidden.                  *)
(***************************************************************************)
EXTENDS Naturals

CONSTANTS
    Calls,  \* calls of POST /jobs; a call names the job it creates
    Keys,   \* idempotency keys
    NULL,   \* no key, no owner, no reply
    KeyOf   \* the key a call carries, or NULL

VARIABLES
    created,  \* jobs that exist
    owner,    \* the job a key stands for
    reply     \* what a call was answered

creationVars == <<created, owner, reply>>

Init ==
    /\ created = {}
    /\ owner = [k \in Keys |-> NULL]
    /\ reply = [c \in Calls |-> NULL]

Free(c) == KeyOf[c] # NULL => owner[KeyOf[c]] = NULL

Create(c) ==
    /\ c \notin created
    /\ reply[c] = NULL
    /\ Free(c)
    /\ created' = created \cup {c}
    /\ owner' = [k \in Keys |-> IF k = KeyOf[c] THEN c ELSE owner[k]]
    /\ UNCHANGED reply

Answer(c, code, job) ==
    /\ reply[c] = NULL
    /\ reply' = [reply EXCEPT ![c] = [code |-> code, job |-> job]]
    /\ UNCHANGED <<created, owner>>

Confirm(c) == c \in created /\ Answer(c, 201, c)

Refuse(c) ==
    /\ KeyOf[c] # NULL
    /\ owner[KeyOf[c]] \notin {NULL, c}
    /\ Answer(c, 409, owner[KeyOf[c]])

Next == \E c \in Calls : Create(c) \/ Confirm(c) \/ Refuse(c)

Spec == Init /\ [][Next]_creationVars

===============================================================================
