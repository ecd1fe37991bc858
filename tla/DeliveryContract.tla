--------------------------- MODULE DeliveryContract ---------------------------
(***************************************************************************)
(* What the system promises to a client that submits a job and polls its   *)
(* status: an accepted job ends up sent or in the dead-letter queue, with  *)
(* one row there each time it is given up; sent is final; only a replay    *)
(* takes a job out of the dead-letter queue.  Queues, locks, claims and    *)
(* retries are hidden.                                                     *)
(***************************************************************************)
EXTENDS Naturals

CONSTANT Jobs

VARIABLES
    phase,    \* what the client sees of a job
    letters   \* number of dead_letter_queue rows of a job

contractVars == <<phase, letters>>

Phase == {"unknown", "scheduled", "sent", "dead"}

TypeOK ==
    /\ phase \in [Jobs -> Phase]
    /\ letters \in [Jobs -> Nat]

Init ==
    /\ phase = [j \in Jobs |-> "unknown"]
    /\ letters = [j \in Jobs |-> 0]

Move(j, from, to) ==
    /\ phase[j] = from
    /\ phase' = [phase EXCEPT ![j] = to]

Accept(j) == Move(j, "unknown", "scheduled") /\ UNCHANGED letters

Send(j) == Move(j, "scheduled", "sent") /\ UNCHANGED letters

GiveUp(j) ==
    /\ Move(j, "scheduled", "dead")
    /\ letters' = [letters EXCEPT ![j] = @ + 1]

Replay(j) == Move(j, "dead", "scheduled") /\ UNCHANGED letters

Next == \E j \in Jobs : Accept(j) \/ Send(j) \/ GiveUp(j) \/ Replay(j)

Spec == Init /\ [][Next]_contractVars

\* A scheduled job is resolved some day.
Resolved == \A j \in Jobs : phase[j] = "scheduled" ~> phase[j] \in {"sent", "dead"}

===============================================================================
