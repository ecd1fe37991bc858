---------------------------- MODULE PriorityScore ----------------------------
(***************************************************************************)
(* priority_score: the score of a job in its sorted set, a weight for the  *)
(* tier plus send_at.  Timestamps are whole seconds since 1970.            *)
(***************************************************************************)
EXTENDS Integers, TLAPS

PRIORITY_WEIGHTS == [high |-> 0, medium |-> 10000000000, low |-> 20000000000]

priority_score(priority, send_at) == PRIORITY_WEIGHTS[priority] + send_at

\* A job of priority p that is due at s comes before every job of priority q.
AlwaysFirst(p, s, q) == \A t \in Nat : priority_score(p, s) < priority_score(q, t)

\* The comment at PRIORITY_WEIGHTS, "a high-priority job always scores below a
\* lower-priority one regardless of send_at", holds among the send_at since
\* 1970 as long as the first is before 10^10, in the year 2286, and no longer:
\* JobCreate accepts later ones.
THEOREM WeightsDominate ==
    ASSUME NEW s \in Nat
    PROVE  /\ AlwaysFirst("high", s, "medium") <=> s < 10000000000
           /\ AlwaysFirst("medium", s, "low") <=> s < 10000000000
           /\ AlwaysFirst("high", s, "low") <=> s < 20000000000
  <1>. USE DEF AlwaysFirst, priority_score, PRIORITY_WEIGHTS
  <1>1. AlwaysFirst("high", s, "medium") <=> s < 10000000000
    BY 0 \in Nat
  <1>2. AlwaysFirst("medium", s, "low") <=> s < 10000000000
    BY 0 \in Nat
  <1>3. AlwaysFirst("high", s, "low") <=> s < 20000000000
    BY 0 \in Nat
  <1> QED
    BY <1>1, <1>2, <1>3

\* Within a tier the earlier send_at is popped first, whatever the dates.
THEOREM EarlierFirst ==
    ASSUME NEW p \in {"high", "medium", "low"}, NEW s \in Nat, NEW t \in Nat
    PROVE  priority_score(p, s) < priority_score(p, t) <=> s < t
  BY DEF priority_score, PRIORITY_WEIGHTS

===============================================================================
