------------------------------- MODULE RateLimit -------------------------------
(***************************************************************************)
(* The hourly rate limit of one recipient: check_rate_limit on a Redis     *)
(* counter per window, the deferral of a denied delivery to the next       *)
(* window, and its promotion by the scheduler.  Recipients share nothing,  *)
(* and a delivery here is one attempt to deliver.                          *)
(*                                                                         *)
(* Time is an explicit clock.  The window and the TTL keep their           *)
(* proportion of 3600 to 7200 seconds; lengths are free.                   *)
(*                                                                         *)
(*   pending  waiting for send_at        (promote_due_jobs)                *)
(*   queued   promoted, not yet checked                                    *)
(*   incr     the clock was read, EVAL INCR_WITH_TTL is on its way         *)
(*   decr     over the limit, DECR is on its way                           *)
(*   defer    denied, DEFER_TO_NEXT_WINDOW is on its way                   *)
(*   admitted check_rate_limit answered (True, 0)                          *)
(***************************************************************************)
EXTENDS Integers, FiniteSets

CONSTANTS
    Deliveries,  \* attempts to deliver to the recipient
    Limit,       \* settings.rate_limit_per_hour
    Window,      \* length of a rate-limit window
    Lookahead,   \* settings.scheduler_lookahead_seconds
    MaxStall,    \* longest time from reading the clock to the check's last step
    Horizon,     \* bound: where the clock stops
    MaxLosses    \* bound: how often Redis may lose its data

ASSUME RateLimitAssumption ==
    /\ IsFiniteSet(Deliveries)
    /\ Limit \in Nat
    /\ Window \in Nat \ {0}
    /\ Lookahead \in Nat
    /\ MaxStall \in Nat
    /\ Horizon \in Nat
    /\ MaxLosses \in Nat

VARIABLES
    clock,     \* datetime.now(UTC), the same for everyone
    counter,   \* value of ratelimit:<recipient>:<hour>; 0 while the key is missing
    expireAt,  \* when the key expires; NoKey and NoTtl as the TTL command has them
    pc,        \* where a delivery stands
    now,       \* the `now' its check_rate_limit read
    send_at,   \* when it is due
    losses,    \* times Redis lost its data
    admitted   \* history: deliveries allowed in a window

vars == <<clock, counter, expireAt, pc, now, send_at, losses, admitted>>

NoKey == -2
NoTtl == -1

Times == 0..Horizon

\* window_key: the hour of a time.
window_key(t) == t \div Window

Hours == 0..window_key(Horizon)

\* WINDOW_TTL_SECONDS.  The "Wrong" definitions of this module are mistakes the
\* properties have to notice; no step uses them.
WrongWindowTtl == Window \div 2
WindowTtl == 2 * Window

Wrongseconds_until_next_window(t) == (t % Window) + 1

\* int(...) + 1 lands behind the boundary, by a second at most.
seconds_until_next_window(t) == Window - (t % Window) + 1

Exists(h) == expireAt[h] # NoKey

-----------------------------------------------------------------------------
TypeOK ==
    /\ clock \in Times
    /\ counter \in [Hours -> Int]
    /\ expireAt \in [Hours -> Nat \cup {NoKey, NoTtl}]
    /\ pc \in [Deliveries -> {"pending", "queued", "incr", "decr", "defer", "admitted"}]
    /\ now \in [Deliveries -> Times]
    /\ send_at \in [Deliveries -> Nat]
    /\ losses \in 0..MaxLosses
    /\ admitted \in [Hours -> Nat]

Init ==
    /\ clock = 0
    /\ counter = [h \in Hours |-> 0]
    /\ expireAt = [h \in Hours |-> NoKey]
    /\ pc = [d \in Deliveries |-> "pending"]
    /\ now = [d \in Deliveries |-> 0]
    /\ send_at = [d \in Deliveries |-> 0]
    /\ losses = 0
    /\ admitted = [h \in Hours |-> 0]

Goto(d, label) == pc' = [pc EXCEPT ![d] = label]

-----------------------------------------------------------------------------
(* A delivery's way through the scheduler and check_rate_limit.            *)

\* PROMOTE_DUE_JOBS picks the row; a worker claims it some time later.
Promote(d) ==
    /\ pc[d] = "pending"
    /\ send_at[d] <= clock + Lookahead
    /\ Goto(d, "queued")
    /\ UNCHANGED <<clock, counter, expireAt, now, send_at, losses, admitted>>

WrongReadClock(d) ==
    /\ pc[d] = "queued"
    /\ now' = [now EXCEPT ![d] = clock - 1]
    /\ Goto(d, "incr")
    /\ UNCHANGED <<clock, counter, expireAt, send_at, losses, admitted>>

\* The key is fixed by the time read here, before the await.
ReadClock(d) ==
    /\ pc[d] = "queued"
    /\ now' = [now EXCEPT ![d] = clock]
    /\ Goto(d, "incr")
    /\ UNCHANGED <<clock, counter, expireAt, send_at, losses, admitted>>

WrongINCR_WITH_TTL(h) ==
    /\ counter' = [counter EXCEPT ![h] = @ + 1]
    /\ expireAt' = [expireAt EXCEPT ![h] = IF Exists(h) THEN @ ELSE NoTtl]

\* The script: INCR, and EXPIRE when the counter became 1.
INCR_WITH_TTL(h) ==
    /\ counter' = [counter EXCEPT ![h] = @ + 1]
    /\ expireAt' = [expireAt EXCEPT ![h] =
                      IF counter'[h] = 1 THEN clock + WindowTtl
                      ELSE IF Exists(h) THEN @ ELSE NoTtl]

WrongOverLimit(count) == count >= Limit

OverLimit(count) == count > Limit

Allow(d) ==
    /\ pc[d] = "incr"
    /\ LET h == window_key(now[d])
       IN  /\ INCR_WITH_TTL(h)
           /\ ~OverLimit(counter'[h])
           /\ admitted' = [admitted EXCEPT ![h] = @ + 1]
    /\ Goto(d, "admitted")
    /\ UNCHANGED <<clock, now, send_at, losses>>

Overshoot(d) ==
    /\ pc[d] = "incr"
    /\ LET h == window_key(now[d])
       IN  INCR_WITH_TTL(h) /\ OverLimit(counter'[h])
    /\ Goto(d, "decr")
    /\ UNCHANGED <<clock, now, send_at, losses, admitted>>

\* DECR of a missing key creates it, at -1 and without a TTL.
DECR(h) ==
    /\ counter' = [counter EXCEPT ![h] = @ - 1]
    /\ expireAt' = [expireAt EXCEPT ![h] = IF Exists(h) THEN @ ELSE NoTtl]

Undo(d) ==
    /\ pc[d] = "decr"
    /\ DECR(window_key(now[d]))
    /\ Goto(d, "defer")
    /\ UNCHANGED <<clock, now, send_at, losses, admitted>>

\* defer_job reads the clock again; retry_after is the one of the check.
Defer(d) ==
    /\ pc[d] = "defer"
    /\ send_at' = [send_at EXCEPT ![d] = clock + seconds_until_next_window(now[d])]
    /\ Goto(d, "pending")
    /\ UNCHANGED <<clock, counter, expireAt, now, losses, admitted>>

-----------------------------------------------------------------------------
(* Time, and Redis.                                                        *)

Checking(d) == pc[d] \in {"incr", "decr", "defer"}

\* A key is gone when its time to live is over.
Expires(h) == expireAt[h] >= 0 /\ expireAt[h] <= clock'

Tick ==
    /\ clock < Horizon
    /\ \A d \in Deliveries : Checking(d) => clock - now[d] < MaxStall
    /\ clock' = clock + 1
    /\ counter' = [h \in Hours |-> IF Expires(h) THEN 0 ELSE counter[h]]
    /\ expireAt' = [h \in Hours |-> IF Expires(h) THEN NoKey ELSE expireAt[h]]
    /\ UNCHANGED <<pc, now, send_at, losses, admitted>>

RedisLosesData ==
    /\ losses < MaxLosses
    /\ losses' = losses + 1
    /\ counter' = [h \in Hours |-> 0]
    /\ expireAt' = [h \in Hours |-> NoKey]
    /\ UNCHANGED <<clock, pc, now, send_at, admitted>>

Next ==
    \/ \E d \in Deliveries :
         Promote(d) \/ ReadClock(d) \/ Allow(d) \/ Overshoot(d) \/ Undo(d) \/ Defer(d)
    \/ Tick
    \/ RedisLosesData

Spec == Init /\ [][Next]_vars

-----------------------------------------------------------------------------
(* Properties.                                                             *)

\* No window admits more deliveries than the limit, however the checks of
\* several workers interleave: increment-then-check, DESIGN 9.  Only a loss of
\* the Redis data forgives what was counted.
WindowBudget == losses = 0 => \A h \in Hours : admitted[h] <= Limit

\* A delivery is denied only when its window's budget is spent: the overshoot
\* of other checks, on its way to be undone, never denies anyone.
DeniedOnlyWhenSpent ==
    [][\A d \in Deliveries :
          (pc[d] = "incr" /\ pc'[d] = "decr") => admitted[window_key(now[d])] >= Limit]_vars

\* A denied delivery gets a send_at inside the window after the one that
\* denied it: seconds_until_next_window.
DeferredToNextWindow ==
    \A d \in Deliveries :
        (pc[d] = "pending" /\ send_at[d] > 0)
            => window_key(send_at[d]) = window_key(now[d]) + 1

\* INCR and EXPIRE are atomic, so a counter is never left without a time to
\* live by an interleaving of checks; losses of the data are set aside here.
CounterHasTtl == losses = 0 => \A h \in Hours : expireAt[h] # NoTtl

\* The same with nothing set aside, as the comment on INCR_WITH_TTL has it.  A
\* key DECR creates anew gets its TTL from the second INCR after it, as that
\* one returns 1; but once its hour is over and no check is under way that
\* read the clock before, nothing touches a key any more, and without a TTL
\* it would stay for good.
EveryCounterExpires ==
    \A h \in Hours :
        (/\ h < window_key(clock)
         /\ \A d \in Deliveries : pc[d] \in {"incr", "decr"} => window_key(now[d]) # h)
            => expireAt[h] # NoTtl

===============================================================================
