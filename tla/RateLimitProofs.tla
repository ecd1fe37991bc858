---------------------------- MODULE RateLimitProofs ----------------------------
(***************************************************************************)
(* What holds of the rate limit for any number of deliveries, any limit    *)
(* and any window.                                                         *)
(***************************************************************************)
EXTENDS RateLimit, FiniteSetTheorems, TLAPS

-----------------------------------------------------------------------------
(* Hours.                                                                  *)

\* The hour of a time starts at most a window before it.
LEMMA HourBounds ==
    ASSUME NEW t \in Nat
    PROVE  /\ window_key(t) \in Nat
           /\ Window * window_key(t) <= t
           /\ t < Window * window_key(t) + Window
  BY RateLimitAssumption DEF window_key

\* A time between the start of an hour and the start of the next belongs to it.
LEMMA HourOf ==
    ASSUME NEW t \in Nat, NEW h \in Nat, Window * h <= t, t < Window * h + Window
    PROVE  window_key(t) = h
  <1>. DEFINE k == window_key(t)
  <1>1. k \in Nat /\ Window * k <= t /\ t < Window * k + Window
    BY HourBounds
  <1>2. Window * h < Window * k + Window /\ Window * k < Window * h + Window
    BY <1>1, RateLimitAssumption
  <1>3. h <= k /\ k <= h
    BY <1>1, <1>2, RateLimitAssumption
  <1> QED
    BY <1>1, <1>3

\* Every time the clock can show has an hour of its own.
LEMMA HourOfTime ==
    ASSUME NEW t \in Times
    PROVE  window_key(t) \in Hours
  <1>1. t \in Nat /\ Horizon \in Nat /\ t <= Horizon
    BY RateLimitAssumption DEF Times
  <1>2. /\ window_key(t) \in Nat /\ window_key(Horizon) \in Nat
        /\ Window * window_key(t) < Window * window_key(Horizon) + Window
    BY <1>1, HourBounds, RateLimitAssumption
  <1>3. window_key(t) <= window_key(Horizon)
    BY <1>2, RateLimitAssumption
  <1> QED
    BY <1>2, <1>3 DEF Hours

-----------------------------------------------------------------------------
(* Types.                                                                  *)

\* The script and the DECR write an integer and a time to live.
LEMMA CounterTypes ==
    ASSUME TypeOK, NEW h \in Hours, INCR_WITH_TTL(h) \/ DECR(h)
    PROVE  /\ counter' \in [Hours -> Int]
           /\ expireAt' \in [Hours -> Nat \cup {NoKey, NoTtl}]
  BY RateLimitAssumption DEF TypeOK, INCR_WITH_TTL, DECR, WindowTtl, Times

\* Every step keeps the types: its actions one by one.
LEMMA TypeStep == TypeOK /\ [Next]_vars => TypeOK'
  <1>. SUFFICES ASSUME TypeOK, [Next]_vars PROVE TypeOK'
    OBVIOUS
  <1>. USE RateLimitAssumption DEF TypeOK, Times
  <1>1. ASSUME NEW d \in Deliveries, Promote(d) \/ ReadClock(d)
        PROVE  TypeOK'
    BY <1>1 DEF Promote, ReadClock, Goto
  <1>2. ASSUME NEW d \in Deliveries, Allow(d) \/ Overshoot(d) \/ Undo(d)
        PROVE  TypeOK'
    <2>1. window_key(now[d]) \in Hours
      BY HourOfTime
    <2>2. CASE Allow(d)
      BY <2>1, <2>2, CounterTypes DEF Allow, Goto
    <2>3. CASE Overshoot(d)
      BY <2>1, <2>3, CounterTypes DEF Overshoot, Goto
    <2>4. CASE Undo(d)
      BY <2>1, <2>4, CounterTypes DEF Undo, Goto
    <2> QED
      BY <1>2, <2>2, <2>3, <2>4
  <1>3. ASSUME NEW d \in Deliveries, Defer(d)
        PROVE  TypeOK'
    <2>1. seconds_until_next_window(now[d]) \in Nat
      BY DEF seconds_until_next_window
    <2> QED
      BY <1>3, <2>1 DEF Defer, Goto
  <1>4. CASE Tick
    BY <1>4 DEF Tick
  <1>5. CASE RedisLosesData
    BY <1>5 DEF RedisLosesData
  <1>6. CASE UNCHANGED vars
    BY <1>6 DEF vars
  <1> QED
    BY <1>1, <1>2, <1>3, <1>4, <1>5, <1>6 DEF Next

\* Every reachable state of the rate limit is well typed: check_rate_limit
\* only touches the keys of hours the clock can show.
THEOREM RateLimitTypes == Spec => []TypeOK
  <1>1. Init => TypeOK
    BY RateLimitAssumption DEF Init, TypeOK, Times
  <1> QED
    BY <1>1, TypeStep, PTL DEF Spec

-----------------------------------------------------------------------------
(* The overshoot of an hour: deliveries whose DECR is on its way.          *)

Undoing(h) == {d \in Deliveries : pc[d] = "decr" /\ window_key(now[d]) = h}

\* The overshoot can be counted.
LEMMA UndoingFinite ==
    ASSUME NEW h \in Hours
    PROVE  IsFiniteSet(Undoing(h)) /\ Cardinality(Undoing(h)) \in Nat
  <1>1. IsFiniteSet(Undoing(h))
    BY FS_Subset, RateLimitAssumption DEF Undoing
  <1> QED
    BY <1>1, FS_CardinalityType

\* A check over the limit joins the overshoot of its hour, and no other.
LEMMA UndoingJoins ==
    ASSUME TypeOK, NEW d \in Deliveries, Overshoot(d), NEW h \in Hours
    PROVE  IF h = window_key(now[d])
             THEN /\ Undoing(h)' # {}
                  /\ Cardinality(Undoing(h)') = Cardinality(Undoing(h)) + 1
             ELSE Undoing(h)' = Undoing(h)
  <1>1. Undoing(h)' = IF h = window_key(now[d]) THEN Undoing(h) \cup {d} ELSE Undoing(h)
    BY DEF TypeOK, Overshoot, Goto, Undoing, window_key
  <1>2. d \notin Undoing(h)
    BY DEF Overshoot, Undoing
  <1> QED
    BY <1>1, <1>2, UndoingFinite, FS_AddElement

\* An undo leaves it.
LEMMA UndoingLeaves ==
    ASSUME TypeOK, NEW d \in Deliveries, Undo(d), NEW h \in Hours
    PROVE  IF h = window_key(now[d])
             THEN /\ Undoing(h) # {}
                  /\ Undoing(h)' \subseteq Undoing(h)
                  /\ Cardinality(Undoing(h)') = Cardinality(Undoing(h)) - 1
             ELSE Undoing(h)' = Undoing(h)
  <1>1. Undoing(h)' = IF h = window_key(now[d]) THEN Undoing(h) \ {d} ELSE Undoing(h)
    BY DEF TypeOK, Undo, Goto, Undoing, window_key
  <1>2. h = window_key(now[d]) => d \in Undoing(h)
    BY DEF Undo, Undoing
  <1> QED
    BY <1>1, <1>2, UndoingFinite, FS_RemoveElement

\* No other step changes it.
LEMMA UndoingStays ==
    ASSUME TypeOK, [Next]_vars, ~(\E d \in Deliveries : Overshoot(d) \/ Undo(d)),
           NEW h \in Hours
    PROVE  Undoing(h)' = Undoing(h)
  <1>1. ASSUME NEW d \in Deliveries, Promote(d) \/ ReadClock(d) \/ Allow(d) \/ Defer(d)
        PROVE  Undoing(h)' = Undoing(h)
    <2>1. \A e \in Deliveries :
            \/ pc'[e] = pc[e] /\ now'[e] = now[e]
            \/ pc[e] # "decr" /\ pc'[e] # "decr"
      BY <1>1 DEF TypeOK, Promote, ReadClock, Allow, Defer, Goto
    <2> QED
      BY <2>1 DEF Undoing, window_key
  <1>2. CASE Tick \/ RedisLosesData \/ UNCHANGED vars
    BY <1>2 DEF Tick, RedisLosesData, vars, Undoing, window_key
  <1> QED
    BY <1>1, <1>2 DEF Next

-----------------------------------------------------------------------------
(* A denial means that the window is spent.                                *)

\* A counter is never ahead of what was admitted and what is being undone,
\* and there is nothing to undo before the budget is spent.
Counted ==
    \A h \in Hours :
        /\ counter[h] <= admitted[h] + Cardinality(Undoing(h))
        /\ Undoing(h) # {} => admitted[h] >= Limit

\* The bookkeeping survives interleaved checks, expiry and loss of the data.
LEMMA CountedStep == TypeOK /\ Counted /\ [Next]_vars => Counted'
  <1>. SUFFICES ASSUME TypeOK, Counted, [Next]_vars, NEW h \in Hours
                PROVE  /\ counter'[h] <= admitted'[h] + Cardinality(Undoing(h)')
                       /\ Undoing(h)' # {} => admitted'[h] >= Limit
    BY DEF Counted, Hours
  <1>. USE RateLimitAssumption DEF TypeOK, Times
  <1>1. /\ counter[h] <= admitted[h] + Cardinality(Undoing(h))
        /\ Undoing(h) # {} => admitted[h] >= Limit
        /\ counter[h] \in Int /\ admitted[h] \in Nat /\ Cardinality(Undoing(h)) \in Nat
        /\ Cardinality(Undoing(h)) = 0 <=> Undoing(h) = {}
    BY UndoingFinite, FS_EmptySet DEF Counted
  <1>2. ASSUME NEW d \in Deliveries, Overshoot(d)
        PROVE  /\ counter'[h] <= admitted'[h] + Cardinality(Undoing(h)')
               /\ Undoing(h)' # {} => admitted'[h] >= Limit
    <2>1. CASE h = window_key(now[d])
      <3>1. counter'[h] = counter[h] + 1 /\ counter'[h] > Limit /\ admitted' = admitted
        BY <1>2, <2>1 DEF Overshoot, INCR_WITH_TTL, OverLimit
      <3>2. Cardinality(Undoing(h)') = Cardinality(Undoing(h)) + 1
        BY <1>2, <2>1, UndoingJoins
      <3>3. admitted[h] >= Limit
        BY <1>1, <3>1
      <3> QED
        BY <1>1, <3>1, <3>2, <3>3
    <2>2. CASE h # window_key(now[d])
      <3>1. counter'[h] = counter[h] /\ admitted' = admitted
        BY <1>2, <2>2 DEF Overshoot, INCR_WITH_TTL
      <3> QED
        BY <1>1, <1>2, <2>2, <3>1, UndoingJoins
    <2> QED
      BY <2>1, <2>2
  <1>3. ASSUME NEW d \in Deliveries, Undo(d)
        PROVE  /\ counter'[h] <= admitted'[h] + Cardinality(Undoing(h)')
               /\ Undoing(h)' # {} => admitted'[h] >= Limit
    <2>1. CASE h = window_key(now[d])
      <3>1. counter'[h] = counter[h] - 1 /\ admitted' = admitted
        BY <1>3, <2>1 DEF Undo, DECR
      <3> QED
        BY <1>1, <1>3, <2>1, <3>1, UndoingLeaves
    <2>2. CASE h # window_key(now[d])
      <3>1. counter'[h] = counter[h] /\ admitted' = admitted
        BY <1>3, <2>2 DEF Undo, DECR
      <3> QED
        BY <1>1, <1>3, <2>2, <3>1, UndoingLeaves
    <2> QED
      BY <2>1, <2>2
  <1>4. CASE ~(\E d \in Deliveries : Overshoot(d) \/ Undo(d))
    <2>1. Undoing(h)' = Undoing(h)
      BY <1>4, UndoingStays
    <2>2. ASSUME NEW d \in Deliveries, Allow(d)
          PROVE  admitted'[h] >= admitted[h] /\ counter'[h] - counter[h] <= admitted'[h] - admitted[h]
                 /\ admitted'[h] \in Nat /\ counter'[h] \in Int
      <3>1. window_key(now[d]) \in Hours
        BY HourOfTime
      <3> QED
        BY <1>1, <2>2, <3>1 DEF Allow, INCR_WITH_TTL
    <2>3. CASE Tick \/ RedisLosesData
      <3>1. counter'[h] \in {0, counter[h]} /\ admitted' = admitted
        BY <2>3 DEF Tick, RedisLosesData
      <3> QED
        BY <1>1, <2>1, <3>1
    <2>4. ASSUME NEW d \in Deliveries, Promote(d) \/ ReadClock(d) \/ Defer(d)
          PROVE  counter' = counter /\ admitted' = admitted
      BY <2>4 DEF Promote, ReadClock, Defer
    <2>5. CASE UNCHANGED vars
      BY <1>1, <2>1, <2>5 DEF vars
    <2> QED
      BY <1>1, <1>4, <2>1, <2>2, <2>3, <2>4, <2>5 DEF Next
  <1> QED
    BY <1>2, <1>3, <1>4

\* The bookkeeping holds in every reachable state.
LEMMA CountedAlways == Spec => []Counted
  <1>1. Init => Counted
    <2>. SUFFICES ASSUME Init PROVE Counted
      OBVIOUS
    <2>1. \A h \in Hours : Undoing(h) = {} /\ counter[h] = 0 /\ admitted[h] = 0
      BY DEF Init, Undoing
    <2> QED
      BY <2>1, FS_EmptySet DEF Counted
  <1> QED
    BY <1>1, CountedStep, RateLimitTypes, PTL DEF Spec

\* check_rate_limit denies a delivery only when its window's budget is spent,
\* whatever overshoots and undos of other checks are under way, and also
\* after Redis lost its data.
THEOREM Denials == Spec => DeniedOnlyWhenSpent
  <1>1. TypeOK /\ Counted /\ [Next]_vars
          => [\A d \in Deliveries : (pc[d] = "incr" /\ pc'[d] = "decr")
                                       => admitted[window_key(now[d])] >= Limit]_vars
    <2>. SUFFICES ASSUME TypeOK, Counted, Next, NEW d \in Deliveries,
                         pc[d] = "incr", pc'[d] = "decr"
                  PROVE  admitted[window_key(now[d])] >= Limit
      BY DEF vars
    <2>. DEFINE h == window_key(now[d])
    <2>1. Overshoot(d)
      BY DEF TypeOK, Next, Promote, ReadClock, Allow, Overshoot, Undo, Defer, Tick,
             RedisLosesData, Goto
    <2>2. h \in Hours
      BY HourOfTime DEF TypeOK
    <2>3. counter[h] >= Limit
      BY <2>1, <2>2, RateLimitAssumption DEF Overshoot, INCR_WITH_TTL, OverLimit, TypeOK
    <2>4. /\ counter[h] <= admitted[h] + Cardinality(Undoing(h))
          /\ Undoing(h) # {} => admitted[h] >= Limit
      BY <2>2 DEF Counted
    <2>5. counter[h] \in Int /\ admitted[h] \in Nat
          /\ (Undoing(h) = {} => Cardinality(Undoing(h)) = 0)
      BY <2>2, FS_EmptySet DEF TypeOK
    <2> QED
      BY <2>3, <2>4, <2>5, RateLimitAssumption
  <1> QED
    BY <1>1, RateLimitTypes, CountedAlways, PTL DEF Spec, DeniedOnlyWhenSpent

-----------------------------------------------------------------------------
(* The clock of a check.                                                   *)

\* A check is under way for MaxStall at most, and its time is not in the future.
ClockOfChecks ==
    \A d \in Deliveries :
        /\ now[d] <= clock
        /\ Checking(d) => clock <= now[d] + MaxStall

\* Only the clock moves away from the time a check has read.
LEMMA ClockOfChecksStep == TypeOK /\ ClockOfChecks /\ [Next]_vars => ClockOfChecks'
  <1>. SUFFICES ASSUME TypeOK, ClockOfChecks, [Next]_vars PROVE ClockOfChecks'
    OBVIOUS
  <1>. USE RateLimitAssumption DEF TypeOK, Times, ClockOfChecks, Checking
  <1>1. ASSUME NEW d \in Deliveries,
               Promote(d) \/ ReadClock(d) \/ Allow(d) \/ Overshoot(d) \/ Undo(d) \/ Defer(d)
        PROVE  ClockOfChecks'
    BY <1>1 DEF Promote, ReadClock, Allow, Overshoot, Undo, Defer, Goto
  <1>2. CASE Tick
    BY <1>2 DEF Tick
  <1>3. CASE RedisLosesData \/ UNCHANGED vars
    BY <1>3 DEF RedisLosesData, vars
  <1> QED
    BY <1>1, <1>2, <1>3 DEF Next

\* A check never outlives its hour by a whole window.
LEMMA CheckIsTimely ==
    ASSUME TypeOK, ClockOfChecks, MaxStall <= Window, NEW d \in Deliveries, Checking(d)
    PROVE  /\ window_key(now[d]) \in Hours
           /\ Window * window_key(now[d]) <= clock
           /\ clock < Window * window_key(now[d]) + 2 * Window
  <1>1. now[d] \in Nat /\ clock \in Nat /\ now[d] <= clock /\ clock <= now[d] + MaxStall
    BY RateLimitAssumption DEF TypeOK, Times, ClockOfChecks
  <1> QED
    BY <1>1, HourBounds, HourOfTime, RateLimitAssumption DEF TypeOK

-----------------------------------------------------------------------------
(* The budget of a window.                                                 *)

\* Nobody checks against the hour any more.
Closed(h) == clock >= Window * h + 2 * Window

\* While the key exists it counts exactly what was admitted and what is being
\* undone, and it lives until the hour is closed.
KeyOf(h) ==
    /\ Exists(h) => /\ counter[h] = admitted[h] + Cardinality(Undoing(h))
                    /\ expireAt[h] >= Window * h + 2 * Window
    /\ ~Exists(h) => /\ counter[h] = 0
                     /\ Closed(h) \/ (admitted[h] = 0 /\ Undoing(h) = {})
    /\ admitted[h] <= Limit

Budgeted == losses = 0 => \A h \in Hours : KeyOf(h)

\* An increment of an hour's counter: the key is there, or nobody was counted.
LEMMA KeyAfterIncr ==
    ASSUME TypeOK, ClockOfChecks, MaxStall <= Window, NEW d \in Deliveries, pc[d] = "incr",
           NEW h \in Hours, h = window_key(now[d]), KeyOf(h), INCR_WITH_TTL(h)
    PROVE  /\ counter'[h] = admitted[h] + Cardinality(Undoing(h)) + 1
           /\ expireAt'[h] >= Window * h + 2 * Window
           /\ expireAt'[h] # NoKey
  <1>1. /\ Window * h <= clock /\ clock < Window * h + 2 * Window
        /\ h \in Nat /\ Window * h \in Nat /\ clock \in Nat
    <2>1. h \in Nat
      BY HourBounds, RateLimitAssumption DEF TypeOK, Times
    <2> QED
      BY <2>1, CheckIsTimely, RateLimitAssumption DEF Checking, TypeOK, Times
  <1>2. /\ counter[h] \in Int /\ admitted[h] \in Nat /\ Cardinality(Undoing(h)) \in Nat
        /\ Undoing(h) = {} => Cardinality(Undoing(h)) = 0
        /\ expireAt[h] \in Nat \cup {NoKey, NoTtl}
    BY UndoingFinite, FS_EmptySet DEF TypeOK
  <1>3. counter[h] = admitted[h] + Cardinality(Undoing(h))
    BY <1>1, <1>2, RateLimitAssumption DEF KeyOf, Closed
  <1>4. counter'[h] = counter[h] + 1
    BY DEF TypeOK, INCR_WITH_TTL
  <1>5. ~Exists(h) => counter'[h] = 1
    BY <1>2, <1>4 DEF KeyOf
  <1>6. expireAt'[h] = IF counter'[h] = 1 THEN clock + WindowTtl ELSE expireAt[h]
    BY <1>5 DEF TypeOK, INCR_WITH_TTL
  <1>7. expireAt'[h] >= Window * h + 2 * Window
    BY <1>1, <1>2, <1>5, <1>6, RateLimitAssumption DEF KeyOf, WindowTtl
  <1> QED
    BY <1>1, <1>2, <1>3, <1>4, <1>7, RateLimitAssumption DEF NoKey

\* What is known of an hour survives every step of a check, the expiry of the
\* key included.
LEMMA KeyStep ==
    ASSUME TypeOK, ClockOfChecks, MaxStall <= Window, [Next]_vars, ~RedisLosesData,
           NEW h \in Hours, KeyOf(h)
    PROVE  KeyOf(h)'
  <1>. USE RateLimitAssumption DEF TypeOK, Times
  <1>1. /\ h \in Nat /\ Window * h \in Nat
        /\ counter[h] \in Int /\ admitted[h] \in Nat /\ Cardinality(Undoing(h)) \in Nat
        /\ Cardinality(Undoing(h)) = 0 <=> Undoing(h) = {}
        /\ expireAt[h] \in Nat \cup {NoKey, NoTtl}
    <2>1. h \in Nat
      BY HourBounds DEF Hours
    <2>2. /\ Cardinality(Undoing(h)) \in Nat
          /\ Cardinality(Undoing(h)) = 0 <=> Undoing(h) = {}
      BY UndoingFinite, FS_EmptySet
    <2> QED
      BY <2>1, <2>2
  <1>2. ASSUME NEW d \in Deliveries, Allow(d) \/ Overshoot(d) \/ Undo(d), h # window_key(now[d])
        PROVE  KeyOf(h)'
    <2>1. /\ counter'[h] = counter[h] /\ expireAt'[h] = expireAt[h] /\ clock' = clock
          /\ admitted'[h] = admitted[h]
      BY <1>2 DEF Allow, Overshoot, Undo, INCR_WITH_TTL, DECR
    <2>2. Undoing(h)' = Undoing(h)
      <3>1. CASE Allow(d)
        BY <3>1 DEF Allow, Goto, Undoing, window_key
      <3> QED
        BY <1>2, <3>1, UndoingJoins, UndoingLeaves
    <2> QED
      BY <2>1, <2>2 DEF KeyOf, Exists, Closed
  <1>3. ASSUME NEW d \in Deliveries, Allow(d), h = window_key(now[d])
        PROVE  KeyOf(h)'
    <2>1. /\ counter'[h] = admitted[h] + Cardinality(Undoing(h)) + 1
          /\ expireAt'[h] >= Window * h + 2 * Window
          /\ expireAt'[h] # NoKey
      BY <1>3, KeyAfterIncr DEF Allow
    <2>2. counter'[h] <= Limit /\ admitted'[h] = admitted[h] + 1
      BY <1>1, <1>3, <2>1 DEF Allow, OverLimit
    <2>3. Undoing(h)' = Undoing(h)
      BY <1>3 DEF Allow, Goto, Undoing, window_key
    <2> QED
      BY <1>1, <2>1, <2>2, <2>3 DEF KeyOf, Exists
  <1>4. ASSUME NEW d \in Deliveries, Overshoot(d), h = window_key(now[d])
        PROVE  KeyOf(h)'
    <2>1. /\ counter'[h] = admitted[h] + Cardinality(Undoing(h)) + 1
          /\ expireAt'[h] >= Window * h + 2 * Window
          /\ expireAt'[h] # NoKey
      BY <1>4, KeyAfterIncr DEF Overshoot
    <2>2. Cardinality(Undoing(h)') = Cardinality(Undoing(h)) + 1
      BY <1>4, UndoingJoins
    <2>3. admitted'[h] = admitted[h] /\ admitted[h] <= Limit
      BY <1>4 DEF Overshoot, KeyOf
    <2> QED
      BY <1>1, <2>1, <2>2, <2>3 DEF KeyOf, Exists
  <1>5. ASSUME NEW d \in Deliveries, Undo(d), h = window_key(now[d])
        PROVE  KeyOf(h)'
    <2>1. Undoing(h) # {} /\ Cardinality(Undoing(h)') = Cardinality(Undoing(h)) - 1
      BY <1>5, UndoingLeaves
    <2>2. ~Closed(h)
      BY <1>1, <1>5, CheckIsTimely DEF Undo, Checking, Closed
    <2>3. Exists(h)
      BY <2>1, <2>2 DEF KeyOf
    <2>4. counter'[h] = counter[h] - 1 /\ expireAt'[h] = expireAt[h] /\ admitted' = admitted
      BY <1>5, <2>3 DEF Undo, DECR
    <2> QED
      BY <1>1, <2>1, <2>3, <2>4 DEF KeyOf, Exists
  <1>6. CASE Tick
    <2>1. Undoing(h)' = Undoing(h) /\ admitted' = admitted /\ clock' = clock + 1 /\ clock \in Nat
      BY <1>6 DEF Tick, Undoing, window_key
    <2>2. /\ counter'[h] = IF Expires(h) THEN 0 ELSE counter[h]
          /\ expireAt'[h] = IF Expires(h) THEN NoKey ELSE expireAt[h]
      BY <1>6 DEF Tick
    <2>3. CASE Expires(h)
      <3>1. Exists(h) /\ expireAt[h] <= clock' /\ expireAt[h] \in Nat
        BY <1>1, <2>3 DEF Expires, Exists, NoKey, NoTtl
      <3>2. Closed(h)'
        BY <1>1, <2>1, <3>1 DEF KeyOf, Closed
      <3> QED
        BY <2>1, <2>2, <2>3, <3>2 DEF KeyOf, Exists
    <2>4. CASE ~Expires(h)
      <3>1. Closed(h) => Closed(h)'
        BY <1>1, <2>1 DEF Closed
      <3> QED
        BY <2>1, <2>2, <2>4, <3>1 DEF KeyOf, Exists
    <2> QED
      BY <2>3, <2>4
  <1>7. ASSUME NEW d \in Deliveries, Promote(d) \/ ReadClock(d) \/ Defer(d)
        PROVE  KeyOf(h)'
    <2>1. ~(\E e \in Deliveries : Overshoot(e) \/ Undo(e))
      BY <1>7 DEF Promote, ReadClock, Defer, Overshoot, Undo, Goto
    <2>2. Undoing(h)' = Undoing(h)
      BY <2>1, UndoingStays
    <2> QED
      BY <1>7, <2>2 DEF Promote, ReadClock, Defer, KeyOf, Exists, Closed
  <1>8. CASE UNCHANGED vars
    BY <1>8 DEF vars, KeyOf, Exists, Closed, Undoing, window_key
  <1> QED
    BY <1>2, <1>3, <1>4, <1>5, <1>6, <1>7, <1>8 DEF Next

\* The same with the loss of the data, which the claim sets aside.
LEMMA BudgetedStep ==
    ASSUME MaxStall <= Window
    PROVE  TypeOK /\ ClockOfChecks /\ Budgeted /\ [Next]_vars => Budgeted'
  <1>. SUFFICES ASSUME TypeOK, ClockOfChecks, Budgeted, [Next]_vars, losses' = 0,
                       NEW h \in Hours
                PROVE  KeyOf(h)'
    BY DEF Budgeted, Hours
  <1>1. losses = 0 /\ ~RedisLosesData
    BY DEF TypeOK, Next, vars, Promote, ReadClock, Allow, Overshoot, Undo, Defer, Tick,
           RedisLosesData
  <1> QED
    BY <1>1, KeyStep DEF Budgeted

\* The bookkeeping of keys holds in every reachable state.
LEMMA BudgetedAlways ==
    ASSUME MaxStall <= Window
    PROVE  Spec => []Budgeted
  <1>1. Init => TypeOK /\ ClockOfChecks /\ Budgeted
    <2>. SUFFICES ASSUME Init PROVE ClockOfChecks /\ Budgeted
      BY RateLimitAssumption DEF Init, TypeOK, Times
    <2>1. ClockOfChecks
      BY RateLimitAssumption DEF Init, ClockOfChecks, Checking
    <2>2. \A h \in Hours : Undoing(h) = {} /\ counter[h] = 0 /\ admitted[h] = 0 /\ ~Exists(h)
      BY DEF Init, Undoing, Exists
    <2> QED
      BY <2>1, <2>2, RateLimitAssumption DEF Budgeted, KeyOf
  <1>2. TypeOK /\ ClockOfChecks /\ Budgeted /\ [Next]_vars => ClockOfChecks' /\ Budgeted'
    BY ClockOfChecksStep, BudgetedStep
  <1> QED
    BY <1>1, <1>2, RateLimitTypes, PTL DEF Spec

\* No window admits more deliveries than rate_limit_per_hour, for any number of
\* concurrent checks: no check may be under way for longer than a window, and
\* Redis keeps its data.
THEOREM WithinBudget ==
    ASSUME MaxStall <= Window
    PROVE  Spec => []WindowBudget
  <1>1. Budgeted => WindowBudget
    BY DEF Budgeted, KeyOf, WindowBudget
  <1> QED
    BY <1>1, BudgetedAlways, PTL

\* Under the same conditions no counter is ever without a time to live.
THEOREM CountersExpire ==
    ASSUME MaxStall <= Window
    PROVE  Spec => []CounterHasTtl
  <1>1. Budgeted => CounterHasTtl
    <2>. SUFFICES ASSUME Budgeted, losses = 0, NEW h \in Hours PROVE expireAt[h] # NoTtl
      BY DEF CounterHasTtl
    <2>1. h \in Nat /\ Window * h \in Nat
      BY HourBounds, RateLimitAssumption DEF Hours
    <2> QED
      BY <2>1, RateLimitAssumption DEF Budgeted, KeyOf, Exists, NoKey, NoTtl
  <1> QED
    BY <1>1, BudgetedAlways, PTL

-----------------------------------------------------------------------------
(* The deferral.                                                           *)

\* Whenever defer_job comes to it, the sum of its clock and the check's
\* retry_after lies in the window after the one that denied.
LEMMA NextWindow ==
    ASSUME NEW t \in Nat, NEW c \in Nat, t <= c, c <= t + MaxStall, MaxStall + 1 < Window
    PROVE  window_key(c + seconds_until_next_window(t)) = window_key(t) + 1
  <1>. DEFINE h == window_key(t)
              u == c + seconds_until_next_window(t)
  <1>1. h \in Nat /\ t = Window * h + (t % Window) /\ t % Window \in 0..(Window - 1)
    BY HourBounds, RateLimitAssumption DEF window_key
  <1>2. u = (c - t) + Window * h + Window + 1
    <2>. DEFINE r == t % Window
    <2>1. u = c + (Window - r + 1)
      BY DEF seconds_until_next_window
    <2>2. r \in Int /\ t = Window * h + r /\ Window * h \in Int
      BY <1>1, RateLimitAssumption
    <2>. HIDE DEF u, r, h
    <2> QED
      BY <2>1, <2>2, RateLimitAssumption
  <1>3. Window * (h + 1) = Window * h + Window /\ Window * h \in Nat
    BY <1>1, RateLimitAssumption
  <1>4. u \in Nat /\ Window * (h + 1) <= u /\ u < Window * (h + 1) + Window
    BY <1>1, <1>2, <1>3, RateLimitAssumption
  <1>. HIDE DEF u, h
  <1>5. window_key(u) = h + 1
    BY <1>1, <1>4, HourOf
  <1> QED
    BY <1>5 DEF u, h

\* The send_at of a deferred delivery is not touched before it is checked again.
LEMMA DeferredStep ==
    ASSUME MaxStall + 1 < Window
    PROVE  TypeOK /\ ClockOfChecks /\ DeferredToNextWindow /\ [Next]_vars
             => DeferredToNextWindow'
  <1>. SUFFICES ASSUME TypeOK, ClockOfChecks, DeferredToNextWindow, [Next]_vars,
                       NEW e \in Deliveries, pc'[e] = "pending", send_at'[e] > 0
                PROVE  window_key(send_at'[e]) = window_key(now'[e]) + 1
    BY DEF DeferredToNextWindow, window_key
  <1>1. ASSUME NEW d \in Deliveries, Defer(d), d = e
        PROVE  window_key(send_at'[e]) = window_key(now'[e]) + 1
    <2>1. /\ send_at'[e] = clock + seconds_until_next_window(now[e])
          /\ now'[e] = now[e] /\ Checking(e)
      BY <1>1 DEF TypeOK, Defer, Checking
    <2>2. now[e] \in Nat /\ clock \in Nat /\ now[e] <= clock /\ clock <= now[e] + MaxStall
      BY <2>1, RateLimitAssumption DEF TypeOK, Times, ClockOfChecks
    <2> QED
      BY <2>1, <2>2, NextWindow
  <1>2. CASE ~Defer(e)
    <2>1. pc[e] = "pending" /\ send_at'[e] = send_at[e] /\ now'[e] = now[e]
      BY <1>2 DEF TypeOK, Next, vars, Promote, ReadClock, Allow, Overshoot, Undo, Defer, Tick,
                  RedisLosesData, Goto
    <2> QED
      BY <2>1 DEF DeferredToNextWindow
  <1> QED
    BY <1>1, <1>2

\* A denied delivery is due in the window after the one that denied it, if a
\* check ends more than a second before a whole window has passed.
THEOREM Deferral ==
    ASSUME MaxStall + 1 < Window
    PROVE  Spec => []DeferredToNextWindow
  <1>1. Init => ClockOfChecks /\ DeferredToNextWindow
    BY RateLimitAssumption DEF Init, ClockOfChecks, Checking, DeferredToNextWindow
  <1>2. TypeOK /\ ClockOfChecks /\ DeferredToNextWindow /\ [Next]_vars
          => ClockOfChecks' /\ DeferredToNextWindow'
    BY ClockOfChecksStep, DeferredStep
  <1> QED
    BY <1>1, <1>2, RateLimitTypes, PTL DEF Spec

===============================================================================
