----------------------------- MODULE MCNotifyQueue -----------------------------
(* Instances of the pipeline for TLC.                                        *)
EXTENDS NotifyQueue, TLC

\* No property tells one worker, or one scheduler, from another.
Interchangeable == Permutations(Workers) \cup Permutations(Schedulers)

OneTier == [j \in Jobs |-> 1]
\* Every place but the one before the row is fetched.
StallsAfterFetch == ProcessingPcs \ {"fetch"}

NoFailures == [k \in Kinds |-> 0]

FencedBudget == [NoFailures EXCEPT !.error = 1, !.stall = 1, !.denial = 1, !.replay = 1]

TwoSchedulersBudget == [NoFailures EXCEPT !.stall = 1, !.tick = 1, !.replay = 1]

ResolvedBudget == [NoFailures EXCEPT !.error = 1, !.crash = 1, !.tick = 1, !.redis = 1]

OneStall == [NoFailures EXCEPT !.stall = 1]

StallAndFailedTick == [NoFailures EXCEPT !.stall = 1, !.tick = 1]

===============================================================================
