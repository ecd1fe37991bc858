----------------------------- MODULE MCSubmission -----------------------------
(* Instances of create_job for TLC.                                          *)
EXTENDS Submission, TLC

CONSTANTS c1, c2, c3, c4, c5, k1, k2

\* Three calls race for one key, one has a key of its own, one has none.
Race == c1 :> k1 @@ c2 :> k1 @@ c3 :> k1 @@ c4 :> k2 @@ c5 :> NULL

===============================================================================
