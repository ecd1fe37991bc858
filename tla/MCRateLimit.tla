------------------------------ MODULE MCRateLimit ------------------------------
(* Instances of the rate limit for TLC.                                      *)
EXTENDS RateLimit, TLC

\* No property tells one delivery from another.
Interchangeable == Permutations(Deliveries)

===============================================================================
