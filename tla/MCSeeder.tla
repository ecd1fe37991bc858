------------------------------- MODULE MCSeeder -------------------------------
(* An instance of the seeder beside the pipeline for TLC.                    *)
EXTENDS Seeder

CONSTANT j1

TierPerJob == [j \in Jobs |-> IF j = j1 THEN 1 ELSE 2]

SeededBudget == [k \in Kinds |-> IF k = "error" THEN 1 ELSE 0]

===============================================================================
