----------------------------- MODULE MCWarmPool -----------------------------
(* Instances of WarmPool for TLC. *)
EXTENDS WarmPool, TLC

CONSTANTS t1, t2, t3, Kills, Crashes, FailedSpawns, Days

Symmetry == Permutations(Task)

MCBudget == "kill" :> Kills @@ "crash" :> Crashes @@ "spawn" :> FailedSpawns @@ "day" :> Days
=============================================================================
