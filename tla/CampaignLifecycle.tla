-------------------------- MODULE CampaignLifecycle --------------------------
(***************************************************************************)
(* What a capacity campaign promises, with no reconciler, driver or SLURM  *)
(* job in sight: it takes its steps in their declared order, one at a      *)
(* time, may fail at any of them, and is let go of - completed, or failed  *)
(* with no cleanup owed - only by a step that sees it hold no allocation.  *)
(* An allocation that arrives after the failure makes it owe one again.    *)
(***************************************************************************)
EXTENDS Naturals

VARIABLES
  phase,  \* the step it is at, "completed" or "failed"
  owes,   \* a failed campaign still has an allocation to clean up
  holds   \* an allocation of it is active

lifecycleVars == <<phase, owes, holds>>

Order == <<"acquire", "wait_stub", "cuda_smoke", "submit_dag", "wait_dag",
           "drain", "release", "closeout">>
Steps == {Order[i] : i \in 1..8}

Init == phase = "acquire" /\ ~owes /\ ~holds

\* The capacity comes, by the campaign's own request, and goes.
Hold == holds' = ~holds /\ UNCHANGED <<phase, owes>>

Forward ==
  /\ \E i \in 1..7 : phase = Order[i] /\ phase' = Order[i + 1]
  /\ UNCHANGED <<owes, holds>>

Complete == phase = "closeout" /\ ~holds /\ phase' = "completed" /\ UNCHANGED <<owes, holds>>

\* The failure, whoever reports it, owes a cleanup if an allocation is held.
Fail ==
  /\ phase # "failed" /\ phase' = "failed"
  /\ holds => owes'
  /\ owes' \in BOOLEAN
  /\ UNCHANGED holds

Owe == phase = "failed" /\ owes' = TRUE /\ UNCHANGED <<phase, holds>>

Discharge == phase = "failed" /\ ~holds /\ owes' = FALSE /\ UNCHANGED <<phase, holds>>

Next == Hold \/ Forward \/ Complete \/ Fail \/ Owe \/ Discharge

Spec == Init /\ [][Next]_lifecycleVars
=============================================================================
