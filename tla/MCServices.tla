------------------------------ MODULE MCServices ------------------------------
(* The parts of the server that meet only through the tasks they act on, side *)
(* by side.  A behaviour is one of the part in focus; the others do not move.  *)
EXTENDS Slurm, Webhooks, TaskGraph, WriteLocks, TaskControls

CONSTANT Parts \* the parts a run looks at

VARIABLE focus

servicesVars == <<slurmVars, hookVars, graphVars, lockVars, controlVars, focus>>

NestedDirs == {<<"d", "d/e">>}

Init ==
  /\ SlurmInit /\ WebhookInit /\ GraphInit /\ LockInit /\ ControlInit
  /\ focus \in Parts

Next ==
  \/ focus = "slurm" /\ SlurmNext
     /\ UNCHANGED <<hookVars, graphVars, lockVars, controlVars, focus>>
  \/ focus = "webhooks" /\ WebhookNext
     /\ UNCHANGED <<slurmVars, graphVars, lockVars, controlVars, focus>>
  \/ focus = "graph" /\ GraphNext
     /\ UNCHANGED <<slurmVars, hookVars, lockVars, controlVars, focus>>
  \/ focus = "locks" /\ LockNext
     /\ UNCHANGED <<slurmVars, hookVars, graphVars, controlVars, focus>>
  \/ focus = "controls" /\ ControlNext
     /\ UNCHANGED <<slurmVars, hookVars, graphVars, lockVars, focus>>

Spec == Init /\ [][Next]_servicesVars
FairSpec ==
  Spec /\ SlurmFairness /\ WebhookFairness /\ GraphFairness /\ ControlFairness
=============================================================================
