---------------------------- MODULE MCExperiments ----------------------------
(* Experiments twice: with the tasks that come to them and leave them, and    *)
(* with what is read from them while they are edited.  A behaviour is one of  *)
(* the part in focus; the other does not move.                                *)
EXTENDS Experiments, Lineage

VARIABLE focus

experimentsVars == <<expVars, lineageVars, focus>>

\* One of two tasks for a high value, one of one task for a low one.
Ideas == {[tasks |-> {"t1", "t2"}, family |-> "f", goal |-> "max", criterion |-> "above"],
          [tasks |-> {"t1"}, family |-> "f", goal |-> "min", criterion |-> "above"]}

Init == ExperimentInit /\ LineageInit /\ focus \in {"tasks", "lineage"}

Next ==
  \/ focus = "tasks" /\ ExperimentNext /\ UNCHANGED <<lineageVars, focus>>
  \/ focus = "lineage" /\ LineageNext /\ UNCHANGED <<expVars, focus>>

Spec == Init /\ [][Next]_experimentsVars

\* The rows stay within their types, and what two requests read from them fits
\* together, whatever was evaluated, edited and deleted (api/experiments.ts:450-630).
ReadingsSound ==
  IF focus = "tasks" THEN ExperimentTypeOK ELSE LineageTypeOK /\ VerdictsAgree /\ TreeEnds /\ ReportsFit
=============================================================================
