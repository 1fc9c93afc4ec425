--------------------------- MODULE TaskLifecycle ---------------------------
(***************************************************************************)
(* What the server keeps of tasks, whatever users, links and daemons do,   *)
(* with no stub, link or queue in sight: a task is born pending, moves     *)
(* along the legal transitions of the status machine, and stays completed  *)
(* or cancelled.  A retry is a new task, born of a failed one of its       *)
(* lineage or, by mistake, of a paused one, and never more than MaxRetries *)
(* of them follow one another.                                             *)
(*                                                                         *)
(* That a failed task stays failed is NOT part of it: a resume may bring   *)
(* its object back to life (Orchestrator!FailedIsFinal).  Nor is that one  *)
(* attempt lives at a time (OneLivePerLineage), for the same reason.       *)
(***************************************************************************)
EXTENDS Integers, TaskStatus

CONSTANTS Tasks, MaxRetries

VARIABLES
  status,   \* [Tasks -> Status \cup {"none"}]
  root,     \* the first task of the lineage
  attempt   \* how many retries precede the task in its lineage

lifecycleVars == <<status, root, attempt>>

Born(t) == status[t] # "none"
Live(t) == status[t] \notin Terminal \cup {"none"}

\* One callback of the server makes at most two transitions of a task (requeued
\* and assigned again, assigned and found missing), the second not out of a
\* terminal status.
Steps(from) == {from} \cup LegalTargets[from]
TwoSteps(from) == Steps(from) \cup UNION {Steps(s) : s \in Steps(from) \ Terminal}

\* A failed task goes on from the status its object was restored with.
Moves ==
  [from \in Status |->
     IF from \in {"completed", "cancelled"} THEN {from}
     ELSE IF from = "failed" THEN {from} \cup UNION {TwoSteps(s) : s \in Reserving}
     ELSE TwoSteps(from)]

Lives(t) == status'[t] \in Moves[status[t]] /\ root'[t] = root[t] /\ attempt'[t] = attempt[t]

IsSubmitted(t) == root'[t] = t /\ attempt'[t] = 0
IsRetry(t) ==
  \E p \in Tasks \ {t} : /\ status'[p] \in {"failed", "paused"} /\ root'[t] = root'[p]
                         /\ attempt'[t] = attempt'[p] + 1 /\ attempt'[t] <= MaxRetries

IsBorn(t) == status'[t] \in Moves["pending"] /\ (IsSubmitted(t) \/ IsRetry(t))

OneLivePerLineage ==
  \A t, u \in Tasks : t # u /\ Live(t) /\ Live(u) => root[t] # root[u]

Init == \A t \in Tasks : ~Born(t)

Next == \A t \in Tasks : IF Born(t) THEN Lives(t) ELSE ~Born(t)' \/ IsBorn(t)

Spec == Init /\ [][Next]_lifecycleVars
=============================================================================
