------------------------------ MODULE TaskGraph ------------------------------
(***************************************************************************)
(* Dependencies between tasks on the server: a task with dependencies is   *)
(* blocked; the completion of a task promotes what waited for it alone,    *)
(* its failure cancels all that waits for it.  Only the handlers of        *)
(* task.completed and task.failed do that: a task also ends through        *)
(* resume, status.sync, timers and the API, and operators put tasks back,  *)
(* retry, replace, reschedule and delete them.                             *)
(***************************************************************************)
EXTENDS Naturals

CONSTANTS
  DagSize,       \* bound: the tasks of the experiment
  MaxNodes,      \* bound: task ids, with those of retries and replacements
  Interventions  \* bound: ends that pass the handlers by, and operators' requests

ASSUME GraphAssumption ==
  DagSize \in Nat /\ MaxNodes \in Nat /\ DagSize <= MaxNodes /\ Interventions \in Nat

VARIABLES
  node,      \* status and depends_on of each task
  done,      \* history: tasks that have been completed at some time
  settled,   \* history: tasks whose end went downstream by cascadeCancellation
  forced,    \* history: tasks an operator made pending whatever they depend on
  adrift,    \* history: tasks that wait, or whose dependents wait, for no event
  graphLeft  \* what is left of Interventions

graphVars == <<node, done, settled, forced, adrift, graphLeft>>

Nodes == 1..MaxNodes
NodeStatus == {"none", "blocked", "pending", "live", "completed", "failed", "cancelled", "deleted"}
Node == [status : NodeStatus, deps : SUBSET Nodes]

GraphTypeOK ==
  /\ node \in [Nodes -> Node]
  /\ done \subseteq Nodes /\ settled \subseteq Nodes
  /\ forced \subseteq Nodes /\ adrift \subseteq Nodes
  /\ graphLeft \in 0..Interventions

Ended(status) == status \in {"completed", "failed", "cancelled"}
With(status) == {t \in Nodes : node[t].status = status}
Fresh(t) == node[t].status = "none" /\ \A u \in 1..(t - 1) : node[u].status # "none"

GraphInit ==
  /\ node = [t \in Nodes |-> [status |-> "none", deps |-> {}]]
  /\ done = {} /\ settled = {} /\ forced = {} /\ adrift = {}
  /\ graphLeft = Interventions

Intervene == graphLeft > 0 /\ graphLeft' = graphLeft - 1

(***************************************************************************)
(* What the end of a task does downstream.                                 *)
(***************************************************************************)
\* Mutant: one completed dependency is enough.
SatisfiedByOne(n, t) == \E d \in n[t].deps : n[d].status = "completed"

Satisfied(n, t) == \A d \in n[t].deps : n[d].status = "completed"

Promoted(n, t) ==
  [u \in Nodes |-> IF n[u].status = "blocked" /\ t \in n[u].deps /\ Satisfied(n, u)
                   THEN [n[u] EXCEPT !.status = "pending"] ELSE n[u]]

\* The blocked tasks that the recursion of cascadeCancellation reaches from t.
Downstream(n, t) ==
  {u \in Nodes :
     /\ n[u].status = "blocked"
     /\ \A S \in SUBSET Nodes :
          (/\ t \in S
           /\ \A v \in Nodes : n[v].status = "blocked" /\ n[v].deps \cap S # {} => v \in S)
          => u \in S}

Cascaded(n, t) ==
  [u \in Nodes |-> IF u \in Downstream(n, t) THEN [n[u] EXCEPT !.status = "cancelled"] ELSE n[u]]

Becomes(t, status) == [node EXCEPT ![t].status = status]

(***************************************************************************)
(* Submission.                                                             *)
(***************************************************************************)
\* POST /experiments with task_specs.  Every acyclic graph is one of these, up
\* to the names of its tasks.
SubmitDag ==
  /\ With("none") = Nodes
  /\ \E deps \in [1..DagSize -> SUBSET (1..DagSize)] :
       /\ \A t \in 1..DagSize : deps[t] \subseteq 1..(t - 1)
       /\ node' = [t \in Nodes |->
            IF t \in 1..DagSize
            THEN [status |-> IF deps[t] = {} THEN "pending" ELSE "blocked", deps |-> deps[t]]
            ELSE node[t]]
  /\ UNCHANGED <<done, settled, forced, adrift, graphLeft>>

\* A blocked task that waits for a task that has ended already waits for ever.
Waits(n, t) == n[t].status = "blocked" /\ \E d \in n[t].deps : ~(n[d].status \in {"blocked", "pending", "live"})

\* POST /tasks with depends_on: blocked, whatever has become of them.
SubmitAfter(t) ==
  /\ Intervene /\ Fresh(t) /\ t > DagSize
  /\ \E deps \in SUBSET {d \in Nodes : node[d].status # "none"} :
       node' = [node EXCEPT ![t] = [status |-> IF deps = {} THEN "pending" ELSE "blocked",
                                    deps |-> deps]]
  /\ adrift' = IF Waits(node', t) THEN adrift \cup {t} ELSE adrift
  /\ UNCHANGED <<done, settled, forced>>

(***************************************************************************)
(* The course of a task, and the two handlers that tell its dependents.    *)
(***************************************************************************)
StartNode(t) ==
  /\ node[t].status = "pending"
  /\ node' = Becomes(t, "live")
  /\ UNCHANGED <<done, settled, forced, adrift, graphLeft>>

TaskCompleted(t) ==
  /\ node[t].status = "live"
  /\ node' = Promoted(Becomes(t, "completed"), t)
  /\ done' = done \cup {t}
  /\ UNCHANGED <<settled, forced, adrift, graphLeft>>

\* A failure that is not retried, a kill, or a cooperative stop.
TaskFailed(t) ==
  /\ node[t].status = "live"
  /\ \E status \in {"failed", "cancelled"} : node' = Cascaded(Becomes(t, status), t)
  /\ settled' = settled \cup {t} \cup Downstream(node, t)
  /\ UNCHANGED <<done, forced, adrift, graphLeft>>

\* A failure with a retry: the dependents go on waiting for the failed task.
TaskRetried(t) ==
  /\ Intervene /\ node[t].status = "live"
  /\ \E u \in Nodes :
       /\ Fresh(u)
       /\ node' = [node EXCEPT ![t].status = "failed",
                               ![u] = [status |-> "pending", deps |-> node[t].deps]]
       /\ forced' = IF t \in forced THEN forced \cup {u} ELSE forced
  /\ adrift' = adrift \cup {t}
  /\ UNCHANGED <<done, settled>>

\* Resume, status.sync, the dispatch timeout, the 6 h timer: nobody is told.
EndsQuietly(t) ==
  /\ Intervene /\ node[t].status = "live"
  /\ \E status \in {"completed", "failed"} :
       /\ node' = Becomes(t, status)
       /\ done' = IF status = "completed" THEN done \cup {t} ELSE done
  /\ adrift' = adrift \cup {t}
  /\ UNCHANGED <<settled, forced>>

(***************************************************************************)
(* Operators.                                                              *)
(***************************************************************************)
CancelNode(t) ==
  /\ Intervene /\ node[t].status \in {"pending", "blocked", "live"}
  /\ node' = Becomes(t, "cancelled")
  /\ adrift' = adrift \cup {t}
  /\ UNCHANGED <<done, settled, forced>>

DeleteNode(t) ==
  /\ Intervene /\ Ended(node[t].status)
  /\ node' = Becomes(t, "deleted")
  /\ adrift' = adrift \cup {t}
  /\ UNCHANGED <<done, settled, forced>>

\* Batch requeue: the same id is pending again, a completed one included.
RequeueNode(t) ==
  /\ Intervene /\ (Ended(node[t].status) \/ node[t].status \in {"pending", "live"})
  /\ node' = Becomes(t, "pending")
  /\ forced' = forced \cup {t} /\ adrift' = adrift \cup {t} /\ settled' = settled \ {t}
  /\ UNCHANGED done

\* POST /:id/retry.
RetryNode(t) ==
  /\ Intervene /\ Ended(node[t].status)
  /\ \E u \in Nodes :
       /\ Fresh(u)
       /\ node' = [node EXCEPT ![u] = [status |-> "pending", deps |-> node[t].deps]]
       /\ forced' = forced \cup {u}
  /\ UNCHANGED <<done, settled, adrift>>

\* POST /:id/reschedule: the new task has no depends_on.  A running task is
\* killed, and ends by TaskFailed.
RescheduleNode(t) ==
  /\ Intervene /\ node[t].status \in {"blocked", "pending", "live"}
  /\ \E u \in Nodes :
       /\ Fresh(u)
       /\ node' = [node EXCEPT ![u] = [status |-> "pending", deps |-> {}],
                               ![t].status = IF @ = "live" THEN "live" ELSE "cancelled"]
       /\ forced' = forced \cup {u}
  /\ adrift' = adrift \cup {t}
  /\ UNCHANGED <<done, settled>>

\* Mutant: the dependents of a replaced task are left where they are.
RewiredNot(n, t, u) == IF t = u THEN n ELSE n

\* rewireDownstreamBlockedDeps.
Rewired(n, t, u) ==
  [v \in Nodes |-> IF n[v].status = "blocked" /\ t \in n[v].deps
                   THEN [n[v] EXCEPT !.deps = (@ \ {t}) \cup {u}] ELSE n[v]]

\* createReplacementTask.
Replacement(n, t) ==
  [status |-> IF Satisfied(n, t) THEN "pending" ELSE "blocked", deps |-> n[t].deps]

\* POST /:id/replace.  With cancel_old, what does not run is cancelled at once - a paused
\* task is live too - and a running task is killed, and ends by TaskFailed.
ReplaceNode(t) ==
  /\ Intervene /\ node[t].status \notin {"none", "deleted"}
  /\ \E u \in Nodes, cancelled \in BOOLEAN :
       LET new == Replacement(node, t)
           old == IF cancelled /\ node[t].status \in {"blocked", "pending", "live"}
                  THEN "cancelled" ELSE node[t].status
       IN  /\ Fresh(u)
           /\ node' = Rewired([node EXCEPT ![t].status = old, ![u] = new], t, u)
           /\ adrift' = IF Waits(node', u) THEN adrift \cup {u} ELSE adrift
  /\ UNCHANGED <<done, settled, forced>>

GraphNext ==
  \/ SubmitDag
  \/ \E t \in Nodes :
       \/ SubmitAfter(t) \/ StartNode(t) \/ TaskCompleted(t) \/ TaskFailed(t) \/ TaskRetried(t)
       \/ EndsQuietly(t) \/ CancelNode(t) \/ DeleteNode(t) \/ RequeueNode(t) \/ RetryNode(t)
       \/ RescheduleNode(t) \/ ReplaceNode(t)

GraphSpec == GraphInit /\ [][GraphNext]_graphVars

\* What is pending is run by someone, and what runs ends.
GraphFairness ==
  \A t \in Nodes : WF_graphVars(StartNode(t)) /\ WF_graphVars(TaskCompleted(t) \/ TaskFailed(t))

(***************************************************************************)
(* Properties.                                                             *)
(***************************************************************************)
\* A task that was not put back by an operator is never handed out before each
\* of its dependencies has been completed, through retries, replacements and
\* rewired dependencies (dag.ts:52-59, tasks.ts:243-299).
RunsAfterDependencies ==
  \A t \in Nodes \ forced :
    node[t].status \in {"pending", "live", "completed", "failed"} => node[t].deps \subseteq done

\* A task whose end was passed on leaves none waiting for it, however long the
\* chain of blocked tasks, but for those made to wait for it afterwards
\* (dag.ts:219-240).
CascadeReachesAll ==
  \A t \in Nodes \ adrift :
    node[t].status = "blocked" => node[t].deps \cap settled = {}

\* A graph is worked off in order, and an end reaches all that wait for it: both
\* of the above (dag.ts:52-59, 219-240).
GraphSound == RunsAfterDependencies /\ CascadeReachesAll

\* As long as every end goes through the two handlers, no task waits for ever:
\* neither a chain of dependents nor a replacement in it loses the wake-up.
BlockedSettles ==
  \A t \in Nodes : node[t].status = "blocked" ~> (node[t].status # "blocked" \/ adrift # {})
=============================================================================
