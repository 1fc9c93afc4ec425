--------------------------- MODULE AdmissionProofs ---------------------------
(***************************************************************************)
(* Proofs about what keeps a task from the queue.  Its dependencies: no    *)
(* task is handed out before they were completed (RunsAfterDependencies)   *)
(* and a cascade leaves no task waiting (CascadeReachesAll), for graphs of *)
(* any size and any number of operators' requests.  The run_dirs and the   *)
(* fingerprints in use: the table of write locks guards its run_dirs       *)
(* (DirsGuarded) and an active fingerprint is refused (DuplicateRefused),  *)
(* for any run_dirs, fingerprints, number of tasks, lost stubs and         *)
(* restarts.                                                               *)
(***************************************************************************)
EXTENDS TaskGraph, WriteLocks, FiniteSetTheorems, TLAPS

-----------------------------------------------------------------------------
(* Dependencies. *)

Closed(n, S) == \A v \in Nodes : n[v].status = "blocked" /\ n[v].deps \cap S # {} => v \in S

\* What is completed was completed; whose end was passed on has ended for good.
Recorded ==
  /\ With("completed") \subseteq done
  /\ \A t \in settled : node[t].status \in {"failed", "cancelled", "deleted"}

GraphInv == GraphTypeOK /\ Recorded /\ RunsAfterDependencies /\ CascadeReachesAll

\* Whoever waits for the task that failed, or for one that the cascade reaches, is reached.
LEMMA DownstreamClosed ==
  ASSUME NEW n, NEW t \in Nodes, NEW v \in Nodes, n[v].status = "blocked",
         n[v].deps \cap ({t} \cup Downstream(n, t)) # {}
  PROVE  v \in Downstream(n, t)
<1> SUFFICES ASSUME NEW S \in SUBSET Nodes, t \in S, Closed(n, S)
             PROVE  v \in S
  BY DEF Downstream, Closed
<1>1. Downstream(n, t) \subseteq S
  BY DEF Downstream, Closed
<1> QED BY <1>1 DEF Closed

\* The cascade reaches blocked tasks, and the same ones before and after the failure is written.
LEMMA DownstreamOfFailed ==
  ASSUME GraphTypeOK, NEW t \in Nodes, node[t].status = "live", NEW s \in {"failed", "cancelled"}
  PROVE  /\ Downstream(Becomes(t, s), t) = Downstream(node, t)
         /\ \A u \in Downstream(node, t) : u \in Nodes /\ node[u].status = "blocked"
<1>1. \A v \in Nodes : /\ Becomes(t, s)[v].status = "blocked" <=> node[v].status = "blocked"
                       /\ Becomes(t, s)[v].deps = node[v].deps
  BY DEF Becomes, GraphTypeOK, Node
<1>2. Downstream(Becomes(t, s), t) = Downstream(node, t)
  BY <1>1 DEF Downstream
<1> QED BY <1>2 DEF Downstream

\* A status written to one task changes neither the others nor who depends on whom.
LEMMA BecomesFacts ==
  ASSUME GraphTypeOK, NEW t \in Nodes, NEW s \in NodeStatus
  PROVE  /\ Becomes(t, s) \in [Nodes -> Node]
         /\ Becomes(t, s)[t].status = s /\ Becomes(t, s)[t].deps = node[t].deps
         /\ \A u \in Nodes : u # t => Becomes(t, s)[u] = node[u]
BY DEF Becomes, GraphTypeOK, Node

\* A new node beside a status written to one task.
LEMMA NewNode ==
  ASSUME GraphTypeOK, NEW t \in Nodes, NEW u \in Nodes, u # t, NEW s \in NodeStatus, NEW x \in Node,
         NEW n, n = [node EXCEPT ![t].status = s, ![u] = x]
  PROVE  /\ n \in [Nodes -> Node]
         /\ n[u] = x /\ n[t].status = s /\ n[t].deps = node[t].deps
         /\ \A v \in Nodes : v # t /\ v # u => n[v] = node[v]
<1>1. [node[t] EXCEPT !.status = s] \in Node
  BY DEF GraphTypeOK, Node
<1> QED BY <1>1 DEF GraphTypeOK, Node

\* Initially there is no task.
LEMMA GraphInitial == GraphInit => GraphInv
BY GraphAssumption
   DEF GraphInit, GraphInv, GraphTypeOK, Recorded, RunsAfterDependencies, CascadeReachesAll, With,
       Node, NodeStatus

\* Intervene keeps the type of its bound.
LEMMA IntervenesTyped == ASSUME GraphTypeOK, Intervene PROVE graphLeft' \in 0..Interventions
BY GraphAssumption DEF GraphTypeOK, Intervene

(***************************************************************************)
(* Submission.                                                             *)
(***************************************************************************)
LEMMA SubmitDagKeeps == ASSUME GraphInv, SubmitDag PROVE GraphInv'
<1> USE GraphAssumption DEF GraphInv
<1>1. settled = {} /\ \A t \in Nodes : node[t].status = "none"
  BY DEF SubmitDag, Recorded, GraphTypeOK, With
<1>2. PICK deps \in [1..DagSize -> SUBSET (1..DagSize)] :
        node' = [t \in Nodes |->
          IF t \in 1..DagSize
          THEN [status |-> IF deps[t] = {} THEN "pending" ELSE "blocked", deps |-> deps[t]]
          ELSE node[t]]
  BY DEF SubmitDag
<1>3. \A t \in 1..DagSize : deps[t] \in SUBSET Nodes
  BY DEF Nodes
<1>4. ASSUME NEW t \in Nodes
      PROVE  /\ node'[t] \in Node
             /\ node'[t].status \in {"pending", "blocked", "none"}
             /\ node'[t].status = "pending" => node'[t].deps = {}
  BY <1>1, <1>2, <1>3, <1>4 DEF Node, NodeStatus, GraphTypeOK
<1>5. GraphTypeOK'
  BY <1>2, <1>4 DEF SubmitDag, GraphTypeOK
<1> QED BY <1>1, <1>4, <1>5 DEF SubmitDag, Recorded, RunsAfterDependencies, CascadeReachesAll, With

LEMMA SubmitAfterKeeps == ASSUME GraphInv, NEW t \in Nodes, SubmitAfter(t) PROVE GraphInv'
<1> USE GraphAssumption DEF GraphInv
<1>1. PICK deps \in SUBSET Nodes :
        node' = [node EXCEPT ![t] = [status |-> IF deps = {} THEN "pending" ELSE "blocked", deps |-> deps]]
  BY DEF SubmitAfter
<1>2. /\ node' \in [Nodes -> Node] /\ node'[t].deps = deps
      /\ node'[t].status = IF deps = {} THEN "pending" ELSE "blocked"
      /\ \A u \in Nodes : u # t => node'[u] = node[u]
  BY <1>1 DEF GraphTypeOK, Node, NodeStatus
<1>3. node[t].status = "none"
  BY DEF SubmitAfter, Fresh
<1>4. GraphTypeOK'
  BY <1>2, IntervenesTyped DEF SubmitAfter, GraphTypeOK
<1>5. Recorded'
  BY <1>2, <1>3 DEF SubmitAfter, GraphTypeOK, Recorded, With
<1>6. RunsAfterDependencies'
  BY <1>2 DEF SubmitAfter, RunsAfterDependencies
<1>7. ASSUME node'[t].status = "blocked", t \notin adrift' PROVE node'[t].deps \cap settled' = {}
  <2>1. ~Waits(node', t)
    BY <1>7 DEF SubmitAfter
  <2>2. \A d \in deps : node'[d].status \in {"blocked", "pending", "live"}
    BY <1>2, <1>7, <2>1 DEF Waits
  <2> QED BY <1>2, <1>5, <2>2 DEF Recorded
<1>8. CascadeReachesAll'
  BY <1>2, <1>7 DEF SubmitAfter, CascadeReachesAll
<1> QED BY <1>4, <1>5, <1>6, <1>8

(***************************************************************************)
(* The course of a task.                                                   *)
(***************************************************************************)
\* A status written without anything downstream, where the task was handed out already or is
\* not handed out by it, and where nobody recorded its end.
LEMMA WritesKeep ==
  ASSUME GraphInv, NEW t \in Nodes, NEW s \in NodeStatus, node' = Becomes(t, s),
         s # "blocked", s # "none", t \in settled' => s \in {"cancelled", "deleted", "failed"},
         s \in {"pending", "live", "completed", "failed"} =>
           t \in forced' \/ node[t].status \in {"pending", "live", "completed", "failed"},
         done' = IF s = "completed" THEN done \cup {t} ELSE done,
         settled' \subseteq settled, forced \subseteq forced', forced' \subseteq Nodes,
         adrift \subseteq adrift', adrift' \subseteq Nodes,
         graphLeft' \in 0..Interventions
  PROVE  GraphInv'
<1> USE DEF GraphInv
<1>1. GraphTypeOK'
  BY BecomesFacts DEF GraphTypeOK
<1>2. Recorded'
  BY BecomesFacts DEF GraphTypeOK, Recorded, With
<1>3. RunsAfterDependencies'
  BY BecomesFacts DEF GraphTypeOK, RunsAfterDependencies
<1>4. CascadeReachesAll'
  BY BecomesFacts DEF GraphTypeOK, CascadeReachesAll
<1> QED BY <1>1, <1>2, <1>3, <1>4

LEMMA CompletionKeeps == ASSUME GraphInv, NEW t \in Nodes, TaskCompleted(t) PROVE GraphInv'
<1> USE DEF GraphInv
<1> DEFINE n == Becomes(t, "completed")
<1>1. /\ n \in [Nodes -> Node] /\ n[t].status = "completed" /\ n[t].deps = node[t].deps
      /\ \A u \in Nodes : u # t => n[u] = node[u]
  BY BecomesFacts DEF NodeStatus
<1>2. node' = Promoted(n, t) /\ node[t].status = "live"
  BY DEF TaskCompleted
<1> HIDE DEF n
<1>3. ASSUME NEW u \in Nodes
      PROVE  /\ node'[u] \in Node /\ node'[u].deps = n[u].deps
             /\ node'[u].status = n[u].status \/ (n[u].status = "blocked" /\ node'[u].status = "pending" /\ Satisfied(n, u))
  BY <1>1, <1>2, <1>3 DEF Promoted, Node, NodeStatus
<1>4. node' \in [Nodes -> Node]
  BY <1>2, <1>3 DEF Promoted
<1>5. \A u \in Nodes : n[u].status = "completed" => u \in done'
  BY <1>1 DEF TaskCompleted, Recorded, With
<1>6. GraphTypeOK'
  BY <1>4 DEF TaskCompleted, GraphTypeOK
<1>7. Recorded'
  <2>1. With("completed")' \subseteq done'
    BY <1>3, <1>5 DEF With
  <2>2. t \notin settled
    BY <1>2 DEF Recorded
  <2> QED BY <1>1, <1>3, <2>1, <2>2 DEF TaskCompleted, Recorded, GraphTypeOK
<1>8. ASSUME NEW u \in Nodes \ forced', node'[u].status \in {"pending", "live", "completed", "failed"}
      PROVE  node'[u].deps \subseteq done'
  <2>1. CASE n[u].status = "blocked"
    <3>1. Satisfied(n, u) /\ n[u].deps \subseteq Nodes
      BY <1>1, <1>3, <1>8, <2>1 DEF Node
    <3> QED BY <1>3, <1>5, <3>1 DEF Satisfied
  <2>2. CASE n[u].status # "blocked"
    <3>1. node[u].status \in {"pending", "live", "completed", "failed"} /\ node[u].deps = n[u].deps
      BY <1>1, <1>2, <1>3, <1>8, <2>2
    <3> QED BY <1>3, <1>8, <3>1 DEF TaskCompleted, RunsAfterDependencies
  <2> QED BY <2>1, <2>2
<1>9. CascadeReachesAll'
  BY <1>1, <1>2, <1>3 DEF TaskCompleted, CascadeReachesAll
<1> QED BY <1>6, <1>7, <1>8, <1>9 DEF RunsAfterDependencies

LEMMA FailureKeeps == ASSUME GraphInv, NEW t \in Nodes, TaskFailed(t) PROVE GraphInv'
<1> USE DEF GraphInv
<1>1. PICK s \in {"failed", "cancelled"} : node' = Cascaded(Becomes(t, s), t)
  BY DEF TaskFailed
<1> DEFINE n == Becomes(t, s)
           D == Downstream(node, t)
<1>2. /\ n \in [Nodes -> Node] /\ n[t].status = s /\ n[t].deps = node[t].deps
      /\ \A u \in Nodes : u # t => n[u] = node[u]
  BY BecomesFacts DEF NodeStatus
<1>3. node[t].status = "live"
  BY DEF TaskFailed
<1>4. D = Downstream(n, t) /\ D \subseteq Nodes /\ \A u \in D : node[u].status = "blocked"
  BY <1>3, DownstreamOfFailed
<1>5. node' = [u \in Nodes |-> IF u \in D THEN [n[u] EXCEPT !.status = "cancelled"] ELSE n[u]]
  BY <1>1, <1>4 DEF Cascaded
<1>6. \A v \in Nodes : node[v].status = "blocked" /\ node[v].deps \cap ({t} \cup D) # {} => v \in D
  BY DownstreamClosed
<1> HIDE DEF n, D
<1>7. ASSUME NEW u \in Nodes
      PROVE  /\ node'[u] \in Node /\ node'[u].deps = node[u].deps
             /\ u \in D => node'[u].status = "cancelled"
             /\ u \notin D => node'[u].status = n[u].status
  BY <1>2, <1>5 DEF Node, NodeStatus
<1>8. /\ settled' = settled \cup {t} \cup D /\ done' = done /\ forced' = forced
      /\ adrift' = adrift /\ graphLeft' = graphLeft
  BY DEF TaskFailed, D
<1>9. GraphTypeOK'
  BY <1>4, <1>5, <1>7, <1>8 DEF GraphTypeOK
<1>10. Recorded'
  <2>1. t \notin D
    BY <1>3, <1>4
  <2>2. \A u \in settled' : node'[u].status \in {"failed", "cancelled", "deleted"}
    BY <1>2, <1>4, <1>7, <1>8, <2>1 DEF Recorded, GraphTypeOK
  <2> QED BY <1>2, <1>7, <1>8, <2>2 DEF Recorded, With
<1>11. RunsAfterDependencies'
  BY <1>2, <1>3, <1>7, <1>8 DEF RunsAfterDependencies
<1>12. CascadeReachesAll'
  BY <1>2, <1>6, <1>7, <1>8 DEF CascadeReachesAll
<1> QED BY <1>9, <1>10, <1>11, <1>12

(***************************************************************************)
(* A new task is made beside an old one: it is handed out, and only if     *)
(* nobody says otherwise (forced) its dependencies were completed.         *)
(***************************************************************************)
LEMMA SpawnKeeps ==
  ASSUME GraphInv, NEW t \in Nodes, NEW u \in Nodes, Fresh(u), NEW s \in NodeStatus,
         s = node[t].status \/ s = "cancelled" \/ (s = "failed" /\ node[t].status = "live"),
         node[t].status # "none", t \in settled => s = node[t].status,
         NEW deps \in SUBSET Nodes,
         node' = [node EXCEPT ![t].status = s, ![u] = [status |-> "pending", deps |-> deps]],
         u \in forced' \/ deps \subseteq done,
         done' = done, settled' = settled, forced \subseteq forced', forced' \subseteq Nodes,
         adrift \subseteq adrift', adrift' \subseteq Nodes,
         graphLeft' \in 0..Interventions
  PROVE  GraphInv'
<1> USE DEF GraphInv
<1>1. node[u].status = "none" /\ u # t
  BY DEF Fresh
<1>2. /\ node' \in [Nodes -> Node]
      /\ node'[u] = [status |-> "pending", deps |-> deps]
      /\ node'[t].status = s /\ node'[t].deps = node[t].deps
      /\ \A v \in Nodes : v # t /\ v # u => node'[v] = node[v]
  <2>1. [status |-> "pending", deps |-> deps] \in Node
    BY DEF Node, NodeStatus
  <2> QED BY <1>1, <2>1, NewNode
<1>3. GraphTypeOK'
  BY <1>2 DEF GraphTypeOK
<1>4. Recorded'
  BY <1>1, <1>2 DEF GraphTypeOK, Recorded, With
<1>5. RunsAfterDependencies'
  BY <1>2 DEF RunsAfterDependencies
<1>6. CascadeReachesAll'
  BY <1>2 DEF CascadeReachesAll
<1> QED BY <1>3, <1>4, <1>5, <1>6

LEMMA RetriesKeep ==
  ASSUME GraphInv, NEW t \in Nodes, TaskRetried(t) \/ RetryNode(t) \/ RescheduleNode(t)
  PROVE  GraphInv'
<1> USE DEF GraphInv
<1>1. node[t].deps \in SUBSET Nodes /\ node[t].status \in NodeStatus
  BY DEF GraphTypeOK, Node
<1>2. CASE TaskRetried(t)
  <2>1. PICK u \in Nodes :
          /\ Fresh(u)
          /\ node' = [node EXCEPT ![t].status = "failed", ![u] = [status |-> "pending", deps |-> node[t].deps]]
          /\ forced' = IF t \in forced THEN forced \cup {u} ELSE forced
    BY <1>2 DEF TaskRetried
  <2>2. u \in forced' \/ node[t].deps \subseteq done
    BY <1>2, <2>1 DEF TaskRetried, RunsAfterDependencies
  <2>3. t \notin settled /\ "failed" \in NodeStatus /\ graphLeft' \in 0..Interventions
    BY <1>2, IntervenesTyped DEF TaskRetried, Recorded, NodeStatus
  <2>4. forced \subseteq forced' /\ forced' \subseteq Nodes /\ adrift \subseteq adrift' /\ adrift' \subseteq Nodes
    BY <1>2, <2>1 DEF TaskRetried, GraphTypeOK
  <2> QED BY <1>1, <1>2, <2>1, <2>2, <2>3, <2>4, SpawnKeeps DEF TaskRetried
<1>3. CASE RetryNode(t)
  <2>1. PICK u \in Nodes :
          /\ Fresh(u)
          /\ node' = [node EXCEPT ![u] = [status |-> "pending", deps |-> node[t].deps]]
          /\ forced' = forced \cup {u}
    BY <1>3 DEF RetryNode
  <2>2. node' = [node EXCEPT ![t].status = node[t].status, ![u] = [status |-> "pending", deps |-> node[t].deps]]
    BY <2>1 DEF GraphTypeOK, Node
  <2>3. node[t].status # "none" /\ graphLeft' \in 0..Interventions
    BY <1>3, IntervenesTyped DEF RetryNode, Ended
  <2>4. forced \subseteq forced' /\ forced' \subseteq Nodes /\ adrift' = adrift /\ adrift' \subseteq Nodes
    BY <1>3, <2>1 DEF RetryNode, GraphTypeOK
  <2>5. done' = done /\ settled' = settled /\ u \in forced'
    BY <1>3, <2>1 DEF RetryNode
  <2> QED BY <1>1, <2>1, <2>2, <2>3, <2>4, <2>5, SpawnKeeps
<1>4. CASE RescheduleNode(t)
  <2>1. PICK u \in Nodes :
          /\ Fresh(u)
          /\ node' = [node EXCEPT ![u] = [status |-> "pending", deps |-> {}],
                                  ![t].status = IF @ = "live" THEN "live" ELSE "cancelled"]
          /\ forced' = forced \cup {u}
    BY <1>4 DEF RescheduleNode
  <2> DEFINE s == IF node[t].status = "live" THEN "live" ELSE "cancelled"
             e == {}
  <2>2. node[u].status = "none" /\ u # t
    BY <1>4, <2>1 DEF Fresh, RescheduleNode
  <2>3. node' = [node EXCEPT ![t].status = s, ![u] = [status |-> "pending", deps |-> e]]
    BY <2>1, <2>2 DEF GraphTypeOK, Node
  <2>4. t \notin settled /\ s \in NodeStatus /\ graphLeft' \in 0..Interventions
          /\ (s = node[t].status \/ s = "cancelled") /\ node[t].status # "none"
    BY <1>4, IntervenesTyped DEF RescheduleNode, Recorded, NodeStatus
  <2>5. forced \subseteq forced' /\ forced' \subseteq Nodes /\ adrift \subseteq adrift' /\ adrift' \subseteq Nodes
    BY <1>4, <2>1 DEF RescheduleNode, GraphTypeOK
  <2>6. done' = done /\ settled' = settled /\ u \in forced' /\ e \in SUBSET Nodes
    BY <1>4, <2>1 DEF RescheduleNode
  <2>7. Fresh(u) /\ (t \in settled => s = node[t].status) /\ (u \in forced' \/ e \subseteq done)
          /\ (s = node[t].status \/ s = "cancelled" \/ (s = "failed" /\ node[t].status = "live"))
    BY <2>1, <2>4, <2>6
  <2> HIDE DEF s, e, GraphInv
  <2> QED BY <2>3, <2>4, <2>5, <2>6, <2>7, SpawnKeeps
<1> QED BY <1>2, <1>3, <1>4

(***************************************************************************)
(* A task is replaced: the new one waits for what the old one waited for,  *)
(* and who waited for the old one waits for the new one.                   *)
(***************************************************************************)
LEMMA ReplaceKeeps == ASSUME GraphInv, NEW t \in Nodes, ReplaceNode(t) PROVE GraphInv'
<1> USE DEF GraphInv
<1>1. PICK u \in Nodes, cancelled \in BOOLEAN :
        LET new == [status |-> IF Satisfied(node, t) THEN "pending" ELSE "blocked", deps |-> node[t].deps]
            old == IF cancelled /\ node[t].status \in {"blocked", "pending", "live"} THEN "cancelled" ELSE node[t].status
        IN  /\ Fresh(u)
            /\ node' = Rewired([node EXCEPT ![t].status = old, ![u] = new], t, u)
            /\ adrift' = IF Waits(node', u) THEN adrift \cup {u} ELSE adrift
  BY DEF ReplaceNode, Replacement
<1> DEFINE new == [status |-> IF Satisfied(node, t) THEN "pending" ELSE "blocked", deps |-> node[t].deps]
           old == IF cancelled /\ node[t].status \in {"blocked", "pending", "live"} THEN "cancelled" ELSE node[t].status
           n == [node EXCEPT ![t].status = old, ![u] = new]
<1>2. node[u].status = "none" /\ u # t
  BY <1>1 DEF Fresh, ReplaceNode
<1>3. new \in Node /\ old \in NodeStatus
  BY DEF GraphTypeOK, Node, NodeStatus
<1>4. /\ n \in [Nodes -> Node] /\ n[u] = new /\ n[t].status = old /\ n[t].deps = node[t].deps
      /\ \A v \in Nodes : v # t /\ v # u => n[v] = node[v]
  <2> HIDE DEF new, old
  <2>1. \A m : m = [node EXCEPT ![t].status = old, ![u] = new] =>
          /\ m \in [Nodes -> Node] /\ m[u] = new /\ m[t].status = old /\ m[t].deps = node[t].deps
          /\ \A v \in Nodes : v # t /\ v # u => m[v] = node[v]
    BY <1>2, <1>3, NewNode
  <2> QED BY <2>1
<1>5. node' = Rewired(n, t, u) /\ adrift' = IF Waits(node', u) THEN adrift \cup {u} ELSE adrift
  BY <1>1
<1>6. /\ done' = done /\ settled' = settled /\ forced' = forced /\ graphLeft' \in 0..Interventions
      /\ adrift \subseteq adrift' /\ adrift' \subseteq Nodes
  BY <1>5, IntervenesTyped DEF ReplaceNode, GraphTypeOK
<1>7. /\ new.status \in {"pending", "blocked"} /\ new.deps = node[t].deps
      /\ new.status = "pending" => Satisfied(node, t)
      /\ old \in {"cancelled", node[t].status}
      /\ node[t].status \notin {"blocked", "pending", "live"} => old = node[t].status
  OBVIOUS
<1> HIDE DEF new, old, n
<1>8. ASSUME NEW v \in Nodes
      PROVE  /\ node'[v] \in Node /\ node'[v].status = n[v].status
             /\ node'[v].deps \subseteq n[v].deps \cup {u}
             /\ n[v].status # "blocked" => node'[v].deps = n[v].deps
  <2>1. CASE n[v].status = "blocked" /\ t \in n[v].deps
    <3>1. node'[v] = [n[v] EXCEPT !.deps = (n[v].deps \ {t}) \cup {u}]
      BY <1>5, <2>1 DEF Rewired
    <3> QED BY <1>4, <2>1, <3>1 DEF Node
  <2>2. CASE ~(n[v].status = "blocked" /\ t \in n[v].deps)
    <3>1. node'[v] = n[v]
      BY <1>5, <2>2 DEF Rewired
    <3> QED BY <1>4, <3>1
  <2> QED BY <2>1, <2>2
<1>9. GraphTypeOK'
  BY <1>5, <1>6, <1>8 DEF GraphTypeOK, Rewired
<1>10. u \notin settled /\ (t \in settled => old = node[t].status)
  BY <1>2, <1>7 DEF Recorded
<1>11. Recorded'
  BY <1>4, <1>6, <1>7, <1>8, <1>10 DEF GraphTypeOK, Recorded, With
<1>12. ASSUME NEW v \in Nodes \ forced', node'[v].status \in {"pending", "live", "completed", "failed"}
       PROVE  node'[v].deps \subseteq done'
  <2>1. n[v].status = node'[v].status /\ node'[v].deps = n[v].deps
    BY <1>8, <1>12
  <2>2. CASE v = u
    <3>1. Satisfied(node, t) /\ node'[v].deps = node[t].deps /\ node[t].deps \subseteq Nodes
      BY <1>4, <1>7, <1>12, <2>1, <2>2 DEF GraphTypeOK, Node
    <3> QED BY <1>6, <3>1 DEF Satisfied, Recorded, With
  <2>3. CASE v # u
    <3>1. node[v].status \in {"pending", "live", "completed", "failed"} /\ node'[v].deps = node[v].deps
      BY <1>4, <1>7, <1>12, <2>1, <2>3
    <3> QED BY <1>6, <1>12, <3>1 DEF RunsAfterDependencies
  <2> QED BY <2>2, <2>3
<1>13. ASSUME NEW v \in Nodes \ adrift', node'[v].status = "blocked" PROVE node'[v].deps \cap settled' = {}
  <2>1. CASE v = u
    <3>1. ~Waits(node', u)
      BY <1>5, <1>13, <2>1
    <3>2. \A d \in node'[u].deps : node'[d].status \in {"blocked", "pending", "live"}
      BY <1>13, <2>1, <3>1 DEF Waits
    <3> QED BY <1>11, <2>1, <3>2 DEF Recorded
  <2>2. CASE v # u
    <3>1. node[v].status = "blocked" /\ node'[v].deps \subseteq node[v].deps \cup {u} /\ v \notin adrift
      BY <1>4, <1>6, <1>7, <1>8, <1>13, <2>2
    <3> QED BY <1>6, <1>10, <3>1 DEF CascadeReachesAll
  <2> QED BY <2>1, <2>2
<1> QED BY <1>9, <1>11, <1>12, <1>13 DEF RunsAfterDependencies, CascadeReachesAll

\* The steps that write one status.
LEMMA OneStatusKeeps ==
  ASSUME GraphInv, NEW t \in Nodes,
         StartNode(t) \/ EndsQuietly(t) \/ CancelNode(t) \/ DeleteNode(t) \/ RequeueNode(t)
  PROVE  GraphInv'
<1> USE DEF GraphInv
<1>1. CASE StartNode(t)
  BY <1>1, WritesKeep DEF StartNode, NodeStatus, Recorded, GraphTypeOK
<1>2. CASE EndsQuietly(t)
  <2>1. PICK s \in {"completed", "failed"} :
          node' = Becomes(t, s) /\ done' = IF s = "completed" THEN done \cup {t} ELSE done
    BY <1>2 DEF EndsQuietly
  <2>2. t \notin settled
    BY <1>2 DEF EndsQuietly, Recorded
  <2> QED BY <1>2, <2>1, <2>2, WritesKeep, IntervenesTyped DEF EndsQuietly, NodeStatus, GraphTypeOK
<1>3. CASE CancelNode(t)
  BY <1>3, WritesKeep, IntervenesTyped DEF CancelNode, NodeStatus, GraphTypeOK
<1>4. CASE DeleteNode(t)
  BY <1>4, WritesKeep, IntervenesTyped DEF DeleteNode, NodeStatus, GraphTypeOK
<1>5. CASE RequeueNode(t)
  BY <1>5, WritesKeep, IntervenesTyped DEF RequeueNode, NodeStatus, GraphTypeOK
<1> QED BY <1>1, <1>2, <1>3, <1>4, <1>5

LEMMA GraphStep == GraphInv /\ [GraphNext]_graphVars => GraphInv'
<1> SUFFICES ASSUME GraphInv, [GraphNext]_graphVars PROVE GraphInv'
  OBVIOUS
<1>1. CASE UNCHANGED graphVars
  BY <1>1 DEF graphVars, GraphInv, GraphTypeOK, Recorded, RunsAfterDependencies, CascadeReachesAll, With
<1> QED BY <1>1, SubmitDagKeeps, SubmitAfterKeeps, CompletionKeeps, FailureKeeps, RetriesKeep,
           ReplaceKeeps, OneStatusKeeps DEF GraphNext

(***************************************************************************)
(* GraphInv is an invariant: types, histories, and who may run or wait     *)
(* (dag.ts, tasks.ts:243-299).                                             *)
(***************************************************************************)
THEOREM GraphInvariance == GraphSpec => []GraphInv
BY GraphInitial, GraphStep, PTL DEF GraphSpec

(***************************************************************************)
(* A task that no operator put back is never handed out before each of its *)
(* dependencies has been completed, in any graph (dag.ts:52-59).           *)
(***************************************************************************)
THEOREM DependenciesFirst == GraphSpec => []RunsAfterDependencies
<1>1. GraphInv => RunsAfterDependencies
  BY DEF GraphInv
<1> QED BY <1>1, GraphInvariance, PTL

(***************************************************************************)
(* A cascade leaves no task waiting for one that has ended by it, however  *)
(* long the chain (dag.ts:219-240).                                        *)
(***************************************************************************)
THEOREM NoneLeftWaiting == GraphSpec => []CascadeReachesAll
<1>1. GraphInv => CascadeReachesAll
  BY DEF GraphInv
<1> QED BY <1>1, GraphInvariance, PTL

(***************************************************************************)
(* A graph is worked off in order, and an end reaches all that wait for    *)
(* it: the two together, as the run checks them (dag.ts:52-59, 219-240).   *)
(***************************************************************************)
THEOREM GraphsSound == GraphSpec => []GraphSound
<1>1. RunsAfterDependencies /\ CascadeReachesAll => GraphSound
  BY DEF GraphSound
<1> QED BY <1>1, DependenciesFirst, NoneLeftWaiting, PTL

-----------------------------------------------------------------------------
(* Write locks and fingerprints. *)

InDir(t) == Active(t) /\ holder[t].dir \in Dirs

\* Once the table is known, an active task has the lock of its run_dir, but for
\* those that came in without the table or whose lock was opened.
HoldersHaveLocks ==
  locksKnown => \A t \in Holders :
    InDir(t) /\ holder[t].dir \notin shared \cup opened => lock[holder[t].dir] = t

LockInv == LockTypeOK /\ LocksHaveOwners /\ OneWriterPerDir /\ HoldersHaveLocks /\ DuplicateRefused

\* The task ids are numbers, and none of them is the one that stands for nobody.
LEMMA HoldersAreTasks == \A t \in Holders : t \in Nat /\ t # NoTask
BY LockAssumption DEF Holders, NoTask

LEMMA ConflictFacts ==
  /\ \A d : Conflict(d, d)
  /\ \A d, e : Conflict(d, e) <=> Conflict(e, d)
BY DEF Conflict

\* Whoever is given a free lock takes it from nobody; a conflict changes nothing.
LEMMA AcquiredFacts ==
  ASSUME LockTypeOK, NEW t \in Holders, NEW dir
  PROVE  /\ Acquired(t, dir) \in [Dirs -> Holders \cup {NoTask}]
         /\ \A d \in Dirs : \/ Acquired(t, dir)[d] = lock[d]
                            \/ d = dir /\ lock[d] = NoTask /\ Acquired(t, dir)[d] = t
         /\ dir \in Dirs /\ Free(dir) => Acquired(t, dir)[dir] = t
<1>1. lock \in [Dirs -> Holders \cup {NoTask}]
  BY DEF LockTypeOK
<1>2. dir \in Dirs /\ Free(dir) => lock[dir] = NoTask
  BY ConflictFacts DEF Free
<1> QED BY <1>1, <1>2 DEF Acquired

\* A release by path touches that path alone.
LEMMA ReleasedFacts ==
  ASSUME LockTypeOK, NEW dir
  PROVE  /\ Released(dir) \in [Dirs -> Holders \cup {NoTask}]
         /\ \A d \in Dirs : Released(dir)[d] = IF d = dir THEN NoTask ELSE lock[d]
BY DEF Released, LockTypeOK

\* The index after an update of an active task, and after an end.
LEMMA IndexFacts ==
  ASSUME LockTypeOK, NEW t \in Holders
  PROVE  /\ Indexed(t) \in [Prints -> Holders \cup {NoTask}]
         /\ Unindexed(t) \in [Prints -> Holders \cup {NoTask}]
         /\ \A p \in Prints : Indexed(t)[p] = IF p = holder[t].print THEN t ELSE index[p]
         /\ \A p \in Prints : index[p] # t => Unindexed(t)[p] = index[p]
<1>1. holder[t].print \in Prints /\ index \in [Prints -> Holders \cup {NoTask}]
  BY DEF LockTypeOK, Holder
<1> QED BY <1>1 DEF Indexed, Unindexed

\* Initially nobody is active.
LEMMA InitLocks == LockInit => LockInv
<1> SUFFICES ASSUME LockInit PROVE LockInv
  OBVIOUS
<1>1. PICK p \in Prints :
        holder = [t \in Holders |-> [status |-> "none", dir |-> NoDir, print |-> p, away |-> FALSE]]
  BY DEF LockInit
<1>2. LockTypeOK
  BY <1>1, LockAssumption DEF LockInit, LockTypeOK, Holder
<1>3. \A t \in Holders : ~Active(t)
  BY <1>1 DEF Active
<1>4. LocksHaveOwners /\ OneWriterPerDir /\ HoldersHaveLocks /\ DuplicateRefused
  BY <1>3 DEF LockInit, LocksHaveOwners, OneWriterPerDir, Together, HoldersHaveLocks, InDir, DuplicateRefused
<1> QED BY <1>2, <1>4 DEF LockInv

\* A submission that is let in: its run_dir conflicts with no active one the table
\* knows of, so the locks stay in order; its fingerprint is dealt with by its caller.
LEMMA AdmitKeepsLocks ==
  ASSUME LockInv, NEW t \in Holders, NEW dir \in Dirs \cup {NoDir}, NEW print \in Prints,
         Admit(t, dir, print)
  PROVE  /\ holder' \in [Holders -> Holder] /\ lock' \in [Dirs -> Holders \cup {NoTask}]
         /\ shared' \subseteq Dirs
         /\ holder'[t] = [status |-> "pending", dir |-> dir, print |-> print, away |-> FALSE]
         /\ \A u \in Holders : u # t => holder'[u] = holder[u]
         /\ ~Active(t)
         /\ LocksHaveOwners' /\ OneWriterPerDir' /\ HoldersHaveLocks'
<1> DEFINE new == [status |-> "pending", dir |-> dir, print |-> print, away |-> FALSE]
<1>1. /\ holder' \in [Holders -> Holder]
      /\ holder'[t] = new
      /\ \A u \in Holders : u # t => holder'[u] = holder[u]
  <2>1. new \in Holder
    BY DEF Holder
  <2> QED BY <2>1 DEF Admit, LockInv, LockTypeOK
<1>2. ~Active(t)
  BY DEF Admit, Unused, Active
<1>3. /\ lock' \in [Dirs -> Holders \cup {NoTask}]
      /\ \A d \in Dirs : lock'[d] = lock[d] \/ (d = dir /\ lock[d] = NoTask /\ lock'[d] = t)
      /\ dir \in Dirs => lock'[dir] = t
  BY AcquiredFacts DEF Admit, LockInv
<1>4. shared \subseteq shared' /\ shared' \subseteq Dirs /\ opened' = opened /\ locksKnown' = locksKnown
  BY DEF Admit, LockInv, LockTypeOK, Unguarded
<1>5. \A u \in Holders : u # t => (Active(u)' <=> Active(u))
  BY <1>1 DEF Active
<1>6. Active(t)'
  BY <1>1 DEF Active
<1>7. LocksHaveOwners'
  <2> SUFFICES ASSUME NEW d \in Dirs, lock'[d] # NoTask
               PROVE  holder'[lock'[d]].status \in {"pending", "live"} /\ holder'[lock'[d]].dir = d
    BY DEF LocksHaveOwners, Active
  <2>1. CASE lock'[d] = t /\ d = dir
    BY <2>1, <1>1, <1>6
  <2>2. CASE lock'[d] = lock[d]
    <3>1. Active(lock[d]) /\ holder[lock[d]].dir = d /\ lock[d] \in Holders
      BY <2>2 DEF LockInv, LocksHaveOwners, LockTypeOK
    <3>2. lock[d] # t
      BY <3>1, <1>2
    <3> QED BY <2>2, <3>1, <3>2, <1>1 DEF Active
  <2> QED BY <2>1, <2>2, <1>3
<1>8. ASSUME NEW u \in Holders, u # t, InDir(u), dir \in Dirs, Conflict(dir, holder[u].dir)
      PROVE  {dir, holder[u].dir} \cap (shared' \cup opened') # {}
  <2>1. CASE locksKnown
    <3>1. lock[holder[u].dir] = NoTask
      BY <1>8 DEF Admit, Free, InDir
    <3> QED BY <3>1, <2>1, <1>8, <1>4, HoldersAreTasks DEF LockInv, HoldersHaveLocks
  <2>2. CASE ~locksKnown
    <3>1. Unguarded(dir)
      BY <1>8 DEF Unguarded, InDir
    <3> QED BY <3>1, <2>2 DEF Admit
  <2> QED BY <2>1, <2>2
<1>9. OneWriterPerDir'
  <2> SUFFICES ASSUME NEW v \in Holders, NEW u \in Holders, Together(v, u)'
               PROVE  {holder'[v].dir, holder'[u].dir} \cap (shared' \cup opened') # {}
    BY DEF OneWriterPerDir
  <2>1. CASE v # t /\ u # t
    <3>1. Together(v, u)
      BY <2>1, <1>1, <1>5 DEF Together
    <3> QED BY <3>1, <2>1, <1>1, <1>4 DEF LockInv, OneWriterPerDir
  <2>2. CASE v = t /\ u # t
    BY <2>2, <1>1, <1>5, <1>8 DEF Together, InDir
  <2>3. CASE u = t /\ v # t
    BY <2>3, <1>1, <1>5, <1>8, ConflictFacts DEF Together, InDir
  <2> QED BY <2>1, <2>2, <2>3 DEF Together
<1>10. HoldersHaveLocks'
  <2> SUFFICES ASSUME locksKnown', NEW u \in Holders, InDir(u)', holder'[u].dir \notin shared' \cup opened'
               PROVE  lock'[holder'[u].dir] = u
    BY DEF HoldersHaveLocks
  <2>1. CASE u = t
    BY <2>1, <1>1, <1>3 DEF InDir
  <2>2. CASE u # t
    <3>1. InDir(u) /\ lock[holder[u].dir] = u
      BY <2>2, <1>1, <1>4, <1>5 DEF InDir, LockInv, HoldersHaveLocks
    <3> QED BY <3>1, <2>2, <1>1, <1>3, HoldersAreTasks DEF InDir
  <2> QED BY <2>1, <2>2
<1> QED BY <1>1, <1>2, <1>3, <1>4, <1>7, <1>9, <1>10

\* Who else has the fingerprint of a task, before and after a step that may change one task.
LEMMA OthersFacts ==
  ASSUME NEW t \in Holders, NEW u \in Holders, u # t, NEW p, Active(u), holder[u].print = p
  PROVE  u \in OthersWith(p, t) /\ Again(p, t) = twice \cup {p}
BY DEF OthersWith, Again

LEMMA SubmitTaskKeeps ==
  ASSUME LockInv, NEW t \in Holders, SubmitTask(t)
  PROVE  LockInv'
<1>1. PICK dir \in Dirs \cup {NoDir}, print \in Prints :
        Admit(t, dir, print) /\ index' = [index EXCEPT ![print] = t] /\ twice' = Again(print, t)
  BY DEF SubmitTask
<1>2. /\ holder' \in [Holders -> Holder] /\ lock' \in [Dirs -> Holders \cup {NoTask}] /\ shared' \subseteq Dirs
      /\ holder'[t] = [status |-> "pending", dir |-> dir, print |-> print, away |-> FALSE]
      /\ \A u \in Holders : u # t => holder'[u] = holder[u]
      /\ ~Active(t)
      /\ LocksHaveOwners' /\ OneWriterPerDir' /\ HoldersHaveLocks'
  BY <1>1, AdmitKeepsLocks
<1>3. index' \in [Prints -> Holders \cup {NoTask}] /\ twice \subseteq twice' /\ twice' \subseteq Prints
  BY <1>1 DEF LockInv, LockTypeOK, Again
<1>4. LockTypeOK'
  BY <1>1, <1>2, <1>3 DEF LockTypeOK, LockInv, Admit
<1>5. DuplicateRefused'
  <2> SUFFICES ASSUME NEW v \in Holders, Active(v)', holder'[v].print \notin twice'
               PROVE  /\ index'[holder'[v].print] = v
                      /\ \A u \in Holders \ {v} : Active(u)' => holder'[u].print # holder'[v].print
    BY DEF DuplicateRefused, OthersWith
  <2>1. ASSUME NEW u \in Holders \ {t}, Active(u)', holder'[u].print = print PROVE print \in twice'
    <3>1. Active(u) /\ holder[u].print = print
      BY <2>1, <1>2 DEF Active
    <3> QED BY <3>1, <1>1, OthersFacts
  <2>2. CASE v = t
    <3>1. holder'[v].print = print /\ index'[print] = t
      BY <2>2, <1>1, <1>2 DEF LockInv, LockTypeOK
    <3> QED BY <3>1, <2>2, <2>1
  <2>3. CASE v # t
    <3>1. Active(v) /\ holder'[v] = holder[v] /\ holder[v].print \notin twice /\ holder[v].print # print
      BY <2>1, <2>3, <1>2, <1>3 DEF Active
    <3>2. index[holder[v].print] = v /\ OthersWith(holder[v].print, v) = {}
      BY <3>1 DEF LockInv, DuplicateRefused
    <3>3. index'[holder[v].print] = index[holder[v].print]
      BY <3>1, <1>1 DEF LockInv, LockTypeOK, Holder
    <3> QED BY <3>1, <3>2, <3>3, <1>2 DEF OthersWith, Active
  <2> QED BY <2>2, <2>3
<1> QED BY <1>2, <1>4, <1>5 DEF LockInv

LEMMA SubmitToStubKeeps ==
  ASSUME LockInv, NEW t \in Holders, SubmitToStub(t)
  PROVE  LockInv'
<1>1. PICK dir \in Dirs \cup {NoDir}, print \in Prints :
        Admit(t, dir, print) /\ UNCHANGED index /\ twice' = twice \cup {print}
  BY DEF SubmitToStub
<1>2. /\ holder' \in [Holders -> Holder] /\ lock' \in [Dirs -> Holders \cup {NoTask}] /\ shared' \subseteq Dirs
      /\ holder'[t] = [status |-> "pending", dir |-> dir, print |-> print, away |-> FALSE]
      /\ \A u \in Holders : u # t => holder'[u] = holder[u]
      /\ ~Active(t)
      /\ LocksHaveOwners' /\ OneWriterPerDir' /\ HoldersHaveLocks'
  BY <1>1, AdmitKeepsLocks
<1>3. LockTypeOK'
  BY <1>1, <1>2 DEF LockTypeOK, LockInv, Admit
<1>4. DuplicateRefused'
  <2> SUFFICES ASSUME NEW v \in Holders, Active(v)', holder'[v].print \notin twice'
               PROVE  /\ index[holder'[v].print] = v
                      /\ \A u \in Holders \ {v} : Active(u)' => holder'[u].print # holder'[v].print
    BY <1>1 DEF DuplicateRefused, OthersWith
  <2>1. v # t
    BY <1>1, <1>2
  <2>2. Active(v) /\ holder'[v] = holder[v] /\ holder[v].print \notin twice /\ holder[v].print # print
    BY <2>1, <1>1, <1>2 DEF Active
  <2> QED BY <2>2, <1>2 DEF LockInv, DuplicateRefused, OthersWith, Active
<1> QED BY <1>2, <1>3, <1>4 DEF LockInv

\* A task starts: it has the lock already, or takes it.
LEMMA TaskStartedKeeps ==
  ASSUME LockInv, NEW t \in Holders, TaskStarted(t)
  PROVE  LockInv'
<1>1. /\ holder' \in [Holders -> Holder]
      /\ \A u \in Holders : holder'[u].dir = holder[u].dir /\ holder'[u].print = holder[u].print
      /\ \A u \in Holders : Active(u)' <=> Active(u)
      /\ Active(t)
  BY DEF TaskStarted, LockInv, LockTypeOK, Holder, Active
<1>2. /\ lock' \in [Dirs -> Holders \cup {NoTask}]
      /\ \A d \in Dirs : lock'[d] = lock[d] \/ (d = holder[t].dir /\ lock[d] = NoTask /\ lock'[d] = t)
  BY AcquiredFacts DEF TaskStarted, LockInv
<1>3. /\ index' \in [Prints -> Holders \cup {NoTask}]
      /\ \A p \in Prints : index'[p] = IF p = holder[t].print THEN t ELSE index[p]
  BY IndexFacts DEF TaskStarted, LockInv
<1>4. LockTypeOK'
  BY <1>1, <1>2, <1>3 DEF LockTypeOK, LockInv, TaskStarted
<1>5. LocksHaveOwners'
  <2> SUFFICES ASSUME NEW d \in Dirs, lock'[d] # NoTask
               PROVE  holder'[lock'[d]].status \in {"pending", "live"} /\ holder'[lock'[d]].dir = d
    BY DEF LocksHaveOwners, Active
  <2>1. CASE lock'[d] = t /\ d = holder[t].dir
    BY <2>1, <1>1 DEF Active
  <2>2. CASE lock'[d] = lock[d]
    <3>1. Active(lock[d]) /\ holder[lock[d]].dir = d /\ lock[d] \in Holders
      BY <2>2 DEF LockInv, LocksHaveOwners, LockTypeOK
    <3> QED BY <2>2, <3>1, <1>1 DEF Active
  <2> QED BY <2>1, <2>2, <1>2
<1>6. OneWriterPerDir'
  BY <1>1 DEF OneWriterPerDir, Together, LockInv, TaskStarted
<1>7. HoldersHaveLocks'
  <2> SUFFICES ASSUME locksKnown', NEW u \in Holders, InDir(u)', holder'[u].dir \notin shared' \cup opened'
               PROVE  lock'[holder'[u].dir] = u
    BY DEF HoldersHaveLocks
  <2>1. InDir(u) /\ lock[holder[u].dir] = u
    BY <1>1 DEF InDir, LockInv, HoldersHaveLocks, TaskStarted
  <2> QED BY <2>1, <1>1, <1>2, HoldersAreTasks DEF InDir
<1>8. DuplicateRefused'
  <2> SUFFICES ASSUME NEW v \in Holders, Active(v)', holder'[v].print \notin twice'
               PROVE  /\ index'[holder'[v].print] = v
                      /\ \A u \in Holders \ {v} : Active(u)' => holder'[u].print # holder'[v].print
    BY DEF DuplicateRefused, OthersWith
  <2>1. Active(v) /\ holder[v].print \notin twice /\ holder[v].print \in Prints
    BY <1>1 DEF TaskStarted, LockInv, LockTypeOK, Holder
  <2>2. index[holder[v].print] = v /\ OthersWith(holder[v].print, v) = {}
    BY <2>1 DEF LockInv, DuplicateRefused
  <2> QED BY <2>1, <2>2, <1>1, <1>3 DEF OthersWith
<1> QED BY <1>4, <1>5, <1>6, <1>7, <1>8 DEF LockInv

\* A kill is asked for, or a stub goes or comes back: the index is written again.
LEMMA TaskAwayKeeps ==
  ASSUME LockInv, NEW t \in Holders, TaskAway(t)
  PROVE  LockInv'
<1>1. /\ holder' \in [Holders -> Holder]
      /\ \A u \in Holders : holder'[u].dir = holder[u].dir /\ holder'[u].print = holder[u].print
      /\ \A u \in Holders : holder'[u].status = holder[u].status
      /\ Active(t)
  BY DEF TaskAway, LockInv, LockTypeOK, Holder
<1>2. /\ index' \in [Prints -> Holders \cup {NoTask}]
      /\ \A p \in Prints : index'[p] = IF p = holder[t].print THEN t ELSE index[p]
  BY IndexFacts DEF TaskAway, LockInv
<1>3. LockTypeOK'
  BY <1>1, <1>2, LockAssumption DEF LockTypeOK, LockInv, TaskAway, Disturb
<1>4. LocksHaveOwners' /\ OneWriterPerDir'
  <2>1. LocksHaveOwners'
    BY <1>1 DEF LocksHaveOwners, LockInv, LockTypeOK, TaskAway, Active
  <2>2. OneWriterPerDir'
    BY <1>1 DEF OneWriterPerDir, Together, LockInv, TaskAway, Active
  <2> QED BY <2>1, <2>2
<1>5. HoldersHaveLocks'
  BY <1>1 DEF HoldersHaveLocks, InDir, Active, LockInv, TaskAway
<1>6. DuplicateRefused'
  <2> SUFFICES ASSUME NEW v \in Holders, Active(v)', holder'[v].print \notin twice'
               PROVE  /\ index'[holder'[v].print] = v
                      /\ \A u \in Holders \ {v} : Active(u)' => holder'[u].print # holder'[v].print
    BY DEF DuplicateRefused, OthersWith
  <2>1. Active(v) /\ holder[v].print \notin twice /\ holder[v].print \in Prints
    BY <1>1 DEF TaskAway, LockInv, LockTypeOK, Holder, Active
  <2>2. index[holder[v].print] = v /\ OthersWith(holder[v].print, v) = {}
    BY <2>1 DEF LockInv, DuplicateRefused
  <2> QED BY <2>1, <2>2, <1>1, <1>2 DEF OthersWith, Active
<1> QED BY <1>3, <1>4, <1>5, <1>6 DEF LockInv

\* A task ends: it had the lock of its run_dir, or its run_dir was shared or opened.
LEMMA TaskEndsKeeps ==
  ASSUME LockInv, NEW t \in Holders, TaskEnds(t)
  PROVE  LockInv'
<1>1. /\ holder' \in [Holders -> Holder]
      /\ \A u \in Holders : holder'[u].dir = holder[u].dir /\ holder'[u].print = holder[u].print
      /\ \A u \in Holders \ {t} : holder'[u].status = holder[u].status
      /\ holder'[t].status = "ended" /\ Active(t)
  BY DEF TaskEnds, LockInv, LockTypeOK, Holder
<1>2. /\ lock' \in [Dirs -> Holders \cup {NoTask}]
      /\ \A d \in Dirs : lock'[d] = IF d = holder[t].dir THEN NoTask ELSE lock[d]
  BY ReleasedFacts DEF TaskEnds, LockInv
<1>3. /\ index' \in [Prints -> Holders \cup {NoTask}]
      /\ \A p \in Prints : index[p] # t => index'[p] = index[p]
  BY IndexFacts DEF TaskEnds, LockInv
<1>4. LockTypeOK'
  BY <1>1, <1>2, <1>3 DEF LockTypeOK, LockInv, TaskEnds
<1>5. LocksHaveOwners'
  BY <1>1, <1>2 DEF LocksHaveOwners, LockInv, LockTypeOK, Active
<1>6. OneWriterPerDir'
  BY <1>1 DEF OneWriterPerDir, Together, LockInv, TaskEnds, Active
<1>7. HoldersHaveLocks'
  <2> SUFFICES ASSUME locksKnown', NEW u \in Holders, InDir(u)', holder'[u].dir \notin shared' \cup opened'
               PROVE  lock'[holder'[u].dir] = u
    BY DEF HoldersHaveLocks
  <2>1. u # t /\ InDir(u) /\ lock[holder[u].dir] = u
    BY <1>1 DEF InDir, LockInv, HoldersHaveLocks, TaskEnds, Active
  <2>2. holder[u].dir # holder[t].dir
    BY <2>1, <1>1 DEF InDir, LockInv, HoldersHaveLocks, TaskEnds
  <2> QED BY <2>1, <2>2, <1>1, <1>2 DEF InDir
<1>8. DuplicateRefused'
  <2> SUFFICES ASSUME NEW v \in Holders, Active(v)', holder'[v].print \notin twice'
               PROVE  /\ index'[holder'[v].print] = v
                      /\ \A u \in Holders \ {v} : Active(u)' => holder'[u].print # holder'[v].print
    BY DEF DuplicateRefused, OthersWith
  <2>1. v # t /\ Active(v) /\ holder[v].print \notin twice /\ holder[v].print \in Prints
    BY <1>1 DEF TaskEnds, LockInv, LockTypeOK, Holder, Active
  <2>2. index[holder[v].print] = v /\ OthersWith(holder[v].print, v) = {}
    BY <2>1 DEF LockInv, DuplicateRefused
  <2> QED BY <2>1, <2>2, <1>1, <1>3 DEF OthersWith, Active
<1> QED BY <1>4, <1>5, <1>6, <1>7, <1>8 DEF LockInv

\* An update of an ended task, or its deletion: nobody becomes active; a lock
\* that is taken from an active task is an opened one.
LEMMA EndedUpdatesKeep ==
  ASSUME LockInv, NEW t \in Holders, UpdateEnded(t) \/ DeleteTask(t)
  PROVE  LockInv'
<1>1. CASE UpdateEnded(t)
  <2>1. /\ lock' \in [Dirs -> Holders \cup {NoTask}]
        /\ \A d \in Dirs : lock'[d] = IF d = holder[t].dir THEN NoTask ELSE lock[d]
    BY <1>1, ReleasedFacts DEF UpdateEnded, LockInv
  <2>2. /\ opened \subseteq opened' /\ opened' \subseteq Dirs
        /\ \A d \in Dirs : lock'[d] # lock[d] => d \in opened'
    BY <1>1, <2>1 DEF UpdateEnded, LockInv, LockTypeOK
  <2>3. LockTypeOK' /\ LocksHaveOwners'
    BY <1>1, <2>1, <2>2 DEF LockTypeOK, LocksHaveOwners, LockInv, UpdateEnded, Active
  <2>4. OneWriterPerDir'
    BY <1>1, <2>2 DEF OneWriterPerDir, Together, LockInv, UpdateEnded, Active
  <2>5. HoldersHaveLocks'
    BY <1>1, <2>2 DEF HoldersHaveLocks, InDir, LockInv, UpdateEnded, Active
  <2>6. DuplicateRefused'
    BY <1>1 DEF DuplicateRefused, OthersWith, LockInv, UpdateEnded, Active
  <2> QED BY <2>3, <2>4, <2>5, <2>6 DEF LockInv
<1>2. CASE DeleteTask(t)
  <2>1. /\ holder' \in [Holders -> Holder]
        /\ \A u \in Holders : holder'[u].dir = holder[u].dir /\ holder'[u].print = holder[u].print
        /\ \A u \in Holders : Active(u)' <=> Active(u)
        /\ \A u \in Holders \ {t} : holder'[u].status = holder[u].status
        /\ holder'[t].status = "deleted" /\ ~Active(t)
    BY <1>2 DEF DeleteTask, LockInv, LockTypeOK, Holder, Active
  <2>2. LockTypeOK'
    BY <1>2, <2>1 DEF LockTypeOK, LockInv, DeleteTask
  <2>3. LocksHaveOwners'
    BY <1>2, <2>1 DEF LocksHaveOwners, LockInv, LockTypeOK, DeleteTask, Active
  <2>4. OneWriterPerDir' /\ HoldersHaveLocks'
    BY <1>2, <2>1 DEF OneWriterPerDir, Together, HoldersHaveLocks, InDir, LockInv, DeleteTask
  <2>5. DuplicateRefused'
    BY <1>2, <2>1 DEF DuplicateRefused, OthersWith, LockInv, DeleteTask
  <2> QED BY <2>2, <2>3, <2>4, <2>5 DEF LockInv
<1> QED BY <1>1, <1>2

\* An automatic retry: a new task, in a run_dir of its own, with the old fingerprint.
LEMMA RetryTaskKeeps ==
  ASSUME LockInv, NEW t \in Holders, RetryTask(t)
  PROVE  LockInv'
<1>1. PICK u \in Holders :
        /\ Unused(u)
        /\ holder' = [holder EXCEPT ![u] = [holder[t] EXCEPT !.status = "pending", !.dir = NoDir]]
        /\ index' = [index EXCEPT ![holder[t].print] = u]
  BY DEF RetryTask
<1>2. /\ holder' \in [Holders -> Holder]
      /\ holder'[u].status = "pending" /\ holder'[u].dir = NoDir /\ holder'[u].print = holder[t].print
      /\ \A v \in Holders : v # u => holder'[v] = holder[v]
      /\ ~Active(u) /\ ~Active(t) /\ holder[t].print \in Prints
  <2>1. [holder[t] EXCEPT !.status = "pending", !.dir = NoDir] \in Holder
    BY DEF LockInv, LockTypeOK, Holder
  <2> QED BY <1>1, <2>1 DEF RetryTask, LockInv, LockTypeOK, Holder, Unused, Active
<1>3. /\ index' \in [Prints -> Holders \cup {NoTask}]
      /\ \A p \in Prints : index'[p] = IF p = holder[t].print THEN u ELSE index[p]
  BY <1>1, <1>2 DEF LockInv, LockTypeOK
<1>4. twice \subseteq twice' /\ twice' \subseteq Prints
  BY <1>2 DEF RetryTask, Again, LockInv, LockTypeOK
<1>5. LockTypeOK'
  BY <1>2, <1>3, <1>4, LockAssumption DEF LockTypeOK, LockInv, RetryTask, Disturb
<1>6. LocksHaveOwners'
  BY <1>2 DEF LocksHaveOwners, LockInv, LockTypeOK, RetryTask, Active
<1>7. OneWriterPerDir'
  BY <1>2, LockAssumption DEF OneWriterPerDir, Together, LockInv, RetryTask, Active
<1>8. HoldersHaveLocks'
  BY <1>2, LockAssumption DEF HoldersHaveLocks, InDir, LockInv, RetryTask, Active
<1>9. DuplicateRefused'
  <2> SUFFICES ASSUME NEW v \in Holders, Active(v)', holder'[v].print \notin twice'
               PROVE  /\ index'[holder'[v].print] = v
                      /\ \A w \in Holders \ {v} : Active(w)' => holder'[w].print # holder'[v].print
    BY DEF DuplicateRefused, OthersWith
  <2>1. ASSUME NEW w \in Holders \ {u}, Active(w)', holder'[w].print = holder[t].print
        PROVE  holder[t].print \in twice'
    <3>1. Active(w) /\ holder[w].print = holder[t].print /\ w # t
      BY <2>1, <1>2 DEF Active
    <3> QED BY <3>1, <1>2, OthersFacts DEF RetryTask
  <2>2. CASE v = u
    BY <2>1, <2>2, <1>2, <1>3
  <2>3. CASE v # u
    <3>1. Active(v) /\ holder'[v] = holder[v] /\ holder[v].print # holder[t].print /\ holder[v].print \notin twice
      BY <2>1, <2>3, <1>2, <1>4 DEF Active
    <3>2. index[holder[v].print] = v /\ OthersWith(holder[v].print, v) = {} /\ holder[v].print \in Prints
      BY <3>1 DEF LockInv, DuplicateRefused, LockTypeOK, Holder
    <3> QED BY <3>1, <3>2, <1>2, <1>3 DEF OthersWith, Active
  <2> QED BY <2>2, <2>3
<1> QED BY <1>5, <1>6, <1>7, <1>8, <1>9 DEF LockInv

\* A requeue: the run_dir of the task counts as shared from then on.
LEMMA RequeueTaskKeeps ==
  ASSUME LockInv, NEW t \in Holders, RequeueTask(t)
  PROVE  LockInv'
<1>1. /\ holder' \in [Holders -> Holder]
      /\ \A u \in Holders : holder'[u].dir = holder[u].dir /\ holder'[u].print = holder[u].print
      /\ \A u \in Holders \ {t} : holder'[u].status = holder[u].status
      /\ holder'[t].status = "pending" /\ holder[t].print \in Prints
  BY DEF RequeueTask, LockInv, LockTypeOK, Holder
<1>2. /\ index' \in [Prints -> Holders \cup {NoTask}]
      /\ \A p \in Prints : index'[p] = IF p = holder[t].print THEN t ELSE index[p]
  BY IndexFacts DEF RequeueTask, LockInv
<1>3. /\ twice \subseteq twice' /\ twice' \subseteq Prints
      /\ shared \subseteq shared' /\ shared' \subseteq Dirs
      /\ holder[t].dir \in Dirs => holder[t].dir \in shared'
  BY <1>1 DEF RequeueTask, Again, LockInv, LockTypeOK
<1>4. LockTypeOK'
  BY <1>1, <1>2, <1>3, LockAssumption DEF LockTypeOK, LockInv, RequeueTask, Disturb
<1>5. LocksHaveOwners'
  BY <1>1 DEF LocksHaveOwners, LockInv, LockTypeOK, RequeueTask, Active
<1>6. OneWriterPerDir'
  BY <1>1, <1>3 DEF OneWriterPerDir, Together, LockInv, RequeueTask, Active
<1>7. HoldersHaveLocks'
  BY <1>1, <1>3 DEF HoldersHaveLocks, InDir, LockInv, RequeueTask, Active
<1>8. DuplicateRefused'
  <2> SUFFICES ASSUME NEW v \in Holders, Active(v)', holder'[v].print \notin twice'
               PROVE  /\ index'[holder'[v].print] = v
                      /\ \A w \in Holders \ {v} : Active(w)' => holder'[w].print # holder'[v].print
    BY DEF DuplicateRefused, OthersWith
  <2>1. ASSUME NEW w \in Holders \ {t}, Active(w)', holder'[w].print = holder[t].print
        PROVE  holder[t].print \in twice'
    <3>1. Active(w) /\ holder[w].print = holder[t].print
      BY <2>1, <1>1 DEF Active
    <3>2. Again(holder[t].print, t) = twice \cup {holder[t].print}
      BY <3>1, OthersFacts
    <3> QED BY <3>2 DEF RequeueTask
  <2>2. CASE v = t
    BY <2>1, <2>2, <1>1, <1>2
  <2>3. CASE v # t
    <3>1. Active(v) /\ holder[v].print # holder[t].print /\ holder[v].print \notin twice
      BY <2>1, <2>3, <1>1, <1>3 DEF Active
    <3>2. index[holder[v].print] = v /\ OthersWith(holder[v].print, v) = {} /\ holder[v].print \in Prints
      BY <3>1 DEF LockInv, DuplicateRefused, LockTypeOK, Holder
    <3>3. index'[holder'[v].print] = v
      BY <3>1, <3>2, <1>1, <1>2
    <3>4. ASSUME NEW w \in Holders \ {v}, Active(w)' PROVE holder'[w].print # holder'[v].print
      BY <3>1, <3>2, <3>4, <1>1 DEF OthersWith, Active
    <3> QED BY <3>3, <3>4
  <2> QED BY <2>2, <2>3
<1> QED BY <1>4, <1>5, <1>6, <1>7, <1>8 DEF LockInv

\* What a rebuild names is active and in the run_dir; where one task alone is, it is that one.
LEMMA RebuiltFacts ==
  ASSUME NEW h, NEW table, Rebuilt(h, table), NEW d \in Dirs
  PROVE  /\ table[d] # NoTask => h[table[d]].status \in {"pending", "live"} /\ h[table[d]].dir = d
         /\ \A t \in Holders :
              /\ h[t].status \in {"pending", "live"} /\ h[t].dir = d
              /\ \A u \in Holders \ {t} : ~(h[u].status \in {"pending", "live"} /\ h[u].dir = d)
              => table[d] = t
<1> DEFINE on == {t \in Holders : h[t].status \in {"pending", "live"} /\ h[t].dir = d}
<1>1. IF on = {} THEN table[d] = NoTask ELSE table[d] \in on
  BY DEF Rebuilt
<1> QED BY <1>1

\* The server starts again: no lock is known, and the index is that of the database.
LEMMA ServerRestartKeeps ==
  ASSUME LockInv, ServerRestart
  PROVE  LockInv'
<1>1. LockTypeOK' /\ LocksHaveOwners' /\ HoldersHaveLocks'
  <2>1. lockLeft' \in 0..Disturbances
    BY LockAssumption DEF ServerRestart, LockInv, LockTypeOK, Disturb
  <2>2. lock' \in [Dirs -> Holders \cup {NoTask}] /\ \A d \in Dirs : lock'[d] = NoTask
    BY DEF ServerRestart
  <2> QED BY <2>1, <2>2 DEF ServerRestart, LockInv, LockTypeOK, LocksHaveOwners, HoldersHaveLocks
<1>2. OneWriterPerDir'
  BY DEF OneWriterPerDir, Together, LockInv, ServerRestart, Active
<1>3. DuplicateRefused'
  <2> SUFFICES ASSUME NEW v \in Holders, Active(v), holder[v].print \notin twice
               PROVE  index'[holder[v].print] = v /\ OthersWith(holder[v].print, v) = {}
    BY DEF DuplicateRefused, OthersWith, Active, ServerRestart
  <2> DEFINE on == {u \in Holders : Active(u) /\ holder[u].print = holder[v].print}
  <2>1. OthersWith(holder[v].print, v) = {} /\ holder[v].print \in Prints
    BY DEF LockInv, DuplicateRefused, LockTypeOK, Holder
  <2>2. on = {v}
    BY <2>1 DEF OthersWith
  <2>3. IF on = {} THEN index'[holder[v].print] = NoTask ELSE index'[holder[v].print] \in on
    BY <2>1 DEF ServerRestart
  <2> QED BY <2>1, <2>2, <2>3
<1> QED BY <1>1, <1>2, <1>3 DEF LockInv

\* A resume: who comes back shares its run_dir and its fingerprint from then on, and
\* the locks are those of the active tasks.
LEMMA StubResumesKeeps ==
  ASSUME LockInv, StubResumes
  PROVE  LockInv'
<1>1. PICK back \in SUBSET {t \in Holders : holder[t].status = "ended"} :
        /\ Cardinality(back) <= 1
        /\ holder' = [t \in Holders |-> IF t \in back THEN [holder[t] EXCEPT !.status = "live"] ELSE holder[t]]
        /\ index' = [p \in Prints |-> IF \E t \in back : holder[t].print = p
                                      THEN CHOOSE t \in back : holder[t].print = p ELSE index[p]]
        /\ twice' = twice \cup {p \in Prints : \E t \in back : holder[t].print = p /\ OthersWith(p, t) # {}}
        /\ shared' = shared \cup {d \in Dirs : \E t \in back : holder[t].dir = d}
  BY DEF StubResumes
<1>2. /\ holder' \in [Holders -> Holder]
      /\ \A u \in Holders : holder'[u].dir = holder[u].dir /\ holder'[u].print = holder[u].print
      /\ \A u \in Holders \ back : holder'[u].status = holder[u].status
      /\ \A u \in back : u \in Holders /\ holder'[u].status = "live" /\ holder[u].status = "ended"
  BY <1>1 DEF LockInv, LockTypeOK, Holder
<1>3. \A t, u \in back : t = u
  <2>1. IsFiniteSet(back)
    <3>1. IsFiniteSet(Holders)
      BY FS_Interval, LockAssumption DEF Holders
    <3>2. back \in SUBSET Holders
      OBVIOUS
    <3> QED BY <3>1, <3>2, FS_Subset
  <2> SUFFICES ASSUME NEW t \in back, NEW u \in back, t # u PROVE FALSE
    OBVIOUS
  <2>2. Cardinality({t, u}) = 2
    <3>1. IsFiniteSet({t}) /\ Cardinality({t}) = 1
      BY FS_Singleton
    <3>2. Cardinality({t} \cup {u}) = Cardinality({t}) + 1
      <4>1. u \notin {t}
        OBVIOUS
      <4> QED BY <4>1, <3>1, FS_AddElement
    <3>3. {t} \cup {u} = {t, u}
      OBVIOUS
    <3> QED BY <3>1, <3>2, <3>3
  <2>3. Cardinality({t, u}) <= Cardinality(back) /\ Cardinality(back) \in Nat
    <3>1. {t, u} \in SUBSET back
      OBVIOUS
    <3> QED BY <2>1, <3>1, FS_Subset, FS_CardinalityType
  <2> QED BY <2>2, <2>3, <1>1
<1>4. /\ index' \in [Prints -> Holders \cup {NoTask}]
      /\ \A t \in back : index'[holder[t].print] = t
      /\ \A p \in Prints : (\A t \in back : holder[t].print # p) => index'[p] = index[p]
  <2>1. \A t \in back : holder[t].print \in Prints
    BY <1>2 DEF LockInv, LockTypeOK, Holder
  <2> QED BY <2>1, <1>1, <1>2, <1>3 DEF LockInv, LockTypeOK
<1>5. /\ lock' \in [Dirs -> Holders \cup {NoTask}] /\ Rebuilt(holder', lock')
      /\ locksKnown' = TRUE /\ opened' = opened
  BY DEF StubResumes
<1>6. LockTypeOK'
  <2>1. lockLeft' \in 0..Disturbances
    BY LockAssumption DEF StubResumes, LockInv, LockTypeOK, Disturb
  <2>2. shared' \subseteq Dirs /\ twice' \subseteq Prints
    BY <1>1 DEF LockInv, LockTypeOK
  <2> QED BY <2>1, <2>2, <1>2, <1>4, <1>5 DEF LockTypeOK, LockInv
<1>7. LocksHaveOwners'
  BY <1>5, RebuiltFacts DEF LocksHaveOwners, Active
<1>8. OneWriterPerDir'
  <2> SUFFICES ASSUME NEW t \in Holders, NEW u \in Holders, Together(t, u)'
               PROVE  {holder'[t].dir, holder'[u].dir} \cap (shared' \cup opened') # {}
    BY DEF OneWriterPerDir
  <2>1. CASE t \in back \/ u \in back
    BY <2>1, <1>1, <1>2 DEF Together
  <2>2. CASE t \notin back /\ u \notin back
    BY <2>2, <1>1, <1>2, <1>5 DEF Together, Active, LockInv, OneWriterPerDir
  <2> QED BY <2>1, <2>2
<1>9. HoldersHaveLocks'
  <2> SUFFICES ASSUME NEW t \in Holders, InDir(t)', holder'[t].dir \notin shared' \cup opened'
               PROVE  lock'[holder'[t].dir] = t
    BY DEF HoldersHaveLocks
  <2>1. \A u \in Holders \ {t} :
          ~(holder'[u].status \in {"pending", "live"} /\ holder'[u].dir = holder'[t].dir)
    <3> SUFFICES ASSUME NEW u \in Holders \ {t}, holder'[u].status \in {"pending", "live"},
                        holder'[u].dir = holder'[t].dir
                 PROVE  FALSE
      OBVIOUS
    <3>0. Active(u)'
      BY DEF Active
    <3>1. Together(t, u)'
      BY <3>0, ConflictFacts DEF Together, InDir
    <3> QED BY <3>1, <1>8 DEF OneWriterPerDir
  <2> QED BY <2>1, <1>5, RebuiltFacts DEF InDir, Active
<1>10. DuplicateRefused'
  <2> SUFFICES ASSUME NEW v \in Holders, Active(v)', holder'[v].print \notin twice'
               PROVE  /\ index'[holder'[v].print] = v
                      /\ \A w \in Holders \ {v} : Active(w)' => holder'[w].print # holder'[v].print
    BY DEF DuplicateRefused, OthersWith
  <2>1. holder'[v].print = holder[v].print /\ holder[v].print \in Prints /\ holder[v].print \notin twice
    BY <1>1, <1>2 DEF LockInv, LockTypeOK, Holder
  <2>2. ASSUME NEW t \in back, NEW w \in Holders \ {t}, Active(w)', holder[w].print = holder[t].print
        PROVE  holder[t].print \in twice'
    <3>1. Active(w)
      BY <2>2, <1>2, <1>3 DEF Active
    <3> QED BY <3>1, <2>2, <1>1, <1>2 DEF OthersWith, LockInv, LockTypeOK, Holder
  <2>3. CASE v \in back
    BY <2>1, <2>2, <2>3, <1>2, <1>4
  <2>4. CASE v \notin back
    <3>1. Active(v) /\ \A t \in back : holder[t].print # holder[v].print
      BY <2>1, <2>2, <2>4, <1>2 DEF Active
    <3>2. index[holder[v].print] = v /\ OthersWith(holder[v].print, v) = {}
      BY <2>1, <3>1 DEF LockInv, DuplicateRefused
    <3>3. ASSUME NEW w \in Holders \ {v}, Active(w)' PROVE holder'[w].print # holder'[v].print
      BY <3>1, <3>2, <3>3, <1>2 DEF OthersWith, Active
    <3> QED BY <2>1, <3>1, <3>2, <3>3, <1>4
  <2> QED BY <2>3, <2>4
<1> QED BY <1>6, <1>7, <1>8, <1>9, <1>10 DEF LockInv

LEMMA LockStep == LockInv /\ [LockNext]_lockVars => LockInv'
<1> SUFFICES ASSUME LockInv, [LockNext]_lockVars PROVE LockInv'
  OBVIOUS
<1>1. ASSUME NEW t \in Holders, SubmitTask(t) PROVE LockInv'
  BY <1>1, SubmitTaskKeeps
<1>2. ASSUME NEW t \in Holders, SubmitToStub(t) PROVE LockInv'
  BY <1>2, SubmitToStubKeeps
<1>3. ASSUME NEW t \in Holders, TaskStarted(t) PROVE LockInv'
  BY <1>3, TaskStartedKeeps
<1>4. ASSUME NEW t \in Holders, TaskAway(t) PROVE LockInv'
  BY <1>4, TaskAwayKeeps
<1>5. ASSUME NEW t \in Holders, TaskEnds(t) PROVE LockInv'
  BY <1>5, TaskEndsKeeps
<1>6. ASSUME NEW t \in Holders, UpdateEnded(t) \/ DeleteTask(t) PROVE LockInv'
  BY <1>6, EndedUpdatesKeep
<1>7. ASSUME NEW t \in Holders, RetryTask(t) PROVE LockInv'
  BY <1>7, RetryTaskKeeps
<1>8. ASSUME NEW t \in Holders, RequeueTask(t) PROVE LockInv'
  BY <1>8, RequeueTaskKeeps
<1>9. CASE StubResumes
  BY <1>9, StubResumesKeeps
<1>10. CASE ServerRestart
  BY <1>10, ServerRestartKeeps
<1>11. CASE UNCHANGED lockVars
  BY <1>11 DEF lockVars, LockInv, LockTypeOK, LocksHaveOwners, OneWriterPerDir, Together, HoldersHaveLocks,
     InDir, DuplicateRefused, OthersWith, Active
<1> QED BY <1>1, <1>2, <1>3, <1>4, <1>5, <1>6, <1>7, <1>8, <1>9, <1>10, <1>11 DEF LockNext

\* The invariant of the two tables is kept by submissions, updates, retries,
\* requeues, resumes and restarts.
THEOREM LockInvariance == LockSpec => []LockInv
BY InitLocks, LockStep, PTL DEF LockSpec

\* The table of write locks does what it is for: every lock has an active owner, and
\* two active tasks have conflicting run_dirs only where one came in without the
\* table or a lock was opened (dedup.ts:1-135, store/index.ts:1776-1809).
THEOREM WritersExclude == LockSpec => []DirsGuarded
<1>1. LockInv => DirsGuarded
  BY DEF LockInv, DirsGuarded
<1> QED BY <1>1, LockInvariance, PTL

\* An active fingerprint has one active task, which the index names, unless it was
\* let in again on purpose (store/index.ts:1740-1773).
THEOREM ActivePrintRefused == LockSpec => []DuplicateRefused
<1>1. LockInv => DuplicateRefused
  BY DEF LockInv
<1> QED BY <1>1, LockInvariance, PTL

\* Neither a run_dir nor a fingerprint has two writers: the two together, as the
\* run checks them (dedup.ts:1-135, store/index.ts:1740-1809).
THEOREM OneWriter == LockSpec => []LocksSound
<1>1. DirsGuarded /\ DuplicateRefused => LocksSound
  BY DEF LocksSound
<1> QED BY <1>1, WritersExclude, ActivePrintRefused, PTL
=============================================================================
