--------------------------- MODULE MCOrchestrator ---------------------------
(* The stories the Orchestrator runs tell, each with the events it may spend *)
(* and the daemons that take part; a behaviour is one of the story in focus. *)
EXTENDS Orchestrator, TLC

CONSTANTS s1, s2, Stories

VARIABLE focus

TwoStubs == {s1, s2}
StubSymmetry == Permutations(Stubs)

NoEvents == [e \in EventKinds |-> 0]
BudgetOf ==
  \* two tasks on one stub, whose link drops and is made again before or after
  \* the server has noticed
  "reconnect" :> [NoEvents EXCEPT !["submit"] = 2, !["drop"] = 1, !["ghost"] = 1, !["log"] = 1] @@
  \* one task that can move between two stubs when one of them crashes
  "move" :> [NoEvents EXCEPT !["submit"] = 1, !["crash"] = 1, !["kill"] = 1] @@
  \* one task under the requests of users, and what loses track of it while the
  \* link is up
  "control" :> [NoEvents EXCEPT !["submit"] = 1, !["cancel"] = 1, !["pause"] = 1,
                                !["stall"] = 1, !["restart"] = 1, !["sync"] = 1] @@
  \* one task whose task.run is repeated, lost, or fails its preflight
  "dispatch" :> [NoEvents EXCEPT !["submit"] = 1, !["preflight"] = 1, !["resend"] = 1,
                                 !["tick"] = 1, !["restart"] = 1, !["sync"] = 1] @@
  \* one task and its retry over a link that drops; three timeouts end an attempt
  "settle" :> [NoEvents EXCEPT !["submit"] = 1, !["drop"] = 1, !["timeout"] = 6] @@
  \* as "reconnect", with processes that fail
  "reopen" :> [NoEvents EXCEPT !["submit"] = 2, !["drop"] = 1, !["ghost"] = 1]
AllBudgets == {BudgetOf[story] : story \in Stories}

AllOutcomes == Exited

Daemons(story) == IF story = "move" THEN 2 ELSE 1

MCInit ==
  /\ \E story \in Stories : \E reach \in SUBSET Stubs :
       /\ Cardinality(reach) = Daemons(story)
       /\ focus = [story |-> story, reach |-> reach]
  /\ Init /\ left = BudgetOf[focus.story]

\* What keeps a story small: who connects, how processes end, events in flight.
Kept ==
  /\ link' \subseteq focus.reach
  /\ focus.story \in {"reconnect", "control", "dispatch"} =>
       \A s \in Stubs, t \in Tasks :
         procs[s][t] = "running" /\ procs'[s][t] \in Exited => procs'[s][t] = "exit_ok"
  /\ focus.story # "dispatch" => \A s \in Stubs : Len(up'[s]) <= 2

MCNext == Next /\ Kept /\ UNCHANGED focus
MCSpec == MCInit /\ [][MCNext]_<<vars, focus>>
MCFairSpec == MCSpec /\ Fairness

\* While one task is about and nobody pauses it, at most one attempt of it lives,
\* wherever it moves and whichever daemon crashes (retry deduplication,
\* socket/stub.ts:1286-1330); with a second task on the stub, or a pause, it is false.
SingleAttempt == focus.story = "move" => Lifecycle!OneLivePerLineage
=============================================================================
