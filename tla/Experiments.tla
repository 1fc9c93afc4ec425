----------------------------- MODULE Experiments -----------------------------
(***************************************************************************)
(* Experiments, their grids and the tasks in them.  Which tasks belong to  *)
(* an experiment is kept in four places: grid_id and experiment_id of the  *)
(* task, task_ids of the grid, task_refs and results of the experiment.    *)
(* The status of an experiment is derived from them in three ways and      *)
(* stored; evaluations, ends of tasks, retries, replacements, adoptions    *)
(* and moves each update some of the places.                               *)
(*                                                                         *)
(* A handler runs to its end, but not across a crash: each setGrid,        *)
(* setExperiment and update of a task is a commit of its own.  Which       *)
(* blocked task waits for which is the business of TaskGraph.              *)
(***************************************************************************)
EXTENDS Naturals, FiniteSets

CONSTANTS
  MaxRuns,  \* bound: task ids
  MaxExps,  \* bound: experiments
  Meddling  \* bound: requests of operators, quiet ends and crashes

ASSUME ExperimentAssumption == MaxRuns \in Nat /\ MaxExps \in Nat /\ Meddling \in Nat

VARIABLES
  run,     \* the tasks
  exp,     \* each experiment with its grid
  unheard, \* history: experiments that were not told of the end or loss of a task
  hasty,   \* history: experiments of which a cascade cancelled tasks after the look
  expLeft  \* what is left of Meddling

expVars == <<run, exp, unheard, hasty, expLeft>>

Runs == 1..MaxRuns
Exps == 1..MaxExps
NoExp == 0
NoRun == 0

\* grid: grid_id.  member: experiment_id is set too.  root: retry_of.
Run == [status : {"none", "blocked", "pending", "live", "completed", "failed", "cancelled", "deleted"},
        grid : Exps \cup {NoExp}, member : BOOLEAN, root : Runs \cup {NoRun}]
\* at: lost after a crash before the grid, grid of one by itself.
Exp == [at : {"none", "lost", "grid", "there", "deleted"}, ids : SUBSET Runs, refs : SUBSET Runs,
        status : {"running", "passed", "partial", "failed"},
        result : [Runs -> {"none", "passed", "missed"}]]

ExperimentTypeOK ==
  /\ run \in [Runs -> Run] /\ exp \in [Exps -> Exp]
  /\ unheard \subseteq Exps /\ hasty \subseteq Exps /\ expLeft \in 0..Meddling

NoResults == [t \in Runs |-> "none"]
NoExperiment == [at |-> "none", ids |-> {}, refs |-> {}, status |-> "running", result |-> NoResults]

ExperimentInit ==
  /\ run = [t \in Runs |-> [status |-> "none", grid |-> NoExp, member |-> FALSE, root |-> NoRun]]
  /\ exp = [e \in Exps |-> NoExperiment]
  /\ unheard = {} /\ hasty = {} /\ expLeft = Meddling

Meddle == expLeft > 0 /\ expLeft' = expLeft - 1

Final(r, t) == r[t].status \in {"completed", "failed", "cancelled"}
Exists(r, t) == r[t].status \notin {"none", "deleted"}
Done(r, T) == {t \in T : r[t].status = "completed"}
GridExists(e) == exp[e].at \in {"grid", "there", "deleted"}

\* getGridTasks.
GridTasks(r, e) == {t \in Runs : r[t].grid = e /\ Exists(r, t)}

\* The next n task ids.
NewRuns(S, n) ==
  /\ S \subseteq {t \in Runs : run[t].status = "none"} /\ Cardinality(S) = n
  /\ \A t \in S : \A u \in 1..(t - 1) : run[u].status = "none" => u \in S

(***************************************************************************)
(* The status: experimentStatusFromTasks, deriveExperimentStatusFromCounts *)
(***************************************************************************)
\* Mutant: the status of the grid is taken for that of the experiment.
GridStatusOf(r, T) ==
  IF T = {} \/ \E t \in T : ~Final(r, t) THEN "running"
  ELSE IF Done(r, T) = T THEN "completed" ELSE IF Done(r, T) # {} THEN "partial" ELSE "failed"

StatusOf(r, T) ==
  IF T = {} \/ \E t \in T : ~Final(r, t) THEN "running"
  ELSE IF Done(r, T) = T THEN "passed"
  ELSE IF Done(r, T) # {} THEN "partial" ELSE "failed"

\* Mutant: a cancelled task is not an end.
DerivedOfFinished(r, x, e) ==
  LET T == GridTasks(r, e)
      passed == {t \in Runs : x.result[t] = "passed"}
  IN  IF Cardinality(passed) = Cardinality(x.ids) /\ x.ids # {} THEN "passed"
      ELSE IF T = {} \/ \E t \in T : r[t].status \notin {"completed", "failed"} THEN "running"
      ELSE StatusOf(r, T)

Derived(r, x, e) ==
  LET T == GridTasks(r, e)
      passed == {t \in Runs : x.result[t] = "passed"}
      missed == {t \in Runs : x.result[t] = "missed"}
      total == Cardinality(x.ids)
      done == Cardinality(Done(r, T))
  IN  IF Cardinality(passed) = total /\ total > 0 THEN "passed"
      ELSE IF T = {} \/ \E t \in T : ~Final(r, t) THEN "running"
      ELSE IF missed # {} THEN (IF passed # {} THEN "partial" ELSE "failed")
      ELSE IF done = total THEN "passed"
      ELSE IF Done(r, T) \notin {{}, T} THEN "partial" ELSE "failed"

Rederived(r, x, e) == [x EXCEPT ![e].status = IF x[e].at = "there" THEN Derived(r, x[e], e) ELSE @]

\* checkGridCompletion of a task's grid, with the tasks as they are then.
Looked(r, g) == IF g = NoExp THEN exp ELSE Rederived(r, exp, g)

(***************************************************************************)
(* Creation.                                                               *)
(***************************************************************************)
SubmitRun(t) ==
  /\ NewRuns({t}, 1)
  /\ run' = [run EXCEPT ![t].status = "pending"]
  /\ UNCHANGED <<exp, unheard, hasty, expLeft>>

Made(S, e, blocked, member) ==
  [t \in Runs |-> IF t \in S THEN [status |-> IF t \in blocked THEN "blocked" ELSE "pending",
                                   grid |-> e, member |-> member, root |-> NoRun] ELSE run[t]]

NewExp(e) == exp[e].at = "none" /\ \A f \in 1..(e - 1) : exp[f].at # "none"

\* POST /experiments with task_specs: one transaction.
SubmitExperiment(e) ==
  /\ NewExp(e)
  /\ \E S \in SUBSET Runs, blocked \in SUBSET Runs :
       /\ NewRuns(S, 2) /\ blocked \subseteq S /\ blocked # S
       /\ run' = Made(S, e, blocked, TRUE)
       /\ exp' = [exp EXCEPT ![e] = [NoExperiment EXCEPT !.at = "there", !.ids = S, !.refs = S]]
  /\ UNCHANGED <<unheard, hasty, expLeft>>

\* POST /experiments with a matrix: the grid, each task, the grid again, and
\* then the experiment, unless a crash cuts it short.
SubmitMatrix(e) ==
  /\ NewExp(e)
  /\ \E S \in SUBSET Runs, n \in 0..2 :
       /\ NewRuns(S, n) /\ run' = Made(S, e, {}, FALSE)
       /\ \/ /\ n > 0
             /\ exp' = [exp EXCEPT ![e] = [NoExperiment EXCEPT !.at = "there", !.ids = S]]
             /\ UNCHANGED expLeft
          \/ /\ Meddle
             /\ \E ids \in {{}, S} : exp' = [exp EXCEPT ![e] = [NoExperiment EXCEPT !.at = "grid", !.ids = ids]]
  /\ UNCHANGED <<unheard, hasty>>

\* POST /grids: the same writes, and no experiment; cut short, the grid lists no task.
SubmitGrid(e) ==
  /\ Meddle /\ NewExp(e)
  /\ \E S \in SUBSET Runs, n \in 0..2 :
       /\ NewRuns(S, n) /\ run' = Made(S, e, {}, FALSE)
       /\ \E ids \in {{}, S} : exp' = [exp EXCEPT ![e] = [NoExperiment EXCEPT !.at = "grid", !.ids = ids]]
  /\ UNCHANGED <<unheard, hasty>>

\* POST /experiments/adopt, for tasks that belong to nothing.
Adopt(e) ==
  /\ Meddle /\ NewExp(e)
  /\ \E T \in SUBSET {t \in Runs : Exists(run, t) /\ run[t].grid = NoExp} :
       /\ T # {}
       /\ run' = [t \in Runs |-> IF t \in T THEN [run[t] EXCEPT !.grid = e, !.member = TRUE] ELSE run[t]]
       /\ \/ exp' = [exp EXCEPT ![e] = [NoExperiment EXCEPT !.at = "there", !.ids = T, !.refs = T,
                                                            !.status = StatusOf(run, T)]]
          \/ exp' = [exp EXCEPT ![e] = [NoExperiment EXCEPT !.at = "grid", !.ids = T]]
          \/ exp' = [exp EXCEPT ![e].at = "lost"]
  /\ UNCHANGED <<unheard, hasty>>

(***************************************************************************)
(* POST /experiments/:id/tasks/adopt: the tasks of a call one by one.      *)
(***************************************************************************)
\* Mutant: the source grid keeps the task.
LeavesBehind(x, t) == IF t = NoRun THEN x ELSE x

\* removeTaskFromGrid, and the source experiment with it.
Leaves(x, t) ==
  LET f == run[t].grid
  IN  IF f = NoExp \/ ~GridExists(f) THEN x
      ELSE LET ids == x[f].ids \ {t}
           IN  [x EXCEPT ![f].ids = ids,
                         ![f].refs = IF run[t].member /\ x[f].at = "there" THEN @ \ {t} ELSE @,
                         ![f].status = IF run[t].member /\ x[f].at = "there"
                                       THEN StatusOf(run, {u \in ids : Exists(run, u)}) ELSE @]

Joins(x, t, e) ==
  [x EXCEPT ![e].ids = @ \cup {t}, ![e].refs = @ \cup {t},
            ![e].status = StatusOf(run, GridTasks(run, e) \cup {t})]

\* A source that is not looked at again: it has no task left in its list, or the
\* task did not name the experiment.
LeftUnheard(t, e) ==
  LET f == run[t].grid
  IN  IF f \in {NoExp, e} \/ (run[t].member /\ \E u \in exp[f].ids \ {t} : Exists(run, u)) THEN {} ELSE {f}

Attach(t, e) ==
  /\ Meddle /\ exp[e].at = "there" /\ Exists(run, t)
  /\ run[t].grid \in {NoExp, e}
  /\ run' = [run EXCEPT ![t].grid = e, ![t].member = TRUE]
  /\ exp' = Joins(exp, t, e)
  /\ unheard' = unheard \ {e} /\ hasty' = hasty \ {e}

Move(t, e) ==
  /\ Meddle /\ exp[e].at = "there" /\ Exists(run, t) /\ run[t].grid # e
  /\ run' = [run EXCEPT ![t].grid = e, ![t].member = TRUE]
  /\ exp' = Joins(Leaves(exp, t), t, e)
  /\ unheard' = (unheard \ {e}) \cup LeftUnheard(t, e) /\ hasty' = hasty \ {e}

\* A crash in a move: after the source grid, after the source, after the task, or
\* before the destination.
MoveCut(t, e) ==
  /\ Meddle /\ exp[e].at = "there" /\ Exists(run, t) /\ run[t].grid # e
  /\ unheard' = unheard \cup LeftUnheard(t, e) \cup {e}
  /\ \/ exp' = Leaves(exp, t) /\ UNCHANGED run
     \/ run' = [run EXCEPT ![t].grid = e, ![t].member = TRUE]
        /\ exp' \in {Leaves(exp, t), [Leaves(exp, t) EXCEPT ![e].ids = @ \cup {t}]}
  /\ UNCHANGED hasty

(***************************************************************************)
(* The course of a task.                                                   *)
(***************************************************************************)
Put(t, status) == [run EXCEPT ![t].status = status]

StartRun(t) ==
  /\ run[t].status \in {"blocked", "pending"}
  /\ run' = Put(t, IF run[t].status = "blocked" THEN "pending" ELSE "live")
  /\ UNCHANGED <<exp, unheard, hasty, expLeft>>

\* task.eval.
Eval(t) ==
  /\ run[t].status = "live" /\ run[t].grid # NoExp /\ exp[run[t].grid].at = "there"
  /\ \E result \in {"passed", "missed"} :
       exp' = Rederived(run, [exp EXCEPT ![run[t].grid].result[t] = result], run[t].grid)
  /\ UNCHANGED <<run, unheard, hasty, expLeft>>

Heard(e) == unheard' = unheard \ {e} /\ hasty' = hasty \ {e}

RunCompleted(t) ==
  /\ run[t].status = "live"
  /\ run' = Put(t, "completed")
  /\ exp' = Looked(run', run[t].grid) /\ Heard(run[t].grid)
  /\ UNCHANGED expLeft

\* cascadeCancellation, for any of the blocked tasks of the grid.
CancelledIn(r, S) == [t \in Runs |-> IF t \in S THEN [r[t] EXCEPT !.status = "cancelled"] ELSE r[t]]
BlockedWith(t) == {u \in GridTasks(run, run[t].grid) : run[u].status = "blocked" /\ run[t].grid # NoExp}

\* A cooperative stop: first the cascade, then checkGridCompletion.
RunStopped(t) ==
  /\ run[t].status = "live"
  /\ \E S \in SUBSET BlockedWith(t) : run' = CancelledIn(Put(t, "cancelled"), S)
  /\ exp' = Looked(run', run[t].grid) /\ Heard(run[t].grid)
  /\ UNCHANGED expLeft

\* task.failed with no retry, or a kill: first checkGridCompletion, then the cascade.
RunFailed(t) ==
  /\ run[t].status = "live"
  /\ \E S \in SUBSET BlockedWith(t), status \in {"failed", "cancelled"} :
       /\ run' = CancelledIn(Put(t, status), S)
       /\ exp' = Looked(Put(t, status), run[t].grid)
       /\ unheard' = unheard \ {run[t].grid}
       /\ hasty' = IF S = {} THEN hasty \ {run[t].grid} ELSE hasty \cup {run[t].grid}
  /\ UNCHANGED expLeft

Root(t) == IF run[t].root = NoRun THEN t ELSE run[t].root
Busy(u) == run[u].status \in {"pending", "live"}

\* createRetryTask: a copy with the grid and the experiment of the old one.
Copy(t) == [run[t] EXCEPT !.status = "pending", !.root = Root(t)]

\* handleTaskFailed with a retry, unless one is active already.
RunRetried(t) ==
  /\ Meddle /\ run[t].status = "live"
  /\ \A u \in Runs \ {t} : Busy(u) => run[u].root \notin {Root(t), t}
  /\ \E u \in Runs : NewRuns({u}, 1) /\ run' = [run EXCEPT ![t].status = "failed", ![u] = Copy(t)]
  /\ UNCHANGED <<exp, unheard, hasty>>

\* An end that passes checkGridCompletion by: disappeared at resume, cancelled by
\* the API, timed out.
EndsUntold(t) ==
  /\ Meddle /\ run[t].status \in {"blocked", "pending", "live"}
  /\ \E status \in {"failed", "cancelled"} : run' = Put(t, status)
  /\ unheard' = unheard \cup ({run[t].grid} \ {NoExp})
  /\ UNCHANGED <<exp, hasty>>

(***************************************************************************)
(* Requests about tasks and experiments.                                   *)
(***************************************************************************)
\* POST /tasks/:id/retry.
RetryRun(t) ==
  /\ Meddle /\ Final(run, t)
  /\ \A u \in Runs \ {t} : Busy(u) => run[u].root \notin {Root(t), t} /\ u # Root(t)
  /\ \E u \in Runs : NewRuns({u}, 1) /\ run' = [run EXCEPT ![u] = Copy(t)]
  /\ UNCHANGED <<exp, unheard, hasty>>

\* POST /tasks/:id/replace and /reschedule: not retries, and in no list of the
\* grid; a replacement takes the ref.
ReplaceRun(t) ==
  /\ Meddle /\ Exists(run, t)
  /\ \E u \in Runs, canonical \in BOOLEAN :
       /\ NewRuns({u}, 1) /\ (~canonical => ~Final(run, t))
       /\ run' = [run EXCEPT ![u] = [run[t] EXCEPT !.status = "pending", !.root = NoRun],
                             ![t].status = IF @ \in {"blocked", "pending"} THEN "cancelled" ELSE @]
       /\ exp' = [e \in Exps |-> IF canonical /\ exp[e].at = "there" /\ run[t].member /\ run[t].grid = e /\ t \in exp[e].refs
                                 THEN [exp[e] EXCEPT !.refs = (@ \ {t}) \cup {u}] ELSE exp[e]]
  /\ UNCHANGED <<unheard, hasty>>

RequeueRun(t) ==
  /\ Meddle /\ Final(run, t)
  /\ run' = Put(t, "pending")
  /\ UNCHANGED <<exp, unheard, hasty>>

DeleteRun(t) ==
  /\ Meddle /\ Final(run, t)
  /\ run' = Put(t, "deleted")
  /\ UNCHANGED <<exp, unheard, hasty>>

\* POST /experiments/:id/retry-failed and /grids/:id/retry-failed: a new attempt of
\* each task of the grid that failed, those retried before included.
Retried(e, S, copy, clear) ==
  /\ S # {} /\ NewRuns({copy[t] : t \in S}, Cardinality(S))
  /\ run' = [u \in Runs |-> IF \E t \in S : copy[t] = u THEN Copy(CHOOSE t \in S : copy[t] = u) ELSE run[u]]
  /\ exp' = [exp EXCEPT ![e].ids = (@ \ S) \cup {copy[t] : t \in S \cap exp[e].ids},
                        ![e].result = [t \in Runs |-> IF clear /\ t \in S THEN "none" ELSE @[t]]]
  /\ UNCHANGED <<unheard, hasty>>

RetryFailed(e) ==
  /\ Meddle /\ exp[e].at = "there"
  /\ LET S == {t \in GridTasks(run, e) : run[t].status = "failed" \/ exp[e].result[t] = "missed"}
     IN  \E copy \in [S -> Runs] : Retried(e, S, copy, TRUE)

GridRetryFailed(e) ==
  /\ Meddle /\ GridExists(e)
  /\ LET S == {t \in GridTasks(run, e) : run[t].status \in {"failed", "cancelled"}}
     IN  \E copy \in [S -> Runs] : Retried(e, S, copy, FALSE)

\* POST /grids/:id/cancel: pending tasks at once, running ones by the kill chain,
\* blocked ones not at all.
CancelGrid(e) ==
  /\ Meddle /\ GridExists(e)
  /\ \E t \in GridTasks(run, e) : run[t].status = "pending"
  /\ run' = CancelledIn(run, {t \in GridTasks(run, e) : run[t].status = "pending"})
  /\ unheard' = unheard \cup {e}
  /\ UNCHANGED <<exp, hasty>>

DeleteExperiment(e) ==
  /\ Meddle /\ exp[e].at = "there"
  /\ exp' = [exp EXCEPT ![e] = [NoExperiment EXCEPT !.at = "deleted", !.ids = exp[e].ids]]
  /\ UNCHANGED <<run, unheard, hasty>>

\* GET /experiments/:id/status-snapshot, which stores what it derives.
StatusSnapshot(e) ==
  /\ exp[e].at = "there" /\ Rederived(run, exp, e) # exp
  /\ exp' = Rederived(run, exp, e) /\ Heard(e)
  /\ UNCHANGED <<run, expLeft>>

ExperimentNext ==
  \/ \E t \in Runs :
       \/ SubmitRun(t) \/ StartRun(t) \/ Eval(t) \/ RunCompleted(t) \/ RunStopped(t) \/ RunFailed(t)
       \/ RunRetried(t) \/ EndsUntold(t) \/ RetryRun(t) \/ ReplaceRun(t) \/ RequeueRun(t) \/ DeleteRun(t)
       \/ \E e \in Exps : Attach(t, e) \/ Move(t, e) \/ MoveCut(t, e)
  \/ \E e \in Exps :
       \/ SubmitExperiment(e) \/ SubmitMatrix(e) \/ SubmitGrid(e) \/ Adopt(e) \/ RetryFailed(e)
       \/ GridRetryFailed(e) \/ CancelGrid(e) \/ DeleteExperiment(e) \/ StatusSnapshot(e)

ExperimentSpec == ExperimentInit /\ [][ExperimentNext]_expVars

(***************************************************************************)
(* Properties.                                                             *)
(***************************************************************************)
\* A task is at home in one grid: whatever lists it, as a task of a grid or by a
\* ref, agrees with the task, through retries, replacements and moves, and after
\* a crash between any two writes of them (api/experiments.ts:1084-1301).
OneGridPerRun ==
  \A e \in Exps : \A t \in exp[e].ids \cup exp[e].refs :
    run[t].grid = e \/ run[t].status = "deleted"

AllFinal(e) ==
  /\ exp[e].at = "there" /\ GridTasks(run, e) # {}
  /\ \A t \in GridTasks(run, e) : Final(run, t)

\* When the last task of an experiment has ended its stored status says so, if
\* it was told of every end; no retry, move or evaluation in between makes it
\* miss the last one (stub.ts:230-240, api/experiments.ts:73-110).
SettledIsStored ==
  \A e \in Exps \ (unheard \cup hasty) : AllFinal(e) => exp[e].status # "running"

\* "Cancel every task downstream, then update the experiment's status"
\* (docs/experiment-sdk-design.md:423-433, onTaskFailed).
StatusAfterCascade == \A e \in Exps \ unheard : AllFinal(e) => exp[e].status # "running"
=============================================================================
