------------------------------ MODULE Campaign ------------------------------
(***************************************************************************)
(* A capacity campaign of the server: acquire a SLURM allocation, wait for *)
(* its stub, smoke test it, submit a frozen DAG, wait, drain, release and  *)
(* close out; or fail, and clean up what it owns.                          *)
(*                                                                         *)
(* A reconcile pass reads the campaign row, does one side effect, and      *)
(* writes the row if it is still the one it read.  The passes of the       *)
(* serial loop and of POST .../start and .../reconcile interleave at every *)
(* await, with operators, tasks, the SLURM job and restarts of the server. *)
(* One action below is what runs between two awaits of a pass.             *)
(*                                                                         *)
(* The side effects (CampaignSideEffects) have no implementation in the    *)
(* repository: they are modelled as external, by what the driver demands   *)
(* of them; each may have its effect, answer, or fail, in that order.      *)
(***************************************************************************)
EXTENDS Naturals, FiniteSets

CONSTANTS
  Passes,       \* the reconcile passes that may run at the same time
  Loop,         \* the one startCampaignReconciler runs
  Dag,          \* the tasks of the frozen DAG
  MaxAttempts,  \* max_attempts of the campaign
  Budget        \* bound: restarts, advances, dropped stubs and foreign tasks, in all

ASSUME CampaignAssumption ==
  /\ Loop \in Passes
  /\ "smoke" \notin Dag /\ "other" \notin Dag
  /\ MaxAttempts \in Nat \ {0}
  /\ Budget \in Nat

VARIABLES
  campaign,    \* the campaign row
  allocation,  \* its allocation row and the SLURM job behind it
  tasks,       \* the tasks bound to the campaign's lease
  pass,        \* where each reconcile pass awaits
  expired,     \* max_runtime_seconds have passed
  cut,         \* history: a restart has cut an acquire off
  left         \* what is left of Budget

vars == <<campaign, allocation, tasks, pass, expired, cut, left>>

States == {"acquire", "wait_stub", "cuda_smoke", "submit_dag", "wait_dag",
           "drain", "release", "closeout", "completed", "failed"}

\* The references the row has been given, the attempts used, cleanup_required.
CampaignRow == [state : States, alloc : BOOLEAN, stub : BOOLEAN, smoke : BOOLEAN,
                dag : BOOLEAN, attempts : 0..MaxAttempts, cleanup : BOOLEAN]

\* The row is terminal (released, failed) when its job has ended.  A stub is
\* draining when its max_concurrent is 0.
AllocationRow == [state : {"none", "active", "terminal"}, pinned : BOOLEAN,
                  stub : {"none", "online", "offline"}, draining : BOOLEAN]

\* "other" is a task some user has bound to the campaign's lease.
Tasks == {"smoke", "other"} \cup Dag
TaskState == {"none", "pending", "running", "completed", "failed"}

\* Where a pass awaits, why it cleans up, whether the row it read is still the
\* one in the store (state, history and updated_at unchanged); and, for a
\* property only, whether the stub was draining when it called release.
Places == {"idle", "acquire", "smoke", "dag", "drain", "release",
           "cleanup_drain", "cleanup_release"}
Pass == [at : Places, why : {"step", "fail", "again"}, fresh : BOOLEAN, barred : BOOLEAN]
Idle == [at |-> "idle", why |-> "step", fresh |-> TRUE, barred |-> FALSE]

TypeOK ==
  /\ campaign \in CampaignRow
  /\ allocation \in AllocationRow
  /\ tasks \in [Tasks -> TaskState]
  /\ pass \in [Passes -> Pass]
  /\ expired \in BOOLEAN /\ cut \in BOOLEAN
  /\ left \in Nat

Init ==
  /\ campaign = [state |-> "acquire", alloc |-> FALSE, stub |-> FALSE, smoke |-> FALSE,
                 dag |-> FALSE, attempts |-> 0, cleanup |-> FALSE]
  /\ allocation = [state |-> "none", pinned |-> FALSE, stub |-> "none", draining |-> FALSE]
  /\ tasks = [t \in Tasks |-> "none"]
  /\ pass = [r \in Passes |-> Idle]
  /\ expired = FALSE /\ cut = FALSE
  /\ left = Budget

Spend == left > 0 /\ left' = left - 1

Held == allocation.state = "active"
ActiveTasks == {t \in Tasks : tasks[t] \in {"pending", "running"}}
DagCompleted == \A d \in Dag : tasks[d] = "completed"

(***************************************************************************)
(* Writing the row.  A pass that ends goes idle; every write makes what    *)
(* the other passes have read stale.                                       *)
(***************************************************************************)
Stale(p) == IF p.at = "idle" THEN p ELSE [p EXCEPT !.fresh = FALSE]

Write(r, row) ==
  /\ campaign' = row
  /\ pass' = [q \in Passes |-> IF q = r THEN Idle ELSE Stale(pass[q])]

WriteByOperator(row) ==
  /\ campaign' = row
  /\ pass' = [q \in Passes |-> Stale(pass[q])]

Stop(r) == pass' = [pass EXCEPT ![r] = Idle] /\ UNCHANGED campaign

Await(r, at, why) ==
  /\ pass' = [pass EXCEPT ![r] = [at |-> at, why |-> why, fresh |-> pass[r].fresh,
        barred |-> at \in {"release", "cleanup_release"} /\ allocation.draining]]
  /\ UNCHANGED campaign

\* Mutant: update() without the comparison with the row in the store.
UpdateAnyway(r, row) == Write(r, row)

\* update(): the write is dropped if the row has changed since it was read.
Update(r, row) == IF pass[r].fresh THEN Write(r, row) ELSE Stop(r)

(***************************************************************************)
(* driver.cleanup and its two callers: fail(), and the pass over a failed  *)
(* campaign that still owes a cleanup.                                     *)
(***************************************************************************)
EndCleanup(r, why, outcome) ==
  CASE why = "fail" ->
         Update(r, [campaign EXCEPT !.state = "failed", !.cleanup = outcome # "cleaned"])
    [] why = "again" /\ outcome = "cleaned" -> Write(r, [campaign EXCEPT !.cleanup = FALSE])
    [] why = "again" /\ outcome = "incomplete" -> Stop(r)
    [] why = "again" /\ outcome = "error" -> Write(r, campaign)  \* last_error

Cleanup(r, why) ==
  \/ ~Held /\ EndCleanup(r, why, "cleaned")
  \/ Held /\ allocation.pinned /\ EndCleanup(r, why, "error")
  \/ Held /\ ~allocation.pinned /\ Await(r, "cleanup_drain", why)

Fail(r) == IF pass[r].fresh THEN Cleanup(r, "fail") ELSE Stop(r)

\* Mutant: attempts are counted and not limited.
CatchForever(r, ambiguous) ==
  IF pass[r].fresh /\ campaign.state # "failed"
  THEN Write(r, [campaign EXCEPT !.attempts = @ + 1]) ELSE Stop(r)

\* The catch block of reconcileCampaign.  The last disjunct of the first
\* group is requireOwnedAllocation throwing out of the block.
Catch(r, ambiguous) ==
  LET used == campaign.attempts + 1
      lateAcquire == pass[r].at = "acquire" /\ ambiguous /\ Held
  IN  \/ /\ campaign.state = "failed"
         /\ IF Held THEN Write(r, [campaign EXCEPT !.alloc = TRUE, !.cleanup = TRUE])
                    ELSE Stop(r)
      \/ campaign.state # "failed" /\ ~pass[r].fresh /\ Stop(r)
      \/ /\ campaign.state # "failed" /\ pass[r].fresh /\ lateAcquire
         /\ IF allocation.pinned
            THEN Stop(r)
            ELSE Write(r, [campaign EXCEPT !.state = "wait_stub", !.alloc = TRUE, !.attempts = used])
      \/ /\ campaign.state # "failed" /\ pass[r].fresh /\ ~lateAcquire
         /\ IF used >= MaxAttempts
            THEN Fail(r)
            ELSE Write(r, [campaign EXCEPT !.attempts = used])

(***************************************************************************)
(* A pass begins: the switch of reconcileCampaign up to its first await.   *)
(***************************************************************************)
\* Mutant: a smoke task that has not failed is good enough.
EvaluateSmokeEarly(r) ==
  IF tasks["smoke"] = "failed" THEN Fail(r)
  ELSE Update(r, [campaign EXCEPT !.state = "submit_dag", !.smoke = TRUE])

EvaluateSmoke(r) ==
  CASE tasks["smoke"] = "failed" -> Fail(r)
    [] tasks["smoke"] = "completed" ->
         Update(r, [campaign EXCEPT !.state = "submit_dag", !.smoke = TRUE])
    [] OTHER -> IF campaign.smoke THEN Stop(r)
                ELSE Update(r, [campaign EXCEPT !.smoke = TRUE])

ReconcileFailed(r) == campaign.state = "failed" /\ campaign.cleanup /\ Cleanup(r, "again")

\* Mutant: the limit is not looked at once the DAG is done.
LimitBeforeDrain(r) ==
  campaign.state \notin {"completed", "failed", "drain", "release"} /\ expired /\ Fail(r)

RuntimeLimit(r) == campaign.state \notin {"completed", "failed"} /\ expired /\ Fail(r)

Acquire(r) ==
  /\ campaign.state = "acquire"
  /\ IF campaign.attempts + 1 > MaxAttempts THEN Fail(r) ELSE Await(r, "acquire", "step")

\* observeStub: an allocation that ended has taken its stub's binding away.
WaitStub(r) ==
  /\ campaign.state = "wait_stub" /\ allocation.stub # "none"
  /\ \/ Held /\ allocation.stub = "online"
          /\ Write(r, [campaign EXCEPT !.state = "cuda_smoke", !.stub = TRUE])
     \/ ~Held /\ Catch(r, FALSE)

CudaSmoke(r) ==
  /\ campaign.state = "cuda_smoke"
  /\ IF tasks["smoke"] = "none" THEN Await(r, "smoke", "step") ELSE EvaluateSmoke(r)

SubmitDag(r) ==
  /\ campaign.state = "submit_dag"
  /\ IF \A d \in Dag : tasks[d] = "none"
     THEN Await(r, "dag", "step")
     ELSE Write(r, [campaign EXCEPT !.state = "wait_dag", !.dag = TRUE])

WaitDag(r) ==
  /\ campaign.state = "wait_dag"
  /\ \/ (\E d \in Dag : tasks[d] = "failed") /\ Fail(r)
     \/ DagCompleted /\ Write(r, [campaign EXCEPT !.state = "drain"])

Drain(r) ==
  /\ campaign.state = "drain"
  /\ IF allocation.pinned THEN Catch(r, FALSE) ELSE Await(r, "drain", "step")

Release(r) ==
  /\ campaign.state = "release"
  /\ \/ allocation.pinned /\ Catch(r, FALSE)
     \/ ~allocation.pinned /\ ActiveTasks = {} /\ Await(r, "release", "step")

Closeout(r) ==
  /\ campaign.state = "closeout"
  /\ ActiveTasks = {} /\ allocation.state = "terminal" /\ DagCompleted
  /\ Write(r, [campaign EXCEPT !.state = "completed"])

Begin(r) ==
  /\ pass[r].at = "idle"
  /\ \/ ReconcileFailed(r)
     \/ RuntimeLimit(r)
     \/ ~expired /\ \/ Acquire(r) \/ WaitStub(r) \/ CudaSmoke(r) \/ SubmitDag(r)
                    \/ WaitDag(r) \/ Drain(r) \/ Release(r) \/ Closeout(r)
  /\ UNCHANGED <<allocation, tasks, expired, cut, left>>

(***************************************************************************)
(* The effects of the driver's calls, external to the repository.          *)
(***************************************************************************)
\* A job that ends takes the running tasks with it: some are queued again.
AllocationEnds ==
  /\ Held
  /\ allocation' = [allocation EXCEPT !.state = "terminal",
                                      !.stub = IF @ = "none" THEN @ ELSE "offline"]
  /\ \E lost \in SUBSET {t \in Tasks : tasks[t] = "running"} :
       tasks' = [t \in Tasks |-> IF t \in lost THEN "failed"
                                 ELSE IF tasks[t] = "running" THEN "pending" ELSE tasks[t]]

AcquireLands(r) ==
  /\ pass[r].at = "acquire" /\ allocation.state = "none"
  /\ \E pinned \in BOOLEAN :
       allocation' = [allocation EXCEPT !.state = "active", !.pinned = pinned]
  /\ UNCHANGED <<campaign, tasks, pass, expired, cut, left>>

SmokeLands(r) ==
  /\ pass[r].at = "smoke" /\ tasks["smoke"] = "none"
  /\ tasks' = [tasks EXCEPT !["smoke"] = "pending"]
  /\ UNCHANGED <<campaign, allocation, pass, expired, cut, left>>

DagLands(r) ==
  /\ pass[r].at = "dag" /\ \A d \in Dag : tasks[d] = "none"
  /\ tasks' = [t \in Tasks |-> IF t \in Dag THEN "pending" ELSE tasks[t]]
  /\ UNCHANGED <<campaign, allocation, pass, expired, cut, left>>

DrainLands(r) ==
  /\ pass[r].at \in {"drain", "cleanup_drain"} /\ allocation.stub # "none"
  /\ ~allocation.draining
  /\ allocation' = [allocation EXCEPT !.draining = TRUE]
  /\ UNCHANGED <<campaign, tasks, pass, expired, cut, left>>

ReleaseLands(r) ==
  /\ pass[r].at \in {"release", "cleanup_release"}
  /\ AllocationEnds
  /\ UNCHANGED <<campaign, pass, expired, cut, left>>

(***************************************************************************)
(* The calls answer, and the pass goes on to its next await or its end.    *)
(***************************************************************************)
Unmoved == UNCHANGED <<allocation, tasks, expired, cut, left>>

\* Mutant: a stale pass drops the allocation it was given.
AcquireAnswersBlindly(r) ==
  /\ pass[r].at = "acquire" /\ allocation.state # "none"
  /\ Update(r, [campaign EXCEPT !.state = "wait_stub", !.alloc = TRUE, !.attempts = @ + 1])
  /\ Unmoved

AcquireAnswers(r) ==
  /\ pass[r].at = "acquire" /\ allocation.state # "none"
  /\ CASE allocation.pinned -> Catch(r, FALSE)
       [] ~allocation.pinned /\ pass[r].fresh ->
            Write(r, [campaign EXCEPT !.state = "wait_stub", !.alloc = TRUE, !.attempts = @ + 1])
       [] ~allocation.pinned /\ ~pass[r].fresh /\ campaign.state = "failed" ->
            Write(r, [campaign EXCEPT !.alloc = TRUE, !.cleanup = TRUE])
       [] OTHER -> Stop(r)
  /\ Unmoved

SmokeAnswers(r) ==
  /\ pass[r].at = "smoke" /\ tasks["smoke"] # "none"
  /\ EvaluateSmoke(r)
  /\ Unmoved

DagAnswers(r) ==
  /\ pass[r].at = "dag" /\ \A d \in Dag : tasks[d] # "none"
  /\ Update(r, [campaign EXCEPT !.state = "wait_dag", !.dag = TRUE])
  /\ Unmoved

Drained == allocation.stub = "none" \/ allocation.draining

DrainAnswers(r) ==
  /\ pass[r].at = "drain" /\ Drained
  /\ IF ActiveTasks = {} THEN Update(r, [campaign EXCEPT !.state = "release"]) ELSE Stop(r)
  /\ Unmoved

ReleaseAnswers(r) ==
  /\ pass[r].at = "release"
  /\ IF allocation.state = "terminal" THEN Update(r, [campaign EXCEPT !.state = "closeout"])
                                      ELSE Stop(r)
  /\ Unmoved

CleanupDrainAnswers(r) ==
  /\ pass[r].at = "cleanup_drain" /\ Drained
  /\ IF ActiveTasks # {} THEN EndCleanup(r, pass[r].why, "incomplete")
                         ELSE Await(r, "cleanup_release", pass[r].why)
  /\ Unmoved

CleanupReleaseAnswers(r) ==
  /\ pass[r].at = "cleanup_release"
  /\ EndCleanup(r, pass[r].why, IF Held THEN "incomplete" ELSE "cleaned")
  /\ Unmoved

CallFails(r) ==
  /\ \/ pass[r].at = "acquire" /\ \E ambiguous \in BOOLEAN : Catch(r, ambiguous)
     \/ pass[r].at \in {"smoke", "dag", "drain", "release"} /\ Catch(r, FALSE)
     \/ pass[r].at \in {"cleanup_drain", "cleanup_release"}
          /\ EndCleanup(r, pass[r].why, "error")
  /\ Unmoved

Answered(r) ==
  \/ AcquireAnswers(r) \/ SmokeAnswers(r) \/ DagAnswers(r) \/ DrainAnswers(r)
  \/ ReleaseAnswers(r) \/ CleanupDrainAnswers(r) \/ CleanupReleaseAnswers(r) \/ CallFails(r)

(***************************************************************************)
(* The operator, the server, the platform.                                 *)
(***************************************************************************)
CancelCampaign ==
  /\ campaign.state \notin {"completed", "failed"}
  /\ WriteByOperator([campaign EXCEPT !.state = "failed", !.cleanup = Held])
  /\ UNCHANGED <<allocation, tasks, expired, cut, left>>

\* POST .../advance takes any campaign, a completed one too, to "failed".
AdvanceToFailed ==
  /\ campaign.state # "failed" /\ Spend
  /\ WriteByOperator([campaign EXCEPT !.state = "failed", !.cleanup = Held])
  /\ UNCHANGED <<allocation, tasks, expired, cut>>

RestartServer ==
  /\ Spend
  /\ pass' = [r \in Passes |-> Idle]
  /\ cut' = (cut \/ \E r \in Passes : pass[r].at = "acquire")
  /\ UNCHANGED <<campaign, allocation, tasks, expired>>

RuntimePasses == ~expired /\ expired' = TRUE /\ UNCHANGED <<campaign, allocation, tasks, pass, cut, left>>

\* Walltime, or the job ends by itself.
JobEnds == AllocationEnds /\ UNCHANGED <<campaign, pass, expired, cut, left>>

StubRegisters ==
  /\ Held /\ allocation.stub # "online"
  /\ allocation' = [allocation EXCEPT !.stub = "online"]
  /\ UNCHANGED <<campaign, tasks, pass, expired, cut, left>>

StubDrops ==
  /\ allocation.stub = "online" /\ Spend
  /\ allocation' = [allocation EXCEPT !.stub = "offline"]
  /\ UNCHANGED <<campaign, tasks, pass, expired, cut>>

TaskMoves(t, from, to) ==
  /\ tasks[t] = from /\ tasks' = [tasks EXCEPT ![t] = to]
  /\ UNCHANGED <<campaign, allocation, pass, expired, cut>>

OtherSubmitted == Spend /\ TaskMoves("other", "none", "pending")

\* Mutant: a draining stub is given work.
DispatchAnyway(t) ==
  Held /\ allocation.stub = "online" /\ TaskMoves(t, "pending", "running") /\ UNCHANGED left

Dispatch(t) ==
  /\ Held /\ allocation.stub = "online" /\ ~allocation.draining
  /\ TaskMoves(t, "pending", "running") /\ UNCHANGED left

TaskEnds(t) ==
  /\ \/ TaskMoves(t, "running", "completed")
     \/ \E from \in {"running", "pending"} : TaskMoves(t, from, "failed")
  /\ UNCHANGED left

Next ==
  \/ \E r \in Passes : \/ Begin(r) \/ Answered(r)
                       \/ AcquireLands(r) \/ SmokeLands(r) \/ DagLands(r)
                       \/ DrainLands(r) \/ ReleaseLands(r)
  \/ CancelCampaign \/ AdvanceToFailed \/ RestartServer \/ RuntimePasses
  \/ JobEnds \/ StubRegisters \/ StubDrops \/ OtherSubmitted
  \/ \E t \in Tasks : Dispatch(t) \/ TaskEnds(t)

Spec == Init /\ [][Next]_vars

\* The loop's timer fires, its calls end, time passes, and jobs have a walltime.
Fairness ==
  WF_vars(Begin(Loop)) /\ WF_vars(Answered(Loop)) /\ WF_vars(RuntimePasses) /\ WF_vars(JobEnds)

FairSpec == Spec /\ Fairness

(***************************************************************************)
(* Properties.                                                             *)
(***************************************************************************)
\* A failed campaign that owes no cleanup holds no allocation, except while a
\* pass still awaits the acquire that will tell it, or after a restart has cut
\* such a pass off (campaigns/reconciler.ts:25-33, 178-195).
ObligationKept ==
  campaign.state = "failed" /\ ~campaign.cleanup /\ Held /\ ~cut
    => \E r \in Passes : pass[r].at = "acquire"

\* The frozen DAG is submitted only after its smoke test has completed, whatever
\* passes, restarts and cancellations interleave (reconciler.ts:131-143).
SmokeBeforeDag ==
  (\E d \in Dag : tasks[d] # "none") => tasks["smoke"] = "completed"

\* A release called on a stub that drains never kills a running task: the check
\* for active tasks follows the drain, and a draining stub is given no work
\* (production-driver.ts:179-235).
ReleaseSparesWork ==
  [][\A r \in Passes : ReleaseLands(r) /\ pass[r].barred
       => \A t \in Tasks : tasks[t] # "running"]_vars

\* The reconciler implements the promise of CampaignLifecycle.
Lifecycle == INSTANCE CampaignLifecycle
               WITH phase <- campaign.state, owes <- campaign.cleanup, holds <- Held
ImplementsCampaignLifecycle == Lifecycle!Spec

\* Every campaign ends: completed, or failed with nothing left to clean up
\* (reconciler.ts:214-247).
Over == campaign.state = "completed" \/ (campaign.state = "failed" /\ ~campaign.cleanup)
EveryCampaignEnds == <>[]Over
=============================================================================
