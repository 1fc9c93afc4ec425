---------------------------- MODULE CampaignProofs ----------------------------
(***************************************************************************)
(* Proofs about Campaign, for any number of passes, attempts and faults:   *)
(* its types, that no allocation is forgotten (ObligationKept), that the   *)
(* DAG comes after its smoke test (SmokeBeforeDag), that a release cuts    *)
(* nothing off (ReleaseSparesWork), and that the reconciler implements     *)
(* CampaignLifecycle.                                                      *)
(*                                                                         *)
(* Whatever a pass does between two awaits is one of three things: it      *)
(* stops, it awaits the next call, or it writes the row (PassStep).  The   *)
(* lemmas on the way say so of each part of the reconciler, and what the   *)
(* three may do is said once.                                              *)
(***************************************************************************)
EXTENDS Campaign, TLAPS

NoneRunning == \A t \in Tasks : tasks[t] # "running"

\* What is true of a pass that awaits, and of the campaign if its row is still fresh.
Fits(p) ==
  /\ p.at = "idle" => p = Idle
  /\ p.at \in {"cleanup_drain", "cleanup_release"} =>
       /\ p.why \in {"fail", "again"}
       /\ p.why = "again" => campaign.state = "failed"
       /\ p.why = "fail" /\ p.fresh => campaign.state # "failed"
  /\ p.fresh /\ p.at = "acquire" => campaign.state = "acquire" /\ campaign.attempts < MaxAttempts
  /\ p.fresh /\ p.at = "smoke" => campaign.state = "cuda_smoke"
  /\ p.fresh /\ p.at = "dag" => campaign.state = "submit_dag"
  /\ p.fresh /\ p.at = "drain" => campaign.state = "drain"
  /\ p.fresh /\ p.at = "release" => campaign.state = "release"
  /\ p.at = "dag" => tasks["smoke"] = "completed"
  /\ p.barred => allocation.draining /\ NoneRunning

PassesFit == \A r \in Passes : Fits(pass[r])

SmokeFits == campaign.state = "submit_dag" => tasks["smoke"] = "completed"

CampaignInv == TypeOK /\ PassesFit /\ SmokeFits /\ ObligationKept /\ SmokeBeforeDag

(***************************************************************************)
(* What a pass may do.                                                     *)
(***************************************************************************)
\* The pass is not the one that has to tell a failed campaign of its allocation.
Spared(r) == pass[r].at = "acquire" /\ campaign.state = "failed" /\ Held => campaign.cleanup

\* The moves of the row that CampaignLifecycle allows.
Successor == {<<"acquire", "wait_stub">>, <<"wait_stub", "cuda_smoke">>, <<"cuda_smoke", "submit_dag">>,
              <<"submit_dag", "wait_dag">>, <<"wait_dag", "drain">>, <<"drain", "release">>,
              <<"release", "closeout">>}
Moves(row) ==
  \/ row.state = campaign.state /\ row.cleanup = campaign.cleanup
  \/ <<campaign.state, row.state>> \in Successor /\ row.cleanup = campaign.cleanup
  \/ campaign.state = "closeout" /\ ~Held /\ row.state = "completed" /\ row.cleanup = campaign.cleanup
  \/ campaign.state # "failed" /\ row.state = "failed" /\ (Held => row.cleanup)
  \/ campaign.state = "failed" /\ row.state = "failed" /\ row.cleanup
  \/ campaign.state = "failed" /\ row.state = "failed" /\ ~Held /\ ~row.cleanup

Good(r, row) ==
  /\ row \in CampaignRow /\ Moves(row)
  /\ row.state = "submit_dag" => tasks["smoke"] = "completed"
  /\ pass[r].at = "acquire" /\ row.state = "failed" /\ Held => row.cleanup

PassStep(r) ==
  \/ Stop(r) /\ Spared(r)
  \/ \E at \in Places \ {"idle"}, why \in {"step", "fail", "again"} :
       /\ Await(r, at, why) /\ Spared(r)
       /\ Fits([at |-> at, why |-> why, fresh |-> pass[r].fresh,
                barred |-> at \in {"release", "cleanup_release"} /\ allocation.draining])
  \/ \E row : Write(r, row) /\ Good(r, row)

(***************************************************************************)
(* Each part of the reconciler does one of the three.                      *)
(***************************************************************************)
\* The row as EXCEPT builds it.
LEMMA Rows ==
  ASSUME TypeOK, NEW s \in States, NEW c \in BOOLEAN
  PROVE  /\ [campaign EXCEPT !.state = s, !.cleanup = c] \in CampaignRow
         /\ [campaign EXCEPT !.state = s, !.cleanup = c].state = s
         /\ [campaign EXCEPT !.state = s, !.cleanup = c].cleanup = c
         /\ [campaign EXCEPT !.cleanup = c] \in CampaignRow
         /\ [campaign EXCEPT !.cleanup = c].state = campaign.state
         /\ [campaign EXCEPT !.cleanup = c].cleanup = c
         /\ [campaign EXCEPT !.alloc = TRUE, !.cleanup = c] \in CampaignRow
         /\ [campaign EXCEPT !.alloc = TRUE, !.cleanup = c].state = campaign.state
         /\ [campaign EXCEPT !.alloc = TRUE, !.cleanup = c].cleanup = c
         /\ campaign \in CampaignRow
BY DEF TypeOK, CampaignRow

\* A call may be awaited if what holds of such a pass holds of it.
LEMMA AwaitSteps ==
  ASSUME NEW r \in Passes, NEW at \in Places \ {"idle"}, NEW why \in {"step", "fail", "again"},
         Await(r, at, why), Spared(r),
         at \in {"cleanup_drain", "cleanup_release"} =>
           /\ why \in {"fail", "again"}
           /\ why = "again" => campaign.state = "failed"
           /\ why = "fail" /\ pass[r].fresh => campaign.state # "failed",
         at = "acquire" => campaign.state = "acquire" /\ campaign.attempts < MaxAttempts,
         at = "smoke" => campaign.state = "cuda_smoke",
         at = "dag" => campaign.state = "submit_dag" /\ tasks["smoke"] = "completed",
         at = "drain" => campaign.state = "drain",
         at = "release" => campaign.state = "release",
         at \in {"release", "cleanup_release"} => NoneRunning
  PROVE  PassStep(r)
<1> DEFINE p == [at |-> at, why |-> why, fresh |-> pass[r].fresh,
                 barred |-> at \in {"release", "cleanup_release"} /\ allocation.draining]
<1>1. /\ p.at = at /\ p.why = why /\ p.fresh = pass[r].fresh
      /\ p.barred = (at \in {"release", "cleanup_release"} /\ allocation.draining)
  OBVIOUS
<1> HIDE DEF p
<1>2. Fits(p)
  BY <1>1 DEF Fits
<1> QED BY <1>2 DEF PassStep, p

\* An attempt is counted.
LEMMA Counted ==
  ASSUME TypeOK, campaign.attempts < MaxAttempts
  PROVE  LET row == [campaign EXCEPT !.state = "wait_stub", !.alloc = TRUE, !.attempts = campaign.attempts + 1]
         IN  row \in CampaignRow /\ row.state = "wait_stub" /\ row.cleanup = campaign.cleanup
<1>1. campaign.attempts + 1 \in 0..MaxAttempts
  BY CampaignAssumption DEF TypeOK, CampaignRow
<1> QED BY <1>1 DEF TypeOK, CampaignRow, States

\* driver.cleanup ends: an allocation that is held stays owed.
LEMMA EndCleanupSteps ==
  ASSUME CampaignInv, NEW r \in Passes, NEW why \in {"fail", "again"},
         NEW outcome \in {"cleaned", "incomplete", "error"}, EndCleanup(r, why, outcome),
         why = "fail" /\ pass[r].fresh => campaign.state # "failed",
         why = "again" => campaign.state = "failed",
         outcome = "cleaned" => ~Held, Spared(r)
  PROVE  PassStep(r)
<1>1. CASE why = "fail"
  <2> DEFINE row == [campaign EXCEPT !.state = "failed", !.cleanup = outcome # "cleaned"]
  <2>1. row \in CampaignRow /\ row.state = "failed" /\ row.cleanup = (outcome # "cleaned")
    BY Rows DEF CampaignInv, States
  <2>2. Update(r, row)
    BY <1>1 DEF EndCleanup
  <2> HIDE DEF row
  <2>3. CASE pass[r].fresh
    BY <1>1, <2>1, <2>2, <2>3 DEF PassStep, Good, Moves, Update
  <2>4. CASE ~pass[r].fresh
    BY <2>2, <2>4 DEF PassStep, Update
  <2> QED BY <2>3, <2>4
<1>2. CASE why = "again" /\ outcome = "cleaned"
  <2> DEFINE row == [campaign EXCEPT !.cleanup = FALSE]
  <2>1. row \in CampaignRow /\ row.state = "failed" /\ ~row.cleanup
    BY <1>2, Rows DEF CampaignInv, States
  <2>2. Write(r, row)
    BY <1>2 DEF EndCleanup
  <2> HIDE DEF row
  <2> QED BY <1>2, <2>1, <2>2 DEF PassStep, Good, Moves
<1>3. CASE why = "again" /\ outcome = "incomplete"
  BY <1>3 DEF EndCleanup, PassStep
<1>4. CASE why = "again" /\ outcome = "error"
  <2>1. Write(r, campaign) /\ campaign \in CampaignRow
    BY <1>4, Rows DEF EndCleanup, CampaignInv, States
  <2> QED BY <1>4, <2>1 DEF PassStep, Good, Moves, Spared
<1> QED BY <1>1, <1>2, <1>3, <1>4

LEMMA CleanupSteps ==
  ASSUME CampaignInv, NEW r \in Passes, NEW why \in {"fail", "again"}, Cleanup(r, why),
         why = "fail" => campaign.state # "failed",
         why = "again" => campaign.state = "failed", Spared(r)
  PROVE  PassStep(r)
<1>1. CASE EndCleanup(r, why, "cleaned") /\ ~Held
  BY <1>1, EndCleanupSteps
<1>2. CASE EndCleanup(r, why, "error")
  BY <1>2, EndCleanupSteps
<1>3. CASE Await(r, "cleanup_drain", why)
  BY <1>3, AwaitSteps DEF Places
<1> QED BY <1>1, <1>2, <1>3 DEF Cleanup

LEMMA FailSteps ==
  ASSUME CampaignInv, NEW r \in Passes, Fail(r), campaign.state # "failed"
  PROVE  PassStep(r)
<1>1. Spared(r)
  BY DEF Spared
<1> QED BY <1>1, CleanupSteps DEF Fail, PassStep

\* The catch block: a failed campaign is told of an allocation, a late one goes on.
LEMMA CatchSteps ==
  ASSUME CampaignInv, NEW r \in Passes, NEW ambiguous \in BOOLEAN, Catch(r, ambiguous)
  PROVE  PassStep(r)
<1> DEFINE used == campaign.attempts + 1
           late == pass[r].at = "acquire" /\ ambiguous /\ Held
<1>1. CASE campaign.state = "failed"
  <2>1. CASE Held
    <3> DEFINE row == [campaign EXCEPT !.alloc = TRUE, !.cleanup = TRUE]
    <3>1. row \in CampaignRow /\ row.state = "failed" /\ row.cleanup
      BY <1>1, Rows DEF CampaignInv, States
    <3>2. Write(r, row)
      BY <1>1, <2>1 DEF Catch
    <3> HIDE DEF row
    <3> QED BY <1>1, <3>1, <3>2 DEF PassStep, Good, Moves
  <2>2. CASE ~Held
    BY <1>1, <2>2 DEF Catch, PassStep, Spared
  <2> QED BY <2>1, <2>2
<1>2. CASE campaign.state # "failed"
  <2>1. Spared(r)
    BY <1>2 DEF Spared
  <2>2. CASE ~pass[r].fresh
    BY <1>2, <2>1, <2>2 DEF Catch, PassStep
  <2>3. CASE pass[r].fresh /\ late
    <3> DEFINE row == [campaign EXCEPT !.state = "wait_stub", !.alloc = TRUE, !.attempts = used]
    <3>1. campaign.state = "acquire" /\ campaign.attempts < MaxAttempts
      BY <2>3 DEF CampaignInv, PassesFit, Fits
    <3>2. row \in CampaignRow /\ row.state = "wait_stub" /\ row.cleanup = campaign.cleanup
      BY <3>1, Counted DEF CampaignInv
    <3>3. Stop(r) \/ Write(r, row)
      BY <1>2, <2>3 DEF Catch
    <3> HIDE DEF row
    <3>4. Good(r, row)
      BY <3>1, <3>2 DEF Good, Moves, Successor
    <3> QED BY <2>1, <3>3, <3>4 DEF PassStep
  <2>4. CASE pass[r].fresh /\ ~late
    <3>1. CASE used >= MaxAttempts
      BY <1>2, <2>4, <3>1, FailSteps DEF Catch
    <3>2. CASE ~(used >= MaxAttempts)
      <4> DEFINE row == [campaign EXCEPT !.attempts = used]
      <4>1. row \in CampaignRow /\ row.state = campaign.state /\ row.cleanup = campaign.cleanup
        BY <3>2, CampaignAssumption DEF CampaignInv, TypeOK, CampaignRow
      <4>2. Write(r, row)
        BY <1>2, <2>4, <3>2 DEF Catch
      <4> HIDE DEF row
      <4> QED BY <1>2, <4>1, <4>2 DEF PassStep, Good, Moves, CampaignInv, SmokeFits
    <3> QED BY <3>1, <3>2
  <2> QED BY <2>2, <2>3, <2>4
<1> QED BY <1>1, <1>2

\* The row goes one step forward, with one of its references set.
LEMMA ForwardSteps ==
  ASSUME CampaignInv, NEW r \in Passes, NEW row \in CampaignRow,
         Write(r, row) \/ Update(r, row), row.cleanup = campaign.cleanup,
         pass[r].fresh => <<campaign.state, row.state>> \in Successor \/ row.state = campaign.state,
         Write(r, row) => pass[r].fresh,
         row.state = "submit_dag" => tasks["smoke"] = "completed", Spared(r)
  PROVE  PassStep(r)
<1>1. CASE Write(r, row)
  <2>1. Good(r, row)
    <3>1. row.state = "failed" => campaign.state = "failed"
      BY <1>1 DEF Successor
    <3> QED BY <1>1, <3>1 DEF Good, Moves, Spared
  <2> QED BY <1>1, <2>1 DEF PassStep
<1>2. CASE Stop(r)
  BY <1>2 DEF PassStep
<1> QED BY <1>1, <1>2 DEF Update

LEMMA SmokeSteps ==
  ASSUME CampaignInv, NEW r \in Passes, EvaluateSmoke(r), pass[r].fresh => campaign.state = "cuda_smoke",
         Spared(r)
  PROVE  PassStep(r)
<1> DEFINE ready == [campaign EXCEPT !.state = "submit_dag", !.smoke = TRUE]
           seen == [campaign EXCEPT !.smoke = TRUE]
<1>1. /\ ready \in CampaignRow /\ ready.state = "submit_dag" /\ ready.cleanup = campaign.cleanup
      /\ seen \in CampaignRow /\ seen.state = campaign.state /\ seen.cleanup = campaign.cleanup
  BY DEF CampaignInv, TypeOK, CampaignRow, States
<1>2. CASE Fail(r)
  BY <1>2, FailSteps DEF Fail, PassStep
<1>3. CASE tasks["smoke"] = "completed" /\ Update(r, ready)
  <2> HIDE DEF ready
  <2>1. CASE pass[r].fresh
    BY <1>1, <1>3, <2>1, ForwardSteps DEF Successor
  <2>2. CASE ~pass[r].fresh
    BY <1>3, <2>2 DEF Update, PassStep
  <2> QED BY <2>1, <2>2
<1>4. CASE Stop(r)
  BY <1>4 DEF PassStep
<1>5. CASE Update(r, seen)
  <2> HIDE DEF seen
  <2>1. CASE pass[r].fresh
    BY <1>1, <1>5, <2>1, ForwardSteps DEF CampaignInv, SmokeFits
  <2>2. CASE ~pass[r].fresh
    BY <1>5, <2>2 DEF Update, PassStep
  <2> QED BY <2>1, <2>2
<1> QED BY <1>2, <1>3, <1>4, <1>5 DEF EvaluateSmoke

LEMMA BeginSteps == ASSUME CampaignInv, NEW r \in Passes, Begin(r) PROVE PassStep(r)
<1>1. pass[r].fresh /\ Spared(r) /\ pass[r].at = "idle"
  BY DEF Begin, CampaignInv, PassesFit, Fits, Idle, Spared
<1>2. CASE ReconcileFailed(r)
  BY <1>1, <1>2, CleanupSteps DEF ReconcileFailed
<1>3. CASE RuntimeLimit(r)
  BY <1>3, FailSteps DEF RuntimeLimit
<1>4. CASE Acquire(r)
  <2>1. CASE Fail(r)
    BY <1>4, <2>1, FailSteps DEF Acquire
  <2>2. CASE Await(r, "acquire", "step") /\ ~(campaign.attempts + 1 > MaxAttempts)
    <3>1. campaign.attempts < MaxAttempts
      BY <2>2, CampaignAssumption DEF CampaignInv, TypeOK, CampaignRow
    <3> QED BY <1>1, <1>4, <2>2, <3>1, AwaitSteps DEF Acquire, Places
  <2> QED BY <1>4, <2>1, <2>2 DEF Acquire
<1>5. CASE WaitStub(r)
  <2> DEFINE row == [campaign EXCEPT !.state = "cuda_smoke", !.stub = TRUE]
  <2>1. row \in CampaignRow /\ row.state = "cuda_smoke" /\ row.cleanup = campaign.cleanup
    BY DEF CampaignInv, TypeOK, CampaignRow, States
  <2>2. CASE Write(r, row)
    <3> HIDE DEF row
    <3> QED BY <1>1, <1>5, <2>1, <2>2, ForwardSteps DEF WaitStub, Successor
  <2>3. CASE Catch(r, FALSE)
    BY <2>3, CatchSteps
  <2> QED BY <1>5, <2>2, <2>3 DEF WaitStub
<1>6. CASE CudaSmoke(r)
  <2>1. CASE Await(r, "smoke", "step")
    BY <1>1, <1>6, <2>1, AwaitSteps DEF CudaSmoke, Places
  <2>2. CASE EvaluateSmoke(r)
    BY <1>1, <1>6, <2>2, SmokeSteps DEF CudaSmoke
  <2> QED BY <1>6, <2>1, <2>2 DEF CudaSmoke
<1>7. CASE SubmitDag(r)
  <2> DEFINE row == [campaign EXCEPT !.state = "wait_dag", !.dag = TRUE]
  <2>1. row \in CampaignRow /\ row.state = "wait_dag" /\ row.cleanup = campaign.cleanup
    BY DEF CampaignInv, TypeOK, CampaignRow, States
  <2>2. CASE Await(r, "dag", "step")
    BY <1>1, <1>7, <2>2, AwaitSteps DEF SubmitDag, Places, CampaignInv, SmokeFits
  <2>3. CASE Write(r, row)
    <3> HIDE DEF row
    <3> QED BY <1>1, <1>7, <2>1, <2>3, ForwardSteps DEF SubmitDag, Successor
  <2> QED BY <1>7, <2>2, <2>3 DEF SubmitDag
<1>8. CASE WaitDag(r)
  <2> DEFINE row == [campaign EXCEPT !.state = "drain"]
  <2>1. row \in CampaignRow /\ row.state = "drain" /\ row.cleanup = campaign.cleanup
    BY DEF CampaignInv, TypeOK, CampaignRow, States
  <2>2. CASE Fail(r)
    BY <1>8, <2>2, FailSteps DEF WaitDag
  <2>3. CASE Write(r, row)
    <3> HIDE DEF row
    <3> QED BY <1>1, <1>8, <2>1, <2>3, ForwardSteps DEF WaitDag, Successor
  <2> QED BY <1>8, <2>2, <2>3 DEF WaitDag
<1>9. CASE Drain(r)
  <2>1. CASE Catch(r, FALSE)
    BY <2>1, CatchSteps
  <2>2. CASE Await(r, "drain", "step")
    BY <1>1, <1>9, <2>2, AwaitSteps DEF Drain, Places
  <2> QED BY <1>9, <2>1, <2>2 DEF Drain
<1>10. CASE Release(r)
  <2>1. CASE Catch(r, FALSE)
    BY <2>1, CatchSteps
  <2>2. CASE ActiveTasks = {} /\ Await(r, "release", "step")
    <3>1. NoneRunning
      BY <2>2 DEF ActiveTasks, NoneRunning
    <3> QED BY <1>1, <1>10, <2>2, <3>1, AwaitSteps DEF Release, Places
  <2> QED BY <1>10, <2>1, <2>2 DEF Release
<1>11. CASE Closeout(r)
  <2> DEFINE row == [campaign EXCEPT !.state = "completed"]
  <2>1. row \in CampaignRow /\ row.state = "completed" /\ row.cleanup = campaign.cleanup
    BY DEF CampaignInv, TypeOK, CampaignRow, States
  <2>2. campaign.state = "closeout" /\ ~Held /\ Write(r, row)
    BY <1>11 DEF Closeout, Held
  <2> HIDE DEF row
  <2> QED BY <2>1, <2>2 DEF PassStep, Good, Moves
<1> QED BY <1>2, <1>3, <1>4, <1>5, <1>6, <1>7, <1>8, <1>9, <1>10, <1>11 DEF Begin

LEMMA AnswerSteps == ASSUME CampaignInv, NEW r \in Passes, Answered(r) PROVE PassStep(r)
<1>0. Fits(pass[r])
  BY DEF CampaignInv, PassesFit
<1>1. pass[r].at # "acquire" => Spared(r)
  BY DEF Spared
<1>2. CASE AcquireAnswers(r)
  <2> DEFINE on == [campaign EXCEPT !.state = "wait_stub", !.alloc = TRUE, !.attempts = @ + 1]
             told == [campaign EXCEPT !.alloc = TRUE, !.cleanup = TRUE]
  <2>1. CASE Catch(r, FALSE)
    BY <2>1, CatchSteps
  <2>2. CASE pass[r].fresh /\ Write(r, on)
    <3>1. campaign.state = "acquire" /\ campaign.attempts < MaxAttempts
      BY <1>0, <1>2, <2>2 DEF AcquireAnswers, Fits
    <3>2. on \in CampaignRow /\ on.state = "wait_stub" /\ on.cleanup = campaign.cleanup
      BY <3>1, Counted DEF CampaignInv
    <3> HIDE DEF on
    <3>3. Good(r, on)
      BY <3>1, <3>2 DEF Good, Moves, Successor
    <3> QED BY <2>2, <3>3 DEF PassStep
  <2>3. CASE campaign.state = "failed" /\ Write(r, told)
    <3>1. told \in CampaignRow /\ told.state = "failed" /\ told.cleanup
      BY <2>3, Rows DEF CampaignInv, States
    <3> HIDE DEF told
    <3> QED BY <2>3, <3>1 DEF PassStep, Good, Moves
  <2>4. CASE ~pass[r].fresh /\ campaign.state # "failed" /\ Stop(r)
    BY <2>4 DEF PassStep, Spared
  <2>5. pass[r].fresh \in BOOLEAN /\ allocation.pinned \in BOOLEAN
    BY DEF CampaignInv, TypeOK, Pass, AllocationRow
  <2> QED BY <1>2, <2>1, <2>2, <2>3, <2>4, <2>5 DEF AcquireAnswers
<1>3. CASE SmokeAnswers(r)
  BY <1>0, <1>1, <1>3, SmokeSteps DEF SmokeAnswers, Fits
<1>4. CASE DagAnswers(r)
  <2> DEFINE row == [campaign EXCEPT !.state = "wait_dag", !.dag = TRUE]
  <2>1. row \in CampaignRow /\ row.state = "wait_dag" /\ row.cleanup = campaign.cleanup
    BY DEF CampaignInv, TypeOK, CampaignRow, States
  <2>2. Update(r, row) /\ (pass[r].fresh => campaign.state = "submit_dag") /\ Spared(r)
    BY <1>0, <1>1, <1>4 DEF DagAnswers, Fits
  <2> HIDE DEF row
  <2>3. CASE pass[r].fresh
    BY <2>1, <2>2, <2>3, ForwardSteps DEF Successor
  <2>4. CASE ~pass[r].fresh
    BY <2>2, <2>4 DEF Update, PassStep
  <2> QED BY <2>3, <2>4
<1>5. CASE DrainAnswers(r)
  <2> DEFINE row == [campaign EXCEPT !.state = "release"]
  <2>1. row \in CampaignRow /\ row.state = "release" /\ row.cleanup = campaign.cleanup
    BY DEF CampaignInv, TypeOK, CampaignRow, States
  <2>2. (Update(r, row) \/ Stop(r)) /\ (pass[r].fresh => campaign.state = "drain") /\ Spared(r)
    BY <1>0, <1>1, <1>5 DEF DrainAnswers, Fits
  <2> HIDE DEF row
  <2>3. CASE pass[r].fresh /\ Update(r, row)
    BY <2>1, <2>2, <2>3, ForwardSteps DEF Successor
  <2>4. CASE Stop(r) \/ ~pass[r].fresh
    BY <2>2, <2>4 DEF Update, PassStep
  <2> QED BY <2>2, <2>3, <2>4
<1>6. CASE ReleaseAnswers(r)
  <2> DEFINE row == [campaign EXCEPT !.state = "closeout"]
  <2>1. row \in CampaignRow /\ row.state = "closeout" /\ row.cleanup = campaign.cleanup
    BY DEF CampaignInv, TypeOK, CampaignRow, States
  <2>2. (Update(r, row) \/ Stop(r)) /\ (pass[r].fresh => campaign.state = "release") /\ Spared(r)
    BY <1>0, <1>1, <1>6 DEF ReleaseAnswers, Fits
  <2> HIDE DEF row
  <2>3. CASE pass[r].fresh /\ Update(r, row)
    BY <2>1, <2>2, <2>3, ForwardSteps DEF Successor
  <2>4. CASE Stop(r) \/ ~pass[r].fresh
    BY <2>2, <2>4 DEF Update, PassStep
  <2> QED BY <2>2, <2>3, <2>4
<1>7. pass[r].at \in {"cleanup_drain", "cleanup_release"} =>
        /\ pass[r].why \in {"fail", "again"}
        /\ pass[r].why = "again" => campaign.state = "failed"
        /\ pass[r].why = "fail" /\ pass[r].fresh => campaign.state # "failed"
        /\ Spared(r)
  BY <1>0, <1>1 DEF Fits
<1>8. CASE CleanupDrainAnswers(r)
  <2>1. CASE EndCleanup(r, pass[r].why, "incomplete")
    BY <1>7, <1>8, <2>1, EndCleanupSteps DEF CleanupDrainAnswers
  <2>2. CASE ActiveTasks = {} /\ Await(r, "cleanup_release", pass[r].why)
    <3>1. NoneRunning
      BY <2>2 DEF ActiveTasks, NoneRunning
    <3>2. "cleanup_release" \in Places \ {"idle"} /\ pass[r].why \in {"step", "fail", "again"}
      BY <1>7, <1>8 DEF Places, CleanupDrainAnswers
    <3> QED BY <1>7, <1>8, <2>2, <3>1, <3>2, AwaitSteps DEF CleanupDrainAnswers
  <2> QED BY <1>8, <2>1, <2>2 DEF CleanupDrainAnswers
<1>9. CASE CleanupReleaseAnswers(r)
  <2>1. CASE Held /\ EndCleanup(r, pass[r].why, "incomplete")
    BY <1>7, <1>9, <2>1, EndCleanupSteps DEF CleanupReleaseAnswers
  <2>2. CASE ~Held /\ EndCleanup(r, pass[r].why, "cleaned")
    BY <1>7, <1>9, <2>2, EndCleanupSteps DEF CleanupReleaseAnswers
  <2> QED BY <1>9, <2>1, <2>2 DEF CleanupReleaseAnswers
<1>10. CASE CallFails(r)
  <2>1. CASE \E ambiguous \in BOOLEAN : Catch(r, ambiguous)
    BY <2>1, CatchSteps
  <2>2. CASE Catch(r, FALSE)
    BY <2>2, CatchSteps
  <2>3. CASE pass[r].at \in {"cleanup_drain", "cleanup_release"} /\ EndCleanup(r, pass[r].why, "error")
    BY <1>7, <2>3, EndCleanupSteps
  <2> QED BY <1>10, <2>1, <2>2, <2>3 DEF CallFails
<1> QED BY <1>2, <1>3, <1>4, <1>5, <1>6, <1>8, <1>9, <1>10 DEF Answered

(***************************************************************************)
(* The invariant.                                                          *)
(***************************************************************************)
\* A pass that has become stale fits whatever the row has become.
LEMMA StaleFits ==
  ASSUME TypeOK, NEW r \in Passes, Fits(pass[r]), campaign.state = "failed" => campaign'.state = "failed",
         UNCHANGED <<allocation, tasks>>, NEW p, p = Stale(pass[r]), pass'[r] = p
  PROVE  p \in Pass /\ p.at = pass[r].at /\ Fits(pass[r])'
<1>1. p \in Pass /\ p.at = pass[r].at /\ p.why = pass[r].why /\ p.barred = pass[r].barred
        /\ (p.at # "idle" => ~p.fresh) /\ (p.at = "idle" => p = pass[r])
  BY DEF Stale, TypeOK, Pass
<1>2. Fits(pass[r])'
  BY <1>1 DEF Fits, NoneRunning, Idle
<1> QED BY <1>1, <1>2

LEMMA PassStepKeeps ==
  ASSUME CampaignInv, NEW r \in Passes, PassStep(r), Unmoved
  PROVE  CampaignInv'
<1> USE DEF CampaignInv
<1>1. Idle \in Pass
  BY DEF Idle, Pass, Places
<1>2. SmokeBeforeDag'
  BY DEF Unmoved, SmokeBeforeDag
<1>3. CASE Stop(r) /\ Spared(r)
  <2>1. TypeOK'
    BY <1>1, <1>3 DEF Stop, Unmoved, TypeOK
  <2>2. PassesFit' /\ SmokeFits'
    BY <1>3 DEF Stop, Unmoved, PassesFit, SmokeFits, Fits, Idle, NoneRunning, TypeOK
  <2>3. ObligationKept'
    BY <1>3 DEF Stop, Unmoved, ObligationKept, Held, Spared, TypeOK
  <2> QED BY <1>2, <2>1, <2>2, <2>3
<1>4. ASSUME NEW at \in Places \ {"idle"}, NEW why \in {"step", "fail", "again"},
             Await(r, at, why), Spared(r),
             Fits([at |-> at, why |-> why, fresh |-> pass[r].fresh,
                   barred |-> at \in {"release", "cleanup_release"} /\ allocation.draining])
      PROVE  CampaignInv'
  <2> DEFINE p == [at |-> at, why |-> why, fresh |-> pass[r].fresh,
                   barred |-> at \in {"release", "cleanup_release"} /\ allocation.draining]
  <2>1. p \in Pass
    BY DEF TypeOK, Pass, AllocationRow
  <2>2. pass' = [pass EXCEPT ![r] = p] /\ campaign' = campaign
    BY <1>4 DEF Await
  <2>3. Fits(p) /\ p.at = at
    BY <1>4
  <2> HIDE DEF p
  <2>4. TypeOK'
    BY <2>1, <2>2 DEF Unmoved, TypeOK
  <2>5. PassesFit' /\ SmokeFits'
    <3>1. pass'[r] = p /\ \A q \in Passes : q # r => pass'[q] = pass[q]
      BY <2>2 DEF TypeOK
    <3>2. Fits(pass[r])'
      BY <2>2, <2>3, <3>1 DEF Unmoved, Fits, NoneRunning
    <3>3. \A q \in Passes : q # r => Fits(pass[q])'
      BY <2>2, <3>1 DEF Unmoved, PassesFit, Fits, NoneRunning
    <3> QED BY <2>2, <3>2, <3>3 DEF Unmoved, PassesFit, SmokeFits
  <2>6. ObligationKept'
    BY <1>4, <2>2 DEF Unmoved, ObligationKept, Held, Spared, TypeOK
  <2> QED BY <1>2, <2>4, <2>5, <2>6
<1>5. ASSUME NEW row, Write(r, row), Good(r, row) PROVE CampaignInv'
  <2>1. /\ campaign' = row /\ row \in CampaignRow
        /\ pass'[r] = Idle /\ \A q \in Passes : q # r => pass'[q] = Stale(pass[q])
    BY <1>5 DEF Write, Good
  <2>2. campaign.state = "failed" => row.state = "failed"
    BY <1>5 DEF Good, Moves, Successor
  <2>3. \A q \in Passes : q # r => pass'[q] \in Pass /\ pass'[q].at = pass[q].at /\ Fits(pass[q])'
    BY <2>1, <2>2, StaleFits DEF PassesFit, Unmoved
  <2>4. TypeOK'
    BY <1>1, <1>5, <2>1, <2>3 DEF Write, Unmoved, TypeOK
  <2>5. Fits(pass[r])'
    BY <2>1 DEF Fits, Idle
  <2>6. PassesFit' /\ SmokeFits'
    BY <1>5, <2>1, <2>3, <2>5 DEF PassesFit, SmokeFits, Good, Unmoved
  <2>7. ObligationKept'
    <3>1. SUFFICES ASSUME row.state = "failed", ~row.cleanup, Held, ~cut
                   PROVE  \E q \in Passes : pass'[q].at = "acquire"
      BY <2>1 DEF ObligationKept, Held, Unmoved
    <3>2. campaign.state = "failed" /\ ~campaign.cleanup /\ pass[r].at # "acquire"
      BY <1>5, <3>1 DEF Good, Moves, Successor
    <3>3. PICK q \in Passes : pass[q].at = "acquire"
      BY <3>1, <3>2 DEF ObligationKept
    <3> QED BY <2>3, <3>2, <3>3
  <2> QED BY <1>2, <2>4, <2>6, <2>7
<1> QED BY <1>3, <1>4, <1>5 DEF PassStep

(***************************************************************************)
(* The platform and the tasks: the row and the passes stay as they are.    *)
(***************************************************************************)
LEMMA WorldKeeps ==
  ASSUME CampaignInv, UNCHANGED <<campaign, pass, cut>>,
         allocation' \in AllocationRow, tasks' \in [Tasks -> TaskState],
         expired' \in BOOLEAN, left' \in Nat,
         tasks["smoke"] = "completed" => tasks'["smoke"] = "completed",
         allocation.draining /\ NoneRunning => allocation'.draining /\ NoneRunning',
         Held' /\ ~Held => \E r \in Passes : pass[r].at = "acquire",
         (\E d \in Dag : tasks'[d] # "none") /\ (\A d \in Dag : tasks[d] = "none") =>
            tasks["smoke"] = "completed"
  PROVE  CampaignInv'
<1> USE DEF CampaignInv
<1>1. TypeOK'
  BY DEF TypeOK
<1>2. \A r \in Passes : Fits(pass[r])'
  BY DEF PassesFit, Fits
<1>3. ObligationKept'
  BY DEF ObligationKept, Held
<1>4. SmokeBeforeDag' /\ SmokeFits'
  BY DEF SmokeBeforeDag, SmokeFits
<1> QED BY <1>1, <1>2, <1>3, <1>4 DEF PassesFit

\* The tasks of a job that ends: none of them starts, and what was done stays done.
LEMMA EndsFacts ==
  ASSUME TypeOK, AllocationEnds
  PROVE  /\ allocation' \in AllocationRow /\ allocation'.draining = allocation.draining
         /\ allocation'.state = "terminal"
         /\ tasks' \in [Tasks -> TaskState]
         /\ \A t \in Tasks : /\ tasks[t] \notin {"running"} => tasks'[t] = tasks[t]
                             /\ tasks'[t] # "running"
                             /\ tasks[t] = "running" => tasks'[t] \in {"pending", "failed"}
<1>1. PICK lost \in SUBSET {t \in Tasks : tasks[t] = "running"} :
        tasks' = [t \in Tasks |-> IF t \in lost THEN "failed"
                                  ELSE IF tasks[t] = "running" THEN "pending" ELSE tasks[t]]
  BY DEF AllocationEnds
<1>2. /\ tasks' \in [Tasks -> TaskState]
      /\ \A t \in Tasks : /\ tasks[t] \notin {"running"} => tasks'[t] = tasks[t]
                          /\ tasks'[t] # "running"
                          /\ tasks[t] = "running" => tasks'[t] \in {"pending", "failed"}
  BY <1>1 DEF TypeOK, TaskState
<1>3. allocation' = [allocation EXCEPT !.state = "terminal",
                                      !.stub = IF allocation.stub = "none" THEN allocation.stub ELSE "offline"]
  BY DEF AllocationEnds
<1> QED BY <1>2, <1>3 DEF TypeOK, AllocationRow

LEMMA MoveFacts ==
  ASSUME TypeOK, NEW t \in Tasks, NEW from, NEW to \in TaskState, TaskMoves(t, from, to)
  PROVE  /\ tasks' \in [Tasks -> TaskState] /\ tasks[t] = from /\ tasks'[t] = to
         /\ \A u \in Tasks : u # t => tasks'[u] = tasks[u]
         /\ UNCHANGED <<campaign, allocation, pass, expired, cut>>
BY DEF TaskMoves, TypeOK

PlatformStep ==
  \/ \E r \in Passes : AcquireLands(r) \/ SmokeLands(r) \/ DagLands(r) \/ DrainLands(r) \/ ReleaseLands(r)
  \/ RuntimePasses \/ JobEnds \/ StubRegisters \/ StubDrops \/ OtherSubmitted
  \/ \E t \in Tasks : Dispatch(t) \/ TaskEnds(t)

LEMMA PlatformKeeps == ASSUME CampaignInv, PlatformStep PROVE CampaignInv'
<1> USE DEF CampaignInv
<1>0. /\ "smoke" \in Tasks /\ "other" \in Tasks /\ Dag \subseteq Tasks /\ "smoke" \notin Dag /\ "other" \notin Dag
      /\ left \in Nat /\ expired \in BOOLEAN /\ allocation \in AllocationRow /\ tasks \in [Tasks -> TaskState]
  BY CampaignAssumption DEF Tasks, TypeOK
<1>1. ASSUME NEW r \in Passes, AcquireLands(r) PROVE CampaignInv'
  <2>1. allocation' \in AllocationRow /\ allocation'.draining = allocation.draining
    BY <1>0, <1>1 DEF AcquireLands, AllocationRow
  <2> QED BY <1>0, <1>1, <2>1, WorldKeeps DEF AcquireLands, NoneRunning
<1>2. ASSUME NEW r \in Passes, SmokeLands(r) PROVE CampaignInv'
  <2>1. tasks' \in [Tasks -> TaskState] /\ tasks["smoke"] = "none" /\ tasks'["smoke"] = "pending"
          /\ \A t \in Tasks : t # "smoke" => tasks'[t] = tasks[t]
    BY <1>0, <1>2 DEF SmokeLands, TaskState
  <2> QED BY <1>0, <1>2, <2>1, WorldKeeps DEF SmokeLands, NoneRunning, Held
<1>3. ASSUME NEW r \in Passes, DagLands(r) PROVE CampaignInv'
  <2>1. /\ tasks' \in [Tasks -> TaskState]
        /\ \A t \in Dag : tasks'[t] = "pending"
        /\ \A t \in Tasks \ Dag : tasks'[t] = tasks[t]
    BY <1>0, <1>3 DEF DagLands, TaskState
  <2>2. tasks["smoke"] = "completed"
    BY <1>3 DEF DagLands, PassesFit, Fits
  <2> QED BY <1>0, <1>3, <2>1, <2>2, WorldKeeps DEF DagLands, NoneRunning, Held
<1>4. ASSUME NEW r \in Passes, DrainLands(r) PROVE CampaignInv'
  <2>1. allocation' \in AllocationRow /\ allocation'.draining /\ allocation'.state = allocation.state
    BY <1>0, <1>4 DEF DrainLands, AllocationRow
  <2> QED BY <1>0, <1>4, <2>1, WorldKeeps DEF DrainLands, NoneRunning, Held
<1>5. CASE AllocationEnds /\ UNCHANGED <<campaign, pass, expired, cut, left>>
  BY <1>0, <1>5, EndsFacts, WorldKeeps DEF NoneRunning, Held
<1>6. CASE RuntimePasses
  BY <1>0, <1>6, WorldKeeps DEF RuntimePasses, NoneRunning, Held
<1>7. CASE StubRegisters \/ StubDrops
  <2>1. allocation' \in AllocationRow /\ allocation'.draining = allocation.draining
          /\ allocation'.state = allocation.state
    BY <1>0, <1>7 DEF StubRegisters, StubDrops, AllocationRow
  <2>2. left' \in Nat /\ UNCHANGED <<campaign, tasks, pass, expired, cut>>
    BY <1>0, <1>7 DEF StubRegisters, StubDrops, Spend
  <2> QED BY <1>0, <2>1, <2>2, WorldKeeps DEF NoneRunning, Held
<1>8. CASE OtherSubmitted
  <2>1. TaskMoves("other", "none", "pending") /\ left' \in Nat
    BY <1>0, <1>8 DEF OtherSubmitted, Spend
  <2> QED BY <1>0, <2>1, MoveFacts, WorldKeeps DEF TaskState, NoneRunning, Held
<1>9. ASSUME NEW t \in Tasks, Dispatch(t) PROVE CampaignInv'
  BY <1>0, <1>9, MoveFacts, WorldKeeps DEF Dispatch, TaskState, NoneRunning, Held
<1>10. ASSUME NEW t \in Tasks, TaskEnds(t) PROVE CampaignInv'
  <2>1. PICK from \in {"running", "pending"}, to \in {"completed", "failed"} : TaskMoves(t, from, to)
    BY <1>10 DEF TaskEnds
  <2>2. left' = left
    BY <1>10 DEF TaskEnds
  <2> QED BY <1>0, <2>1, <2>2, MoveFacts, WorldKeeps DEF TaskState, NoneRunning, Held
<1> QED BY <1>1, <1>2, <1>3, <1>4, <1>5, <1>6, <1>7, <1>8, <1>9, <1>10
        DEF PlatformStep, ReleaseLands, JobEnds

(***************************************************************************)
(* The operator and the server.                                            *)
(***************************************************************************)
LEMMA OperatorKeeps ==
  ASSUME CampaignInv, CancelCampaign \/ AdvanceToFailed
  PROVE  CampaignInv'
<1> USE DEF CampaignInv
<1> DEFINE row == [campaign EXCEPT !.state = "failed", !.cleanup = Held]
<1>1. row \in CampaignRow /\ row.state = "failed" /\ row.cleanup = Held
  BY Rows DEF States, Held
<1>2. /\ campaign' = row /\ pass' = [q \in Passes |-> Stale(pass[q])]
      /\ UNCHANGED <<allocation, tasks, expired, cut>> /\ left' \in Nat
  BY DEF CancelCampaign, AdvanceToFailed, WriteByOperator, Spend, TypeOK
<1> HIDE DEF row
<1>3. \A q \in Passes : pass'[q] \in Pass /\ pass'[q].at = pass[q].at /\ Fits(pass[q])'
  BY <1>1, <1>2, StaleFits DEF PassesFit
<1>4. TypeOK'
  BY <1>1, <1>2, <1>3 DEF TypeOK
<1>5. ObligationKept' /\ SmokeFits' /\ SmokeBeforeDag'
  BY <1>1, <1>2 DEF ObligationKept, SmokeFits, SmokeBeforeDag, Held
<1> QED BY <1>3, <1>4, <1>5 DEF PassesFit

LEMMA RestartKeeps == ASSUME CampaignInv, RestartServer PROVE CampaignInv'
<1> USE DEF CampaignInv
<1>1. TypeOK'
  BY DEF RestartServer, Spend, TypeOK, Pass, Idle, Places
<1>2. PassesFit' /\ SmokeFits' /\ SmokeBeforeDag'
  BY DEF RestartServer, PassesFit, Fits, Idle, SmokeFits, SmokeBeforeDag
<1>3. ObligationKept'
  BY DEF RestartServer, ObligationKept, Held
<1> QED BY <1>1, <1>2, <1>3

LEMMA CampaignInitial == Init => CampaignInv
<1> SUFFICES ASSUME Init PROVE CampaignInv
  OBVIOUS
<1>1. TypeOK
  <2>1. campaign \in CampaignRow
    <3>1. 0 \in 0..MaxAttempts
      BY CampaignAssumption
    <3> QED BY <3>1 DEF Init, CampaignRow, States
  <2>2. allocation \in AllocationRow
    BY DEF Init, AllocationRow
  <2>3. tasks \in [Tasks -> TaskState]
    BY DEF Init, TaskState
  <2>4. pass \in [Passes -> Pass]
    <3>1. Idle \in Pass
      BY DEF Idle, Pass, Places
    <3> QED BY <3>1 DEF Init
  <2>5. expired \in BOOLEAN /\ cut \in BOOLEAN /\ left \in Nat
    BY CampaignAssumption DEF Init
  <2> QED BY <2>1, <2>2, <2>3, <2>4, <2>5 DEF TypeOK
<1>2. PassesFit /\ SmokeFits /\ ObligationKept
  BY DEF Init, PassesFit, Fits, Idle, SmokeFits, ObligationKept, Held
<1>3. SmokeBeforeDag
  BY DEF Init, SmokeBeforeDag, Tasks
<1> QED BY <1>1, <1>2, <1>3 DEF CampaignInv

\* A step is a step of a pass, of the platform, of the operator, or a restart.
LEMMA StepKinds ==
  ASSUME CampaignInv, Next
  PROVE  \/ \E r \in Passes : PassStep(r) /\ Unmoved
         \/ PlatformStep \/ CancelCampaign \/ AdvanceToFailed \/ RestartServer
<1>1. ASSUME NEW r \in Passes, Begin(r) PROVE PassStep(r) /\ Unmoved
  BY <1>1, BeginSteps DEF Begin, Unmoved
<1>2. ASSUME NEW r \in Passes, Answered(r) PROVE PassStep(r) /\ Unmoved
  <2>1. Unmoved
    BY <1>2 DEF Answered, AcquireAnswers, SmokeAnswers, DagAnswers, DrainAnswers, ReleaseAnswers,
       CleanupDrainAnswers, CleanupReleaseAnswers, CallFails
  <2> QED BY <1>2, <2>1, AnswerSteps
<1> QED BY <1>1, <1>2 DEF Next, PlatformStep

LEMMA CampaignStep == CampaignInv /\ [Next]_vars => CampaignInv'
<1> SUFFICES ASSUME CampaignInv, [Next]_vars PROVE CampaignInv'
  OBVIOUS
<1>1. CASE UNCHANGED vars
  BY <1>1 DEF vars, CampaignInv, TypeOK, PassesFit, Fits, NoneRunning, SmokeFits, ObligationKept, Held, SmokeBeforeDag
<1>2. CASE Next
  BY <1>2, StepKinds, PassStepKeeps, PlatformKeeps, OperatorKeeps, RestartKeeps
<1> QED BY <1>1, <1>2

(***************************************************************************)
(* CampaignInv is an invariant: what a pass awaits fits the row as long as *)
(* nobody has written it since it was read (campaigns/reconciler.ts).      *)
(***************************************************************************)
THEOREM CampaignInvariance == Spec => []CampaignInv
BY CampaignInitial, CampaignStep, PTL DEF Spec

(***************************************************************************)
(* No allocation is forgotten: a failed campaign owes a cleanup as long as *)
(* it holds one, or is about to be told (campaigns/reconciler.ts:25-33).   *)
(***************************************************************************)
THEOREM NoAllocationForgotten == Spec => []ObligationKept
<1>1. CampaignInv => ObligationKept
  BY DEF CampaignInv
<1> QED BY <1>1, CampaignInvariance, PTL

(***************************************************************************)
(* The DAG is submitted after its smoke test has completed                 *)
(* (campaigns/reconciler.ts:131-143).                                      *)
(***************************************************************************)
THEOREM SmokeComesFirst == Spec => []SmokeBeforeDag
<1>1. CampaignInv => SmokeBeforeDag
  BY DEF CampaignInv
<1> QED BY <1>1, CampaignInvariance, PTL

(***************************************************************************)
(* A release called on a draining stub cuts off no running task            *)
(* (production-driver.ts:179-235).                                         *)
(***************************************************************************)
THEOREM NothingCutOff == Spec => ReleaseSparesWork
<1>1. CampaignInv /\ [Next]_vars =>
        [\A r \in Passes : ReleaseLands(r) /\ pass[r].barred
           => \A t \in Tasks : tasks[t] # "running"]_vars
  BY DEF CampaignInv, PassesFit, Fits, NoneRunning
<1> QED BY <1>1, CampaignInvariance, PTL DEF Spec, ReleaseSparesWork

(***************************************************************************)
(* The refinement.                                                         *)
(***************************************************************************)
\* A legal write of the row is a step of the lifecycle, or none.
LEMMA MovesAreSteps ==
  ASSUME NEW row, row.cleanup \in BOOLEAN, Moves(row), campaign' = row, allocation' = allocation
  PROVE  [Lifecycle!Next]_Lifecycle!lifecycleVars
<1>1. Held' = Held
  BY DEF Held
<1>2. CASE row.state = campaign.state /\ row.cleanup = campaign.cleanup
  BY <1>1, <1>2 DEF Lifecycle!lifecycleVars
<1>3. CASE <<campaign.state, row.state>> \in Successor /\ row.cleanup = campaign.cleanup
  <2>1. \E i \in 1..7 : campaign.state = Lifecycle!Order[i] /\ row.state = Lifecycle!Order[i + 1]
    BY <1>3 DEF Successor, Lifecycle!Order
  <2> QED BY <1>1, <1>3, <2>1 DEF Lifecycle!Next, Lifecycle!Forward
<1>4. CASE campaign.state = "closeout" /\ ~Held /\ row.state = "completed" /\ row.cleanup = campaign.cleanup
  BY <1>1, <1>4 DEF Lifecycle!Next, Lifecycle!Complete
<1>5. CASE campaign.state # "failed" /\ row.state = "failed" /\ (Held => row.cleanup)
  BY <1>1, <1>5 DEF Lifecycle!Next, Lifecycle!Fail
<1>6. CASE campaign.state = "failed" /\ row.state = "failed" /\ row.cleanup
  BY <1>1, <1>6 DEF Lifecycle!Next, Lifecycle!Owe
<1>7. CASE campaign.state = "failed" /\ row.state = "failed" /\ ~Held /\ ~row.cleanup
  BY <1>1, <1>7 DEF Lifecycle!Next, Lifecycle!Discharge
<1> QED BY <1>2, <1>3, <1>4, <1>5, <1>6, <1>7 DEF Moves

\* The capacity comes and goes without the row.
LEMMA RowUnmoved ==
  ASSUME campaign' = campaign
  PROVE  [Lifecycle!Next]_Lifecycle!lifecycleVars
<1>1. CASE Held' = Held
  BY <1>1 DEF Lifecycle!lifecycleVars
<1>2. CASE Held' = ~Held
  BY <1>2 DEF Lifecycle!Next, Lifecycle!Hold
<1>3. Held \in BOOLEAN /\ Held' \in BOOLEAN
  BY DEF Held
<1> QED BY <1>1, <1>2, <1>3

LEMMA StepsRefine == CampaignInv /\ [Next]_vars => [Lifecycle!Next]_Lifecycle!lifecycleVars
<1> SUFFICES ASSUME CampaignInv, [Next]_vars PROVE [Lifecycle!Next]_Lifecycle!lifecycleVars
  OBVIOUS
<1>1. CASE UNCHANGED vars
  BY <1>1, RowUnmoved DEF vars
<1>2. ASSUME NEW r \in Passes, PassStep(r), Unmoved PROVE [Lifecycle!Next]_Lifecycle!lifecycleVars
  <2>1. CASE campaign' = campaign
    BY <2>1, RowUnmoved
  <2>2. ASSUME NEW row, Write(r, row), Good(r, row) PROVE [Lifecycle!Next]_Lifecycle!lifecycleVars
    BY <1>2, <2>2, MovesAreSteps DEF Write, Good, CampaignRow, Unmoved
  <2> QED BY <1>2, <2>1, <2>2 DEF PassStep, Stop, Await
<1>3. CASE PlatformStep
  <2>1. campaign' = campaign
    BY <1>3 DEF PlatformStep, AcquireLands, SmokeLands, DagLands, DrainLands, ReleaseLands, RuntimePasses,
       JobEnds, StubRegisters, StubDrops, OtherSubmitted, Dispatch, TaskEnds, TaskMoves
  <2> QED BY <2>1, RowUnmoved
<1>4. CASE CancelCampaign \/ AdvanceToFailed
  <2> DEFINE row == [campaign EXCEPT !.state = "failed", !.cleanup = Held]
  <2>1. row.state = "failed" /\ row.cleanup = Held /\ row.cleanup \in BOOLEAN
    BY Rows DEF CampaignInv, States, Held
  <2>2. campaign' = row /\ allocation' = allocation /\ campaign.state # "failed"
    BY <1>4 DEF CancelCampaign, AdvanceToFailed, WriteByOperator
  <2> HIDE DEF row
  <2>3. Moves(row)
    BY <2>1, <2>2 DEF Moves
  <2> QED BY <2>1, <2>2, <2>3, MovesAreSteps
<1>5. CASE RestartServer
  BY <1>5, RowUnmoved DEF RestartServer
<1> QED BY <1>1, <1>2, <1>3, <1>4, <1>5, StepKinds

(***************************************************************************)
(* The reconciler implements CampaignLifecycle: whatever passes, operators *)
(* and restarts interleave, the campaign takes its steps in order and is   *)
(* let go of only while it holds nothing (campaigns/reconciler.ts).        *)
(***************************************************************************)
THEOREM CampaignRefines == Spec => ImplementsCampaignLifecycle
<1>1. Init => Lifecycle!Init
  BY DEF Init, Lifecycle!Init, Held
<1> QED BY <1>1, StepsRefine, CampaignInvariance, PTL DEF Spec, ImplementsCampaignLifecycle, Lifecycle!Spec
=============================================================================
