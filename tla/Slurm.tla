-------------------------------- MODULE Slurm --------------------------------
(***************************************************************************)
(* One managed SLURM allocation of the server - all the requests with one  *)
(* idempotency key - against the jobs SLURM has for it and their stubs.    *)
(*                                                                         *)
(* Three kinds of handler await SSH and then write the row: a submission   *)
(* (minutes), the serial loop that lists the queue and applies what it     *)
(* read, and an operator's cancellation behind its admission barrier.      *)
(* Stubs register, take work and drop meanwhile.  SLURM is external: jobs  *)
(* are queued, run, complete and leave the queue.                          *)
(***************************************************************************)
EXTENDS Naturals

CONSTANTS
  Requests,   \* the POST /allocations/submit handlers that may be at work
  MaxJobs,    \* bound: the jobs sbatch accepts
  SlurmFaults \* bound: restarts of the server and dropped stubs, in all

ASSUME SlurmAssumption == MaxJobs \in Nat \ {0} /\ SlurmFaults \in Nat

VARIABLES
  slurmRow,   \* the allocation row
  job,        \* what SLURM does with each job
  jobStub,    \* the stub of each job, as the server has it
  request,    \* where each submission awaits, and the job sbatch made for it
  snapshot,   \* the queue listing the reconciler has read
  cancel,     \* where the cancellation awaits
  slurmLeft   \* what is left of SlurmFaults

slurmVars == <<slurmRow, job, jobStub, request, snapshot, cancel, slurmLeft>>

Jobs == 1..MaxJobs
NoJob == 0

RowState == {"none", "requested", "submitted", "pending", "running", "stub_online",
             "released", "failed"}
JobState == {"none", "queued", "running", "completing", "gone"}

\* absent: error is slurm_snapshot_verified_absent.  stub: the job of the bound stub.
SlurmRow == [state : RowState, job : Jobs \cup {NoJob}, absent : BOOLEAN,
             stub : Jobs \cup {NoJob}]
\* drained: max_concurrent is 0.  busy: it has an active task.
JobStub == [up : {"none", "online", "offline"}, released : BOOLEAN, drained : BOOLEAN,
            busy : BOOLEAN]
Request == [at : {"idle", "deploying"}, job : Jobs \cup {NoJob}]
Snapshot == [at : {"idle", "listed"}, jobs : [Jobs -> JobState]]
\* stub: the one the row named when it was chosen, for the barrier to hold back;
\* seen: the one it named at the second look.
Cancel == [at : {"idle", "chosen", "barrier", "scancel"}, job : Jobs \cup {NoJob},
           stub : Jobs \cup {NoJob}, seen : Jobs \cup {NoJob}]

SlurmTypeOK ==
  /\ slurmRow \in SlurmRow
  /\ job \in [Jobs -> JobState]
  /\ jobStub \in [Jobs -> JobStub]
  /\ request \in [Requests -> Request]
  /\ snapshot \in Snapshot
  /\ cancel \in Cancel
  /\ slurmLeft \in Nat

NoListing == [at |-> "idle", jobs |-> [j \in Jobs |-> "none"]]
NoCancel == [at |-> "idle", job |-> NoJob, stub |-> NoJob, seen |-> NoJob]
NoRequest == [at |-> "idle", job |-> NoJob]

SlurmInit ==
  /\ slurmRow = [state |-> "none", job |-> NoJob, absent |-> FALSE, stub |-> NoJob]
  /\ job = [j \in Jobs |-> "none"]
  /\ jobStub = [j \in Jobs |-> [up |-> "none", released |-> FALSE, drained |-> FALSE,
                                busy |-> FALSE]]
  /\ request = [q \in Requests |-> NoRequest]
  /\ snapshot = NoListing
  /\ cancel = NoCancel
  /\ slurmLeft = SlurmFaults

Over(state) == state \in {"released", "failed"}
Live(j) == job[j] \in {"queued", "running"}

(***************************************************************************)
(* POST /allocations/submit: a request with a known key is answered with   *)
(* the row it finds, unless the row failed and its job is verified absent. *)
(***************************************************************************)
Submit(q) ==
  /\ request[q].at = "idle"
  /\ slurmRow.state = "none" \/ (slurmRow.state = "failed" /\ slurmRow.absent)
  /\ slurmRow' = [slurmRow EXCEPT !.state = "requested", !.absent = FALSE]
  /\ request' = [request EXCEPT ![q] = [at |-> "deploying", job |-> NoJob]]
  /\ UNCHANGED <<job, jobStub, snapshot, cancel, slurmLeft>>

SbatchAccepts(q, j) ==
  /\ request[q].at = "deploying" /\ request[q].job = NoJob
  /\ job[j] = "none" /\ \A i \in 1..(j - 1) : job[i] # "none"
  /\ job' = [job EXCEPT ![j] = "queued"]
  /\ request' = [request EXCEPT ![q].job = j]
  /\ UNCHANGED <<slurmRow, jobStub, snapshot, cancel, slurmLeft>>

SubmitAnswers(q) ==
  /\ request[q].job # NoJob
  /\ slurmRow' = [slurmRow EXCEPT !.state = "submitted", !.job = request[q].job]
  /\ request' = [request EXCEPT ![q] = NoRequest]
  /\ UNCHANGED <<job, jobStub, snapshot, cancel, slurmLeft>>

\* The sync, the preflight or sbatch failed; or its answer came too late.
SubmitFails(q) ==
  /\ request[q].at = "deploying"
  /\ slurmRow' = [slurmRow EXCEPT !.state = "failed", !.absent = FALSE]
  /\ request' = [request EXCEPT ![q] = NoRequest]
  /\ UNCHANGED <<job, jobStub, snapshot, cancel, slurmLeft>>

(***************************************************************************)
(* The serial reconciler lists the queue over SSH and applies the listing. *)
(***************************************************************************)
ListJobs ==
  /\ snapshot.at = "idle"
  /\ snapshot' = [at |-> "listed",
                  jobs |-> [j \in Jobs |-> IF job[j] = "gone" THEN "none" ELSE job[j]]]
  /\ UNCHANGED <<slurmRow, job, jobStub, request, cancel, slurmLeft>>

\* The job a row is matched with: by its id, or by its name as long as it has none.
Matches(j) == snapshot.jobs[j] # "none" /\ slurmRow.job \in {j, NoJob}

Observed(j) == IF snapshot.jobs[j] = "running" THEN "running" ELSE "pending"

\* Mutant: a bound allocation is not expected in the queue.
AbsentUnbound(state) ==
  IF state \in {"pending", "running"} THEN "released"
  ELSE IF slurmRow.job = NoJob /\ state \in {"requested", "failed"} THEN "failed" ELSE state

Absent(state) ==
  IF state \in {"pending", "running", "stub_online"} THEN "released"
  ELSE IF slurmRow.job = NoJob /\ state \in {"requested", "failed"} THEN "failed" ELSE state

\* The rest of the row's update once its state and its job are known; complete: the
\* listing is one.
Apply(state, j, complete) ==
  LET stub == j # NoJob /\ jobStub[j].up # "none"
      online == stub /\ jobStub[j].up = "online"
  IN  /\ slurmRow' =
           [state |-> IF state = "running" /\ online THEN "stub_online" ELSE state,
            job |-> j,
            absent |-> IF complete /\ slurmRow.job = NoJob /\ j = NoJob
                         /\ slurmRow.state \in {"requested", "failed"}
                       THEN TRUE ELSE slurmRow.absent,
            stub |-> IF stub THEN j ELSE slurmRow.stub]
      /\ jobStub' = IF stub /\ Over(state)
                    THEN [jobStub EXCEPT ![j].up = "offline", ![j].released = TRUE,
                                         ![j].drained = TRUE]
                    ELSE jobStub

ApplySnapshot ==
  /\ snapshot.at = "listed" /\ slurmRow.state # "none"
  /\ \/ \E j \in Jobs : Matches(j) /\ Apply(Observed(j), j, TRUE)
     \/ (\A j \in Jobs : ~Matches(j)) /\ Apply(Absent(slurmRow.state), slurmRow.job, TRUE)
  /\ snapshot' = NoListing
  /\ UNCHANGED <<job, request, cancel, slurmLeft>>

\* The SSH command fails: no job is listed and none is missed, but the row is still
\* matched with the stub of its job.
ListFails ==
  /\ snapshot.at = "listed" /\ snapshot' = NoListing
  /\ IF slurmRow.state = "none" THEN UNCHANGED <<slurmRow, jobStub>>
     ELSE Apply(slurmRow.state, slurmRow.job, FALSE)
  /\ UNCHANGED <<job, request, cancel, slurmLeft>>

(***************************************************************************)
(* POST /allocations/cancel: barrier, second look, scancel.                *)
(***************************************************************************)
Releasable ==
  /\ slurmRow.job # NoJob /\ ~Over(slurmRow.state)
  /\ slurmRow.stub # NoJob => ~jobStub[slurmRow.stub].busy

\* The rows of a cancellation are chosen first and dealt with one by one.
ChooseAllocation ==
  /\ cancel.at = "idle" /\ Releasable
  /\ cancel' = [NoCancel EXCEPT !.at = "chosen", !.job = slurmRow.job, !.stub = slurmRow.stub]
  /\ UNCHANGED <<slurmRow, job, jobStub, request, snapshot, slurmLeft>>

PrepareRelease ==
  /\ cancel.at = "chosen"
  /\ cancel' = [cancel EXCEPT !.at = "barrier"]
  /\ jobStub' = IF cancel.stub = NoJob THEN jobStub
                ELSE [jobStub EXCEPT ![cancel.stub].drained = TRUE]
  /\ UNCHANGED <<slurmRow, job, request, snapshot, slurmLeft>>

\* Mutant: no second look behind the barrier.
LookAgainNot ==
  /\ cancel.at = "barrier"
  /\ cancel' = [cancel EXCEPT !.at = "scancel", !.seen = slurmRow.stub]
  /\ UNCHANGED <<slurmRow, job, jobStub, request, snapshot, slurmLeft>>

\* The barrier is up, or the stub cannot be reached and the cancellation ends.
LookAgain ==
  /\ cancel.at = "barrier"
  /\ \/ Releasable /\ cancel' = [cancel EXCEPT !.at = "scancel", !.job = slurmRow.job, !.seen = slurmRow.stub]
     \/ cancel' = NoCancel
  /\ UNCHANGED <<slurmRow, job, jobStub, request, snapshot, slurmLeft>>

\* What a job's end does to its stub: the process is gone and the socket drops.
StubDies(j) ==
  jobStub' = [jobStub EXCEPT ![j].up = IF @ = "none" THEN @ ELSE "offline", ![j].busy = FALSE]

ScancelLands ==
  /\ cancel.at = "scancel" /\ Live(cancel.job)
  /\ job' = [job EXCEPT ![cancel.job] = "completing"]
  /\ StubDies(cancel.job)
  /\ UNCHANGED <<slurmRow, request, snapshot, cancel, slurmLeft>>

CancelAnswers ==
  /\ cancel.at = "scancel" /\ ~Live(cancel.job)
  /\ slurmRow' = [slurmRow EXCEPT !.state = "released"]
  /\ cancel' = NoCancel
  /\ UNCHANGED <<job, jobStub, request, snapshot, slurmLeft>>

CancelFails ==
  /\ cancel.at = "scancel"
  /\ cancel' = NoCancel
  /\ UNCHANGED <<slurmRow, job, jobStub, request, snapshot, slurmLeft>>

(***************************************************************************)
(* Jobs, stubs, tasks and the server.                                      *)
(***************************************************************************)
JobMoves(j) ==
  /\ \/ job[j] = "queued" /\ job' = [job EXCEPT ![j] = "running"] /\ UNCHANGED jobStub
     \/ job[j] = "running" /\ job' = [job EXCEPT ![j] = "completing"] /\ StubDies(j)
     \/ job[j] = "completing" /\ job' = [job EXCEPT ![j] = "gone"] /\ UNCHANGED jobStub
  /\ UNCHANGED <<slurmRow, request, snapshot, cancel, slurmLeft>>

\* bindStubCapacityOwnership, on register and on resume.
StubRegisters(j) ==
  /\ job[j] = "running" /\ jobStub[j].up # "online" /\ ~jobStub[j].released
  /\ CASE slurmRow.job # j ->
            jobStub' = [jobStub EXCEPT ![j].up = "online"] /\ UNCHANGED slurmRow
       [] slurmRow.job = j /\ Over(slurmRow.state) ->
            /\ jobStub' = [jobStub EXCEPT ![j].up = "offline", ![j].released = TRUE,
                                          ![j].drained = TRUE]
            /\ UNCHANGED slurmRow
       [] slurmRow.job = j /\ ~Over(slurmRow.state) ->
            /\ slurmRow.stub \in {j, NoJob}
            /\ jobStub' = [jobStub EXCEPT ![j].up = "online"]
            /\ slurmRow' = [slurmRow EXCEPT !.stub = j, !.state = "stub_online"]
  /\ UNCHANGED <<job, request, snapshot, cancel, slurmLeft>>

StubDrops(j) ==
  /\ jobStub[j].up = "online" /\ slurmLeft > 0
  /\ jobStub' = [jobStub EXCEPT ![j].up = "offline"]
  /\ slurmLeft' = slurmLeft - 1
  /\ UNCHANGED <<slurmRow, job, request, snapshot, cancel>>

DispatchTo(j) ==
  /\ jobStub[j].up = "online" /\ ~jobStub[j].drained /\ ~jobStub[j].busy
  /\ jobStub' = [jobStub EXCEPT ![j].busy = TRUE]
  /\ UNCHANGED <<slurmRow, job, request, snapshot, cancel, slurmLeft>>

TaskLeaves(j) ==
  /\ jobStub[j].busy
  /\ jobStub' = [jobStub EXCEPT ![j].busy = FALSE]
  /\ UNCHANGED <<slurmRow, job, request, snapshot, cancel, slurmLeft>>

SlurmRestart ==
  /\ slurmLeft > 0 /\ slurmLeft' = slurmLeft - 1
  /\ request' = [q \in Requests |-> NoRequest]
  /\ snapshot' = NoListing /\ cancel' = NoCancel
  /\ UNCHANGED <<slurmRow, job, jobStub>>

SlurmNext ==
  \/ \E q \in Requests : \/ Submit(q) \/ SubmitAnswers(q) \/ SubmitFails(q)
                         \/ \E j \in Jobs : SbatchAccepts(q, j)
  \/ ListJobs \/ ListFails \/ ApplySnapshot
  \/ ChooseAllocation \/ PrepareRelease \/ LookAgain \/ ScancelLands \/ CancelAnswers \/ CancelFails
  \/ \E j \in Jobs : JobMoves(j) \/ StubRegisters(j) \/ StubDrops(j)
                     \/ DispatchTo(j) \/ TaskLeaves(j)
  \/ SlurmRestart

SlurmSpec == SlurmInit /\ [][SlurmNext]_slurmVars

\* The loop's timer fires and SSH answers in the end; jobs have a walltime.
SlurmFairness ==
  /\ WF_slurmVars(slurmRow.state # "none" /\ ListJobs) /\ SF_slurmVars(ApplySnapshot)

(***************************************************************************)
(* Properties.                                                             *)
(***************************************************************************)
\* A cancellation that held back the stub of its job and looked at it again kills
\* no task, through drops, new registrations and answers of other submissions
\* (api/capacity.ts:683-705).  Excepted: one that held back or looked at another stub.
CancelSparesWork ==
  [][ScancelLands /\ {cancel.stub, cancel.seen} = {cancel.job} => ~jobStub[cancel.job].busy]_slurmVars

\* The row of a job that a listing or a stub has shown does not outlive it:
\* once the job has left the queue the row is closed (api/capacity.ts:219-223).
Seen == slurmRow.state \in {"pending", "running", "stub_online"}
SeenJobsSettle ==
  (Seen /\ slurmRow.job # NoJob /\ \A j \in Jobs : job[j] \in {"none", "gone"})
     ~> ~Seen
=============================================================================
