---------------------------- MODULE ServicesProofs ----------------------------
(***************************************************************************)
(* Proofs about three parts of the server that run beside the queue, for   *)
(* any size of them: a cancellation kills no task (CancelSparesWork), no   *)
(* delivery of a webhook is lost without a trace (DeliveryAccounted) or    *)
(* posted after its success (NoPostAfterSuccess), and a checkpoint request *)
(* is saved once and never said to be complete before (SavedOnceAndTrue).  *)
(***************************************************************************)
EXTENDS Slurm, Webhooks, TaskControls, TLAPS

-----------------------------------------------------------------------------
(* The allocations: Slurm. *)

\* From its barrier on, a cancellation has held back the stub it chose.
BarrierStands ==
  cancel.at \in {"barrier", "scancel"} /\ cancel.stub # NoJob => jobStub[cancel.stub].drained

\* Between the second look and scancel nothing is put on a stub that is held back.
StaysIdle ==
  /\ cancel.at = "scancel" => cancel.job # NoJob
  /\ cancel.at = "scancel" /\ {cancel.stub, cancel.seen} = {cancel.job} => ~jobStub[cancel.job].busy

SlurmInv == SlurmTypeOK /\ BarrierStands /\ StaysIdle

LEMMA JobNumbers == NoJob \notin Jobs /\ Jobs \subseteq Nat
BY SlurmAssumption DEF NoJob, Jobs

\* Initially nothing is there.
LEMMA SlurmInitial == SlurmInit => SlurmInv
BY SlurmAssumption, JobNumbers DEF SlurmInit, SlurmInv, SlurmTypeOK, SlurmRow, RowState, JobState, JobStub, Request, Snapshot, Cancel,
   NoListing, NoCancel, NoRequest, BarrierStands, StaysIdle, NoJob

\* What happens to a stub but for a dispatch leaves it held back, and puts no task on it.
NoWorkAdded ==
  \A j \in Jobs : /\ jobStub[j].drained => jobStub'[j].drained
                  /\ jobStub[j].drained /\ jobStub'[j].busy => jobStub[j].busy

\* Whoever leaves the cancellation alone, and adds no work behind a barrier, keeps what it relies on.
LEMMA CancelUndisturbed ==
  ASSUME SlurmInv, NoWorkAdded, cancel' = cancel
  PROVE  BarrierStands' /\ StaysIdle'
<1>1. cancel \in Cancel
  BY DEF SlurmInv, SlurmTypeOK
<1>2. BarrierStands'
  BY <1>1, JobNumbers DEF SlurmInv, BarrierStands, NoWorkAdded, Cancel
<1>3. StaysIdle'
  <2> SUFFICES ASSUME cancel.at = "scancel", {cancel.stub, cancel.seen} = {cancel.job}
               PROVE  ~jobStub'[cancel.job].busy
    BY DEF SlurmInv, StaysIdle
  <2>1. cancel.stub = cancel.job /\ cancel.job \in Jobs
    BY <1>1 DEF SlurmInv, StaysIdle, Cancel
  <2>2. jobStub[cancel.job].drained /\ ~jobStub[cancel.job].busy
    BY <2>1, JobNumbers DEF SlurmInv, BarrierStands, StaysIdle
  <2> QED BY <2>1, <2>2 DEF NoWorkAdded
<1> QED BY <1>2, <1>3

\* A cancellation that is given up relies on nothing.
LEMMA NoCancelRelies ==
  ASSUME cancel' = NoCancel
  PROVE  BarrierStands' /\ StaysIdle' /\ cancel' \in Cancel
BY DEF NoCancel, BarrierStands, StaysIdle, Cancel

\* Submissions: rows, requests and jobs, but no stub.
LEMMA SubmissionKeeps ==
  ASSUME SlurmInv, NEW q \in Requests,
         \/ Submit(q) \/ SubmitAnswers(q) \/ SubmitFails(q)
         \/ \E j \in Jobs : SbatchAccepts(q, j)
  PROVE  SlurmInv'
<1>1. SlurmTypeOK'
  <2>1. CASE Submit(q)
    BY <2>1 DEF Submit, SlurmInv, SlurmTypeOK, SlurmRow, RowState, Request, NoJob
  <2>2. CASE SubmitAnswers(q)
    BY <2>2 DEF SubmitAnswers, SlurmInv, SlurmTypeOK, SlurmRow, RowState, Request, NoRequest, NoJob
  <2>3. CASE SubmitFails(q)
    BY <2>3 DEF SubmitFails, SlurmInv, SlurmTypeOK, SlurmRow, RowState, Request, NoRequest, NoJob
  <2>4. ASSUME NEW j \in Jobs, SbatchAccepts(q, j) PROVE SlurmTypeOK'
    BY <2>4 DEF SbatchAccepts, SlurmInv, SlurmTypeOK, JobState, Request
  <2> QED BY <2>1, <2>2, <2>3, <2>4
<1>2. jobStub' = jobStub /\ cancel' = cancel
  BY DEF Submit, SubmitAnswers, SubmitFails, SbatchAccepts
<1> QED BY <1>1, <1>2, CancelUndisturbed DEF SlurmInv, NoWorkAdded

LEMMA NothingListed == NoListing \in Snapshot
BY DEF NoListing, Snapshot, JobState

\* A listing that is applied may release a stub, which holds it back.
LEMMA ListingKeeps ==
  ASSUME SlurmInv, ListJobs \/ ListFails \/ ApplySnapshot
  PROVE  SlurmInv'
<1>1. CASE ListJobs \/ (ListFails /\ slurmRow.state = "none")
  <2>1. UNCHANGED <<slurmRow, job, jobStub, request, cancel, slurmLeft>>
    BY <1>1 DEF ListJobs, ListFails
  <2>2. snapshot' \in Snapshot
    <3>1. CASE ListJobs
      BY <3>1 DEF ListJobs, SlurmInv, SlurmTypeOK, Snapshot, JobState
    <3>2. CASE ListFails
      BY <3>2, NothingListed DEF ListFails
    <3> QED BY <1>1, <3>1, <3>2
  <2>3. SlurmTypeOK' /\ jobStub' = jobStub /\ cancel' = cancel
    BY <2>1, <2>2 DEF SlurmInv, SlurmTypeOK
  <2> QED BY <2>3, CancelUndisturbed DEF SlurmInv, NoWorkAdded
<1>2. CASE ApplySnapshot \/ (ListFails /\ slurmRow.state # "none")
  <2>1. PICK state \in RowState, j \in Jobs \cup {NoJob}, complete \in BOOLEAN : Apply(state, j, complete)
    <3>1. slurmRow.job \in Jobs \cup {NoJob} /\ slurmRow.state \in RowState
      BY DEF SlurmInv, SlurmTypeOK, SlurmRow
    <3>2. Absent(slurmRow.state) \in RowState /\ \A j \in Jobs : Observed(j) \in RowState
      BY <3>1 DEF Absent, Observed, RowState
    <3> QED BY <1>2, <3>1, <3>2 DEF ApplySnapshot, ListFails
  <2>2. slurmRow' \in SlurmRow
    BY <2>1 DEF Apply, SlurmInv, SlurmTypeOK, SlurmRow, RowState
  <2>3. jobStub' \in [Jobs -> JobStub] /\ NoWorkAdded
    <3>1. jobStub \in [Jobs -> JobStub]
      BY DEF SlurmInv, SlurmTypeOK
    <3>2. CASE jobStub' = jobStub
      BY <3>1, <3>2 DEF NoWorkAdded
    <3>3. CASE j \in Jobs /\ jobStub' = [jobStub EXCEPT ![j].up = "offline", ![j].released = TRUE,
                                                      ![j].drained = TRUE]
      BY <3>1, <3>3 DEF JobStub, NoWorkAdded
    <3>4. \/ jobStub' = jobStub
          \/ /\ j # NoJob
             /\ jobStub' = [jobStub EXCEPT ![j].up = "offline", ![j].released = TRUE,
                                           ![j].drained = TRUE]
      BY <2>1 DEF Apply
    <3> QED BY <3>2, <3>3, <3>4
  <2>4. snapshot' \in Snapshot /\ UNCHANGED <<job, request, cancel, slurmLeft>>
    BY <1>2, NothingListed DEF ApplySnapshot, ListFails
  <2>5. SlurmTypeOK' /\ cancel' = cancel
    BY <2>2, <2>3, <2>4 DEF SlurmInv, SlurmTypeOK
  <2> QED BY <2>3, <2>5, CancelUndisturbed DEF SlurmInv
<1> QED BY <1>1, <1>2

\* The barrier holds the stub back, and the second look sees it without a task.
LEMMA CancellationKeeps ==
  ASSUME SlurmInv,
         ChooseAllocation \/ PrepareRelease \/ LookAgain \/ ScancelLands \/ CancelAnswers \/ CancelFails
  PROVE  SlurmInv'
<1>1. CASE ChooseAllocation
  BY <1>1 DEF ChooseAllocation, NoCancel, SlurmInv, SlurmTypeOK, SlurmRow, Cancel, BarrierStands, StaysIdle
<1>2. CASE PrepareRelease
  <2>1. cancel' \in Cancel /\ cancel'.at = "barrier" /\ cancel'.stub = cancel.stub
    BY <1>2 DEF PrepareRelease, SlurmInv, SlurmTypeOK, Cancel
  <2>2. jobStub' \in [Jobs -> JobStub] /\ (cancel.stub # NoJob => jobStub'[cancel.stub].drained)
    BY <1>2 DEF PrepareRelease, SlurmInv, SlurmTypeOK, Cancel, JobStub
  <2> QED BY <1>2, <2>1, <2>2 DEF PrepareRelease, SlurmInv, SlurmTypeOK, BarrierStands, StaysIdle
<1>3. CASE LookAgain
  <2>1. CASE cancel' = NoCancel
    BY <1>3, <2>1, NoCancelRelies DEF LookAgain, SlurmInv, SlurmTypeOK
  <2>2. CASE Releasable /\ cancel' = [cancel EXCEPT !.at = "scancel", !.job = slurmRow.job, !.seen = slurmRow.stub]
    <3>1. /\ cancel' \in Cancel /\ cancel'.at = "scancel" /\ cancel'.stub = cancel.stub
          /\ cancel'.job = slurmRow.job /\ cancel'.seen = slurmRow.stub
      BY <2>2 DEF SlurmInv, SlurmTypeOK, Cancel, SlurmRow
    <3>2. jobStub' = jobStub
      BY <1>3 DEF LookAgain
    <3>3. BarrierStands'
      BY <1>3, <3>1, <3>2 DEF LookAgain, SlurmInv, BarrierStands
    <3>4. StaysIdle'
      BY <2>2, <3>1, <3>2 DEF Releasable, StaysIdle
    <3> QED BY <1>3, <3>1, <3>3, <3>4 DEF LookAgain, SlurmInv, SlurmTypeOK
  <2> QED BY <1>3, <2>1, <2>2 DEF LookAgain
<1>4. CASE ScancelLands
  <2>1. cancel.job \in Jobs
    BY <1>4 DEF ScancelLands, SlurmInv, SlurmTypeOK, StaysIdle, Cancel
  <2>2. jobStub' \in [Jobs -> JobStub] /\ NoWorkAdded
    BY <1>4, <2>1 DEF ScancelLands, StubDies, SlurmInv, SlurmTypeOK, JobStub, NoWorkAdded
  <2>3. SlurmTypeOK' /\ cancel' = cancel
    BY <1>4, <2>1, <2>2 DEF ScancelLands, SlurmInv, SlurmTypeOK, JobState
  <2> QED BY <2>2, <2>3, CancelUndisturbed DEF SlurmInv
<1>5. CASE CancelAnswers \/ CancelFails
  <2>1. cancel' = NoCancel /\ jobStub' = jobStub
    BY <1>5 DEF CancelAnswers, CancelFails
  <2>2. SlurmTypeOK'
    BY <1>5, <2>1, NoCancelRelies DEF CancelAnswers, CancelFails, SlurmInv, SlurmTypeOK, SlurmRow, RowState
  <2> QED BY <2>1, <2>2, NoCancelRelies DEF SlurmInv
<1> QED BY <1>1, <1>2, <1>3, <1>4, <1>5

\* Jobs end, stubs register and drop, tasks come and go: a dispatch looks at the barrier.
LEMMA StubsKeep ==
  ASSUME SlurmInv, NEW j \in Jobs,
         JobMoves(j) \/ StubRegisters(j) \/ StubDrops(j) \/ DispatchTo(j) \/ TaskLeaves(j)
  PROVE  SlurmInv'
<1>1. jobStub' \in [Jobs -> JobStub] /\ NoWorkAdded
  <2>1. CASE JobMoves(j)
    <3>1. jobStub' = jobStub \/ StubDies(j)
      BY <2>1 DEF JobMoves
    <3>2. jobStub \in [Jobs -> JobStub]
      BY DEF SlurmInv, SlurmTypeOK
    <3>3. CASE StubDies(j)
      <4> DEFINE dead == [jobStub[j] EXCEPT !.up = IF @ = "none" THEN @ ELSE "offline", !.busy = FALSE]
      <4>1. jobStub[j] \in JobStub
        BY <3>2
      <4>2. dead \in JobStub /\ dead.drained = jobStub[j].drained /\ ~dead.busy
        BY <4>1 DEF JobStub
      <4>3. jobStub' = [jobStub EXCEPT ![j] = dead]
        BY <3>2, <3>3 DEF StubDies
      <4> HIDE DEF dead
      <4>4. jobStub' \in [Jobs -> JobStub] /\ jobStub'[j] = dead
            /\ \A i \in Jobs \ {j} : jobStub'[i] = jobStub[i]
        BY <3>2, <4>2, <4>3
      <4> QED BY <4>2, <4>4 DEF NoWorkAdded
    <3> QED BY <3>1, <3>2, <3>3 DEF NoWorkAdded
  <2>2. CASE StubRegisters(j)
    <3>1. \/ jobStub' = [jobStub EXCEPT ![j].up = "online"]
          \/ jobStub' = [jobStub EXCEPT ![j].up = "offline", ![j].released = TRUE, ![j].drained = TRUE]
      BY <2>2 DEF StubRegisters
    <3> QED BY <3>1 DEF SlurmInv, SlurmTypeOK, JobStub, NoWorkAdded
  <2>3. CASE StubDrops(j)
    BY <2>3 DEF StubDrops, SlurmInv, SlurmTypeOK, JobStub, NoWorkAdded
  <2>4. CASE DispatchTo(j)
    BY <2>4 DEF DispatchTo, SlurmInv, SlurmTypeOK, JobStub, NoWorkAdded
  <2>5. CASE TaskLeaves(j)
    BY <2>5 DEF TaskLeaves, SlurmInv, SlurmTypeOK, JobStub, NoWorkAdded
  <2> QED BY <2>1, <2>2, <2>3, <2>4, <2>5
<1>2. slurmRow' \in SlurmRow
  <2>1. \/ slurmRow' = slurmRow
        \/ slurmRow' = [slurmRow EXCEPT !.stub = j, !.state = "stub_online"]
    BY DEF JobMoves, StubRegisters, StubDrops, DispatchTo, TaskLeaves
  <2> QED BY <2>1 DEF SlurmInv, SlurmTypeOK, SlurmRow, RowState
<1>3. job' \in [Jobs -> JobState]
  BY DEF JobMoves, StubRegisters, StubDrops, DispatchTo, TaskLeaves, SlurmInv, SlurmTypeOK, JobState
<1>4. /\ slurmLeft' \in Nat
      /\ UNCHANGED <<request, snapshot, cancel>>
  <2>1. slurmLeft' = slurmLeft \/ (slurmLeft > 0 /\ slurmLeft' = slurmLeft - 1)
    BY DEF JobMoves, StubRegisters, StubDrops, DispatchTo, TaskLeaves
  <2>2. UNCHANGED <<request, snapshot, cancel>>
    BY DEF JobMoves, StubRegisters, StubDrops, DispatchTo, TaskLeaves
  <2> QED BY <2>1, <2>2 DEF SlurmInv, SlurmTypeOK
<1> QED BY <1>1, <1>2, <1>3, <1>4, CancelUndisturbed DEF SlurmInv, SlurmTypeOK

LEMMA SlurmStep == SlurmInv /\ [SlurmNext]_slurmVars => SlurmInv'
<1> SUFFICES ASSUME SlurmInv, [SlurmNext]_slurmVars PROVE SlurmInv'
  OBVIOUS
<1>1. CASE SlurmRestart
  <2>1. SlurmTypeOK'
    BY <1>1, NoCancelRelies DEF SlurmRestart, SlurmInv, SlurmTypeOK, Request, NoRequest, Snapshot, NoListing, JobState
  <2> QED BY <1>1, <2>1, NoCancelRelies DEF SlurmRestart, SlurmInv
<1>2. CASE UNCHANGED slurmVars
  BY <1>2 DEF slurmVars, SlurmInv, SlurmTypeOK, BarrierStands, StaysIdle
<1> QED BY <1>1, <1>2, SubmissionKeeps, ListingKeeps, CancellationKeeps, StubsKeep DEF SlurmNext

\* What a cancellation relies on holds from its barrier to its scancel, whatever
\* submissions, listings, registrations and dispatches come between (capacity.ts:683-713).
THEOREM SlurmInvariance == SlurmSpec => []SlurmInv
BY SlurmInitial, SlurmStep, PTL DEF SlurmSpec

\* A cancellation that held back the stub of its job and looked at it again kills no
\* task (capacity.ts:683-705).
THEOREM CancellationSpares == SlurmSpec => CancelSparesWork
<1>1. SlurmInv /\ [SlurmNext]_slurmVars
        => [ScancelLands /\ {cancel.stub, cancel.seen} = {cancel.job} => ~jobStub[cancel.job].busy]_slurmVars
  BY DEF SlurmInv, StaysIdle, ScancelLands
<1> QED BY <1>1, SlurmInvariance, PTL DEF SlurmSpec, CancelSparesWork

-----------------------------------------------------------------------------
(* The outbox: Webhooks. *)

\* One call of processWebhookOutbox at a time, and an idle one holds nothing.
OneAtWork ==
  /\ \A p, q \in Pollers : poller[p].running /\ poller[q].running => p = q
  /\ \A p \in Pollers :
       /\ ~poller[p].running => poller[p].batch = {} /\ poller[p].post = NoPost
       /\ poller[p].post.of = Nothing => poller[p].post.stage = "sent"

\* What a call read and has not dealt with is still to be sent; what it is sending is
\* marked in flight and no more in its batch.
WorkIsOpen ==
  \A p \in Pollers, d \in Deliveries :
    /\ d \in poller[p].batch => outbox[d].status \in {"pending", "in_flight"}
    /\ poller[p].post.of = d => outbox[d].status = "in_flight" /\ d \notin poller[p].batch

\* A row comes after the first POST and has an attempt left while it is open.
RowsAfterFirstPost ==
  \A d \in Deliveries :
    /\ outbox[d].status # "none" => hook[d] = "over"
    /\ outbox[d].status \in {"pending", "in_flight"} => outbox[d].attempts < OutboxMaxAttempts

\* A success outlives its row, but for the call that is about to delete it, and for the
\* rows it is known to have left behind; nothing is deleted or left behind without one.
\* Between its two commits a call has recorded the success of what it is sending.
Recording(d) == \E p \in Pollers : poller[p].post = [of |-> d, stage |-> "recorded"]
RowsOfSuccesses ==
  /\ \A d \in succeeded : hook[d] = "over" /\ (outbox[d].status = "none" \/ d \in outlived \/ Recording(d))
  /\ outlived \subseteq succeeded
  /\ \A d \in Deliveries : Recording(d) => d \in succeeded

HookInv ==
  /\ WebhookTypeOK /\ OneAtWork /\ WorkIsOpen /\ RowsAfterFirstPost /\ RowsOfSuccesses
  /\ DeliveryAccounted

\* The records the actions start from are of their types.
LEMMA RecordsTyped == NoRow \in Row /\ IdlePoller \in Poller /\ NoPost \in Post
BY WebhookAssumption DEF Row, NoRow, Poller, IdlePoller, Post, NoPost, Nothing

\* A call that changes its batch or its POST keeps its type.
LEMMA PollerUpdated ==
  ASSUME WebhookTypeOK, NEW p \in Pollers, NEW b \in SUBSET Deliveries, NEW x \in Post
  PROVE  /\ [poller EXCEPT ![p].batch = b, ![p].post = x] \in [Pollers -> Poller]
         /\ [poller EXCEPT ![p].batch = b] \in [Pollers -> Poller]
         /\ [poller EXCEPT ![p].post = x] \in [Pollers -> Poller]
<1>1. poller[p] \in Poller /\ poller \in [Pollers -> Poller]
  BY DEF WebhookTypeOK
<1>2. /\ [poller[p] EXCEPT !.batch = b, !.post = x] \in Poller
      /\ [poller[p] EXCEPT !.batch = b] \in Poller
      /\ [poller[p] EXCEPT !.post = x] \in Poller
  BY <1>1 DEF Poller
<1> QED BY <1>1, <1>2

\* Initially nothing is there.
LEMMA HookInit == WebhookInit => HookInv
<1> SUFFICES ASSUME WebhookInit PROVE HookInv
  OBVIOUS
<1>1. WebhookTypeOK
  BY WebhookAssumption, RecordsTyped DEF WebhookInit, WebhookTypeOK
<1>2. OneAtWork /\ WorkIsOpen /\ RowsAfterFirstPost /\ RowsOfSuccesses /\ DeliveryAccounted
  BY WebhookAssumption DEF WebhookInit, OneAtWork, WorkIsOpen, RowsAfterFirstPost, RowsOfSuccesses,
     Recording, DeliveryAccounted, NoRow, IdlePoller, NoPost, Nothing
<1> QED BY <1>1, <1>2 DEF HookInv

\* What a step may do to the successes: nothing is recorded or brought back, and a call
\* ends between its commits only with the row or by leaving it behind.
LEMMA SuccessesKept ==
  ASSUME HookInv, succeeded' = succeeded, outlived \subseteq outlived', outlived' \subseteq succeeded,
         \A d \in Deliveries : hook[d] = "over" => hook'[d] = "over",
         \A d \in succeeded : outbox[d].status = "none" => outbox'[d].status = "none",
         \A d \in Deliveries : Recording(d)' => Recording(d),
         \A d \in succeeded : Recording(d) => Recording(d)' \/ outbox'[d].status = "none" \/ d \in outlived'
  PROVE  RowsOfSuccesses'
<1>1. succeeded \subseteq Deliveries
  BY DEF HookInv, WebhookTypeOK
<1> QED BY <1>1 DEF HookInv, RowsOfSuccesses

\* A call that is at work is the only one: the others hold nothing.
LEMMA OthersIdle ==
  ASSUME HookInv, NEW p \in Pollers, NEW q \in Pollers, q # p,
         poller[p].batch # {} \/ poller[p].post # NoPost
  PROVE  poller[q].batch = {} /\ poller[q].post = NoPost
BY DEF HookInv, OneAtWork

\* So only that call can be between its commits.
LEMMA OnlyOneRecords ==
  ASSUME NEW f, NEW p \in Pollers, \A q \in Pollers : q # p => f[q].post = NoPost
  PROVE  \A d \in Deliveries : (\E q \in Pollers : f[q].post = [of |-> d, stage |-> "recorded"])
                               <=> f[p].post = [of |-> d, stage |-> "recorded"]
BY DEF NoPost

\* A call whose POST is at another stage records nothing.
LEMMA NotRecording ==
  /\ (\A q \in Pollers : poller[q].post.stage = "sent") => \A e \in Deliveries : ~Recording(e)
  /\ (\A q \in Pollers : poller'[q].post.stage = "sent") => \A e \in Deliveries : ~Recording(e)'
<1>1. ASSUME NEW e \in Deliveries, NEW x, x = [of |-> e, stage |-> "recorded"]
      PROVE  x.stage # "sent"
  BY <1>1
<1> QED BY <1>1 DEF Recording

\* The record of a call that records.
LEMMA RecordingPost ==
  ASSUME NEW x, NEW e, x = [of |-> e, stage |-> "recorded"]
  PROVE  x.of = e /\ x.stage = "recorded"
OBVIOUS

\* The first POST of a delivery: the outbox and the calls of the timer know nothing of it.
LEMMA FirstPostKeeps ==
  ASSUME HookInv, NEW d \in Deliveries,
         \/ StatusChanges(d) \/ FirstPostLands(d) \/ FirstPostSucceeds(d) \/ FirstPostFails(d)
  PROVE  HookInv'
<1> USE WebhookAssumption DEF HookInv
<1>1. outbox[d].status = "none" \/ hook[d] = "over"
  BY DEF RowsAfterFirstPost
<1>2. CASE StatusChanges(d)
  <2>1. RowsOfSuccesses'
    BY <1>2 DEF StatusChanges, WebhookTypeOK, RowsOfSuccesses, Recording
  <2> QED BY <1>2, <2>1 DEF StatusChanges, WebhookTypeOK, OneAtWork, WorkIsOpen, RowsAfterFirstPost, DeliveryAccounted
<1>3. CASE FirstPostLands(d)
  <2>1. RowsOfSuccesses'
    BY <1>3 DEF FirstPostLands, WebhookTypeOK, RowsOfSuccesses, Recording
  <2> QED BY <1>3, <2>1 DEF FirstPostLands, WebhookTypeOK, OneAtWork, WorkIsOpen, RowsAfterFirstPost, DeliveryAccounted
<1>4. CASE FirstPostSucceeds(d)
  <2>1. RowsOfSuccesses'
    BY <1>1, <1>4 DEF FirstPostSucceeds, WebhookTypeOK, RowsOfSuccesses, Recording
  <2> QED BY <1>1, <1>4, <2>1 DEF FirstPostSucceeds, WebhookTypeOK, OneAtWork, WorkIsOpen, RowsAfterFirstPost,
             DeliveryAccounted
<1>5. CASE FirstPostFails(d)
  <2>1. \A p \in Pollers : d \notin poller[p].batch /\ poller[p].post.of # d
    BY <1>1, <1>5 DEF FirstPostFails, WorkIsOpen
  <2>2. d \notin succeeded
    BY <1>5 DEF FirstPostFails, RowsOfSuccesses
  <2>3. WebhookTypeOK'
    BY <1>5 DEF FirstPostFails, WebhookTypeOK, Row
  <2>4. (OneAtWork /\ WorkIsOpen /\ RowsAfterFirstPost /\ DeliveryAccounted)'
    BY <1>5, <2>1, <2>2 DEF FirstPostFails, WebhookTypeOK, OneAtWork, WorkIsOpen,
       RowsAfterFirstPost, DeliveryAccounted, Row
  <2>5. RowsOfSuccesses'
    <3>1. \A e \in Deliveries : e # d => outbox'[e] = outbox[e]
      BY <1>5 DEF FirstPostFails, WebhookTypeOK
    <3> QED BY <1>5, <2>2, <3>1 DEF FirstPostFails, WebhookTypeOK, RowsOfSuccesses, Recording
  <2> QED BY <2>3, <2>4, <2>5
<1> QED BY <1>2, <1>3, <1>4, <1>5

\* The timer: rows fall due, and a call begins and ends.
LEMMA TimerKeeps ==
  ASSUME HookInv,
         \/ \E d \in Deliveries : RetryTimePasses(d)
         \/ \E p \in Pollers : Poll(p) \/ PollEnds(p)
  PROVE  HookInv'
<1> USE WebhookAssumption DEF HookInv
<1>1. ASSUME NEW d \in Deliveries, RetryTimePasses(d) PROVE HookInv'
  <2>1. outbox' \in [Deliveries -> Row] /\ outbox'[d].status = outbox[d].status
          /\ outbox'[d].attempts = outbox[d].attempts
    BY <1>1 DEF RetryTimePasses, WebhookTypeOK, Row
  <2>2. \A e \in Deliveries : e # d => outbox'[e] = outbox[e]
    BY <1>1 DEF RetryTimePasses, WebhookTypeOK
  <2>3. RowsOfSuccesses'
    BY <1>1, <2>1, <2>2 DEF RetryTimePasses, WebhookTypeOK, RowsOfSuccesses, Recording
  <2> QED BY <1>1, <2>1, <2>2, <2>3 DEF RetryTimePasses, WebhookTypeOK, OneAtWork, WorkIsOpen,
             RowsAfterFirstPost, DeliveryAccounted
<1>2. ASSUME NEW p \in Pollers, Poll(p) PROVE HookInv'
  <2>1. Due \subseteq Deliveries /\ \A d \in Due : outbox[d].status \in {"pending", "in_flight"}
    BY DEF Due
  <2>2. WebhookTypeOK'
    BY <1>2, <2>1 DEF Poll, WebhookTypeOK, Poller, Post, NoPost
  <2>3. (OneAtWork /\ WorkIsOpen)'
    BY <1>2, <2>1 DEF Poll, WebhookTypeOK, OneAtWork, WorkIsOpen, NoPost, Nothing
  <2>4. poller[p].post = NoPost /\ \A q \in Pollers : poller'[q].post = poller[q].post
    BY <1>2 DEF Poll, OneAtWork, WebhookTypeOK
  <2>5. RowsOfSuccesses'
    BY <1>2, <2>4 DEF Poll, RowsOfSuccesses, Recording
  <2> QED BY <1>2, <2>2, <2>3, <2>5 DEF Poll, RowsAfterFirstPost, DeliveryAccounted
<1>3. ASSUME NEW p \in Pollers, PollEnds(p) PROVE HookInv'
  <2>1. \A q \in Pollers : poller'[q].post = poller[q].post
    BY <1>3 DEF PollEnds, WebhookTypeOK, IdlePoller
  <2>2. RowsOfSuccesses'
    BY <1>3, <2>1 DEF PollEnds, RowsOfSuccesses, Recording
  <2> QED BY <1>3, <2>2 DEF PollEnds, WebhookTypeOK, OneAtWork, WorkIsOpen, RowsAfterFirstPost,
     DeliveryAccounted, Poller, IdlePoller, Post, NoPost, Nothing
<1> QED BY <1>1, <1>2, <1>3

\* retryOutboxDelivery: the row that is sent is open, and nobody else sends it.
LEMMA RetryKeeps ==
  ASSUME HookInv, NEW p \in Pollers,
         \/ \E d \in Deliveries : Retry(p, d)
         \/ RetryLands(p) \/ RetrySucceeds(p) \/ RetryRemoves(p)
         \/ RetryFails(p) \/ RemovalFails(p) \/ WriteFails(p)
  PROVE  HookInv'
<1> USE WebhookAssumption DEF HookInv
<1>1. ASSUME NEW d \in Deliveries, Retry(p, d) PROVE HookInv'
  <2>1. outbox[d].status \in {"pending", "in_flight"} /\ poller[p].running
    BY <1>1 DEF Retry, WorkIsOpen, OneAtWork
  <2>2. \A q \in Pollers : q # p => poller[q].batch = {} /\ poller[q].post = NoPost
    BY <1>1, OthersIdle DEF Retry
  <2>3. PICK s \in {"in_flight", "exhausted"} :
          outbox' = [outbox EXCEPT ![d] = [outbox[d] EXCEPT !.status = s]]
    BY <1>1, <2>1 DEF Retry, Written
  <2>4. outbox' \in [Deliveries -> Row] /\ outbox'[d].status = s
          /\ outbox'[d].attempts = outbox[d].attempts
    BY <2>3 DEF WebhookTypeOK, Row
  <2>5. \A e \in Deliveries : e # d => outbox'[e] = outbox[e]
    BY <2>3 DEF WebhookTypeOK
  <2>6. RowsAfterFirstPost' /\ DeliveryAccounted'
    BY <1>1, <2>1, <2>4, <2>5 DEF Retry, RowsAfterFirstPost, DeliveryAccounted
  <2>7. RowsOfSuccesses'
    <3>1. poller[p].post = NoPost /\ poller'[p].post.stage = "sent"
          /\ \A q \in Pollers : q # p => poller'[q].post = NoPost
      BY <1>1, <2>2 DEF Retry, NoPost, WebhookTypeOK, Poller
    <3>2. /\ \A q \in Pollers : poller[q].post.stage = "sent"
          /\ \A q \in Pollers : poller'[q].post.stage = "sent"
      BY <2>2, <3>1 DEF NoPost
    <3>3. \A e \in Deliveries : ~Recording(e) /\ ~Recording(e)'
      BY <3>2, NotRecording
    <3>4. UNCHANGED <<hook, succeeded, outlived>>
      BY <1>1 DEF Retry
    <3>5. \A e \in Deliveries : outbox[e].status = "none" => outbox'[e].status = "none"
      BY <2>1, <2>5
    <3> QED BY <3>3, <3>4, <3>5, SuccessesKept DEF RowsOfSuccesses, WebhookTypeOK
  <2>8. CASE wanted
    <3>1. /\ poller' = [poller EXCEPT ![p].batch = @ \ {d}, ![p].post = [of |-> d, stage |-> "sent"]]
          /\ s = "in_flight"
      <4>1. outbox' = [outbox EXCEPT ![d] = [outbox[d] EXCEPT !.status = "in_flight"]]
        BY <1>1, <2>1, <2>8 DEF Retry, Written
      <4>2. outbox'[d].status = "in_flight"
        BY <4>1 DEF WebhookTypeOK, Row
      <4> QED BY <1>1, <2>4, <2>8, <4>2 DEF Retry
    <3>2. /\ poller'[p].batch = poller[p].batch \ {d} /\ poller'[p].running
          /\ poller'[p].post = [of |-> d, stage |-> "sent"]
          /\ \A q \in Pollers : q # p => poller'[q] = poller[q]
      BY <2>1, <3>1 DEF WebhookTypeOK, Poller
    <3>3. WebhookTypeOK'
      <4>1. [of |-> d, stage |-> "sent"] \in Post /\ poller[p].batch \ {d} \in SUBSET Deliveries
        BY DEF Post, WebhookTypeOK, Poller
      <4>2. poller' \in [Pollers -> Poller]
        BY <3>1, <4>1, PollerUpdated
      <4> QED BY <1>1, <2>4, <4>2 DEF Retry, WebhookTypeOK
    <3>4. OneAtWork' /\ WorkIsOpen'
      <4>1. d # Nothing
        BY DEF Nothing
      <4>2. OneAtWork'
        BY <2>1, <2>2, <3>2, <4>1 DEF OneAtWork
      <4>3. ASSUME NEW q \in Pollers, NEW e \in Deliveries
            PROVE  /\ e \in poller'[q].batch => outbox'[e].status \in {"pending", "in_flight"}
                   /\ poller'[q].post.of = e => outbox'[e].status = "in_flight" /\ e \notin poller'[q].batch
        <5>1. CASE q = p
          <6>1. outbox'[d].status = "in_flight"
            BY <2>4, <3>1
          <6>2. /\ e \in poller[p].batch \ {d} => outbox'[e].status \in {"pending", "in_flight"}
                /\ d = e => outbox'[e].status = "in_flight" /\ e \notin poller[p].batch \ {d}
            BY <2>5, <6>1 DEF WorkIsOpen
          <6> QED BY <3>2, <5>1, <6>2
        <5>2. CASE q # p
          BY <2>2, <3>2, <5>2 DEF NoPost, Nothing
        <5> QED BY <5>1, <5>2
      <4> QED BY <4>2, <4>3 DEF WorkIsOpen
    <3> QED BY <2>6, <2>7, <3>3, <3>4
  <2>9. CASE ~wanted
    <3>1. poller' = [poller EXCEPT ![p].batch = @ \ {d}]
      BY <1>1, <2>9 DEF Retry
    <3>2. /\ poller'[p].batch = poller[p].batch \ {d} /\ poller'[p].running
          /\ poller'[p].post = poller[p].post
          /\ \A q \in Pollers : q # p => poller'[q] = poller[q]
      BY <2>1, <3>1 DEF WebhookTypeOK, Poller
    <3>3. WebhookTypeOK'
      BY <1>1, <2>4, <3>1 DEF Retry, WebhookTypeOK, Poller
    <3>4. OneAtWork' /\ WorkIsOpen'
      BY <1>1, <2>2, <2>5, <3>2 DEF Retry, OneAtWork, WorkIsOpen, NoPost, Nothing
    <3> QED BY <2>6, <2>7, <3>3, <3>4
  <2> QED BY <2>8, <2>9
<1>2. ASSUME poller[p].post # NoPost
      PROVE  /\ poller[p].post.of \in Deliveries /\ poller[p].running
             /\ outbox[poller[p].post.of].status = "in_flight"
             /\ poller[p].post.of \notin poller[p].batch
             /\ \A q \in Pollers : q # p => poller[q].batch = {} /\ poller[q].post = NoPost
             /\ hook[poller[p].post.of] = "over"
             /\ \A d \in Deliveries : Recording(d) <=> poller[p].post = [of |-> d, stage |-> "recorded"]
  <2>1. poller[p].post.of \in Deliveries /\ poller[p].running
    BY <1>2 DEF OneAtWork, WebhookTypeOK, Poller, Post, NoPost
  <2>2. \A q \in Pollers : q # p => poller[q].batch = {} /\ poller[q].post = NoPost
    BY <1>2, OthersIdle
  <2> QED BY <2>1, <2>2, OnlyOneRecords DEF WorkIsOpen, RowsAfterFirstPost, Recording
<1>3. CASE RetryLands(p) \/ RetrySucceeds(p)
  <2> DEFINE d == poller[p].post.of
  <2>1. poller[p].post # NoPost
    BY <1>3 DEF RetryLands, RetrySucceeds, NoPost
  <2>2. PICK x \in {"landed", "recorded"} : poller' = [poller EXCEPT ![p].post.stage = x]
    BY <1>3 DEF RetryLands, RetrySucceeds
  <2>3. poller[p] \in Poller /\ poller[p].post \in Post
    BY DEF WebhookTypeOK, Poller
  <2>4. /\ poller'[p].batch = poller[p].batch /\ poller'[p].running = poller[p].running
        /\ poller'[p].post = [of |-> d, stage |-> x]
        /\ \A q \in Pollers : q # p => poller'[q] = poller[q]
    BY <2>2, <2>3 DEF WebhookTypeOK, Poller, Post
  <2>5. poller' \in [Pollers -> Poller]
    BY <2>2, <2>3 DEF WebhookTypeOK, Poller, Post
  <2>6. succeeded' \in SUBSET Deliveries /\ succeeded \subseteq succeeded' /\ UNCHANGED <<hook, outbox, wanted, cutHooks, outlived, hookLeft>>
    BY <1>2, <1>3, <2>1 DEF RetryLands, RetrySucceeds, WebhookTypeOK
  <2>7. \/ x = "landed" /\ succeeded' = succeeded /\ poller[p].post.stage # "recorded"
        \/ x = "recorded" /\ succeeded' = succeeded \cup {d}
    <3>1. poller'[p].post.stage = x /\ poller \in [Pollers -> Poller]
      BY <2>4 DEF WebhookTypeOK
    <3>2. CASE RetryLands(p)
      <4>1. poller'[p].post.stage = "landed"
        BY <2>3, <3>1, <3>2 DEF RetryLands, Poller, Post
      <4> QED BY <3>1, <3>2, <4>1 DEF RetryLands
    <3>3. CASE RetrySucceeds(p)
      <4>1. poller'[p].post.stage = "recorded"
        BY <2>3, <3>1, <3>3 DEF RetrySucceeds, Poller, Post
      <4> QED BY <3>1, <3>3, <4>1 DEF RetrySucceeds
    <3> QED BY <1>3, <3>2, <3>3
  <2>8. \A e \in Deliveries : Recording(e)' <=> [of |-> d, stage |-> x] = [of |-> e, stage |-> "recorded"]
    <3>1. \A q \in Pollers : q # p => poller'[q].post = NoPost
      BY <1>2, <2>1, <2>4
    <3> QED BY <2>4, <3>1, OnlyOneRecords DEF Recording
  <2>9. d \in Deliveries /\ d # Nothing
    BY <1>2, <2>1, WebhookAssumption DEF Nothing
  <2>10. OneAtWork' /\ WorkIsOpen'
    BY <1>2, <2>1, <2>4, <2>6, <2>9 DEF OneAtWork, WorkIsOpen, NoPost, Nothing
  <2>11. RowsAfterFirstPost' /\ DeliveryAccounted' /\ WebhookTypeOK'
    BY <2>5, <2>6 DEF RowsAfterFirstPost, DeliveryAccounted, WebhookTypeOK
  <2> HIDE DEF d
  <2>12. RowsOfSuccesses'
    <3>1. CASE x = "landed" /\ succeeded' = succeeded /\ poller[p].post.stage # "recorded"
      <4>1. \A e \in Deliveries : ~Recording(e)
        BY <1>2, <2>1, <3>1, RecordingPost
      <4>2. \A e \in Deliveries : ~Recording(e)'
        BY <2>8, <3>1
      <4> QED BY <2>6, <3>1, <4>1, <4>2, SuccessesKept DEF RowsOfSuccesses
    <3>2. CASE x = "recorded" /\ succeeded' = succeeded \cup {d}
      <4>1. \A e \in Deliveries : Recording(e)' <=> e = d
        BY <2>8, <3>2
      <4>2. \A e \in Deliveries : Recording(e) => e = d
        BY <1>2, <2>1, RecordingPost DEF d
      <4>3. hook[d] = "over"
        BY <1>2, <2>1 DEF d
      <4> QED BY <2>6, <2>9, <3>2, <4>1, <4>2, <4>3 DEF RowsOfSuccesses, WebhookTypeOK
    <3> QED BY <2>7, <3>1, <3>2
  <2> QED BY <2>10, <2>11, <2>12
<1>4. CASE RetryRemoves(p) \/ RetryFails(p) \/ RemovalFails(p)
  <2> DEFINE d == poller[p].post.of
  <2>1. poller[p].post # NoPost
    BY <1>4 DEF RetryRemoves, RetryFails, RemovalFails, NoPost
  <2>2. d \in Deliveries /\ outbox[d].status = "in_flight" /\ d \notin poller[p].batch /\ hook[d] = "over"
    BY <1>2, <2>1
  <2>3. \A q \in Pollers : q # p => poller[q].batch = {} /\ poller[q].post = NoPost
    BY <1>2, <2>1
  <2>4. /\ poller'[p].batch = poller[p].batch /\ poller'[p].running = poller[p].running
        /\ poller'[p].post = NoPost
        /\ \A q \in Pollers : q # p => poller'[q] = poller[q]
        /\ poller' \in [Pollers -> Poller]
    <3>1. poller' = [poller EXCEPT ![p].post = NoPost]
      BY <1>4 DEF RetryRemoves, RetryFails, RemovalFails
    <3> QED BY <3>1, RecordsTyped, PollerUpdated DEF WebhookTypeOK, Poller
  <2>5. /\ Failed(outbox[d]) \in Row /\ Failed(outbox[d]).status # "none"
        /\ Failed(outbox[d]).status \in {"pending", "in_flight"} =>
             Failed(outbox[d]).attempts < OutboxMaxAttempts
    <3>1. outbox[d].attempts \in Nat /\ outbox[d].attempts < OutboxMaxAttempts
      BY <2>2 DEF RowsAfterFirstPost, WebhookTypeOK, Row
    <3> QED BY <3>1 DEF Failed, Row
  <2>6. PICK row \in {NoRow, Failed(outbox[d])} : outbox' = [outbox EXCEPT ![d] = row]
    BY <1>4, <2>2 DEF RetryRemoves, RetryFails, RemovalFails, Written
  <2>7. outbox' \in [Deliveries -> Row] /\ outbox'[d] = row /\ \A e \in Deliveries : e # d => outbox'[e] = outbox[e]
    BY <2>2, <2>5, <2>6, RecordsTyped DEF WebhookTypeOK
  <2>8. /\ hook' = hook /\ succeeded' = succeeded /\ cutHooks' = cutHooks /\ wanted' = wanted
        /\ hookLeft' \in 0..HookFaults /\ outlived \subseteq outlived' /\ outlived' \subseteq outlived \cup {d}
    BY <1>4 DEF RetryRemoves, RetryFails, RemovalFails, HookFault, WebhookTypeOK
  <2>9. \/ row = NoRow /\ outlived' = outlived /\ d \in succeeded
        \/ poller[p].post.stage # "recorded" /\ row = Failed(outbox[d]) /\ outlived' = outlived
        \/ row = Failed(outbox[d]) /\ d \in outlived' /\ d \in succeeded
    <3>1. CASE poller[p].post.stage = "recorded"
      <4>1. poller[p].post \in Post
        BY DEF WebhookTypeOK, Poller
      <4>2. poller[p].post = [of |-> d, stage |-> "recorded"]
        BY <3>1, <4>1 DEF Post
      <4>3. d \in succeeded
        BY <1>2, <2>1, <2>2, <4>2 DEF RowsOfSuccesses
      <4> QED BY <1>4, <2>2, <2>7, <3>1, <4>3 DEF RetryRemoves, RetryFails, RemovalFails, Written, WebhookTypeOK
    <3>2. CASE poller[p].post.stage # "recorded"
      BY <1>4, <2>2, <2>7, <3>2 DEF RetryRemoves, RetryFails, RemovalFails, Written, WebhookTypeOK
    <3> QED BY <3>1, <3>2
  <2>10. \A e \in Deliveries : ~Recording(e)' /\ (Recording(e) => e = d /\ poller[p].post.stage = "recorded")
    <3>1. \A q \in Pollers : poller'[q].post.stage = "sent"
      BY <2>3, <2>4 DEF NoPost
    <3>2. \A e \in Deliveries : Recording(e) => e = d /\ poller[p].post.stage = "recorded"
      BY <1>2, <2>1, RecordingPost
    <3> QED BY <3>1, <3>2, NotRecording
  <2>11. WebhookTypeOK'
    BY <2>2, <2>4, <2>7, <2>8 DEF WebhookTypeOK
  <2> HIDE DEF d
  <2>12. OneAtWork' /\ WorkIsOpen'
    BY <1>2, <2>1, <2>2, <2>3, <2>4, <2>7 DEF OneAtWork, WorkIsOpen, NoPost, Nothing
  <2>13. RowsAfterFirstPost' /\ DeliveryAccounted'
    BY <2>2, <2>5, <2>7, <2>8, <2>9 DEF RowsAfterFirstPost, DeliveryAccounted, NoRow
  <2>14. RowsOfSuccesses'
    <3>1. outlived' \subseteq succeeded
      BY <2>8, <2>9 DEF RowsOfSuccesses
    <3>2. \A e \in succeeded : Recording(e) => outbox'[e].status = "none" \/ e \in outlived'
      BY <2>7, <2>9, <2>10 DEF WebhookTypeOK, NoRow
    <3>3. \A e \in succeeded : outbox[e].status = "none" => outbox'[e].status = "none"
      BY <2>2, <2>7 DEF WebhookTypeOK
    <3> QED BY <2>8, <2>10, <3>1, <3>2, <3>3, SuccessesKept
  <2> QED BY <2>11, <2>12, <2>13, <2>14
<1>5. CASE WriteFails(p)
  <2>1. /\ UNCHANGED <<hook, outbox, succeeded, wanted, cutHooks>> /\ hookLeft' \in 0..HookFaults
        /\ \A q \in Pollers : q # p => poller'[q] = poller[q]
    BY <1>5 DEF WriteFails, HookFault, WebhookTypeOK
  <2>2. CASE poller[p].post = NoPost
    <3>1. PICK d \in poller[p].batch : poller' = [poller EXCEPT ![p].batch = @ \ {d}]
      BY <1>5, <2>2 DEF WriteFails
    <3>2. outlived' = outlived
      BY <1>5, <2>2 DEF WriteFails, NoPost
    <3>3. /\ poller'[p].batch = poller[p].batch \ {d} /\ poller'[p].running = poller[p].running
          /\ poller'[p].post = poller[p].post /\ poller' \in [Pollers -> Poller]
      BY <3>1 DEF WebhookTypeOK, Poller
    <3>4. \A q \in Pollers : poller'[q].post = poller[q].post
      BY <2>1, <3>3
    <3>5. RowsOfSuccesses'
      BY <2>1, <3>2, <3>4 DEF RowsOfSuccesses, Recording
    <3>6. OneAtWork' /\ WorkIsOpen'
      BY <2>1, <3>3 DEF OneAtWork, WorkIsOpen
    <3> QED BY <2>1, <3>2, <3>3, <3>5, <3>6 DEF WebhookTypeOK, RowsAfterFirstPost, DeliveryAccounted
  <2>3. CASE poller[p].post # NoPost
    <3> DEFINE d == poller[p].post.of
    <3>1. poller' = [poller EXCEPT ![p].post = NoPost]
      BY <1>5, <2>3 DEF WriteFails
    <3>2. /\ poller'[p].batch = poller[p].batch /\ poller'[p].running = poller[p].running
          /\ poller'[p].post = NoPost /\ poller' \in [Pollers -> Poller]
      BY <3>1, RecordsTyped, PollerUpdated DEF WebhookTypeOK, Poller
    <3>3. d \in Deliveries /\ outlived' = IF poller[p].post.stage = "recorded" THEN outlived \cup {d} ELSE outlived
      BY <1>2, <1>5, <2>3 DEF WriteFails
    <3>4. poller[p].post.stage = "recorded" => poller[p].post = [of |-> d, stage |-> "recorded"]
      BY DEF WebhookTypeOK, Poller, Post
    <3>5. outlived' \subseteq succeeded /\ outlived \subseteq outlived'
      <4>1. poller[p].post.stage = "recorded" => d \in succeeded
        BY <1>2, <2>3, <3>3, <3>4 DEF RowsOfSuccesses
      <4> QED BY <3>3, <4>1 DEF RowsOfSuccesses
    <3>6. \A e \in Deliveries : ~Recording(e)'
      <4>1. \A q \in Pollers : poller'[q].post.stage = "sent"
        BY <1>2, <2>1, <2>3, <3>2 DEF NoPost
      <4> QED BY <4>1, NotRecording
    <3>7. \A e \in Deliveries : Recording(e) => e \in outlived'
      <4>1. \A e \in Deliveries : Recording(e) => e = d /\ poller[p].post.stage = "recorded"
        BY <1>2, <2>3, RecordingPost
      <4> QED BY <3>3, <4>1
    <3>8. RowsOfSuccesses'
      BY <2>1, <3>5, <3>6, <3>7, SuccessesKept DEF WebhookTypeOK
    <3>9. OneAtWork' /\ WorkIsOpen'
      BY <1>2, <2>1, <2>3, <3>2 DEF OneAtWork, WorkIsOpen, NoPost, Nothing
    <3> QED BY <2>1, <3>2, <3>5, <3>8, <3>9 DEF WebhookTypeOK, RowsAfterFirstPost, DeliveryAccounted
  <2> QED BY <2>2, <2>3
<1> QED BY <1>1, <1>3, <1>4, <1>5

\* A restart cuts off first POSTs and what was between its commits, which it remembers,
\* and forgets the calls of the timer.
LEMMA RestartKeeps == ASSUME HookInv, HookRestart PROVE HookInv'
<1> USE WebhookAssumption DEF HookInv
<1> DEFINE behind == {poller[p].post.of : p \in {p \in Pollers : poller[p].post.stage = "recorded"}}
<1>1. \A p \in Pollers : poller[p].post.stage = "recorded" =>
        /\ poller[p].post.of \in Deliveries
        /\ poller[p].post = [of |-> poller[p].post.of, stage |-> "recorded"]
  BY DEF OneAtWork, WebhookTypeOK, Poller, Post
<1>2. behind \subseteq succeeded
  BY <1>1 DEF RowsOfSuccesses, Recording
<1>3. outlived' = outlived \cup behind /\ succeeded' = succeeded /\ outbox' = outbox
  BY DEF HookRestart
<1>4. \A d \in Deliveries : Recording(d) => d \in behind
  BY DEF Recording
<1> HIDE DEF behind
<1>5. WebhookTypeOK'
  <2>1. outlived' \subseteq Deliveries
    BY <1>2, <1>3 DEF WebhookTypeOK
  <2> QED BY <2>1 DEF HookRestart, HookFault, WebhookTypeOK, Poller, IdlePoller, Post, NoPost
<1>6. (OneAtWork /\ WorkIsOpen)'
  BY DEF HookRestart, OneAtWork, WorkIsOpen, IdlePoller, NoPost, Nothing
<1>7. (RowsAfterFirstPost /\ DeliveryAccounted)'
  BY DEF HookRestart, WebhookTypeOK, RowsAfterFirstPost, DeliveryAccounted
<1>8. RowsOfSuccesses'
  <2>1. \A d \in Deliveries : ~Recording(d)'
    BY DEF HookRestart, Recording, IdlePoller, NoPost
  <2>2. \A d \in Deliveries : hook[d] = "over" => hook'[d] = "over"
    BY DEF HookRestart, WebhookTypeOK
  <2>3. outlived \subseteq outlived' /\ outlived' \subseteq succeeded
    BY <1>2, <1>3 DEF RowsOfSuccesses
  <2>4. \A d \in succeeded : Recording(d) => d \in outlived'
    BY <1>3, <1>4 DEF WebhookTypeOK
  <2> QED BY <1>3, <2>1, <2>2, <2>3, <2>4, SuccessesKept
<1> QED BY <1>5, <1>6, <1>7, <1>8

LEMMA HookStep == HookInv /\ [WebhookNext]_hookVars => HookInv'
<1> SUFFICES ASSUME HookInv, [WebhookNext]_hookVars PROVE HookInv'
  OBVIOUS
<1>1. CASE Unsubscribe
  BY <1>1 DEF Unsubscribe, HookInv, WebhookTypeOK, OneAtWork, WorkIsOpen, RowsAfterFirstPost,
     RowsOfSuccesses, Recording, DeliveryAccounted
<1>2. CASE UNCHANGED hookVars
  BY <1>2 DEF hookVars, HookInv, WebhookTypeOK, OneAtWork, WorkIsOpen, RowsAfterFirstPost,
     RowsOfSuccesses, Recording, DeliveryAccounted
<1> QED BY <1>1, <1>2, FirstPostKeeps, TimerKeeps, RetryKeeps, RestartKeeps DEF WebhookNext

(***************************************************************************)
(* HookInv is an invariant: the rows, the calls of the timer and the first *)
(* POSTs fit together, and a success goes with its row but for the ones    *)
(* that a restart or a failed write left behind (webhooks.ts:296-466).     *)
(***************************************************************************)
THEOREM HookInvariance == WebhookSpec => []HookInv
BY HookInit, HookStep, PTL DEF WebhookSpec

(***************************************************************************)
(* No delivery is lost without a trace, for every number of deliveries,    *)
(* calls and restarts (webhooks.ts:409-466).                               *)
(***************************************************************************)
THEOREM NoDeliveryLost == WebhookSpec => []DeliveryAccounted
<1>1. HookInv => DeliveryAccounted
  BY DEF HookInv
<1> QED BY <1>1, HookInvariance, PTL

(***************************************************************************)
(* A delivery that succeeded is not posted again unless its row was left   *)
(* behind: a row in a batch is open, only one call is at work, and it      *)
(* deletes the row of a success before it takes the next, or a restart or  *)
(* a failed write keeps it from that (webhooks.ts:336-364, 386-407).       *)
(***************************************************************************)
THEOREM SuccessIsFinal == WebhookSpec => NoPostAfterSuccess
<1>1. HookInv /\ [WebhookNext]_hookVars =>
        [\A p \in Pollers, d \in Deliveries :
           Retry(p, d) /\ poller'[p].post.of = d => d \notin succeeded \ outlived]_hookVars
  <2> SUFFICES ASSUME HookInv, NEW p \in Pollers, NEW d \in Deliveries, Retry(p, d)
               PROVE  d \notin succeeded \ outlived
    OBVIOUS
  <2>1. outbox[d].status # "none" /\ poller[p].post = NoPost
    BY DEF HookInv, WorkIsOpen, Retry
  <2>2. ~Recording(d)
    BY <2>1, OthersIdle DEF Retry, Recording, NoPost
  <2> QED BY <2>1, <2>2 DEF HookInv, RowsOfSuccesses
<1> QED BY <1>1, HookInvariance, PTL DEF WebhookSpec, NoPostAfterSuccess

-----------------------------------------------------------------------------
(* The controls of a task: TaskControls. *)

\* A request is asked for once, saved once and reported when it is saved.
SavedOnce ==
  /\ sdk.saving => sdk.last # NoCheckpoint
  /\ \A c \in Checkpoints :
       /\ sdk.asked[c] # "consumed" => sdk.last # c /\ saves[c].saved = 0
       /\ sdk.last = c => saves[c].saved = 0
       /\ c \in sdk.saved => saves[c].saved > 0
       /\ saves[c].saved <= 1

\* The path of a request tells whether this attempt's checkpoint has been counted.
CountedOnce ==
  \A c \in Checkpoints :
    /\ saves[c].counted <= 1
    /\ saves[c].counted > 0 => control[c].path = task.attempt
    /\ control[c].path = task.attempt => saves[c].saved > 0
    /\ control[c].status = "completed" /\ control[c].made = task.attempt => saves[c].saved > 0
    /\ control[c].path <= task.attempt /\ control[c].made <= task.attempt

\* What is on its way to tell of a checkpoint tells of one that is saved.
Backed(kind, i) == kind \in {"checkpoint", "completed"} => i \in Checkpoints /\ saves[i].saved > 0
ReportsBacked ==
  /\ \A k \in 1..Len(wire.toStub) : Backed(wire.toStub[k].kind, wire.toStub[k].of)
  /\ Backed(call.kind, call.of)
  /\ \A x \in late : Backed(x.kind, x.of)

ControlInv == ControlTypeOK /\ SavedOnce /\ CountedOnce /\ ReportsBacked

SaveCount == [saved : 0..2, counted : 0..2]
Wire == [toSdk : SUBSET Controls, toStub : Seq(Line)]
LateCall == [kind : CallKind, of : Controls]
Links == [up : BOOLEAN, left : 0..LinkDrops]

LEMMA ControlSets ==
  /\ MaxAttempts \in Nat \ {0} /\ LinkDrops \in Nat /\ SlowCalls \in Nat
  /\ Attempts \subseteq Nat \ {0} /\ Checkpoints \subseteq Nat \ {0} /\ Stop \notin Checkpoints /\ NoCheckpoint \notin Checkpoints
  /\ Controls = {Stop} \cup Checkpoints
BY ControlAssumption DEF Attempts, Checkpoints, Controls, Stop, NoCheckpoint

LEMMA ControlTypes ==
  ControlTypeOK <=>
    /\ task \in Task /\ control \in [Controls -> Control] /\ emitting \subseteq Controls /\ link \in Links /\ sock \in Sock
    /\ call \in Call /\ late \subseteq LateCall /\ wire \in Wire /\ sdk \in Sdk /\ saves \in [Checkpoints -> SaveCount]
    /\ excused \subseteq Checkpoints /\ slowLeft \in 0..SlowCalls
BY DEF ControlTypeOK, Links, LateCall, Wire, SaveCount

LEMMA EmptyRecords ==
  /\ NoSock \in Sock /\ NoCall \in Call /\ NoWire \in Wire /\ NoSdk \in Sdk /\ NoSaves \in [Checkpoints -> SaveCount]
  /\ NoCall.kind = "received" /\ NoWire.toStub = <<>>
  /\ \A c \in Checkpoints : NoSaves[c].saved = 0 /\ NoSaves[c].counted = 0
  /\ NoSdk.last = NoCheckpoint /\ NoSdk.saved = {} /\ ~NoSdk.saving /\ \A c \in Checkpoints : NoSdk.asked[c] = "none"
<1>1. NoSock \in Sock
  BY DEF NoSock, Sock
<1>2. NoCall \in Call /\ NoCall.kind = "received"
  BY ControlSets DEF NoCall, Call, CallKind
<1>3. NoWire \in Wire /\ NoWire.toStub = <<>>
  BY DEF NoWire, Wire
<1>4. NoSaves \in [Checkpoints -> SaveCount] /\ \A c \in Checkpoints : NoSaves[c].saved = 0 /\ NoSaves[c].counted = 0
  BY DEF NoSaves, SaveCount
<1>5. NoSdk \in Sdk
  BY DEF NoSdk, Sdk
<1>6. NoSdk.last = NoCheckpoint /\ NoSdk.saved = {} /\ ~NoSdk.saving /\ \A c \in Checkpoints : NoSdk.asked[c] = "none"
  BY DEF NoSdk
<1> QED BY <1>1, <1>2, <1>3, <1>4, <1>5, <1>6

LEMMA ControlInvInit == ControlInit => ControlInv
<1> SUFFICES ASSUME ControlInit PROVE ControlInv
  OBVIOUS
<1>1. task \in Task /\ task.attempt = 1
  BY ControlSets DEF ControlInit, Task, Attempts
<1>2. /\ control \in [Controls -> Control]
      /\ \A i \in Controls : control[i].path = 0 /\ control[i].made = 0 /\ control[i].status = "none"
  BY DEF ControlInit, ControlsUnmade, Control
<1>3. link \in Links
  BY ControlSets DEF ControlInit, Links
<1>4. /\ sock = NoSock /\ call = NoCall /\ late = {} /\ wire = NoWire /\ sdk = NoSdk /\ saves = NoSaves
      /\ emitting = {} /\ excused = {} /\ slowLeft \in 0..SlowCalls
  BY ControlSets DEF ControlInit
<1>5. ControlTypeOK
  BY <1>1, <1>2, <1>3, <1>4, EmptyRecords, ControlTypes
<1>6. SavedOnce
  BY <1>4, EmptyRecords, ControlSets DEF SavedOnce
<1>7. CountedOnce
  <2> SUFFICES ASSUME NEW c \in Checkpoints
               PROVE  /\ saves[c].counted = 0 /\ control[c].path = 0 /\ control[c].made = 0
                      /\ control[c].status = "none" /\ task.attempt = 1
    BY DEF CountedOnce
  <2>1. c \in Controls
    BY ControlSets
  <2>2. saves[c].counted = 0
    BY <1>4, EmptyRecords
  <2> QED BY <1>1, <1>2, <2>1, <2>2
<1>8. ReportsBacked
  BY <1>4, EmptyRecords DEF ReportsBacked, Backed
<1> QED BY <1>5, <1>6, <1>7, <1>8 DEF ControlInv

\* Steps that save nothing and count nothing.
LEMMA NothingSaved ==
  ASSUME ControlInv, ControlTypeOK', ReportsBacked', saves' = saves, task'.attempt = task.attempt,
         sdk'.last = sdk.last, sdk'.saved = sdk.saved, sdk'.asked = sdk.asked, sdk'.saving => sdk.saving,
         \A c \in Checkpoints : /\ control'[c].path = control[c].path
                                /\ control'[c].status = "completed" => control[c].status = "completed" /\ control'[c].made = control[c].made
                                /\ control'[c].made \in {control[c].made, task.attempt}
  PROVE  ControlInv'
<1>1. SavedOnce'
  BY DEF ControlInv, SavedOnce
<1>2. CountedOnce'
  <2>1. task.attempt \in Nat
    BY ControlSets DEF ControlInv, ControlTypeOK, Task
  <2> QED BY <2>1 DEF ControlInv, CountedOnce
<1> QED BY <1>1, <1>2 DEF ControlInv

\* Nothing new is reported.
LEMMA ReportsStay ==
  ASSUME ControlInv, saves' = saves, wire'.toStub = wire.toStub \/ wire'.toStub = <<>>,
         call' = call \/ call' = NoCall,
         \A x \in late' : x \in late \/ x = [kind |-> call.kind, of |-> call.of]
  PROVE  ReportsBacked'
<1>1. Backed(call.kind, call.of)'
  BY EmptyRecords DEF ControlInv, ReportsBacked, Backed
<1>2. \A k \in 1..Len(wire'.toStub) : Backed(wire.toStub[k].kind, wire.toStub[k].of)'
  <2>1. CASE wire'.toStub = <<>>
    BY <2>1
  <2>2. CASE wire'.toStub = wire.toStub
    BY <2>2 DEF ControlInv, ReportsBacked, Backed
  <2> QED BY <2>1, <2>2
<1>3. ASSUME NEW x \in late'
      PROVE  x.kind \in {"checkpoint", "completed"} => x.of \in Checkpoints /\ saves'[x.of].saved > 0
  BY DEF ControlInv, ReportsBacked, Backed
<1> QED BY <1>1, <1>2, <1>3 DEF ReportsBacked, Backed

LEMMA AskedStep ==
  ASSUME ControlInv, RequestCheckpoint \/ Withdraw \/ RequestStop
  PROVE  ControlInv'
<1>r. /\ task \in Task /\ control \in [Controls -> Control] /\ emitting \subseteq Controls /\ excused \subseteq Checkpoints
      /\ saves' = saves /\ wire' = wire /\ call' = call /\ late' = late /\ sdk' = sdk /\ link' = link /\ sock' = sock
      /\ slowLeft' = slowLeft /\ ControlTypeOK
  BY DEF ControlInv, ControlTypeOK, RequestCheckpoint, Withdraw, RequestStop
<1>1. /\ task' \in Task /\ task'.attempt = task.attempt
  BY <1>r DEF RequestCheckpoint, Withdraw, RequestStop, Task
<1>3. CASE control' = control /\ emitting' = emitting
  <2>1. excused' \subseteq Checkpoints
    BY <1>r DEF RequestCheckpoint, Withdraw, RequestStop
  <2>2. ControlTypeOK'
    BY <1>1, <1>3, <1>r, <2>1 DEF ControlTypeOK
  <2>3. ReportsBacked'
    BY <1>r, ReportsStay
  <2> QED BY <1>1, <1>3, <1>r, <2>2, <2>3, NothingSaved
<1>4. CASE \E i \in Controls : control[i].status = "none" /\ Asked(i) /\ excused' = excused
  <2>a. PICK i \in Controls : control[i].status = "none" /\ Asked(i) /\ excused' = excused
    BY <1>4
  <2> DEFINE y == [control[i] EXCEPT !.status = "pending", !.made = task.attempt]
  <2>1. control[i] \in Control /\ task.attempt \in Attempts
    BY <1>r DEF Task
  <2>2. y \in Control /\ y.status = "pending" /\ y.made = task.attempt /\ y.path = control[i].path
    BY <2>1 DEF Control
  <2>3. control' = [control EXCEPT ![i] = y]
    BY <2>a, <1>r DEF Asked
  <2> HIDE DEF y
  <2>4. control' \in [Controls -> Control] /\ control'[i] = y /\ \A j \in Controls : j # i => control'[j] = control[j]
    BY <1>r, <2>2, <2>3
  <2>5. emitting' \subseteq Controls
    BY <2>a, <1>r DEF Asked
  <2>6. control' \in [Controls -> Control]
    BY <2>4
  <2>7. ControlTypeOK'
    BY <1>1, <2>a, <1>r, <2>5, <2>6 DEF ControlTypeOK
  <2>8. ReportsBacked'
    BY <1>r, ReportsStay
  <2>9. sdk'.last = sdk.last /\ sdk'.saved = sdk.saved /\ sdk'.asked = sdk.asked /\ (sdk'.saving => sdk.saving)
    BY <1>r
  <2>10. \A c \in Checkpoints : /\ control'[c].path = control[c].path
                                /\ control'[c].status = "completed" => control[c].status = "completed" /\ control'[c].made = control[c].made
                                /\ control'[c].made \in {control[c].made, task.attempt}
    BY <2>2, <2>4, ControlSets
  <2> QED BY <1>1, <1>r, <2>7, <2>8, <2>9, <2>10, NothingSaved
<1> QED BY <1>3, <1>4, ControlSets DEF RequestCheckpoint, Withdraw, RequestStop

\* Steps that leave the requests alone, and of the SDK what it knows of them.
LEMMA RequestsAlone ==
  ASSUME ControlInv, control' = control, saves' = saves, excused' \subseteq Checkpoints, slowLeft' \in 0..SlowCalls,
         task' \in Task, task'.attempt = task.attempt, emitting' \subseteq Controls, link' \in Links, sock' \in Sock,
         call' \in Call, late' \subseteq LateCall, wire' \in Wire, sdk' \in Sdk,
         sdk'.last = sdk.last, sdk'.saved = sdk.saved, sdk'.asked = sdk.asked, sdk'.saving => sdk.saving,
         ReportsBacked'
  PROVE  ControlInv'
<1>1. ControlTypeOK'
  BY DEF ControlInv, ControlTypeOK, Links, LateCall, Wire
<1> QED BY <1>1, NothingSaved

LEMMA ControlRows ==
  ASSUME ControlInv
  PROVE  /\ task \in Task /\ control \in [Controls -> Control] /\ emitting \subseteq Controls /\ link \in Links /\ sock \in Sock
         /\ call \in Call /\ late \subseteq LateCall /\ wire \in Wire /\ sdk \in Sdk /\ saves \in [Checkpoints -> SaveCount]
         /\ excused \subseteq Checkpoints /\ slowLeft \in 0..SlowCalls /\ slowLeft \in Nat /\ link.left \in Nat
         /\ wire.toStub \in Seq(Line) /\ wire.toSdk \subseteq Controls /\ sdk.last \in {NoCheckpoint} \cup Checkpoints
         /\ (sdk.saving => sdk.last \in Checkpoints)
BY ControlTypes, ControlSets DEF ControlInv, Links, SavedOnce, Wire, Sdk

LEMMA SocketStep ==
  ASSUME ControlInv, ProcessStarts \/ SocketOpens \/ SdkConnects \/ SdkReconnects \/ ProcessEnds \/ SaveFails
  PROVE  ControlInv'
<1>r. /\ control' = control /\ saves' = saves /\ emitting' = emitting /\ link' = link /\ call' = call /\ late' = late
  BY DEF ProcessStarts, SocketOpens, SdkConnects, SdkReconnects, ProcessEnds, SaveFails
<1>1. task' \in Task /\ task'.attempt = task.attempt
  BY ControlRows DEF ProcessStarts, SocketOpens, SdkConnects, SdkReconnects, ProcessEnds, SaveFails, Task
<1>2. sock' \in Sock
  BY ControlRows DEF ProcessStarts, SocketOpens, SdkConnects, SdkReconnects, ProcessEnds, SaveFails, Sock
<1>3. sdk' \in Sdk /\ sdk'.last = sdk.last /\ sdk'.saved = sdk.saved /\ sdk'.asked = sdk.asked /\ (sdk'.saving => sdk.saving)
  <2>1. sdk \in Sdk
    BY ControlRows
  <2>2. CASE ProcessStarts
    BY <2>1, <2>2 DEF ProcessStarts, Sdk
  <2>3. CASE SocketOpens
    BY <2>1, <2>3 DEF SocketOpens
  <2>4. CASE SdkConnects
    <3>1. sdk' \in {[sdk EXCEPT !.mode = "unix", !.up = TRUE], [sdk EXCEPT !.mode = "http"]}
      BY <2>4 DEF SdkConnects
    <3>2. CASE sdk' = [sdk EXCEPT !.mode = "unix", !.up = TRUE]
      BY <2>1, <3>2 DEF Sdk
    <3>3. CASE sdk' = [sdk EXCEPT !.mode = "http"]
      BY <2>1, <3>3 DEF Sdk
    <3> QED BY <3>1, <3>2, <3>3
  <2>5. CASE SdkReconnects
    BY <2>1, <2>5 DEF SdkReconnects, Sdk
  <2>6. CASE ProcessEnds
    BY <2>1, <2>6 DEF ProcessEnds, Sdk
  <2>7. CASE SaveFails
    BY <2>1, <2>7 DEF SaveFails, Sdk
  <2> QED BY <2>2, <2>3, <2>4, <2>5, <2>6, <2>7
<1>4. wire' \in Wire /\ (wire'.toStub = wire.toStub \/ wire'.toStub = <<>>)
  <2>1. sock.held \subseteq Controls
    BY ControlRows DEF Sock
  <2>2. wire \in Wire /\ <<>> \in Seq(Line)
    BY ControlRows
  <2>3. [toSdk |-> sock.held, toStub |-> <<>>] \in Wire
    BY <2>1, <2>2 DEF Wire
  <2>4. CASE SdkConnects
    BY <2>2, <2>3, <2>4 DEF SdkConnects
  <2>5. CASE SdkReconnects
    BY <2>2, <2>3, <2>5 DEF SdkReconnects
  <2>6. CASE ProcessEnds
    BY <2>2, <2>6 DEF ProcessEnds, Wire
  <2>7. CASE UNCHANGED wire
    BY <2>2, <2>7
  <2> QED BY <2>4, <2>5, <2>6, <2>7 DEF ProcessStarts, SocketOpens, SaveFails
<1>5. excused' \subseteq Checkpoints /\ slowLeft' \in 0..SlowCalls
  BY ControlRows, ControlSets DEF ProcessStarts, SocketOpens, SdkConnects, SdkReconnects, ProcessEnds, SaveFails
<1>6. ReportsBacked'
  BY <1>r, <1>4, ReportsStay
<1> QED BY <1>r, <1>1, <1>2, <1>3, <1>4, <1>5, <1>6, ControlRows, RequestsAlone

LEMMA SignalStep ==
  ASSUME ControlInv, NEW i \in Controls, SignalArrives(i)
  PROVE  ControlInv'
<1>r. /\ control' = control /\ saves' = saves /\ task' = task /\ link' = link /\ call' = call /\ late' = late
      /\ sdk' = sdk /\ excused' = excused /\ slowLeft' = slowLeft /\ emitting' \subseteq Controls
  BY ControlRows DEF SignalArrives
<1>1. sock' \in Sock
  BY ControlRows DEF SignalArrives, Sock
<1>2. wire' \in Wire /\ wire'.toStub = wire.toStub
  BY ControlRows DEF SignalArrives, Wire
<1>3. ReportsBacked'
  BY <1>r, <1>2, ReportsStay
<1> QED BY <1>r, <1>1, <1>2, <1>3, ControlRows, RequestsAlone

LEMMA LinkStep ==
  ASSUME ControlInv, LinkDown \/ DaemonRestarts \/ LinkResumes \/ EndReported
  PROVE  ControlInv'
<1>r. /\ control' = control /\ saves' = saves /\ excused' = excused /\ slowLeft' = slowLeft
      /\ late' \subseteq late
  BY DEF LinkDown, DaemonRestarts, LinkResumes, EndReported, ConnectionCloses
<1>1. link' \in Links
  <2>1. link \in Links
    BY ControlRows
  <2>2. CASE LinkDown \/ DaemonRestarts
    <3>1. link' = [up |-> FALSE, left |-> link.left - 1] /\ link.left > 0
      BY <2>2 DEF LinkDown, DaemonRestarts
    <3>2. link.left - 1 \in 0..LinkDrops
      BY <2>1, <3>1, ControlSets DEF Links
    <3> QED BY <3>1, <3>2 DEF Links
  <2>3. CASE LinkResumes
    BY <2>1, <2>3 DEF LinkResumes, Links
  <2>4. CASE EndReported
    BY <2>1, <2>4 DEF EndReported
  <2> QED BY <2>2, <2>3, <2>4
<1>2. task' \in Task /\ task'.attempt = task.attempt
  BY ControlRows DEF LinkDown, DaemonRestarts, LinkResumes, EndReported, Task
<1>3. emitting' \subseteq Controls
  BY ControlRows DEF LinkDown, DaemonRestarts, LinkResumes, EndReported, Resent
<1>4. sock' \in Sock
  BY ControlRows, EmptyRecords DEF LinkDown, DaemonRestarts, LinkResumes, EndReported, Sock, NoSock
<1>5. sdk' \in Sdk /\ sdk'.last = sdk.last /\ sdk'.saved = sdk.saved /\ sdk'.asked = sdk.asked /\ (sdk'.saving => sdk.saving)
  BY ControlRows DEF LinkDown, DaemonRestarts, LinkResumes, EndReported, ConnectionCloses, Sdk
<1>6. wire' \in Wire /\ (wire'.toStub = wire.toStub \/ wire'.toStub = <<>>)
  BY ControlRows, EmptyRecords DEF LinkDown, DaemonRestarts, LinkResumes, EndReported, ConnectionCloses
<1>7. call' \in Call /\ (call' = call \/ call' = NoCall)
  BY ControlRows, EmptyRecords DEF LinkDown, DaemonRestarts, LinkResumes, EndReported, ConnectionCloses
<1>8. ReportsBacked'
  BY <1>r, <1>6, <1>7, ReportsStay
<1> QED BY <1>r, <1>1, <1>2, <1>3, <1>4, <1>5, <1>6, <1>7, <1>8, ControlRows, RequestsAlone

\* The lines to the stub, whose tail or more of them are as good.
LEMMA LinesBacked ==
  ASSUME NEW s \in Seq(Line), \A k \in 1..Len(s) : Backed(s[k].kind, s[k].of)
  PROVE  /\ s # <<>> => /\ Tail(s) \in Seq(Line) /\ Head(s) \in Line /\ Backed(Head(s).kind, Head(s).of)
                        /\ \A k \in 1..Len(Tail(s)) : Backed(Tail(s)[k].kind, Tail(s)[k].of)
         /\ \A l \in Line : Backed(l.kind, l.of) =>
              Append(s, l) \in Seq(Line) /\ \A k \in 1..Len(Append(s, l)) : Backed(Append(s, l)[k].kind, Append(s, l)[k].of)
<1>1. ASSUME s # <<>>
      PROVE  /\ Tail(s) \in Seq(Line) /\ Head(s) \in Line /\ Backed(Head(s).kind, Head(s).of)
             /\ \A k \in 1..Len(Tail(s)) : Backed(Tail(s)[k].kind, Tail(s)[k].of)
  <2>1. Tail(s) \in Seq(Line) /\ Head(s) \in Line /\ Head(s) = s[1] /\ 1 \in 1..Len(s)
    BY <1>1
  <2>2. ASSUME NEW k \in 1..Len(Tail(s)) PROVE Tail(s)[k] = s[k + 1] /\ k + 1 \in 1..Len(s)
    BY <1>1
  <2> QED BY <2>1, <2>2
<1>2. ASSUME NEW l \in Line, Backed(l.kind, l.of)
      PROVE  Append(s, l) \in Seq(Line) /\ \A k \in 1..Len(Append(s, l)) : Backed(Append(s, l)[k].kind, Append(s, l)[k].of)
  <2>1. Append(s, l) \in Seq(Line) /\ Len(Append(s, l)) = Len(s) + 1
    OBVIOUS
  <2>2. ASSUME NEW k \in 1..(Len(s) + 1)
        PROVE  (k \in 1..Len(s) /\ Append(s, l)[k] = s[k]) \/ Append(s, l)[k] = l
    OBVIOUS
  <2>3. ASSUME NEW k \in 1..Len(Append(s, l)) PROVE Backed(Append(s, l)[k].kind, Append(s, l)[k].of)
    <3>1. k \in 1..(Len(s) + 1)
      BY <2>1
    <3> QED BY <1>2, <2>2, <3>1
  <2> QED BY <2>1, <2>3
<1> QED BY <1>1, <1>2

LEMMA CallRows ==
  ASSUME ControlInv, NEW kind \in CallKind, NEW i \in Controls
  PROVE  Calls(kind, i) \in Call /\ Calls(kind, i).kind = kind /\ Calls(kind, i).of = i
BY DEF Calls, Call

\* The handler takes a line, or hears the answer to its call.
LEMMA HandlerStep ==
  ASSUME ControlInv, HandleLine \/ CallAnswered
  PROVE  ControlInv'
<1>r. /\ control' = control /\ saves' = saves /\ excused' = excused /\ slowLeft' = slowLeft /\ task' = task
      /\ late' = late /\ emitting' = emitting /\ link' = link /\ sdk' = sdk /\ ReportsBacked
  BY DEF HandleLine, CallAnswered, ControlInv
<1>1. CASE HandleLine
  <2>1. /\ wire.toStub # <<>> /\ wire' = [wire EXCEPT !.toStub = Tail(wire.toStub)] /\ sock' = sock
        /\ call' \in {call, Calls(Head(wire.toStub).kind, Head(wire.toStub).of)}
    BY <1>1 DEF HandleLine
  <2>2. /\ Tail(wire.toStub) \in Seq(Line) /\ Head(wire.toStub) \in Line /\ Backed(Head(wire.toStub).kind, Head(wire.toStub).of)
        /\ \A k \in 1..Len(Tail(wire.toStub)) : Backed(Tail(wire.toStub)[k].kind, Tail(wire.toStub)[k].of)
    BY <1>r, <2>1, ControlRows, LinesBacked DEF ReportsBacked
  <2>3. wire' \in Wire /\ wire'.toStub = Tail(wire.toStub)
    BY <2>1, <2>2, ControlRows DEF Wire
  <2>4. Head(wire.toStub).kind \in CallKind /\ Head(wire.toStub).of \in Controls
    BY <2>2 DEF Line, CallKind
  <2>5. call' \in Call /\ (Backed(call.kind, call.of) => Backed(call'.kind, call'.of))
    BY <2>1, <2>2, <2>4, CallRows, ControlRows
  <2>6. ReportsBacked'
    BY <1>r, <2>2, <2>3, <2>5 DEF ReportsBacked, Backed
  <2> QED BY <1>r, <2>1, <2>3, <2>5, <2>6, ControlRows, RequestsAlone
<1>2. CASE CallAnswered
  <2>1. sock' \in Sock
    <3>1. call.kind = "completed" => call.of \in Checkpoints
      BY <1>r DEF ReportsBacked, Backed
    <3> QED BY <1>2, <3>1, ControlRows DEF CallAnswered, Sock
  <2>2. wire' = wire /\ call' = IF call.kind = "checkpoint" THEN Calls("completed", call.of) ELSE NoCall
    BY <1>2 DEF CallAnswered
  <2>3. call.of \in Controls /\ Backed(call.kind, call.of)
    BY <1>r, ControlRows DEF Call, ReportsBacked
  <2>4. call' \in Call /\ Backed(call'.kind, call'.of)
    <3>1. CASE call.kind = "checkpoint"
      BY <2>2, <2>3, <3>1, CallRows DEF Backed, CallKind
    <3>2. CASE call.kind # "checkpoint"
      BY <2>2, <3>2, EmptyRecords DEF Backed
    <3> QED BY <3>1, <3>2
  <2>5. ReportsBacked'
    BY <1>r, <2>2, <2>4 DEF ReportsBacked, Backed
  <2> QED BY <1>r, <2>1, <2>2, <2>4, <2>5, ControlRows, RequestsAlone
<1> QED BY <1>1, <1>2

LEMMA CallEnds ==
  ASSUME ControlInv, CallFails \/ CallTimesOut
  PROVE  ControlInv'
<1>r. /\ control' = control /\ saves' = saves /\ excused' = excused /\ task' = task
      /\ emitting' = emitting /\ link' = link /\ sock' = sock /\ call' = NoCall /\ wire' = NoWire /\ sdk' = [sdk EXCEPT !.up = FALSE]
  BY DEF CallFails, CallTimesOut, ConnectionCloses
<1>1. sdk' \in Sdk /\ sdk'.last = sdk.last /\ sdk'.saved = sdk.saved /\ sdk'.asked = sdk.asked /\ (sdk'.saving => sdk.saving)
  BY <1>r, ControlRows DEF Sdk
<1>2. slowLeft' \in 0..SlowCalls
  BY ControlRows, ControlSets DEF CallFails, CallTimesOut
<1>3. late' \subseteq late \cup {[kind |-> call.kind, of |-> call.of]}
  BY DEF CallFails, CallTimesOut
<1>4. late' \subseteq LateCall
  <2>1. [kind |-> call.kind, of |-> call.of] \in LateCall
    BY ControlRows DEF Call, LateCall
  <2> QED BY <1>3, <2>1, ControlRows
<1>5. ReportsBacked'
  BY <1>r, <1>3, EmptyRecords, ReportsStay
<1> QED BY <1>r, <1>1, <1>2, <1>4, <1>5, ControlRows, EmptyRecords, RequestsAlone

\* The server takes a call: what it counts and completes is saved.
LEMMA ServedRows ==
  ASSUME ControlInv, NEW kind \in CallKind, NEW i \in Controls, Backed(kind, i), Served(kind, i)
  PROVE  /\ control' \in [Controls -> Control] /\ saves' \in [Checkpoints -> SaveCount]
         /\ \A c \in Checkpoints : saves'[c].saved = saves[c].saved
         /\ task' = task => CountedOnce'
<1>r. /\ task \in Task /\ control \in [Controls -> Control] /\ saves \in [Checkpoints -> SaveCount] /\ task.attempt \in Attempts
      /\ CountedOnce /\ task.attempt \in Nat
  BY ControlRows, ControlSets DEF ControlInv, Task
<1>1. CASE ~Accepted(kind, i)
  <2>1. control' = control /\ saves' = saves
    BY <1>1 DEF Served
  <2> QED BY <1>r, <2>1 DEF CountedOnce
<1>2. CASE Accepted(kind, i) /\ kind = "checkpoint"
  <2> DEFINE y == [control[i] EXCEPT !.path = task.attempt]
             z == [saves[i] EXCEPT !.counted = saves[i].counted + 1]
  <2>1. i \in Checkpoints /\ saves[i].saved > 0 /\ saves[i] \in SaveCount /\ control[i] \in Control
    BY <1>2, <1>r DEF Backed
  <2>2. y \in Control /\ y.path = task.attempt /\ y.status = control[i].status /\ y.made = control[i].made
    BY <1>r, <2>1 DEF Control
  <2>3. control' = [control EXCEPT ![i] = y]
    BY <1>2 DEF Served, Recorded
  <2>4. saves' = IF control[i].path # task.attempt THEN [saves EXCEPT ![i] = z] ELSE saves
    BY <1>2, <2>1 DEF Served, Counted
  <2>5. control[i].path # task.attempt => saves[i].counted = 0
    BY <1>r, <2>1 DEF CountedOnce, SaveCount
  <2>6. control[i].path # task.attempt => z \in SaveCount /\ z.counted = 1 /\ z.saved = saves[i].saved
    BY <2>1, <2>5 DEF SaveCount
  <2> HIDE DEF y, z
  <2>7. control' \in [Controls -> Control] /\ control'[i] = y /\ \A c \in Controls : c # i => control'[c] = control[c]
    BY <1>r, <2>2, <2>3
  <2>8. /\ saves' \in [Checkpoints -> SaveCount]
        /\ \A c \in Checkpoints : c # i => saves'[c] = saves[c]
        /\ saves'[i].saved = saves[i].saved /\ (saves'[i].counted = 1 \/ saves'[i].counted = saves[i].counted)
    BY <1>r, <2>1, <2>4, <2>6
  <2>9. task' = task => CountedOnce'
    <3> SUFFICES ASSUME task' = task, NEW c \in Checkpoints
                 PROVE  /\ saves'[c].counted <= 1
                        /\ saves'[c].counted > 0 => control'[c].path = task.attempt
                        /\ control'[c].path = task.attempt => saves'[c].saved > 0
                        /\ control'[c].status = "completed" /\ control'[c].made = task.attempt => saves'[c].saved > 0
                        /\ control'[c].path <= task.attempt /\ control'[c].made <= task.attempt
      BY DEF CountedOnce
    <3>1. CASE c = i
      BY <1>r, <2>1, <2>2, <2>7, <2>8, <3>1 DEF CountedOnce
    <3>2. CASE c # i
      <4>1. control'[c] = control[c] /\ saves'[c] = saves[c]
        BY <2>7, <2>8, <3>2, ControlSets
      <4> QED BY <1>r, <4>1 DEF CountedOnce
    <3> QED BY <3>1, <3>2
  <2> QED BY <2>7, <2>8, <2>9
<1>3. CASE Accepted(kind, i) /\ kind # "checkpoint"
  <2> DEFINE status == IF control[i].status = "completed" THEN control[i].status ELSE kind
             y == [control[i] EXCEPT !.status = status]
  <2>1. control[i] \in Control /\ kind \in {"received", "completed"}
    BY <1>3, <1>r DEF CallKind
  <2>2. status \in {"received", "completed"}
    BY <2>1
  <2>3. saves' = saves
    BY <1>3 DEF Served, Counted
  <2>4. control' = [control EXCEPT ![i] = y]
    BY <1>3, <1>r DEF Served, Recorded
  <2>5. status = "completed" => control[i].status = "completed" \/ (i \in Checkpoints /\ saves[i].saved > 0)
    BY <2>1 DEF Backed
  <2> HIDE DEF status
  <2>6. y \in Control /\ y.status = status /\ y.path = control[i].path /\ y.made = control[i].made
    BY <2>1, <2>2 DEF Control
  <2> HIDE DEF y
  <2>7. control' \in [Controls -> Control] /\ control'[i] = y /\ \A c \in Controls : c # i => control'[c] = control[c]
    BY <1>r, <2>4, <2>6
  <2>8. task' = task => CountedOnce'
    <3> SUFFICES ASSUME task' = task, NEW c \in Checkpoints
                 PROVE  /\ saves'[c].counted <= 1
                        /\ saves'[c].counted > 0 => control'[c].path = task.attempt
                        /\ control'[c].path = task.attempt => saves'[c].saved > 0
                        /\ control'[c].status = "completed" /\ control'[c].made = task.attempt => saves'[c].saved > 0
                        /\ control'[c].path <= task.attempt /\ control'[c].made <= task.attempt
      BY DEF CountedOnce
    <3>1. CASE c = i
      BY <1>r, <2>3, <2>5, <2>6, <2>7, <3>1 DEF CountedOnce
    <3>2. CASE c # i
      <4>1. control'[c] = control[c] /\ saves'[c] = saves[c]
        BY <2>3, <2>7, <3>2, ControlSets
      <4> QED BY <1>r, <4>1 DEF CountedOnce
    <3> QED BY <3>1, <3>2
  <2> QED BY <1>r, <2>3, <2>7, <2>8
<1> QED BY <1>1, <1>2, <1>3

LEMMA ServedStep ==
  ASSUME ControlInv, CallLands \/ \E x \in late : LateCallLands(x)
  PROVE  ControlInv'
<1>r. /\ task' = task /\ emitting' = emitting /\ link' = link /\ sock' = sock /\ wire' = wire /\ sdk' = sdk
      /\ excused' = excused /\ slowLeft' = slowLeft /\ late' \subseteq late
  BY DEF CallLands, LateCallLands
<1>1. PICK kind \in CallKind, i \in Controls : Backed(kind, i) /\ Served(kind, i)
  <2>1. CASE CallLands
    <3>1. call.kind \in CallKind /\ call.of \in Controls /\ Backed(call.kind, call.of)
      BY ControlRows DEF Call, ControlInv, ReportsBacked
    <3>2. Served(call.kind, call.of)
      BY <2>1 DEF CallLands
    <3> QED BY <3>1, <3>2
  <2>2. ASSUME NEW x \in late, LateCallLands(x)
        PROVE  x.kind \in CallKind /\ x.of \in Controls /\ Backed(x.kind, x.of) /\ Served(x.kind, x.of)
    <3>1. x.kind \in CallKind /\ x.of \in Controls
      BY ControlRows DEF LateCall
    <3>2. Backed(x.kind, x.of)
      BY DEF ControlInv, ReportsBacked
    <3>3. Served(x.kind, x.of)
      BY <2>2 DEF LateCallLands
    <3> QED BY <3>1, <3>2, <3>3
  <2> QED BY <2>1, <2>2
<1>2. /\ control' \in [Controls -> Control] /\ saves' \in [Checkpoints -> SaveCount]
      /\ \A c \in Checkpoints : saves'[c].saved = saves[c].saved
      /\ CountedOnce'
  BY <1>r, <1>1, ServedRows
<1>3. call' \in Call /\ call'.kind = call.kind /\ call'.of = call.of
  BY ControlRows DEF CallLands, LateCallLands, Call
<1>4. ControlTypeOK'
  <2>1. late' \subseteq LateCall
    BY <1>r, ControlRows
  <2> QED BY <1>r, <1>2, <1>3, <2>1, ControlRows DEF ControlTypeOK, LateCall, Wire, Links, SaveCount
<1>5. SavedOnce'
  BY <1>r, <1>2 DEF ControlInv, SavedOnce
<1>6. ReportsBacked'
  BY <1>r, <1>2, <1>3 DEF ControlInv, ReportsBacked, Backed
<1> QED BY <1>2, <1>4, <1>5, <1>6 DEF ControlInv

\* The SDK reads a request: only what it never heard of is new, and what it has saved
\* it reports again.
LEMMA ReadStep ==
  ASSUME ControlInv, NEW i \in Controls, SdkReads(i)
  PROVE  ControlInv'
<1>r. /\ task' = task /\ control' = control /\ saves' = saves /\ excused' = excused /\ slowLeft' = slowLeft
      /\ emitting' = emitting /\ link' = link /\ sock' = sock /\ call' = call /\ late' = late /\ sdk \in Sdk
  BY ControlRows DEF SdkReads
<1>1. /\ sdk' \in Sdk /\ sdk'.last = sdk.last /\ sdk'.saved = sdk.saved /\ sdk'.saving = sdk.saving
      /\ \A c \in Checkpoints : (sdk'.asked[c] = "consumed" <=> sdk.asked[c] = "consumed")
  <2>1. CASE i = Stop
    <3>1. sdk' = [sdk EXCEPT !.stop = TRUE]
      BY <2>1 DEF SdkReads
    <3> QED BY <1>r, <3>1 DEF Sdk
  <2>2. CASE i # Stop
    <3> DEFINE f == [sdk.asked EXCEPT ![i] = Told(i, sdk.asked[i])]
    <3>1. i \in Checkpoints /\ sdk.asked \in [Checkpoints -> {"none", "fresh", "consumed"}]
      BY <1>r, <2>2, ControlSets DEF Sdk
    <3>2. f \in [Checkpoints -> {"none", "fresh", "consumed"}]
          /\ \A c \in Checkpoints : (f[c] = "consumed" <=> sdk.asked[c] = "consumed")
      BY <3>1 DEF Told
    <3>3. sdk' = [sdk EXCEPT !.asked = f]
      BY <2>2, <1>r DEF SdkReads
    <3> HIDE DEF f
    <3> QED BY <1>r, <3>2, <3>3 DEF Sdk
  <2> QED BY <2>1, <2>2
<1> DEFINE receipt == [kind |-> "received", of |-> i]
           report == [kind |-> "checkpoint", of |-> i]
           lines == Append(wire.toStub, receipt)
<1>2. /\ lines \in Seq(Line)
      /\ \A k \in 1..Len(lines) : Backed(lines[k].kind, lines[k].of)
  <2>1. receipt \in Line /\ Backed(receipt.kind, receipt.of)
    BY DEF Line, Backed
  <2>2. wire.toStub \in Seq(Line) /\ \A k \in 1..Len(wire.toStub) : Backed(wire.toStub[k].kind, wire.toStub[k].of)
    BY ControlRows DEF ControlInv, ReportsBacked
  <2> QED BY <2>1, <2>2, LinesBacked
<1>3. PICK s \in Seq(Line) : /\ wire' = [toSdk |-> wire.toSdk \ {i}, toStub |-> s]
                             /\ \A k \in 1..Len(s) : Backed(s[k].kind, s[k].of)
  <2>1. CASE i \in sdk.saved
    <3>1. report \in Line /\ Backed(report.kind, report.of)
      BY <1>r, <2>1 DEF Line, Backed, Sdk, ControlInv, SavedOnce
    <3>2. /\ Append(lines, report) \in Seq(Line)
          /\ \A k \in 1..Len(Append(lines, report)) : Backed(Append(lines, report)[k].kind, Append(lines, report)[k].of)
      BY <1>2, <3>1, LinesBacked
    <3>3. wire' = [toSdk |-> wire.toSdk \ {i}, toStub |-> Append(lines, report)]
      <4>1. wire' = [toSdk |-> wire.toSdk \ {i}, toStub |-> wire.toStub \o <<receipt>> \o <<report>>]
        BY <2>1 DEF SdkReads
      <4>2. wire.toStub \o <<receipt>> \o <<report>> = Append(lines, report)
        <5>1. wire.toStub \in Seq(Line) /\ receipt \in Line /\ report \in Line
          BY <3>1, ControlRows DEF Line
        <5> HIDE DEF receipt, report
        <5>2. wire.toStub \o <<receipt>> = Append(wire.toStub, receipt)
          BY <5>1
        <5>3. lines \o <<report>> = Append(lines, report)
          BY <1>2, <5>1
        <5> QED BY <5>2, <5>3
      <4> QED BY <4>1, <4>2
    <3> QED BY <3>2, <3>3
  <2>2. CASE i \notin sdk.saved
    <3>1. wire' = [toSdk |-> wire.toSdk \ {i}, toStub |-> wire.toStub \o <<receipt>> \o <<>>]
      BY <2>2 DEF SdkReads
    <3>2. wire.toStub \o <<receipt>> \o <<>> = lines
      <4>1. wire.toStub \in Seq(Line) /\ receipt \in Line
        BY ControlRows DEF Line
      <4> HIDE DEF receipt
      <4>2. wire.toStub \o <<receipt>> = lines
        BY <4>1
      <4>3. lines \o <<>> = lines
        BY <1>2
      <4> QED BY <4>2, <4>3
    <3> QED BY <1>2, <3>1, <3>2
  <2> QED BY <2>1, <2>2
<1>4. wire' \in Wire /\ wire'.toStub = s
  BY <1>3, ControlRows DEF Wire
<1>5. ControlTypeOK'
  BY <1>r, <1>1, <1>4, ControlRows DEF ControlTypeOK, LateCall, Wire, Links, SaveCount
<1>6. SavedOnce'
  BY <1>r, <1>1 DEF ControlInv, SavedOnce
<1>7. CountedOnce'
  BY <1>r DEF ControlInv, CountedOnce
<1>8. ReportsBacked'
  BY <1>r, <1>3, <1>4 DEF ControlInv, ReportsBacked, Backed
<1> QED BY <1>5, <1>6, <1>7, <1>8 DEF ControlInv

\* A request is taken up once, and saved once.
LEMMA TakenUpStep ==
  ASSUME ControlInv, NEW c \in Checkpoints, ShouldCheckpoint(c)
  PROVE  ControlInv'
<1>r. /\ task' = task /\ control' = control /\ saves' = saves /\ slowLeft' = slowLeft
      /\ emitting' = emitting /\ link' = link /\ sock' = sock /\ call' = call /\ late' = late /\ wire' = wire
      /\ sdk \in Sdk /\ sdk.asked[c] = "fresh"
  BY ControlRows DEF ShouldCheckpoint
<1>1. excused' \subseteq Checkpoints
  BY ControlRows DEF ShouldCheckpoint
<1> DEFINE f == [sdk.asked EXCEPT ![c] = "consumed"]
<1>2. f \in [Checkpoints -> {"none", "fresh", "consumed"}] /\ f[c] = "consumed" /\ \A d \in Checkpoints : d # c => f[d] = sdk.asked[d]
  BY <1>r DEF Sdk
<1>3. sdk' = [sdk EXCEPT !.asked = f, !.last = c, !.saving = TRUE]
  BY <1>r DEF ShouldCheckpoint
<1> HIDE DEF f
<1>4. sdk' \in Sdk /\ sdk'.asked = f /\ sdk'.last = c /\ sdk'.saved = sdk.saved /\ sdk'.saving
  BY <1>r, <1>2, <1>3 DEF Sdk
<1>5. ControlTypeOK'
  BY <1>r, <1>1, <1>4, ControlRows DEF ControlTypeOK, LateCall, Wire, Links, SaveCount
<1>6. SavedOnce'
  BY <1>r, <1>2, <1>4, ControlSets DEF ControlInv, SavedOnce
<1>7. CountedOnce'
  BY <1>r DEF ControlInv, CountedOnce
<1>8. ReportsBacked'
  BY <1>r DEF ControlInv, ReportsBacked, Backed
<1> QED BY <1>5, <1>6, <1>7, <1>8 DEF ControlInv

LEMMA SavedStep ==
  ASSUME ControlInv, CheckpointSaved
  PROVE  ControlInv'
<1>r. PICK c \in Checkpoints : sdk.last = c
  BY ControlRows DEF CheckpointSaved
<1>1. /\ task' = task /\ control' = control /\ slowLeft' = slowLeft /\ excused' = excused
      /\ emitting' = emitting /\ link' = link /\ sock' = sock /\ call' = call /\ late' = late
      /\ sdk \in Sdk /\ saves \in [Checkpoints -> SaveCount]
      /\ sdk' = [sdk EXCEPT !.saved = @ \cup {c}, !.last = NoCheckpoint, !.saving = FALSE]
      /\ saves' = [saves EXCEPT ![c].saved = @ + 1]
      /\ wire' = Sends([kind |-> "checkpoint", of |-> c])
  BY <1>r, ControlRows DEF CheckpointSaved
<1>2. saves[c].saved = 0 /\ sdk.asked[c] = "consumed"
  BY <1>r DEF ControlInv, SavedOnce
<1> DEFINE z == [saves[c] EXCEPT !.saved = 1]
<1>3. z \in SaveCount /\ z.saved = 1 /\ z.counted = saves[c].counted
  BY <1>1 DEF SaveCount
<1>4. saves' = [saves EXCEPT ![c] = z]
  BY <1>1, <1>2
<1> HIDE DEF z
<1>5. /\ saves' \in [Checkpoints -> SaveCount] /\ saves'[c].saved = 1 /\ saves'[c].counted = saves[c].counted
      /\ \A d \in Checkpoints : d # c => saves'[d] = saves[d]
  BY <1>1, <1>3, <1>4
<1>6. sdk' \in Sdk /\ sdk'.asked = sdk.asked /\ sdk'.last = NoCheckpoint /\ sdk'.saved = sdk.saved \cup {c} /\ ~sdk'.saving
  BY <1>1 DEF Sdk
<1> DEFINE report == [kind |-> "checkpoint", of |-> c]
<1>7. PICK s \in Seq(Line) : /\ wire' = [wire EXCEPT !.toStub = s]
                             /\ \A k \in 1..Len(s) : s[k] = report \/ Backed(s[k].kind, s[k].of)
  <2>1. CASE sdk.up
    <3>1. report \in Line /\ wire.toStub \in Seq(Line)
      BY ControlRows, ControlSets DEF Line
    <3>2. wire' = [wire EXCEPT !.toStub = Append(wire.toStub, report)]
      BY <1>1, <2>1 DEF Sends
    <3>3. \A k \in 1..Len(wire.toStub) : Backed(wire.toStub[k].kind, wire.toStub[k].of)
      BY DEF ControlInv, ReportsBacked
    <3> HIDE DEF report
    <3>4. Append(wire.toStub, report) \in Seq(Line) /\ Len(Append(wire.toStub, report)) = Len(wire.toStub) + 1
      BY <3>1
    <3>5. ASSUME NEW k \in 1..(Len(wire.toStub) + 1)
          PROVE  (k \in 1..Len(wire.toStub) /\ Append(wire.toStub, report)[k] = wire.toStub[k]) \/ Append(wire.toStub, report)[k] = report
      BY <3>1
    <3>6. ASSUME NEW k \in 1..Len(Append(wire.toStub, report))
          PROVE  \/ Append(wire.toStub, report)[k] = report
                 \/ Backed(Append(wire.toStub, report)[k].kind, Append(wire.toStub, report)[k].of)
      <4>1. k \in 1..(Len(wire.toStub) + 1)
        BY <3>4
      <4> QED BY <3>3, <3>5, <4>1
    <3> QED BY <3>2, <3>4, <3>6
  <2>2. CASE ~sdk.up
    <3>1. wire' = [wire EXCEPT !.toStub = wire.toStub]
      BY <1>1, <2>2 DEF Sends
    <3>2. wire.toStub \in Seq(Line)
      BY ControlRows
    <3> QED BY <3>1, <3>2 DEF ControlInv, ReportsBacked
  <2> QED BY <2>1, <2>2
<1>8. wire' \in Wire /\ wire'.toStub = s
  BY <1>7, ControlRows DEF Wire
<1>9. ASSUME NEW kind, NEW i, Backed(kind, i)
      PROVE  kind \in {"checkpoint", "completed"} => i \in Checkpoints /\ saves'[i].saved > 0
  BY <1>5, <1>9 DEF Backed
<1>10. ControlTypeOK'
  BY <1>1, <1>5, <1>6, <1>8, ControlRows DEF ControlTypeOK, LateCall, Wire, Links, SaveCount
<1>11. SavedOnce'
  BY <1>1, <1>2, <1>5, <1>6, ControlSets DEF ControlInv, SavedOnce
<1>12. CountedOnce'
  <2> SUFFICES ASSUME NEW d \in Checkpoints
               PROVE  saves'[d].counted = saves[d].counted /\ (saves[d].saved > 0 => saves'[d].saved > 0)
    BY <1>1 DEF ControlInv, CountedOnce
  <2> QED BY <1>2, <1>5
<1>13. ReportsBacked'
  <2>1. \A k \in 1..Len(wire'.toStub) : wire'.toStub[k].kind \in {"checkpoint", "completed"} =>
          wire'.toStub[k].of \in Checkpoints /\ saves'[wire'.toStub[k].of].saved > 0
    <3> SUFFICES ASSUME NEW k \in 1..Len(s), s[k].kind \in {"checkpoint", "completed"}
                 PROVE  s[k].of \in Checkpoints /\ saves'[s[k].of].saved > 0
      BY <1>8
    <3> QED BY <1>5, <1>7, <1>9
  <2>2. call.kind \in {"checkpoint", "completed"} => call.of \in Checkpoints /\ saves'[call.of].saved > 0
    BY <1>9 DEF ControlInv, ReportsBacked
  <2>3. \A x \in late : x.kind \in {"checkpoint", "completed"} => x.of \in Checkpoints /\ saves'[x.of].saved > 0
    BY <1>9 DEF ControlInv, ReportsBacked
  <2> QED BY <1>1, <2>1, <2>2, <2>3 DEF ReportsBacked, Backed
<1> QED BY <1>10, <1>11, <1>12, <1>13 DEF ControlInv

\* A retry begins with nothing saved, and no path is of an attempt that is yet to come.
LEMMA ControlRetryStep ==
  ASSUME ControlInv, RetryStarts
  PROVE  ControlInv'
<1>r. /\ emitting' = {} /\ sock' = NoSock /\ call' = NoCall /\ late' = {} /\ wire' = NoWire /\ sdk' = NoSdk /\ saves' = NoSaves
      /\ control' = control /\ link' = link /\ slowLeft' = slowLeft
      /\ task' = [at |-> "assigned", attempt |-> task.attempt + 1, stop |-> FALSE, checkpoint |-> FALSE, how |-> "none"]
      /\ task.attempt < MaxAttempts /\ task.attempt \in Nat \ {0}
  BY ControlRows, ControlSets DEF RetryStarts, Task
<1>1. excused' \subseteq Checkpoints
  BY ControlRows DEF RetryStarts
<1>2. task' \in Task /\ task'.attempt = task.attempt + 1
  <2>1. task.attempt + 1 \in Attempts
    BY <1>r, ControlSets DEF Attempts
  <2> QED BY <1>r, <2>1 DEF Task
<1>3. ControlTypeOK'
  BY <1>r, <1>1, <1>2, ControlRows, EmptyRecords DEF ControlTypeOK, LateCall, Wire, Links, SaveCount
<1>4. SavedOnce'
  BY <1>r, EmptyRecords, ControlSets DEF SavedOnce
<1>5. CountedOnce'
  <2> SUFFICES ASSUME NEW c \in Checkpoints
               PROVE  /\ NoSaves[c].counted = 0
                      /\ control[c].path \in Nat /\ control[c].made \in Nat
                      /\ control[c].path <= task.attempt /\ control[c].made <= task.attempt
    BY <1>r, <1>2 DEF CountedOnce
  <2>1. control[c].path \in {0} \cup Attempts /\ control[c].made \in {0} \cup Attempts
    <3>1. control[c] \in Control
      BY ControlRows, ControlSets
    <3> QED BY <3>1, ControlSets DEF Control
  <2>2. control[c].path <= task.attempt /\ control[c].made <= task.attempt
    BY DEF ControlInv, CountedOnce
  <2>3. NoSaves[c].counted = 0
    BY EmptyRecords
  <2> QED BY <2>1, <2>2, <2>3, ControlSets DEF Attempts
<1>6. ReportsBacked'
  BY <1>r, EmptyRecords DEF ReportsBacked, Backed
<1> QED BY <1>3, <1>4, <1>5, <1>6 DEF ControlInv

LEMMA ControlStep == ControlInv /\ [ControlNext]_controlVars => ControlInv'
<1> SUFFICES ASSUME ControlInv, [ControlNext]_controlVars PROVE ControlInv'
  OBVIOUS
<1>1. CASE UNCHANGED controlVars
  BY <1>1 DEF controlVars, ControlInv, ControlTypeOK, SavedOnce, CountedOnce, ReportsBacked, Backed
<1>2. ASSUME NEW i \in Controls, SignalArrives(i) \/ SdkReads(i) PROVE ControlInv'
  BY <1>2, SignalStep, ReadStep
<1>3. ASSUME NEW c \in Checkpoints, ShouldCheckpoint(c) PROVE ControlInv'
  BY <1>3, TakenUpStep
<1> QED BY <1>1, <1>2, <1>3, AskedStep, SocketStep, LinkStep, HandlerStep, CallEnds, ServedStep, SavedStep, ControlRetryStep
        DEF ControlNext

LEMMA ControlInvariance == ControlSpec => []ControlInv
BY ControlInvInit, ControlStep, PTL DEF ControlSpec

\* A checkpoint request is saved and counted at most once by an attempt, and is complete
\* for the server only when it is saved, for any number of requests, attempts, lost links,
\* restarts and late calls (stub.ts:403-410, transport.py:206).
THEOREM RequestsSavedOnce == ControlSpec => []SavedOnceAndTrue
<1>1. ControlInv => SavedOnceAndTrue
  BY DEF ControlInv, SavedOnce, CountedOnce, SavedOnceAndTrue
<1> QED BY <1>1, ControlInvariance, PTL

===============================================================================
