------------------------------ MODULE Placement ------------------------------
(***************************************************************************)
(* Admission by resources: the reservation ledger of a stub, which tasks   *)
(* may stand side by side, and how the scheduler chooses (scheduler.ts).   *)
(* Memory is counted in GB.  Tags, environments and GPU types are one set  *)
(* of needs; which GPU a task gets inside its stub is not the server's.    *)
(***************************************************************************)
EXTENDS Integers, FiniteSets, FiniteSetsExt, SequencesExt

CONSTANTS
  Machines,     \* the registered stubs
  InSlurm,      \* those inside a SLURM allocation
  GpuMemory,    \* [Machines -> Nat]
  HostMemory,   \* [Machines -> Nat], the allocation's or the host's, 0 if not known
  Leases,       \* [Machines -> leases], "none" if the stub is nobody's in particular
  Offers,       \* [Machines -> sets of tags, environments and GPU types]
  Asks,         \* the requirements tasks may have
  MaxPlaced,    \* how many tasks are submitted
  Upsets        \* changes of telemetry, links and limits in a run

Resources == {"gpu", "cpu"}
Reservation == {"assigned", "running", "paused"}
GpuTypes == {"a100"}
Nowhere == "nowhere"

ASSUME PlacementAssumption ==
  /\ InSlurm \subseteq Machines /\ Nowhere \notin Machines
  /\ GpuMemory \in [Machines -> Nat] /\ HostMemory \in [Machines -> Nat]
  /\ MaxPlaced \in Nat /\ Upsets \in Nat

VARIABLES
  placed,    \* sequence of tasks: what each asks, its status, its stub, how it got there
  machine,   \* [Machines -> record]: link, slots, and what telemetry says of the memory
  upsets     \* what is left of Upsets

placeVars == <<placed, machine, upsets>>

Fleet == [t |-> placed, m |-> machine]
Become(f) == placed' = f.t /\ machine' = f.m
TasksOf(f) == DOMAIN f.t

IsGpuTask(a) == a.gpu > 0 \/ a.whole \/ a.needs \cap GpuTypes # {}
RequiresExclusiveGpu(a) == IsGpuTask(a) /\ (a.whole \/ a.gpu = 0)
Amount(a, r) == IF r = "gpu" THEN a.gpu ELSE a.cpu

(***************************************************************************)
(* getStubCapacity: assigned, running and paused tasks reserve what they   *)
(* declare.  Telemetry may already show what runs, hence the maximum.      *)
(***************************************************************************)
ReservingOn(f, s) == {i \in TasksOf(f) : f.t[i].at = s /\ f.t[i].st \in Reservation}
Waiting(f, s) == {i \in ReservingOn(f, s) : f.t[i].st = "assigned"}
Reserved(f, T, r) == MapThenSumSet(LAMBDA i : Amount(f.t[i].ask, r), T)

AllocationKnown(f, s) == s \in InSlurm => f.m[s].known /\ GpuMemory[s] > 0
MemoryOf(f, s, r) ==
  CASE r = "cpu" -> HostMemory[s]
    [] r = "gpu" -> IF s \in InSlurm /\ ~f.m[s].known THEN 0 ELSE GpuMemory[s]
\* ceil of 15 % of the GPU memory, of 5 % of the host's
Headroom(f, s, r) == (MemoryOf(f, s, r) * (IF r = "gpu" THEN 15 ELSE 5) + 99) \div 100

\* Mutant: what is assigned counts only once telemetry shows it.
CommittedRunning(f, s, r) ==
  Max({f.m[s].live[r], Reserved(f, ReservingOn(f, s) \ Waiting(f, s), r)})

Committed(f, s, r) ==
  LET seen == IF r = "cpu" /\ s \in InSlurm THEN 0 ELSE f.m[s].live[r]
  IN  Max({seen, Reserved(f, ReservingOn(f, s) \ Waiting(f, s), r)}) + Reserved(f, Waiting(f, s), r)
\* A task measured above what it declared.
Pressure(f, s, r) == \E i \in ReservingOn(f, s) : r \in f.t[i].above
Allocatable(f, s, r) ==
  IF Pressure(f, s, r) THEN 0
  ELSE Max({0, MemoryOf(f, s, r) - Headroom(f, s, r) - Committed(f, s, r)})
FreeSlots(f, s) == Max({0, f.m[s].limit - Cardinality(ReservingOn(f, s))})

\* evaluateStubEligibility: what speaks against a stub.
Reasons(f, s, a) ==
  LET busy == ReservingOn(f, s)
      tight(r) == Pressure(f, s, r) \/ Amount(a, r) > Allocatable(f, s, r)
      alone == \/ RequiresExclusiveGpu(a) /\ busy # {}
               \/ \E i \in busy : RequiresExclusiveGpu(f.t[i].ask)
      against ==
        {<<"target_stub_mismatch", a.target \notin {Nowhere, s}>>,
         <<"capacity_lease_mismatch", a.lease # Leases[s]>>,
         <<IF a.target = s THEN "target_stub_offline" ELSE "stub_offline", ~f.m[s].on>>,
         <<"stub_draining", f.m[s].limit = 0>>,
         <<"needs_mismatch", ~(a.needs \subseteq Offers[s])>>,
         <<"slots_full", f.m[s].limit > 0 /\ FreeSlots(f, s) = 0>>,
         <<"gpu_allocation_unknown", IsGpuTask(a) /\ ~AllocationKnown(f, s)>>,
         <<"requires_exclusive", ~Pressure(f, s, "gpu") /\ alone>>,
         <<"gpu_memory_insufficient", Pressure(f, s, "gpu") \/ (~alone /\ a.gpu > 0 /\ tight("gpu"))>>,
         <<"cpu_memory_insufficient",
           Pressure(f, s, "cpu") \/ (a.cpu > 0 /\ HostMemory[s] > 0 /\ tight("cpu"))>>}
  IN  {c[1] : c \in {x \in against : x[2]}}

Eligible(f, s, a) == Reasons(f, s, a) = {}

BlockerPriority ==
  <<"target_stub_offline", "target_stub_mismatch", "capacity_lease_mismatch", "stub_draining",
    "slots_full", "needs_mismatch", "requires_exclusive", "gpu_allocation_unknown",
    "gpu_memory_insufficient", "cpu_memory_insufficient", "stub_offline">>

\* diagnoseTaskAssignment; the allocation of a lease is one that has not ended.
Diagnosis(f, i) ==
  LET a == f.t[i].ask
      fit == {s \in Machines : Eligible(f, s, a)}
      said == UNION {Reasons(f, s, a) : s \in Machines}
      first == SelectInSeq(BlockerPriority, LAMBDA r : r \in said)
  IN  [ready |-> f.t[i].st = "pending",
       schedulable |-> f.t[i].st = "pending" /\ fit # {},
       blocker |->
         IF f.t[i].st # "pending" \/ fit # {} THEN "none"
         ELSE IF a.lease # "none" /\ ~\E s \in Machines : f.m[s].on /\ Leases[s] = a.lease
              THEN "capacity_pending"
         ELSE IF a.target \in Machines /\ ~f.m[a.target].on THEN "target_stub_offline"
         ELSE IF \A s \in Machines : ~f.m[s].on THEN "no_online_stubs"
         ELSE IF first = 0 THEN "none" ELSE BlockerPriority[first]]

\* scoreStub of an eligible stub: idle slots, the grid's stubs, memory left over, the owner.
Score(f, s, a) ==
  (40 * FreeSlots(f, s)) \div Max({1, f.m[s].limit})
  + (IF a.grid # "none" /\ \E i \in TasksOf(f) : f.t[i].at = s /\ f.t[i].ask.grid = a.grid THEN 20 ELSE 0)
  - (IF a.gpu > 0 THEN Allocatable(f, s, "gpu") - a.gpu ELSE 0)
  + (IF s \in a.own THEN 30 ELSE -50)

\* maybeDispatch: the first of the assigned, one for each slot that nothing runs in, are sent.
Dispatched(f, s) ==
  LET slots == f.m[s].limit - Cardinality(ReservingOn(f, s) \ Waiting(f, s))
      first == {i \in Waiting(f, s) : Cardinality({j \in Waiting(f, s) : j < i}) < slots}
  IN  IF ~f.m[s].on THEN f
      ELSE [f EXCEPT !.t = [i \in TasksOf(f) |-> [f.t[i] EXCEPT !.sent = @ \/ i \in first]]]

PlaceOne(f, i) ==
  LET a == f.t[i].ask
      fit == {s \in Machines : Eligible(f, s, a)}
      best == CHOOSE s \in fit : \A u \in fit : Score(f, s, a) >= Score(f, u, a)
  IN  IF f.t[i].st # "pending" \/ fit = {} THEN f
      ELSE Dispatched([f EXCEPT !.t[i] = [@ EXCEPT !.st = "assigned", !.at = best]], best)

\* Mutant: the first task that fits nowhere holds up the rest.
ScheduledInOrder(f) ==
  LET stuck == {i \in TasksOf(f) : /\ f.t[i].st = "pending"
                                   /\ \A s \in Machines : ~Eligible(f, s, f.t[i].ask)}
  IN  FoldLeftDomain(LAMBDA g, i : IF \E j \in stuck : j < i THEN g ELSE PlaceOne(g, i),
                     FoldSet(LAMBDA s, g : Dispatched(g, s), f, Machines), f.t)

\* schedule: what the stubs hold is dispatched, then the queue is placed in its order.
Scheduled(f) ==
  FoldLeftDomain(PlaceOne, FoldSet(LAMBDA s, g : Dispatched(g, s), f, Machines), f.t)

-----------------------------------------------------------------------------
Upset == upsets > 0 /\ upsets' = upsets - 1
With(i, t) == [Fleet EXCEPT !.t[i] = t]
\* What is over is remembered where it ran, if only for the others of its grid.
Leave(t, st) ==
  [t EXCEPT !.st = st, !.at = IF st = "over" /\ t.ask.grid # "none" THEN @ ELSE Nowhere,
            !.sent = FALSE, !.direct = FALSE, !.above = {}]

NewPlaced(a, st, s) ==
  [ask |-> a, st |-> st, at |-> s, direct |-> st = "assigned", sent |-> FALSE,
   tries |-> 0, above |-> {}]

PlaceInit ==
  /\ placed = <<>>
  /\ machine = [s \in Machines |-> [on |-> TRUE, limit |-> 2, known |-> TRUE,
                                    live |-> [r \in Resources |-> 0]]]
  /\ upsets = Upsets

\* POST /tasks
SubmitTask(a) ==
  /\ Len(placed) < MaxPlaced
  /\ Become(Scheduled([Fleet EXCEPT !.t = Append(@, NewPlaced(a, "pending", Nowhere))]))
  /\ UNCHANGED upsets

\* POST /stubs/:id/tasks asks nobody whether it fits.
SubmitToStub(s, a) ==
  /\ Upset
  /\ Len(placed) < MaxPlaced
  /\ Become(Dispatched([Fleet EXCEPT !.t = Append(@, NewPlaced(a, "assigned", s))], s))

\* PATCH /tasks/:id with new requirements, for what is still pending.
EditTask(i, a) ==
  /\ Upset
  /\ placed[i].st = "pending"
  /\ Become(With(i, [placed[i] EXCEPT !.ask = a]))

ScheduleTimer == Become(Scheduled(Fleet)) /\ UNCHANGED upsets

TaskStarts(i) ==
  /\ placed[i].st = "assigned" /\ placed[i].sent /\ machine[placed[i].at].on
  /\ Become(With(i, [placed[i] EXCEPT !.st = "running"]))
  /\ UNCHANGED upsets

PauseTask(i) ==
  /\ Upset
  /\ placed[i].st = "running"
  /\ Become(With(i, [placed[i] EXCEPT !.st = "paused"]))

UnpauseTask(i) ==
  /\ placed[i].st = "paused"
  /\ Become(With(i, [placed[i] EXCEPT !.st = "running"]))
  /\ UNCHANGED upsets

\* completed, failed, or cancelled by whoever may
TaskEnds(i) ==
  /\ placed[i].st \in Reservation /\ machine[placed[i].at].on
  /\ Become(Scheduled(With(i, Leave(placed[i], "over"))))
  /\ UNCHANGED upsets

\* Cancelled without the stub being asked; nobody looks at the queue.
TaskCancelled(i) ==
  /\ Upset
  /\ placed[i].st \in {"pending", "paused"}
  /\ Become(With(i, Leave(placed[i], "over")))

\* The 30 s timer of a dispatch: back to the queue, or failed the third time.
DispatchExpires(i) ==
  /\ Upset
  /\ placed[i].st = "assigned" /\ placed[i].sent
  /\ IF placed[i].tries = 2 THEN Become(With(i, Leave(placed[i], "over")))
     ELSE Become(Scheduled(With(i, [Leave(placed[i], "pending") EXCEPT !.tries = @ + 1])))

\* The link drops: what was assigned goes back to the queue, what runs keeps its place.
StubOffline(s) ==
  LET back == Waiting(Fleet, s)
  IN  /\ Upset
      /\ machine[s].on
      /\ Become(Scheduled(
           [t |-> [i \in DOMAIN placed |-> IF i \in back THEN Leave(placed[i], "pending") ELSE placed[i]],
            m |-> [machine EXCEPT ![s].on = FALSE]]))

\* The stub resumes with those of its tasks that live; the others have failed.
StubOnline(s) ==
  \E lost \in SUBSET ReservingOn(Fleet, s) :
    /\ ~machine[s].on
    /\ Become(Scheduled(
         [t |-> [i \in DOMAIN placed |-> IF i \in lost THEN Leave(placed[i], "over") ELSE placed[i]],
          m |-> [machine EXCEPT ![s].on = TRUE]]))
    /\ UNCHANGED upsets

\* Six hours later its tasks have failed.
StubGivenUp(s) ==
  /\ ~machine[s].on /\ ReservingOn(Fleet, s) # {}
  /\ Become([Fleet EXCEPT !.t = [i \in DOMAIN placed |->
                IF i \in ReservingOn(Fleet, s) THEN Leave(placed[i], "over") ELSE placed[i]]])
  /\ UNCHANGED upsets

\* PATCH /stubs/:id; 0 drains the stub.
SetLimit(s, n) ==
  LET f == [Fleet EXCEPT !.m[s].limit = n]
  IN  /\ Upset
      /\ machine[s].limit # n
      /\ Become(IF n > 0 THEN Dispatched(f, s) ELSE f)

\* A heartbeat: use of the memory, whether the allocation is known, who is above what it declared.
Heartbeat(s, r, amount, known, above) ==
  /\ Upset
  /\ machine[s].on /\ (s \in InSlurm \/ known)
  /\ above \subseteq {i \in ReservingOn(Fleet, s) : Amount(placed[i].ask, r) > 0}
  /\ Become([t |-> [i \in DOMAIN placed |->
                      IF i \in ReservingOn(Fleet, s)
                      THEN [placed[i] EXCEPT !.above = IF i \in above THEN @ \cup {r} ELSE @ \ {r}]
                      ELSE placed[i]],
             m |-> [machine EXCEPT ![s].live[r] = amount, ![s].known = known]])

PlaceNext ==
  \/ \E a \in Asks : SubmitTask(a)
  \/ \E s \in Machines, a \in Asks : SubmitToStub(s, a)
  \/ ScheduleTimer
  \/ \E i \in DOMAIN placed :
       \/ \E a \in Asks : EditTask(i, a)
       \/ TaskStarts(i) \/ PauseTask(i) \/ UnpauseTask(i) \/ TaskEnds(i)
       \/ TaskCancelled(i) \/ DispatchExpires(i)
  \/ \E s \in Machines :
       \/ StubOffline(s) \/ StubOnline(s) \/ StubGivenUp(s)
       \/ \E n \in 0..2 : SetLimit(s, n)
       \/ \E r \in Resources, amount \in {0, 5}, known \in BOOLEAN, above \in SUBSET DOMAIN placed :
            Heartbeat(s, r, amount, known, above)

PlaceSpec == PlaceInit /\ [][PlaceNext]_placeVars

PlaceTypeOK ==
  /\ \A i \in DOMAIN placed :
       /\ placed[i].ask \in Asks /\ placed[i].tries \in 0..2 /\ placed[i].above \subseteq Resources
       /\ placed[i].st \in Reservation \cup {"pending", "over"}
       /\ placed[i].st \in Reservation => placed[i].at \in Machines
       /\ placed[i].st = "pending" => placed[i].at = Nowhere
       /\ placed[i].at \in Machines \cup {Nowhere}
  /\ machine \in [Machines -> [on : BOOLEAN, limit : Nat, known : BOOLEAN, live : [Resources -> Nat]]]

(***************************************************************************)
(* What the scheduler alone has put on a stub fits: within the lease of    *)
(* the stub, the reservations within its memory less the headroom, and an  *)
(* exclusive GPU task by itself, through every start, end, drop, return,   *)
(* late telemetry and edit.  A stub that holds what was submitted to it    *)
(* directly is the exception: POST /stubs/:id/tasks does not look.         *)
(***************************************************************************)
ReservationsFit ==
  /\ PlaceTypeOK
  /\ \A s \in Machines :
      LET here == ReservingOn(Fleet, s)
      IN  (\A i \in here : ~placed[i].direct) =>
            /\ \A i \in here : placed[i].ask.lease = Leases[s]
            /\ \A i \in here : RequiresExclusiveGpu(placed[i].ask) => here = {i}
            /\ Reserved(Fleet, here, "gpu") + Headroom(Fleet, s, "gpu") <= GpuMemory[s]
                 \/ Reserved(Fleet, here, "gpu") = 0
            /\ Reserved(Fleet, here, "cpu") + Headroom(Fleet, s, "cpu") <= HostMemory[s]
                 \/ HostMemory[s] = 0 \/ Reserved(Fleet, here, "cpu") = 0

(***************************************************************************)
(* A pass is work-conserving and says why: no task it leaves in the queue  *)
(* fits a stub as the pass leaves the stubs, whatever stands before it in  *)
(* the queue, and its diagnosis names what holds it up.                    *)
(***************************************************************************)
Passes ==
  \/ ScheduleTimer \/ \E a \in Asks : SubmitTask(a)
  \/ \E i \in DOMAIN placed : TaskEnds(i)
  \/ \E s \in Machines : StubOnline(s)

LeftForAReason ==
  [][\A i \in DOMAIN placed' :
       LET said == Diagnosis([t |-> placed', m |-> machine'], i)
       IN  placed'[i].st = "pending" /\ (said.schedulable \/ said.blocker = "none") => ~Passes]_placeVars
=============================================================================
