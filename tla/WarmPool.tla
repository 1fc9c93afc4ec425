------------------------------ MODULE WarmPool ------------------------------
(***************************************************************************)
(* The pool of warm workers of a stub (stub/alchemy_stub/warm_pool.py), the *)
(* worker processes it feeds over Unix sockets (warm_worker.py) and the     *)
(* part of the process manager that starts, watches and kills their tasks.  *)
(*                                                                          *)
(* The pool is asyncio code: what runs between two awaits is one step. The  *)
(* asyncio lock of the pool is never held across an await, so it is no      *)
(* state. Sending a task and killing a worker run in executor threads, and  *)
(* are steps of their own between the steps of the event loop.              *)
(***************************************************************************)
EXTENDS Integers, FiniteSets

CONSTANTS
    Size,       \* workers of the pool; its dict holds them in this order
    Task,       \* the tasks that are submitted, each once
    MaxPid,     \* worker processes that may live at a time
    Budget      \* how often each of these may happen: kills by the user, crashes of
                \* a process, spawns that fail, tasks of more than a day

FaultKind == {"kill", "crash", "spawn", "day"}

ASSUME ConstantsAssumption ==
    /\ Size \in Nat \ {0}
    /\ MaxPid \in Nat \ {0}
    /\ Budget \in [FaultKind -> Nat]

Worker == 1..Size
Pid == 1..MaxPid
NoOne == 0      \* no process, no worker
NoTask == "no task"

ASSUME TaskAssumption == IsFiniteSet(Task) /\ NoTask \notin Task

VARIABLES
    started,    \* _started; "starting" until the spawns that start scheduled ran
    sem,        \* value of _sem
    proc,       \* _WorkerState.proc of each worker: the process it believes in
    busy,       \* _WorkerState.busy
    spawns,     \* _spawn_worker coroutines scheduled for each worker
    taskWorker, \* _task_worker: the worker of each task, for kills and polls
    results,    \* _task_results
    job,        \* the coroutine of each task: submit, then _run_task_on_worker
    kill,       \* the coroutine kill_task of each task
    procs,      \* tasks the process manager watches (_procs)
    reported,   \* tasks whose end the process manager announced
    os,         \* the worker processes
    path,       \* the process that bound the socket file of each worker
    conn,       \* the process each task's connection leads to
    faults      \* faults spent, per kind

poolVars == <<started, sem, proc, busy, spawns, taskWorker, results>>
procVars == <<procs, reported>>
osVars == <<os, path, conn>>
vars == <<poolVars, job, kill, procVars, osVars, faults>>

Answer == {"none", "exited", "lost"}    \* an exit code from the worker, or -1
JobState == {"new", "queued", "acquiring", "sending", "sent", "answered", "done"}
KillState == {"none", "asked", "waiting", "gone", "done"}

----------------------------------------------------------------------------
(* Worker processes                                                        *)

\* Where a process is, whose worker it is, whether SIGTERM set its flag, its task.
NoProcess == [at |-> "dead", of |-> NoOne, term |-> FALSE, serving |-> NoTask]

Running(p) == p # NoOne /\ os[p].at \in {"starting", "listening"}
Listening(p) == p # NoOne /\ os[p].at = "listening"

\* Ids of processes that neither run nor are referred to may be used again.
Unused == {p \in Pid : ~Running(p) /\ \A w \in Worker : proc[w] # p /\ path[w] # p}
NewPid == CHOOSE p \in Unused : TRUE

\* Fault k happens once more.
Spend(k) ==
    /\ faults[k] < Budget[k]
    /\ faults' = [faults EXCEPT ![k] = @ + 1]

\* Popen of a process for worker w; the socket file of its predecessor goes first.
Popen(w) ==
    /\ Unused # {}
    /\ os' = [os EXCEPT ![NewPid] = [NoProcess EXCEPT !.at = "starting", !.of = w]]
    /\ proc' = [proc EXCEPT ![w] = NewPid]
    /\ busy' = [busy EXCEPT ![w] = FALSE]
    /\ path' = [path EXCEPT ![w] = NoOne]

\* The jobs whose connection ends with process p read an end of file.
Cut(p) == {t \in Task : conn[t] = p}

Dies(p) ==
    /\ os' = [os EXCEPT ![p] = NoProcess]
    /\ conn' = [t \in Task |-> IF t \in Cut(p) THEN NoOne ELSE conn[t]]
    /\ job' = [t \in Task |->
                 IF t \in Cut(p) /\ job[t].at = "sent"
                 THEN [job[t] EXCEPT !.at = "answered", !.answer = "lost"]
                 ELSE job[t]]

\* The packages are loaded: whatever socket file is there is replaced by its own.
Listen(p) ==
    /\ os[p].at = "starting"
    /\ os' = [os EXCEPT ![p].at = "listening"]
    /\ path' = [path EXCEPT ![os[p].of] = p]
    /\ UNCHANGED <<poolVars, job, kill, procVars, conn, faults>>

\* It serves one connection after the other, until SIGTERM set its flag.
Serve(p) ==
    /\ Listening(p)
    /\ ~os[p].term
    /\ os[p].serving = NoTask
    /\ \E t \in Cut(p) : os' = [os EXCEPT ![p].serving = t]
    /\ UNCHANGED <<poolVars, job, kill, procVars, path, conn, faults>>

\* The script ended, with any exit code, and the worker answers, if anyone listens.
Finish(p) ==
    /\ os[p].serving # NoTask
    /\ LET t == os[p].serving IN
       /\ conn' = [conn EXCEPT ![t] = NoOne]
       /\ job' = IF job[t].at = "sent"
                 THEN [job EXCEPT ![t].at = "answered", ![t].answer = "exited"]
                 ELSE job
    /\ os' = [os EXCEPT ![p].serving = NoTask]
    /\ UNCHANGED <<poolVars, kill, procVars, path, faults>>

\* After SIGTERM, between tasks, it leaves and takes the socket file along; before
\* it listens, it may not have the handler yet.
Leave(p) ==
    /\ Running(p)
    /\ os[p].term
    /\ os[p].serving = NoTask
    /\ Dies(p)
    /\ path' = [path EXCEPT ![os[p].of] = IF Listening(p) THEN NoOne ELSE @]
    /\ UNCHANGED <<poolVars, kill, procVars, faults>>

\* Out of memory, a segmentation fault, a script that kills its process.
Crash(p) ==
    /\ Running(p)
    /\ Spend("crash")
    /\ Dies(p)
    /\ UNCHANGED <<poolVars, kill, procVars, path>>

----------------------------------------------------------------------------
(* The pool                                                                *)

\* A coroutine of submit and _run_task_on_worker: where it is, its worker, its result.
NewJob == [at |-> "new", worker |-> NoOne, answer |-> "none"]

\* start: one spawn is scheduled for each worker, nobody waits for it. They run in
\* the next turn of the event loop, before whatever wakes up later than that.
Start ==
    /\ started' = IF started = "no" THEN "starting" ELSE started
    /\ spawns' = IF started = "no" THEN [w \in Worker |-> 1] ELSE spawns

SpawnDone(w) ==
    /\ spawns[w] > 0
    /\ spawns' = [spawns EXCEPT ![w] = @ - 1]
    /\ started' = IF \A v \in Worker : spawns'[v] = 0 THEN "yes" ELSE started

Free == {w \in Worker : ~busy[w] /\ Running(proc[w])}

\* Mutant: the semaphore counts without limit.
AnyPermit == TRUE

\* A permit is at hand.
PermitFree == sem > 0

\* The worker is marked free, whatever it is doing. Mutant: it is not.
StaysBusy(w) == busy
MarkedFree(w) == [busy EXCEPT ![w] = FALSE]

\* The list of dead workers tests the last worker of the dict for each of them: it
\* is all of them or none, and the first is the first of the dict.
AllDead == ~Running(proc[Size]) /\ ~busy[Size]

\* One round of _acquire_worker for task t, which holds a permit. With a worker
\* found, submit returns and the process manager watches the task. A Popen that
\* fails here is tried again before anything else runs.
AcquireWorker(t) ==
    \/ /\ \E w \in Free :
          /\ \A v \in Free : w <= v
          /\ busy' = [busy EXCEPT ![w] = TRUE]
          /\ taskWorker' = [taskWorker EXCEPT ![t] = w]
          /\ job' = [job EXCEPT ![t].at = "sending", ![t].worker = w]
       /\ procs' = procs \union {t}
       /\ UNCHANGED <<proc, os, path>>
    \/ /\ Free = {}
       /\ AllDead
       /\ Popen(1)
       /\ job' = [job EXCEPT ![t].at = "acquiring"]
       /\ UNCHANGED <<taskWorker, procs>>
    \/ /\ Free = {}
       /\ ~AllDead
       /\ job' = [job EXCEPT ![t].at = "acquiring"]
       /\ UNCHANGED <<proc, busy, os, path, taskWorker, procs>>

\* start and submit, with a permit at hand: they reach _acquire_worker, and the
\* first spawn in it, without giving way to the spawns that start scheduled.
Submit(t) ==
    /\ job[t].at = "new"
    /\ PermitFree
    /\ Start
    /\ sem' = sem - 1
    /\ AcquireWorker(t)
    /\ UNCHANGED <<results, kill, reported, conn, faults>>

\* Without one, submit waits.
SubmitWaits(t) ==
    /\ job[t].at = "new"
    /\ ~PermitFree
    /\ job' = [job EXCEPT ![t].at = "queued"]
    /\ UNCHANGED <<poolVars, kill, procVars, osVars, faults>>

Permit(t) ==
    /\ job[t].at = "queued"
    /\ PermitFree
    /\ sem' = sem - 1
    /\ AcquireWorker(t)
    /\ UNCHANGED <<started, spawns, results, kill, reported, conn, faults>>

\* The next round: a sleep ended, or the spawned worker answered, died or let
\* 30 s pass.
AcquireAgain(t) ==
    /\ job[t].at = "acquiring"
    /\ started = "yes"
    /\ AcquireWorker(t)
    /\ UNCHANGED <<started, sem, spawns, results, kill, reported, conn, faults>>

\* A scheduled _spawn_worker runs, whatever became of the worker meanwhile.
SpawnWorker(w) ==
    /\ SpawnDone(w)
    /\ Popen(w)
    /\ UNCHANGED <<sem, taskWorker, results, job, kill, procVars, conn, faults>>

SpawnFails(w) ==
    /\ SpawnDone(w)
    /\ Spend("spawn")
    /\ path' = [path EXCEPT ![w] = NoOne]
    /\ UNCHANGED <<sem, proc, busy, taskWorker, results, job, kill, procVars, os, conn>>

\* _send_task_sync connects to whoever listens at the worker's path, or fails.
SendTask(t) ==
    /\ job[t].at = "sending"
    /\ LET p == path[job[t].worker] IN
       IF Listening(p)
       THEN /\ conn' = [conn EXCEPT ![t] = p]
            /\ job' = [job EXCEPT ![t].at = "sent"]
       ELSE /\ job' = [job EXCEPT ![t].at = "answered", ![t].answer = "lost"]
            /\ UNCHANGED conn
    /\ UNCHANGED <<poolVars, kill, procVars, os, path, faults>>

\* It waits for the answer for a day and no longer; the task goes on.
DayOver(t) ==
    /\ job[t].at = "sent"
    /\ Spend("day")
    /\ job' = [job EXCEPT ![t].at = "answered", ![t].answer = "lost"]
    /\ UNCHANGED <<poolVars, kill, procVars, osVars>>

\* The exit code is kept for the monitor, -1 for a lost answer. Mutant: only an
\* answer of the worker is.
RecordedExit(t) == IF job[t].answer = "lost" THEN results
                   ELSE [results EXCEPT ![t] = job[t].answer]
Recorded(t) == [results EXCEPT ![t] = job[t].answer]

\* The end of _run_task_on_worker.
TaskEnds(t) ==
    /\ job[t].at = "answered"
    /\ started = "yes"
    /\ LET w == job[t].worker
           respawn == job[t].answer = "lost" /\ ~Running(proc[w])
       IN /\ taskWorker' = [taskWorker EXCEPT ![t] = NoOne]
          /\ busy' = MarkedFree(w)
          /\ results' = Recorded(t)
          /\ path' = [path EXCEPT ![w] = IF respawn THEN NoOne ELSE @]
          /\ spawns' = [spawns EXCEPT ![w] = IF respawn THEN @ + 1 ELSE @]
    /\ sem' = sem + 1
    /\ job' = [job EXCEPT ![t] = [NewJob EXCEPT !.at = "done"]]
    /\ UNCHANGED <<started, proc, kill, procVars, os, conn, faults>>

----------------------------------------------------------------------------
(* The process manager                                                     *)

\* A coroutine of kill_task: where it is, its worker, whether it gave a permit back.
NoKill == [at |-> "none", worker |-> NoOne, released |-> FALSE]

\* poll finds an exit code. Mutant: it takes 0 for none.
HasTrueResult(t) == results[t] = "lost"
HasResult(t) == results[t] # "none"

\* The monitor loop polls the pool for the tasks it watches.
Poll(t) ==
    /\ t \in procs
    /\ taskWorker[t] = NoOne
    /\ HasResult(t)
    /\ results' = [results EXCEPT ![t] = "none"]
    /\ procs' = procs \ {t}
    /\ reported' = reported \union {t}
    /\ UNCHANGED <<started, sem, proc, busy, spawns, taskWorker, job, kill, osVars, faults>>

\* kill_graceful stops watching the task, and kill_task frees its worker.
KillTask(t) ==
    /\ t \in procs
    /\ Spend("kill")
    /\ procs' = procs \ {t}
    /\ LET w == taskWorker[t] IN
       IF w = NoOne
       THEN /\ kill' = [kill EXCEPT ![t].at = "done"]
            /\ UNCHANGED <<taskWorker, busy>>
       ELSE /\ kill' = [kill EXCEPT ![t].at = "asked", ![t].worker = w]
            /\ taskWorker' = [taskWorker EXCEPT ![t] = NoOne]
            /\ busy' = MarkedFree(w)
    /\ UNCHANGED <<started, sem, proc, spawns, results, job, reported, osVars>>

\* SIGTERM to the process the worker has by now. A script that put a handler of
\* its own in place keeps it from the worker.
KillTerminates(t) ==
    /\ kill[t].at = "asked"
    /\ LET p == proc[kill[t].worker] IN
       IF p = NoOne
       THEN /\ kill' = [kill EXCEPT ![t].at = "gone"]
            /\ UNCHANGED os
       ELSE /\ kill' = [kill EXCEPT ![t].at = "waiting"]
            /\ \/ Running(p) /\ os' = [os EXCEPT ![p].term = TRUE]
               \/ (Running(p) => os[p].serving # NoTask) /\ UNCHANGED os
    /\ UNCHANGED <<poolVars, job, procVars, path, conn, faults>>

\* The grace period is over: SIGKILL.
KillNow(t) ==
    /\ kill[t].at = "waiting"
    /\ Running(proc[kill[t].worker])
    /\ Dies(proc[kill[t].worker])
    /\ kill' = [kill EXCEPT ![t].at = "gone"]
    /\ UNCHANGED <<poolVars, procVars, path, faults>>

\* The process is seen dead; without a process any more, the look at it raises
\* and kill_task ends there, unless SIGKILL was what it tried.
KillSees(t) ==
    /\ kill[t].at = "waiting"
    /\ LET p == proc[kill[t].worker] IN
       /\ ~Running(p)
       /\ \/ kill' = [kill EXCEPT ![t].at = "gone"]
          \/ p = NoOne /\ kill' = [kill EXCEPT ![t] = [NoKill EXCEPT !.at = "done"]]
    /\ UNCHANGED <<poolVars, job, procVars, osVars, faults>>

\* kill_task gives a permit back. Mutant: it does not.
SemKept == sem
SemReleased == sem + 1

\* Back in the event loop, kill_task forgets the process, schedules a spawn and
\* gives a permit back.
KillEnds(t) ==
    /\ kill[t].at = "gone"
    /\ LET w == kill[t].worker IN
       /\ proc' = [proc EXCEPT ![w] = NoOne]
       /\ path' = [path EXCEPT ![w] = NoOne]
       /\ spawns' = [spawns EXCEPT ![w] = @ + 1]
    /\ sem' = SemReleased
    /\ kill' = [kill EXCEPT ![t] = [NoKill EXCEPT !.at = "done", !.released = TRUE]]
    /\ UNCHANGED <<started, busy, taskWorker, results, job, procVars, os, conn, faults>>

----------------------------------------------------------------------------
Init ==
    /\ started = "no"
    /\ sem = Size
    /\ proc = [w \in Worker |-> NoOne]
    /\ busy = [w \in Worker |-> FALSE]
    /\ spawns = [w \in Worker |-> 0]
    /\ taskWorker = [t \in Task |-> NoOne]
    /\ results = [t \in Task |-> "none"]
    /\ job = [t \in Task |-> NewJob]
    /\ kill = [t \in Task |-> NoKill]
    /\ procs = {}
    /\ reported = {}
    /\ os = [p \in Pid |-> NoProcess]
    /\ path = [w \in Worker |-> NoOne]
    /\ conn = [t \in Task |-> NoOne]
    /\ faults = [k \in FaultKind |-> 0]

ProcessNext == \E p \in Pid :
    Listen(p) \/ Serve(p) \/ Finish(p) \/ Leave(p) \/ Crash(p)
WorkerNext == \E w \in Worker : SpawnWorker(w) \/ SpawnFails(w)
JobNext == \E t \in Task :
    \/ Submit(t) \/ SubmitWaits(t) \/ Permit(t) \/ AcquireAgain(t)
    \/ SendTask(t) \/ DayOver(t) \/ TaskEnds(t)
ManagerNext == \E t \in Task :
    \/ Poll(t) \/ KillTask(t) \/ KillTerminates(t) \/ KillNow(t)
    \/ KillSees(t) \/ KillEnds(t)

Next == ProcessNext \/ WorkerNext \/ JobNext \/ ManagerNext

Spec == Init /\ [][Next]_vars

\* Processes, coroutines and threads go on when they can; scripts end. Nothing is
\* assumed of users and of faults.
ProcessStep(p) == Listen(p) \/ Serve(p) \/ Finish(p) \/ Leave(p)
JobStep(t) == Permit(t) \/ AcquireAgain(t) \/ SendTask(t) \/ TaskEnds(t)
KillStep(t) == KillTerminates(t) \/ KillNow(t) \/ KillSees(t) \/ KillEnds(t)

Fairness ==
    /\ \A p \in Pid : WF_vars(ProcessStep(p))
    /\ \A w \in Worker : WF_vars(SpawnWorker(w))
    /\ \A t \in Task : WF_vars(JobStep(t)) /\ WF_vars(Poll(t)) /\ WF_vars(KillStep(t))

FairSpec == Spec /\ Fairness

----------------------------------------------------------------------------
(* Properties                                                              *)

\* The type invariant.
TypeOK ==
    /\ started \in {"no", "starting", "yes"}
    /\ sem \in Nat
    /\ proc \in [Worker -> Pid \union {NoOne}]
    /\ busy \in [Worker -> BOOLEAN]
    /\ spawns \in [Worker -> Nat]
    /\ taskWorker \in [Task -> Worker \union {NoOne}]
    /\ results \in [Task -> Answer]
    /\ job \in [Task -> [at: JobState, worker: Worker \union {NoOne}, answer: Answer]]
    /\ kill \in [Task -> [at: KillState, worker: Worker \union {NoOne}, released: BOOLEAN]]
    /\ procs \subseteq Task
    /\ reported \subseteq Task
    /\ os \in [Pid -> [at: {"starting", "listening", "dead"},
                       of: Worker \union {NoOne}, term: BOOLEAN,
                       serving: Task \union {NoTask}]]
    /\ path \in [Worker -> Pid \union {NoOne}]
    /\ conn \in [Task -> Pid \union {NoOne}]
    /\ faults \in [FaultKind -> Nat]

\* A worker marked busy has a job that will mark it free: whatever kills, spawns
\* and late answers do to the flag of a worker they share, none of them leaves
\* it set behind a job that ended, which would take the worker out of the pool.
OnJob(t) == job[t].at \in {"sending", "sent", "answered"}
BusyHasJob == \A w \in Worker : busy[w] => \E t \in Task : OnJob(t) /\ job[t].worker = w

\* The comment of poll ("pool hasn't stored it yet"): a task the process manager
\* watches is on a worker or has its result waiting, at every step between the
\* coroutines that move it; otherwise the monitor would poll it forever.
AnswerKept == \A t \in procs : taskWorker[t] # NoOne \/ results[t] # "none"

\* The permits of the pool: those at hand and those held by tasks are Size and
\* one more for each kill_task that came to its end, because the job it killed
\* gives its permit back as well. None is ever lost.
Holders == {t \in Task : job[t].at \in {"acquiring", "sending", "sent", "answered"}}
Givers == {t \in Task : kill[t].released}
PermitsAccounted == sem + Cardinality(Holders) = Size + Cardinality(Givers)

\* Whatever is submitted is announced or killed, through crashes, spawns that
\* fail and workers that were not ready.
AllAnswered == \A t \in Task :
    job[t].at # "new" ~> (t \in reported \/ kill[t].at # "none")

=============================================================================
