--------------------------- MODULE WarmPoolProofs ---------------------------
(***************************************************************************)
(* Proofs that WarmPool keeps its types, that a busy worker has a job      *)
(* (BusyHasJob), that a watched task keeps its answer (AnswerKept) and     *)
(* that no permit is lost (PermitsAccounted), for any number of workers,   *)
(* tasks, processes and faults.                                            *)
(***************************************************************************)
EXTENDS WarmPool, FiniteSetTheorems, TLAPS

USE DEF NoOne, FaultKind

\* How the coroutines of one task fit together: an answered job has an answer, a
\* job on a worker and a kill under way name one, a task is not watched and not
\* killed before it is on a worker, a watched task was not killed, and only a kill
\* that came to its end gave a permit back.
Coherent ==
  \A t \in Task :
    /\ job[t].at = "answered" => job[t].answer # "none"
    /\ job[t].at \in {"sending", "sent", "answered"} => job[t].worker \in Worker
    /\ kill[t].at \in {"asked", "waiting", "gone"} => kill[t].worker \in Worker
    /\ job[t].at \in {"new", "queued", "acquiring"} => t \notin procs /\ kill[t].at = "none"
    /\ t \in procs => kill[t].at = "none"
    /\ kill[t].released => kill[t].at = "done"

IndInv == TypeOK /\ Coherent /\ BusyHasJob /\ AnswerKept /\ PermitsAccounted

(***************************************************************************)
(* The shapes of the records, and the permits when no job takes or gives   *)
(* one.                                                                    *)
(***************************************************************************)
Jobs == [at: JobState, worker: Worker \cup {NoOne}, answer: Answer]
Kills == [at: KillState, worker: Worker \cup {NoOne}, released: BOOLEAN]
Processes == [at: {"starting", "listening", "dead"}, of: Worker \cup {NoOne},
              term: BOOLEAN, serving: Task \cup {NoTask}]

\* The records the actions start from are of their types.
LEMMA RecordFacts ==
  /\ NewJob \in Jobs /\ NoKill \in Kills /\ NoProcess \in Processes
  /\ 1 \in Worker /\ Size \in Worker /\ NoOne \notin Worker /\ NoOne \notin Pid
BY ConstantsAssumption
   DEF NewJob, NoKill, NoProcess, Jobs, Kills, Processes, JobState, KillState, Answer, Worker, Pid

\* Spending a fault keeps the type of the counters.
LEMMA SpendTyped ==
  ASSUME TypeOK, NEW k \in FaultKind, Spend(k)
  PROVE  faults' \in [FaultKind -> Nat]
BY DEF TypeOK, Spend

\* A new process for a worker: the types of the pool and of the processes.
LEMMA PopenTyped ==
  ASSUME TypeOK, NEW w \in Worker, Popen(w)
  PROVE  /\ os' \in [Pid -> Processes]
         /\ proc' \in [Worker -> Pid \cup {NoOne}]
         /\ busy' \in [Worker -> BOOLEAN]
         /\ path' \in [Worker -> Pid \cup {NoOne}]
         /\ \A v \in Worker : busy'[v] => busy[v]
<1>1. NewPid \in Pid
  BY DEF NewPid, Unused, Popen
<1>2. [NoProcess EXCEPT !.at = "starting", !.of = w] \in Processes
  BY DEF NoProcess, Processes
<1> QED
  BY <1>1, <1>2 DEF Popen, TypeOK, Processes

\* The death of a process: types, and the jobs it cuts off stay on their workers.
LEMMA DiesTyped ==
  ASSUME TypeOK, NEW p \in Pid, Dies(p)
  PROVE  /\ os' \in [Pid -> Processes]
         /\ conn' \in [Task -> Pid \cup {NoOne}]
         /\ job' \in [Task -> Jobs]
         /\ \A t \in Task :
              /\ job'[t].worker = job[t].worker
              /\ \/ job'[t] = job[t]
                 \/ /\ job[t].at = "sent"
                    /\ job'[t].at = "answered"
                    /\ job'[t].answer = "lost"
<1>1. os' \in [Pid -> Processes]
  BY RecordFacts DEF Dies, TypeOK, Processes
<1>2. conn' \in [Task -> Pid \cup {NoOne}]
  BY DEF Dies, TypeOK
<1>3. ASSUME NEW t \in Task
      PROVE  /\ job'[t] \in Jobs
             /\ job'[t].worker = job[t].worker
             /\ \/ job'[t] = job[t]
                \/ /\ job[t].at = "sent"
                   /\ job'[t].at = "answered"
                   /\ job'[t].answer = "lost"
  <2>1. job[t] \in Jobs
    BY DEF TypeOK, Jobs
  <2>2. job'[t] = IF t \in Cut(p) /\ job[t].at = "sent"
                   THEN [job[t] EXCEPT !.at = "answered", !.answer = "lost"]
                   ELSE job[t]
    BY DEF Dies
  <2> QED
    BY <2>1, <2>2 DEF Jobs, JobState, Answer
<1>4. job' \in [Task -> Jobs]
  BY <1>3 DEF Dies
<1> QED
  BY <1>1, <1>2, <1>3, <1>4

\* The permits stay accounted for where neither they nor their holders change.
LEMMA PermitsKept ==
  ASSUME PermitsAccounted, sem' = sem,
         \A t \in Task :
           /\ job'[t].at \in {"acquiring", "sending", "sent", "answered"}
                <=> job[t].at \in {"acquiring", "sending", "sent", "answered"}
           /\ kill'[t].released <=> kill[t].released
  PROVE  PermitsAccounted'
<1>1. Holders' = Holders
  BY DEF Holders
<1>2. Givers' = Givers
  BY DEF Givers
<1> QED
  BY <1>1, <1>2 DEF PermitsAccounted

\* A job takes a permit: one less at hand, one more holder.
LEMMA PermitTaken ==
  ASSUME TypeOK, PermitsAccounted, PermitFree, sem' = sem - 1, UNCHANGED kill,
         NEW t \in Task, Holders' = Holders \cup {t}, t \notin Holders
  PROVE  sem' \in Nat /\ PermitsAccounted'
<1>1. IsFiniteSet(Holders) /\ IsFiniteSet(Givers)
  BY TaskAssumption, FS_Subset DEF Holders, Givers
<1>2. Cardinality(Holders') = Cardinality(Holders) + 1
  BY <1>1, FS_AddElement
<1>3. Givers' = Givers
  BY DEF Givers
<1>4. Cardinality(Holders) \in Nat /\ Cardinality(Givers) \in Nat
  BY <1>1, FS_CardinalityType
<1> QED
  BY <1>2, <1>3, <1>4, ConstantsAssumption DEF PermitsAccounted, PermitFree, TypeOK
\* A job gives its permit back: one more at hand, one holder less.
LEMMA PermitGiven ==
  ASSUME TypeOK, PermitsAccounted, sem' = sem + 1, UNCHANGED kill,
         NEW t \in Task, Holders' = Holders \ {t}, t \in Holders
  PROVE  PermitsAccounted'
<1>1. IsFiniteSet(Holders) /\ IsFiniteSet(Givers)
  BY TaskAssumption, FS_Subset DEF Holders, Givers
<1>2. Cardinality(Holders') = Cardinality(Holders) - 1
  BY <1>1, FS_RemoveElement
<1>3. Givers' = Givers
  BY DEF Givers
<1>4. Cardinality(Holders) \in Nat /\ Cardinality(Givers) \in Nat
  BY <1>1, FS_CardinalityType
<1>5. sem \in Nat /\ Size \in Nat
  BY ConstantsAssumption DEF TypeOK
<1> QED
  BY <1>2, <1>3, <1>4, <1>5 DEF PermitsAccounted

\* A kill gives a permit that no job gives up: it is counted with the kills.
LEMMA PermitOfKill ==
  ASSUME TypeOK, PermitsAccounted, sem' = sem + 1, UNCHANGED job,
         NEW t \in Task, Givers' = Givers \cup {t}, t \notin Givers
  PROVE  PermitsAccounted'
<1>1. IsFiniteSet(Holders) /\ IsFiniteSet(Givers)
  BY TaskAssumption, FS_Subset DEF Holders, Givers
<1>2. Cardinality(Givers') = Cardinality(Givers) + 1
  BY <1>1, FS_AddElement
<1>3. Holders' = Holders
  BY DEF Holders
<1>4. Cardinality(Holders) \in Nat /\ Cardinality(Givers) \in Nat
  BY <1>1, FS_CardinalityType
<1>5. sem \in Nat /\ Size \in Nat
  BY ConstantsAssumption DEF TypeOK
<1> QED
  BY <1>2, <1>3, <1>4, <1>5 DEF PermitsAccounted

(***************************************************************************)
(* One round of _acquire_worker.                                           *)
(***************************************************************************)
\* A waiting job finds a worker, spawns one or goes on waiting: everything but
\* the permit it took is in order afterwards.
LEMMA AcquireKeeps ==
  ASSUME IndInv, NEW t \in Task, AcquireWorker(t), UNCHANGED <<kill, results>>,
         job[t].at \in {"new", "queued", "acquiring"}
  PROVE  /\ proc' \in [Worker -> Pid \cup {NoOne}]
         /\ busy' \in [Worker -> BOOLEAN]
         /\ path' \in [Worker -> Pid \cup {NoOne}]
         /\ os' \in [Pid -> Processes]
         /\ taskWorker' \in [Task -> Worker \cup {NoOne}]
         /\ job' \in [Task -> Jobs]
         /\ procs' \subseteq Task
         /\ Coherent' /\ BusyHasJob' /\ AnswerKept'
         /\ Holders' = Holders \cup {t}
<1> USE DEF IndInv
<1>w. CASE /\ \E w \in Free :
                /\ \A v \in Free : w <= v
                /\ busy' = [busy EXCEPT ![w] = TRUE]
                /\ taskWorker' = [taskWorker EXCEPT ![t] = w]
                /\ job' = [job EXCEPT ![t].at = "sending", ![t].worker = w]
           /\ procs' = procs \cup {t}
           /\ UNCHANGED <<proc, os, path>>
  <2>1. PICK w \in Free :
               /\ busy' = [busy EXCEPT ![w] = TRUE]
               /\ taskWorker' = [taskWorker EXCEPT ![t] = w]
               /\ job' = [job EXCEPT ![t].at = "sending", ![t].worker = w]
    BY <1>w
  <2>2. w \in Worker /\ w # NoOne
    BY ConstantsAssumption DEF Free, Worker
  <2>3. /\ job' \in [Task -> Jobs]
        /\ job'[t].at = "sending" /\ job'[t].worker = w
        /\ \A u \in Task \ {t} : job'[u] = job[u]
    <3>1. job[t] \in Jobs /\ job \in [Task -> Jobs]
      BY DEF TypeOK, Jobs
    <3>2. [job[t] EXCEPT !.at = "sending", !.worker = w] \in Jobs
      BY <3>1, <2>2 DEF Jobs, JobState
    <3>3. job' = [job EXCEPT ![t] = [job[t] EXCEPT !.at = "sending", !.worker = w]]
      BY <2>1, <3>1
    <3> QED
      BY <3>1, <3>2, <3>3 DEF Jobs
  <2>4. /\ busy' \in [Worker -> BOOLEAN]
        /\ taskWorker' \in [Task -> Worker \cup {NoOne}]
        /\ taskWorker'[t] = w
        /\ \A u \in Task \ {t} : taskWorker'[u] = taskWorker[u]
        /\ \A v \in Worker \ {w} : busy'[v] = busy[v]
    BY <2>1, <2>2 DEF TypeOK
  <2>5. Coherent'
    BY <1>w, <2>2, <2>3 DEF Coherent, TypeOK
  <2>6. BusyHasJob'
    <3> SUFFICES ASSUME NEW v \in Worker, busy'[v]
                 PROVE  \E u \in Task : OnJob(u)' /\ job'[u].worker = v
      BY DEF BusyHasJob
    <3>1. CASE v = w
      BY <3>1, <2>3 DEF OnJob
    <3>2. CASE v # w
      <4>1. PICK u \in Task : OnJob(u) /\ job[u].worker = v
        BY <3>2, <2>4 DEF BusyHasJob
      <4>2. u # t
        BY <4>1 DEF OnJob
      <4> QED
        BY <4>1, <4>2, <2>3 DEF OnJob
    <3> QED
      BY <3>1, <3>2
  <2>7. AnswerKept'
    BY <1>w, <2>2, <2>4 DEF AnswerKept
  <2>8. Holders' = Holders \cup {t}
    BY <2>3 DEF Holders
  <2> QED
    BY <1>w, <2>3, <2>4, <2>5, <2>6, <2>7, <2>8 DEF TypeOK, Processes
<1>r. CASE /\ job' = [job EXCEPT ![t].at = "acquiring"]
           /\ UNCHANGED <<taskWorker, procs>>
           /\ \/ Popen(1)
              \/ UNCHANGED <<proc, busy, os, path>>
  <2>1. /\ proc' \in [Worker -> Pid \cup {NoOne}]
        /\ busy' \in [Worker -> BOOLEAN]
        /\ path' \in [Worker -> Pid \cup {NoOne}]
        /\ os' \in [Pid -> Processes]
        /\ \A v \in Worker : busy'[v] => busy[v]
    <3>1. CASE Popen(1)
      BY <3>1, PopenTyped, RecordFacts
    <3>2. CASE UNCHANGED <<proc, busy, os, path>>
      BY <3>2 DEF TypeOK, Processes
    <3> QED
      BY <1>r, <3>1, <3>2
  <2>2. /\ job' \in [Task -> Jobs]
        /\ job'[t].at = "acquiring"
        /\ \A u \in Task \ {t} : job'[u] = job[u]
    <3>1. job[t] \in Jobs /\ job \in [Task -> Jobs]
      BY DEF TypeOK, Jobs
    <3>2. [job[t] EXCEPT !.at = "acquiring"] \in Jobs
      BY <3>1 DEF Jobs, JobState
    <3>3. job' = [job EXCEPT ![t] = [job[t] EXCEPT !.at = "acquiring"]]
      BY <1>r, <3>1
    <3> QED
      BY <3>1, <3>2, <3>3 DEF Jobs
  <2>3. Coherent'
    BY <1>r, <2>2 DEF Coherent, TypeOK
  <2>4. BusyHasJob'
    <3> SUFFICES ASSUME NEW v \in Worker, busy'[v]
                 PROVE  \E u \in Task : OnJob(u)' /\ job'[u].worker = v
      BY DEF BusyHasJob
    <3>1. PICK u \in Task : OnJob(u) /\ job[u].worker = v
      BY <2>1 DEF BusyHasJob
    <3>2. u # t
      BY <3>1 DEF OnJob
    <3> QED
      BY <3>1, <3>2, <2>2 DEF OnJob
  <2>5. AnswerKept'
    BY <1>r DEF AnswerKept
  <2>6. Holders' = Holders \cup {t}
    BY <2>2 DEF Holders
  <2> QED
    BY <1>r, <2>1, <2>2, <2>3, <2>4, <2>5, <2>6 DEF TypeOK
<1> QED
  BY <1>w, <1>r DEF AcquireWorker
(***************************************************************************)
(* Steps of the processes and threads.                                     *)
(***************************************************************************)
\* A step that moves jobs on their workers and kills on their way, and touches
\* neither flags, results nor permits, keeps what relates them.
LEMMA Undisturbed ==
  ASSUME IndInv, UNCHANGED <<sem, busy, taskWorker, results, procs>>,
         \A t \in Task :
           \/ job'[t] = job[t]
           \/ /\ job[t].at \in {"sending", "sent", "answered"}
              /\ job'[t].at \in {"sending", "sent", "answered"}
              /\ job'[t].worker = job[t].worker
              /\ job'[t].at = "answered" => job'[t].answer # "none",
         \A t \in Task :
           \/ kill'[t] = kill[t]
           \/ /\ kill[t].at \in {"asked", "waiting"}
              /\ kill'[t].at # "none"
              /\ kill'[t].at # "done" => kill'[t].worker = kill[t].worker
              /\ kill'[t].released = kill[t].released
  PROVE  Coherent' /\ BusyHasJob' /\ AnswerKept' /\ PermitsAccounted'
<1> USE DEF IndInv
<1>1. Coherent'
  <2> SUFFICES ASSUME NEW t \in Task
               PROVE  /\ job'[t].at = "answered" => job'[t].answer # "none"
                      /\ job'[t].at \in {"sending", "sent", "answered"} => job'[t].worker \in Worker
                      /\ kill'[t].at \in {"asked", "waiting", "gone"} => kill'[t].worker \in Worker
                      /\ job'[t].at \in {"new", "queued", "acquiring"}
                           => t \notin procs' /\ kill'[t].at = "none"
                      /\ t \in procs' => kill'[t].at = "none"
                      /\ kill'[t].released => kill'[t].at = "done"
    BY DEF Coherent
  <2> QED
    BY DEF Coherent
<1>2. BusyHasJob'
  <2> SUFFICES ASSUME NEW v \in Worker, busy'[v]
               PROVE  \E u \in Task : OnJob(u)' /\ job'[u].worker = v
    BY DEF BusyHasJob
  <2>1. PICK u \in Task : OnJob(u) /\ job[u].worker = v
    BY DEF BusyHasJob
  <2> QED
    BY <2>1 DEF OnJob
<1>3. AnswerKept'
  BY DEF AnswerKept
<1>4. PermitsAccounted'
  BY PermitsKept
<1> QED
  BY <1>1, <1>2, <1>3, <1>4

LEMMA ListenStep ==
  ASSUME IndInv, NEW p \in Pid, Listen(p)
  PROVE  IndInv'
<1> USE DEF IndInv
<1>1. Coherent' /\ BusyHasJob' /\ AnswerKept' /\ PermitsAccounted'
  BY Undisturbed DEF Listen, poolVars, procVars
<1>2. os' \in [Pid -> Processes] /\ path' \in [Worker -> Pid \cup {NoOne}]
  <2> DEFINE ready == [os[p] EXCEPT !.at = "listening"]
  <2>1. os \in [Pid -> Processes] /\ path \in [Worker -> Pid \cup {NoOne}]
    BY DEF TypeOK, Processes
  <2>2. ready \in Processes
    BY <2>1 DEF Processes
  <2>3. os' = [os EXCEPT ![p] = ready] /\ path' = [path EXCEPT ![os[p].of] = p]
    BY DEF Listen
  <2> HIDE DEF ready
  <2> QED
    BY <2>1, <2>2, <2>3
<1>3. TypeOK'
  BY <1>2 DEF Listen, TypeOK, Processes, poolVars, procVars
<1> QED
  BY <1>1, <1>3

LEMMA ServeStep ==
  ASSUME IndInv, NEW p \in Pid, Serve(p)
  PROVE  IndInv'
<1> USE DEF IndInv
<1>1. Coherent' /\ BusyHasJob' /\ AnswerKept' /\ PermitsAccounted'
  BY Undisturbed DEF Serve, poolVars, procVars
<1>2. os' \in [Pid -> Processes]
  <2>1. PICK t \in Task : os' = [os EXCEPT ![p].serving = t]
    BY DEF Serve, Cut
  <2>2. os[p] \in Processes /\ os \in [Pid -> Processes]
    BY DEF TypeOK, Processes
  <2>3. [os[p] EXCEPT !.serving = t] \in Processes
    BY <2>2 DEF Processes
  <2>4. os' = [os EXCEPT ![p] = [os[p] EXCEPT !.serving = t]]
    BY <2>1, <2>2
  <2> QED
    BY <2>2, <2>3, <2>4
<1>3. TypeOK'
  BY <1>2 DEF Serve, TypeOK, Processes, poolVars, procVars
<1> QED
  BY <1>1, <1>3

\* The answer of a worker reaches the job that waits for it.
LEMMA FinishStep ==
  ASSUME IndInv, NEW p \in Pid, Finish(p)
  PROVE  IndInv'
<1> USE DEF IndInv
<1> DEFINE t == os[p].serving
<1>1. t \in Task
  BY DEF Finish, TypeOK
<1>2. /\ job' \in [Task -> Jobs]
      /\ \A u \in Task :
           \/ job'[u] = job[u]
           \/ /\ job[u].at = "sent"
              /\ job'[u].at = "answered"
              /\ job'[u].worker = job[u].worker
              /\ job'[u].answer # "none"
  <2>1. job[t] \in Jobs /\ job \in [Task -> Jobs]
    BY <1>1 DEF TypeOK, Jobs
  <2>2. CASE job[t].at = "sent"
    <3> DEFINE j == [job[t] EXCEPT !.at = "answered", !.answer = "exited"]
    <3>1. j \in Jobs /\ j.at = "answered" /\ j.answer = "exited" /\ j.worker = job[t].worker
      BY <2>1 DEF Jobs, JobState, Answer
    <3>2. job' = [job EXCEPT ![t] = j]
      BY <2>1, <2>2 DEF Finish
    <3> HIDE DEF j
    <3> QED
      BY <1>1, <2>1, <2>2, <3>1, <3>2
  <2>3. CASE job[t].at # "sent"
    BY <2>1, <2>3 DEF Finish
  <2> QED
    BY <2>2, <2>3
<1>3. Coherent' /\ BusyHasJob' /\ AnswerKept' /\ PermitsAccounted'
  BY <1>2, Undisturbed DEF Finish, poolVars, procVars
<1>4. os' \in [Pid -> Processes] /\ conn' \in [Task -> Pid \cup {NoOne}]
  <2> DEFINE idle == [os[p] EXCEPT !.serving = NoTask]
  <2>1. os \in [Pid -> Processes] /\ conn \in [Task -> Pid \cup {NoOne}]
    BY DEF TypeOK, Processes
  <2>2. idle \in Processes
    BY <2>1 DEF Processes
  <2>3. os' = [os EXCEPT ![p] = idle] /\ conn' = [conn EXCEPT ![t] = NoOne]
    BY DEF Finish
  <2> HIDE DEF idle, t
  <2> QED
    BY <2>1, <2>2, <2>3
<1>5. TypeOK'
  BY <1>2, <1>4 DEF Finish, TypeOK, Processes, Jobs, poolVars, procVars
<1> QED
  BY <1>3, <1>5

LEMMA LeaveStep ==
  ASSUME IndInv, NEW p \in Pid, Leave(p)
  PROVE  IndInv'
<1> USE DEF IndInv
<1>1. Dies(p)
  BY DEF Leave
<1>2. Coherent' /\ BusyHasJob' /\ AnswerKept' /\ PermitsAccounted'
  BY <1>1, DiesTyped, Undisturbed DEF Leave, poolVars, procVars
<1>3. path' \in [Worker -> Pid \cup {NoOne}]
  BY DEF Leave, TypeOK
<1>4. TypeOK'
  BY <1>1, <1>3, DiesTyped DEF Leave, TypeOK, Processes, Jobs, poolVars, procVars
<1> QED
  BY <1>2, <1>4

LEMMA CrashStep ==
  ASSUME IndInv, NEW p \in Pid, Crash(p)
  PROVE  IndInv'
<1> USE DEF IndInv
<1>1. Dies(p) /\ Spend("crash")
  BY DEF Crash
<1>2. Coherent' /\ BusyHasJob' /\ AnswerKept' /\ PermitsAccounted'
  BY <1>1, DiesTyped, Undisturbed DEF Crash, poolVars, procVars
<1>3. TypeOK'
  BY <1>1, SpendTyped, DiesTyped DEF Crash, TypeOK, Processes, Jobs, poolVars, procVars
<1> QED
  BY <1>2, <1>3

LEMMA SendTaskStep ==
  ASSUME IndInv, NEW t \in Task, SendTask(t)
  PROVE  IndInv'
<1> USE DEF IndInv
<1> DEFINE q == path[job[t].worker]
           sent == [job[t] EXCEPT !.at = "sent"]
           lost == [job[t] EXCEPT !.at = "answered", !.answer = "lost"]
<1>1. job[t] \in Jobs /\ job \in [Task -> Jobs] /\ job[t].worker \in Worker /\ q \in Pid \cup {NoOne}
  BY DEF TypeOK, Jobs, Coherent, SendTask
<1>2. /\ sent \in Jobs /\ sent.at = "sent" /\ sent.worker = job[t].worker
      /\ lost \in Jobs /\ lost.at = "answered" /\ lost.worker = job[t].worker /\ lost.answer = "lost"
  BY <1>1 DEF Jobs, JobState, Answer
<1>3. \/ job' = [job EXCEPT ![t] = sent] /\ conn' = [conn EXCEPT ![t] = q]
      \/ job' = [job EXCEPT ![t] = lost] /\ conn' = conn
  BY <1>1 DEF SendTask
<1>4. job[t].at = "sending"
  BY DEF SendTask
<1> HIDE DEF sent, lost, q
<1>5. /\ job' \in [Task -> Jobs]
      /\ conn' \in [Task -> Pid \cup {NoOne}]
      /\ \A u \in Task :
           \/ job'[u] = job[u]
           \/ /\ job[u].at \in {"sending", "sent", "answered"}
              /\ job'[u].at \in {"sending", "sent", "answered"}
              /\ job'[u].worker = job[u].worker
              /\ job'[u].at = "answered" => job'[u].answer # "none"
  <2>1. CASE job' = [job EXCEPT ![t] = sent] /\ conn' = [conn EXCEPT ![t] = q]
    <3>1. conn' \in [Task -> Pid \cup {NoOne}]
      BY <2>1, <1>1 DEF TypeOK
    <3> QED
      BY <2>1, <3>1, <1>1, <1>2, <1>4
  <2>2. CASE job' = [job EXCEPT ![t] = lost] /\ conn' = conn
    <3>1. conn' \in [Task -> Pid \cup {NoOne}]
      BY <2>2 DEF TypeOK
    <3> QED
      BY <2>2, <3>1, <1>1, <1>2, <1>4
  <2> QED
    BY <1>3, <2>1, <2>2
<1>6. Coherent' /\ BusyHasJob' /\ AnswerKept' /\ PermitsAccounted'
  BY <1>5, Undisturbed DEF SendTask, poolVars, procVars
<1>7. TypeOK'
  BY <1>5 DEF SendTask, TypeOK, Jobs, poolVars, procVars
<1> QED
  BY <1>6, <1>7

LEMMA DayOverStep ==
  ASSUME IndInv, NEW t \in Task, DayOver(t)
  PROVE  IndInv'
<1> USE DEF IndInv
<1> DEFINE lost == [job[t] EXCEPT !.at = "answered", !.answer = "lost"]
<1>1. job[t] \in Jobs /\ job \in [Task -> Jobs]
  BY DEF TypeOK, Jobs
<1>2. lost \in Jobs /\ lost.at = "answered" /\ lost.worker = job[t].worker /\ lost.answer = "lost"
  BY <1>1 DEF Jobs, JobState, Answer
<1>3. job[t].at = "sent" /\ job' = [job EXCEPT ![t] = lost]
  BY <1>1 DEF DayOver
<1> HIDE DEF lost
<1>4. Coherent' /\ BusyHasJob' /\ AnswerKept' /\ PermitsAccounted'
  BY <1>1, <1>2, <1>3, Undisturbed DEF DayOver, poolVars, procVars
<1>5. faults' \in [FaultKind -> Nat]
  BY SpendTyped DEF DayOver
<1>6. job' \in [Task -> Jobs]
  BY <1>1, <1>2, <1>3
<1>7. TypeOK'
  BY <1>5, <1>6 DEF DayOver, TypeOK, Jobs, poolVars, procVars, osVars
<1> QED
  BY <1>4, <1>7
(***************************************************************************)
(* Steps of the event loop: submissions and spawns.                        *)
(***************************************************************************)
\* The spawns that start schedules, and the one that runs.
LEMMA SpawnsTyped ==
  ASSUME TypeOK
  PROVE  /\ Start => spawns' \in [Worker -> Nat] /\ started' \in {"no", "starting", "yes"}
         /\ \A w \in Worker :
              SpawnDone(w) => spawns' \in [Worker -> Nat] /\ started' \in {"no", "starting", "yes"}
<1>1. ASSUME Start
      PROVE  spawns' \in [Worker -> Nat] /\ started' \in {"no", "starting", "yes"}
  BY <1>1 DEF Start, TypeOK
<1>2. ASSUME NEW w \in Worker, SpawnDone(w)
      PROVE  spawns' \in [Worker -> Nat] /\ started' \in {"no", "starting", "yes"}
  BY <1>2 DEF SpawnDone, TypeOK
<1> QED
  BY <1>1, <1>2

LEMMA SubmitStep ==
  ASSUME IndInv, NEW t \in Task, Submit(t)
  PROVE  IndInv'
<1> USE DEF IndInv
<1>1. AcquireWorker(t) /\ Start /\ job[t].at = "new" /\ PermitFree /\ sem' = sem - 1
      /\ UNCHANGED <<results, kill, reported, conn, faults>>
  BY DEF Submit
<1>2. /\ Coherent' /\ BusyHasJob' /\ AnswerKept'
      /\ Holders' = Holders \cup {t}
  BY <1>1, AcquireKeeps
<1>3. sem' \in Nat /\ PermitsAccounted'
  <2>1. t \notin Holders
    BY <1>1 DEF Holders
  <2> QED
    BY <1>1, <1>2, <2>1, PermitTaken
<1>4. TypeOK'
  BY <1>1, <1>3, AcquireKeeps, SpawnsTyped DEF TypeOK, Jobs, Processes
<1> QED
  BY <1>2, <1>3, <1>4

LEMMA SubmitWaitsStep ==
  ASSUME IndInv, NEW t \in Task, SubmitWaits(t)
  PROVE  IndInv'
<1> USE DEF IndInv
<1> DEFINE queued == [job[t] EXCEPT !.at = "queued"]
<1>1. job[t] \in Jobs /\ job \in [Task -> Jobs] /\ job[t].at = "new"
  BY DEF TypeOK, Jobs, SubmitWaits
<1>2. queued \in Jobs /\ queued.at = "queued"
  BY <1>1 DEF Jobs, JobState
<1>3. job' = [job EXCEPT ![t] = queued]
  BY <1>1 DEF SubmitWaits
<1> HIDE DEF queued
<1>4. job' \in [Task -> Jobs] /\ job'[t].at = "queued" /\ \A u \in Task \ {t} : job'[u] = job[u]
  BY <1>1, <1>2, <1>3
<1>5. UNCHANGED <<poolVars, kill, procVars, osVars, faults>>
  BY DEF SubmitWaits
<1>6. TypeOK'
  BY <1>4, <1>5 DEF TypeOK, Jobs, poolVars, procVars, osVars
<1>7. Coherent'
  BY <1>1, <1>4, <1>5 DEF Coherent, procVars
<1>8. BusyHasJob'
  <2> SUFFICES ASSUME NEW v \in Worker, busy'[v]
               PROVE  \E u \in Task : OnJob(u)' /\ job'[u].worker = v
    BY DEF BusyHasJob
  <2>1. PICK u \in Task : OnJob(u) /\ job[u].worker = v
    BY <1>5 DEF BusyHasJob, poolVars
  <2>2. u # t
    BY <1>1, <2>1 DEF OnJob
  <2> QED
    BY <1>4, <2>1, <2>2 DEF OnJob
<1>9. AnswerKept'
  BY <1>5 DEF AnswerKept, poolVars, procVars
<1>10. PermitsAccounted'
  BY <1>1, <1>4, <1>5, PermitsKept DEF poolVars
<1> QED
  BY <1>6, <1>7, <1>8, <1>9, <1>10

LEMMA PermitStep ==
  ASSUME IndInv, NEW t \in Task, Permit(t)
  PROVE  IndInv'
<1> USE DEF IndInv
<1>1. AcquireWorker(t) /\ job[t].at = "queued" /\ PermitFree /\ sem' = sem - 1
      /\ UNCHANGED <<started, spawns, results, kill, reported, conn, faults>>
  BY DEF Permit
<1>2. /\ Coherent' /\ BusyHasJob' /\ AnswerKept'
      /\ Holders' = Holders \cup {t}
  BY <1>1, AcquireKeeps
<1>3. sem' \in Nat /\ PermitsAccounted'
  <2>1. t \notin Holders
    BY <1>1 DEF Holders
  <2> QED
    BY <1>1, <1>2, <2>1, PermitTaken
<1>4. TypeOK'
  BY <1>1, <1>3, AcquireKeeps DEF TypeOK, Jobs, Processes
<1> QED
  BY <1>2, <1>3, <1>4

LEMMA AcquireAgainStep ==
  ASSUME IndInv, NEW t \in Task, AcquireAgain(t)
  PROVE  IndInv'
<1> USE DEF IndInv
<1>1. AcquireWorker(t) /\ job[t].at = "acquiring"
      /\ UNCHANGED <<started, sem, spawns, results, kill, reported, conn, faults>>
  BY DEF AcquireAgain
<1>2. /\ Coherent' /\ BusyHasJob' /\ AnswerKept'
      /\ Holders' = Holders \cup {t}
  BY <1>1, AcquireKeeps
<1>3. PermitsAccounted'
  <2>1. Holders' = Holders
    BY <1>1, <1>2 DEF Holders
  <2>2. Givers' = Givers
    BY <1>1 DEF Givers
  <2> QED
    BY <1>1, <2>1, <2>2 DEF PermitsAccounted
<1>4. TypeOK'
  BY <1>1, AcquireKeeps DEF TypeOK, Jobs, Processes
<1> QED
  BY <1>2, <1>3, <1>4

LEMMA SpawnWorkerStep ==
  ASSUME IndInv, NEW w \in Worker, SpawnWorker(w)
  PROVE  IndInv'
<1> USE DEF IndInv
<1>1. Popen(w) /\ SpawnDone(w)
      /\ UNCHANGED <<sem, taskWorker, results, job, kill, procVars, conn, faults>>
  BY DEF SpawnWorker
<1>2. \A v \in Worker : busy'[v] => busy[v]
  BY <1>1, PopenTyped
<1>3. TypeOK'
  BY <1>1, PopenTyped, SpawnsTyped DEF TypeOK, Processes, procVars
<1>4. Coherent' /\ AnswerKept'
  BY <1>1 DEF Coherent, AnswerKept, procVars
<1>5. BusyHasJob'
  BY <1>1, <1>2 DEF BusyHasJob, OnJob
<1>6. PermitsAccounted'
  BY <1>1, PermitsKept
<1> QED
  BY <1>3, <1>4, <1>5, <1>6

LEMMA SpawnFailsStep ==
  ASSUME IndInv, NEW w \in Worker, SpawnFails(w)
  PROVE  IndInv'
<1> USE DEF IndInv
<1>1. SpawnDone(w) /\ Spend("spawn") /\ path' = [path EXCEPT ![w] = NoOne]
      /\ UNCHANGED <<sem, proc, busy, taskWorker, results, job, kill, procVars, os, conn>>
  BY DEF SpawnFails
<1>2. TypeOK'
  <2>1. path' \in [Worker -> Pid \cup {NoOne}]
    BY <1>1 DEF TypeOK
  <2> QED
    BY <1>1, <2>1, SpendTyped, SpawnsTyped DEF TypeOK, procVars
<1>3. Coherent' /\ BusyHasJob' /\ AnswerKept' /\ PermitsAccounted'
  BY <1>1, Undisturbed DEF procVars
<1> QED
  BY <1>2, <1>3
(***************************************************************************)
(* The end of a job, the poll and the kill.                                *)
(***************************************************************************)
\* The job that ends frees its worker, stores its answer and gives its permit back.
LEMMA TaskEndsStep ==
  ASSUME IndInv, NEW t \in Task, TaskEnds(t)
  PROVE  IndInv'
<1> USE DEF IndInv
<1> DEFINE w == job[t].worker
           ended == [NewJob EXCEPT !.at = "done"]
<1>1. /\ job[t].at = "answered"
      /\ taskWorker' = [taskWorker EXCEPT ![t] = NoOne]
      /\ busy' = [busy EXCEPT ![w] = FALSE]
      /\ results' = [results EXCEPT ![t] = job[t].answer]
      /\ \/ path' = [path EXCEPT ![w] = NoOne] /\ spawns' = [spawns EXCEPT ![w] = spawns[w] + 1]
         \/ path' = path /\ spawns' = spawns
      /\ sem' = sem + 1
      /\ job' = [job EXCEPT ![t] = ended]
      /\ UNCHANGED <<started, proc, kill, procVars, os, conn, faults>>
  BY DEF TaskEnds, MarkedFree, Recorded, TypeOK
<1>2. /\ ended \in Jobs /\ ended.at = "done"
      /\ job \in [Task -> Jobs] /\ w \in Worker
      /\ job[t].answer \in Answer /\ job[t].answer # "none"
  BY <1>1 DEF NewJob, Jobs, JobState, Answer, TypeOK, Coherent
<1> HIDE DEF ended, w
<1>3. job' \in [Task -> Jobs] /\ job'[t].at = "done" /\ \A u \in Task \ {t} : job'[u] = job[u]
  BY <1>1, <1>2
<1>4. TypeOK'
  <2>1. /\ path \in [Worker -> Pid \cup {NoOne}] /\ spawns \in [Worker -> Nat]
        /\ taskWorker \in [Task -> Worker \cup {NoOne}] /\ busy \in [Worker -> BOOLEAN]
        /\ results \in [Task -> Answer] /\ sem \in Nat
    BY DEF TypeOK
  <2>2. path' \in [Worker -> Pid \cup {NoOne}]
    BY <1>1, <2>1
  <2>3. spawns' \in [Worker -> Nat]
    <3>1. spawns[w] + 1 \in Nat
      BY <1>2, <2>1
    <3> QED
      BY <1>1, <2>1, <3>1
  <2>4. taskWorker' \in [Task -> Worker \cup {NoOne}] /\ busy' \in [Worker -> BOOLEAN]
    BY <1>1, <2>1
  <2>5. results' \in [Task -> Answer] /\ sem' \in Nat
    BY <1>1, <1>2, <2>1
  <2> QED
    BY <1>1, <1>3, <2>2, <2>3, <2>4, <2>5 DEF TypeOK, Jobs, procVars
<1>5. Coherent'
  BY <1>1, <1>3 DEF Coherent, procVars
<1>6. BusyHasJob'
  <2> SUFFICES ASSUME NEW v \in Worker, busy'[v]
               PROVE  \E u \in Task : OnJob(u)' /\ job'[u].worker = v
    BY DEF BusyHasJob
  <2>1. v # w /\ busy[v]
    BY <1>1, <1>2 DEF TypeOK
  <2>2. PICK u \in Task : OnJob(u) /\ job[u].worker = v
    BY <2>1 DEF BusyHasJob
  <2>3. u # t
    BY <2>1, <2>2 DEF w
  <2> QED
    BY <1>3, <2>2, <2>3 DEF OnJob
<1>7. AnswerKept'
  <2> SUFFICES ASSUME NEW u \in procs
               PROVE  taskWorker'[u] # NoOne \/ results'[u] # "none"
    BY <1>1 DEF AnswerKept, procVars
  <2>1. u \in Task
    BY DEF TypeOK
  <2>2. CASE u = t
    BY <1>1, <1>2, <2>2 DEF TypeOK
  <2>3. CASE u # t
    BY <1>1, <2>1, <2>3 DEF AnswerKept, TypeOK
  <2> QED
    BY <2>2, <2>3
<1>8. PermitsAccounted'
  <2>1. Holders' = Holders \ {t} /\ t \in Holders
    BY <1>1, <1>3 DEF Holders
  <2> QED
    BY <1>1, <2>1, PermitGiven
<1> QED
  BY <1>4, <1>5, <1>6, <1>7, <1>8

LEMMA PollStep ==
  ASSUME IndInv, NEW t \in Task, Poll(t)
  PROVE  IndInv'
<1> USE DEF IndInv
<1>1. /\ results' = [results EXCEPT ![t] = "none"]
      /\ procs' = procs \ {t}
      /\ reported' = reported \cup {t}
      /\ UNCHANGED <<started, sem, proc, busy, spawns, taskWorker, job, kill, osVars, faults>>
  BY DEF Poll
<1>2. TypeOK'
  <2>1. results' \in [Task -> Answer]
    BY <1>1 DEF TypeOK, Answer
  <2> QED
    BY <1>1, <2>1 DEF TypeOK, osVars
<1>3. Coherent' /\ BusyHasJob'
  BY <1>1 DEF Coherent, BusyHasJob, OnJob
<1>4. AnswerKept'
  BY <1>1 DEF AnswerKept, TypeOK
<1>5. PermitsAccounted'
  BY <1>1, PermitsKept
<1> QED
  BY <1>2, <1>3, <1>4, <1>5

\* A kill under way changes only its own record.
LEMMA KillRecord ==
  ASSUME IndInv, NEW t \in Task, NEW k \in Kills, kill' = [kill EXCEPT ![t] = k]
  PROVE  kill' \in [Task -> Kills] /\ kill'[t] = k /\ \A u \in Task \ {t} : kill'[u] = kill[u]
BY DEF IndInv, TypeOK, Kills

LEMMA KillTaskStep ==
  ASSUME IndInv, NEW t \in Task, KillTask(t)
  PROVE  IndInv'
<1> USE DEF IndInv
<1> DEFINE w == taskWorker[t]
           done == [kill[t] EXCEPT !.at = "done"]
           asked == [kill[t] EXCEPT !.at = "asked", !.worker = w]
<1>1. /\ t \in procs /\ kill[t].at = "none"
      /\ kill[t] \in Kills /\ kill \in [Task -> Kills] /\ w \in Worker \cup {NoOne}
      /\ procs' = procs \ {t}
      /\ Spend("kill")
      /\ UNCHANGED <<started, sem, proc, spawns, results, job, reported, osVars>>
  BY DEF KillTask, Coherent, TypeOK, Kills
<1>2. /\ done \in Kills /\ done.at = "done" /\ done.released = kill[t].released
      /\ asked \in Kills /\ asked.at = "asked" /\ asked.worker = w
      /\ asked.released = kill[t].released
  BY <1>1 DEF Kills, KillState
<1>3. ~kill[t].released
  BY <1>1 DEF Coherent
<1>4. \/ /\ kill' = [kill EXCEPT ![t] = done]
         /\ UNCHANGED <<taskWorker, busy>>
      \/ /\ w \in Worker
         /\ kill' = [kill EXCEPT ![t] = asked]
         /\ taskWorker' = [taskWorker EXCEPT ![t] = NoOne]
         /\ busy' = [busy EXCEPT ![w] = FALSE]
  BY <1>1 DEF KillTask, MarkedFree
<1> HIDE DEF done, asked, w
<1>5. /\ kill' \in [Task -> Kills]
      /\ kill'[t].at \in {"asked", "done"}
      /\ kill'[t].at = "asked" => kill'[t].worker \in Worker
      /\ kill'[t].released = kill[t].released
      /\ \A u \in Task \ {t} : kill'[u] = kill[u]
  BY <1>2, <1>4, KillRecord
<1>6. /\ taskWorker' \in [Task -> Worker \cup {NoOne}]
      /\ busy' \in [Worker -> BOOLEAN]
      /\ \A u \in Task \ {t} : taskWorker'[u] = taskWorker[u]
      /\ \A v \in Worker : busy'[v] => busy[v]
  BY <1>4 DEF TypeOK
<1>7. faults' \in [FaultKind -> Nat]
  BY <1>1, SpendTyped
<1>8. TypeOK'
  BY <1>1, <1>5, <1>6, <1>7 DEF TypeOK, Kills, osVars
<1>9. Coherent'
  BY <1>1, <1>3, <1>5 DEF Coherent, TypeOK
<1>10. BusyHasJob'
  BY <1>1, <1>6 DEF BusyHasJob, OnJob
<1>11. AnswerKept'
  BY <1>1, <1>6 DEF AnswerKept, TypeOK
<1>12. PermitsAccounted'
  BY <1>1, <1>5, PermitsKept
<1> QED
  BY <1>8, <1>9, <1>10, <1>11, <1>12

\* The steps of a kill between its request and its end.
LEMMA KillProceeds ==
  ASSUME IndInv, NEW t \in Task, kill[t].at \in {"asked", "waiting"},
         NEW at \in {"waiting", "gone"},
         \/ kill' = [kill EXCEPT ![t].at = at]
         \/ kill' = [kill EXCEPT ![t] = [NoKill EXCEPT !.at = "done"]]
  PROVE  /\ kill' \in [Task -> Kills]
         /\ \A u \in Task :
              \/ kill'[u] = kill[u]
              \/ /\ kill[u].at \in {"asked", "waiting"}
                 /\ kill'[u].at # "none"
                 /\ kill'[u].at # "done" => kill'[u].worker = kill[u].worker
                 /\ kill'[u].released = kill[u].released
<1> DEFINE moved == [kill[t] EXCEPT !.at = at]
           done == [NoKill EXCEPT !.at = "done"]
<1>1. kill[t] \in Kills /\ kill \in [Task -> Kills] /\ kill[t].released = FALSE
  BY DEF IndInv, TypeOK, Kills, Coherent
<1>2. /\ moved \in Kills /\ moved.at = at /\ moved.worker = kill[t].worker
      /\ moved.released = kill[t].released
      /\ done \in Kills /\ done.at = "done" /\ done.released = FALSE
  BY <1>1 DEF Kills, KillState, NoKill
<1>3. kill' = [kill EXCEPT ![t] = moved] \/ kill' = [kill EXCEPT ![t] = done]
  BY <1>1
<1> HIDE DEF moved, done
<1> QED
  BY <1>1, <1>2, <1>3

LEMMA KillTerminatesStep ==
  ASSUME IndInv, NEW t \in Task, KillTerminates(t)
  PROVE  IndInv'
<1> USE DEF IndInv
<1> DEFINE p == proc[kill[t].worker]
<1>1. /\ kill[t].at = "asked" /\ kill[t].worker \in Worker
      /\ p \in Pid \cup {NoOne}
      /\ UNCHANGED <<poolVars, job, procVars, path, conn, faults>>
  BY DEF KillTerminates, Coherent, TypeOK
<1>2. PICK at \in {"waiting", "gone"} : kill' = [kill EXCEPT ![t].at = at]
  BY DEF KillTerminates
<1>3. /\ kill' \in [Task -> Kills]
      /\ \A u \in Task :
           \/ kill'[u] = kill[u]
           \/ /\ kill[u].at \in {"asked", "waiting"}
              /\ kill'[u].at # "none"
              /\ kill'[u].at # "done" => kill'[u].worker = kill[u].worker
              /\ kill'[u].released = kill[u].released
  BY <1>1, <1>2, KillProceeds
<1>4. Coherent' /\ BusyHasJob' /\ AnswerKept' /\ PermitsAccounted'
  BY <1>1, <1>3, Undisturbed DEF poolVars, procVars
<1>5. os' \in [Pid -> Processes]
  <2>1. os \in [Pid -> Processes]
    BY DEF TypeOK, Processes
  <2>2. CASE p # NoOne /\ os' = [os EXCEPT ![p].term = TRUE]
    <3>1. p \in Pid /\ [os[p] EXCEPT !.term = TRUE] \in Processes
      BY <1>1, <2>1, <2>2 DEF Processes
    <3>2. os' = [os EXCEPT ![p] = [os[p] EXCEPT !.term = TRUE]]
      BY <2>2
    <3> QED
      BY <2>1, <3>1, <3>2
  <2>3. CASE os' = os
    BY <2>1, <2>3
  <2> QED
    BY <2>2, <2>3 DEF KillTerminates
<1>6. TypeOK'
  BY <1>1, <1>3, <1>5 DEF TypeOK, Kills, Processes, poolVars, procVars
<1> QED
  BY <1>4, <1>6

LEMMA KillNowStep ==
  ASSUME IndInv, NEW t \in Task, KillNow(t)
  PROVE  IndInv'
<1> USE DEF IndInv
<1> DEFINE p == proc[kill[t].worker]
<1>1. /\ kill[t].at = "waiting" /\ kill[t].worker \in Worker
      /\ p \in Pid /\ Dies(p)
      /\ kill' = [kill EXCEPT ![t].at = "gone"]
      /\ UNCHANGED <<poolVars, procVars, path, faults>>
  BY DEF KillNow, Running, Coherent, TypeOK
<1>2. /\ kill' \in [Task -> Kills]
      /\ \A u \in Task :
           \/ kill'[u] = kill[u]
           \/ /\ kill[u].at \in {"asked", "waiting"}
              /\ kill'[u].at # "none"
              /\ kill'[u].at # "done" => kill'[u].worker = kill[u].worker
              /\ kill'[u].released = kill[u].released
  BY <1>1, KillProceeds
<1>3. Coherent' /\ BusyHasJob' /\ AnswerKept' /\ PermitsAccounted'
  BY <1>1, <1>2, DiesTyped, Undisturbed DEF poolVars, procVars
<1>4. TypeOK'
  BY <1>1, <1>2, DiesTyped DEF TypeOK, Kills, Jobs, Processes, poolVars, procVars
<1> QED
  BY <1>3, <1>4

LEMMA KillSeesStep ==
  ASSUME IndInv, NEW t \in Task, KillSees(t)
  PROVE  IndInv'
<1> USE DEF IndInv
<1>1. /\ kill[t].at = "waiting"
      /\ \/ kill' = [kill EXCEPT ![t].at = "gone"]
         \/ kill' = [kill EXCEPT ![t] = [NoKill EXCEPT !.at = "done"]]
      /\ UNCHANGED <<poolVars, job, procVars, osVars, faults>>
  BY DEF KillSees
<1>2. /\ kill' \in [Task -> Kills]
      /\ \A u \in Task :
           \/ kill'[u] = kill[u]
           \/ /\ kill[u].at \in {"asked", "waiting"}
              /\ kill'[u].at # "none"
              /\ kill'[u].at # "done" => kill'[u].worker = kill[u].worker
              /\ kill'[u].released = kill[u].released
  BY <1>1, KillProceeds
<1>3. Coherent' /\ BusyHasJob' /\ AnswerKept' /\ PermitsAccounted'
  BY <1>1, <1>2, Undisturbed DEF poolVars, procVars
<1>4. TypeOK'
  BY <1>1, <1>2 DEF TypeOK, Kills, poolVars, procVars, osVars
<1> QED
  BY <1>3, <1>4

LEMMA KillEndsStep ==
  ASSUME IndInv, NEW t \in Task, KillEnds(t)
  PROVE  IndInv'
<1> USE DEF IndInv
<1> DEFINE w == kill[t].worker
           done == [NoKill EXCEPT !.at = "done", !.released = TRUE]
<1>1. /\ kill[t].at = "gone" /\ w \in Worker
      /\ proc' = [proc EXCEPT ![w] = NoOne]
      /\ path' = [path EXCEPT ![w] = NoOne]
      /\ spawns' = [spawns EXCEPT ![w] = spawns[w] + 1]
      /\ sem' = sem + 1
      /\ kill' = [kill EXCEPT ![t] = done]
      /\ UNCHANGED <<started, busy, taskWorker, results, job, procVars, os, conn, faults>>
  BY DEF KillEnds, SemReleased, Coherent, TypeOK
<1>2. done \in Kills /\ done.at = "done" /\ done.released = TRUE
  BY DEF NoKill, Kills, KillState
<1> HIDE DEF done, w
<1>3. kill' \in [Task -> Kills] /\ kill'[t] = done /\ \A u \in Task \ {t} : kill'[u] = kill[u]
  BY <1>1, <1>2, KillRecord
<1>4. TypeOK'
  <2>1. /\ proc' \in [Worker -> Pid \cup {NoOne}]
        /\ path' \in [Worker -> Pid \cup {NoOne}]
        /\ spawns' \in [Worker -> Nat]
        /\ sem' \in Nat
    BY <1>1 DEF TypeOK
  <2> QED
    BY <1>1, <1>3, <2>1 DEF TypeOK, Kills, procVars
<1>5. Coherent'
  BY <1>1, <1>2, <1>3 DEF Coherent, procVars
<1>6. BusyHasJob' /\ AnswerKept'
  BY <1>1 DEF BusyHasJob, OnJob, AnswerKept, procVars
<1>7. PermitsAccounted'
  <2>1. Givers' = Givers \cup {t}
    BY <1>2, <1>3 DEF Givers
  <2>2. t \notin Givers
    BY <1>1 DEF Givers, Coherent
  <2> QED
    BY <1>1, <2>1, <2>2, PermitOfKill
<1> QED
  BY <1>4, <1>5, <1>6, <1>7

(***************************************************************************)
(* The theorems.                                                           *)
(***************************************************************************)
LEMMA InitInv == Init => IndInv
<1> SUFFICES ASSUME Init PROVE IndInv
  OBVIOUS
<1>1. TypeOK
  BY RecordFacts, ConstantsAssumption DEF Init, TypeOK, Jobs, Kills, Processes, Answer
<1>2. Coherent /\ BusyHasJob /\ AnswerKept
  BY DEF Init, Coherent, BusyHasJob, AnswerKept, NewJob, NoKill
<1>3. PermitsAccounted
  <2>1. Holders = {} /\ Givers = {}
    BY DEF Init, Holders, Givers, NewJob, NoKill
  <2> QED
    BY <2>1, FS_EmptySet, ConstantsAssumption DEF Init, PermitsAccounted
<1> QED
  BY <1>1, <1>2, <1>3 DEF IndInv

LEMMA NextInv == IndInv /\ [Next]_vars => IndInv'
<1> SUFFICES ASSUME IndInv, [Next]_vars PROVE IndInv'
  OBVIOUS
<1>1. CASE ProcessNext
  BY <1>1, ListenStep, ServeStep, FinishStep, LeaveStep, CrashStep DEF ProcessNext
<1>2. CASE WorkerNext
  BY <1>2, SpawnWorkerStep, SpawnFailsStep DEF WorkerNext
<1>3. CASE JobNext
  BY <1>3, SubmitStep, SubmitWaitsStep, PermitStep, AcquireAgainStep, SendTaskStep,
     DayOverStep, TaskEndsStep DEF JobNext
<1>4. CASE ManagerNext
  BY <1>4, PollStep, KillTaskStep, KillTerminatesStep, KillNowStep, KillSeesStep,
     KillEndsStep DEF ManagerNext
<1>5. CASE UNCHANGED vars
  <2>1. TypeOK'
    BY <1>5 DEF IndInv, TypeOK, vars, poolVars, procVars, osVars
  <2>2. Coherent' /\ BusyHasJob' /\ AnswerKept' /\ PermitsAccounted'
    BY <1>5, Undisturbed DEF vars, poolVars, procVars, osVars
  <2> QED
    BY <2>1, <2>2 DEF IndInv
<1> QED
  BY <1>1, <1>2, <1>3, <1>4, <1>5 DEF Next

\* The pool, the processes and the process manager keep the invariant.
THEOREM PoolInvariance == Spec => []IndInv
BY InitInv, NextInv, PTL DEF Spec

\* Every step of the pool keeps the types.
THEOREM PoolTypeCorrect == Spec => []TypeOK
<1>1. IndInv => TypeOK
  BY DEF IndInv
<1> QED
  BY <1>1, PoolInvariance, PTL

\* A worker marked busy has a job that will mark it free.
THEOREM BusyWorkersHaveJobs == Spec => []BusyHasJob
<1>1. IndInv => BusyHasJob
  BY DEF IndInv
<1> QED
  BY <1>1, PoolInvariance, PTL

\* A watched task is on a worker or has its result waiting.
THEOREM WatchedTasksKeepAnswers == Spec => []AnswerKept
<1>1. IndInv => AnswerKept
  BY DEF IndInv
<1> QED
  BY <1>1, PoolInvariance, PTL

\* No permit is lost, and each kill that came to its end added one.
THEOREM NoPermitLost == Spec => []PermitsAccounted
<1>1. IndInv => PermitsAccounted
  BY DEF IndInv
<1> QED
  BY <1>1, PoolInvariance, PTL
=============================================================================
