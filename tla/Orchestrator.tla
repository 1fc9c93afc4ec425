---------------------------- MODULE Orchestrator ----------------------------
(***************************************************************************)
(* The life of a task between the server and its stub daemons: submission, *)
(* scheduling, dispatch, execution, completion, kill, automatic retry, and *)
(* the reconciliation after a lost link, a daemon crash or a server        *)
(* restart.                                                                *)
(*                                                                         *)
(* The server is single threaded: one action below is one callback of it,  *)
(* run to its end, with the schedule() passes it triggers.  The daemon's   *)
(* coroutines interleave, so what the server sends is a SET of messages,   *)
(* handled in any order; what the daemon sends travels in order.           *)
(*                                                                         *)
(* A task has two copies on the server: its database row, and, while a     *)
(* stub holds it, an object in that stub's in-memory array.  They are      *)
(* separate variables because the code lets them diverge (Resume).         *)
(*                                                                         *)
(* The operators between "worlds" below map a server state to the set of   *)
(* server states a helper can leave; an action composes them.              *)
(***************************************************************************)
EXTENDS Integers, FiniteSets, Sequences, TaskStatus

CONSTANTS
  Stubs,          \* the stub daemons
  MaxTasks,       \* bound: task ids, retries included
  MaxConcurrent,  \* max_concurrent of every stub
  MaxRetries,     \* max_retries of every task
  MaxUp,          \* bound: events in flight from one stub
  Outcomes,       \* bound: the ways a process may end by itself
  Budgets         \* bounds: how often each spontaneous event may happen, one of these

EventKinds == {"submit", "kill", "cancel", "pause", "timeout", "tick", "sync",
               "log", "preflight", "resend", "drop", "ghost", "crash", "restart", "stall"}

\* A process the daemon tracks: running as its child, re-attached after a
\* restart, told to stop, or exited and not yet reaped by the monitor loop.
Alive == {"running", "adopted", "stopping"}
Exited == {"exit_ok", "exit_bad", "exit_resumable"}

Tasks == 1..MaxTasks
NoStub == "nostub"
NoTask == 0

ASSUME ConstantsAssumption ==
  /\ NoStub \notin Stubs
  /\ MaxTasks \in Nat /\ MaxConcurrent \in Nat /\ MaxRetries \in Nat
  /\ MaxUp \in Nat
  /\ Outcomes \subseteq Exited
  /\ Budgets \subseteq [EventKinds -> Nat]

VARIABLES
  row,         \* the tasks table: [Tasks -> Row]
  mem,         \* stub.tasks of each stub object: [Stubs -> [Tasks -> Copy]]
  online,      \* the stubs whose status is "online"
  conn,        \* what the server holds for the stub's socket
  failTimers,  \* disconnectFailTimers: stubs with the 6 h timer armed
  killTimers,  \* killTimers: pairs <<stub, task>> with the second kill armed
  link,        \* the stubs whose daemon believes it is connected
  down,        \* messages in flight or in a handler, server to stub
  up,          \* events in flight, stub to server
  procs,       \* ProcessManager._procs and what became of each process
  dead,        \* ProcessManager._dead_on_reattach
  left         \* what is left of the budget

server == <<row, mem, online, conn, failTimers, killTimers>>
stub   == <<link, up, procs, dead>>
vars   == <<row, mem, online, conn, failTimers, killTimers,
            link, down, up, procs, dead, left>>

Locations == {"none", "global", "stub", "archive"}

\* tasks.location, stub_id, status, stub_offline, kill_requested,
\* dispatch_attempts, retry_count and retry_of of a row.
Row == [loc : Locations, home : Stubs \cup {NoStub}, st : Status,
        off : BOOLEAN, kill : BOOLEAN, tries : Nat, rc : Nat,
        root : Tasks \cup {NoTask}]

\* Row r of a task that moves: its other columns stay.
Moved(r, loc, home, st) ==
  [loc |-> loc, home |-> home, st |-> st, off |-> r.off, kill |-> r.kill,
   tries |-> r.tries, rc |-> r.rc, root |-> r.root]

\* The row of a new task, and of an id not given yet.
NewRow(loc, tries, rc, root) ==
  [loc |-> loc, home |-> NoStub, st |-> "pending", off |-> FALSE, kill |-> FALSE,
   tries |-> tries, rc |-> rc, root |-> root]
NoRow == NewRow("none", 0, 0, NoTask)

\* A task object in a stub's array; "absent" when the array has none.
Copy == [st : Status \cup {"absent"}, off : BOOLEAN, kill : BOOLEAN]
Absent == [st |-> "absent", off |-> FALSE, kill |-> FALSE]
Flag(c, off, kill) == [st |-> c.st, off |-> off, kill |-> kill]

DownMsg == [k : {"run", "kill"}, t : Tasks] \cup [k : {"clear", "sync"}, t : {NoTask}]
UpMsg == [k : {"started", "log", "completed", "failed", "resumable", "pfail"},
          t : Tasks, run : {{}}, gone : {{}}]
         \cup [k : {"resume", "synced"}, t : {NoTask},
               run : SUBSET Tasks, gone : SUBSET Tasks]

Msg(k, t) == [k |-> k, t |-> t]
Event(k, t) == [k |-> k, t |-> t, run |-> {}, gone |-> {}]
\* Mutant: a payload without dead_tasks.
ReportOfRunning(k, run, gone) == [k |-> k, t |-> NoTask, run |-> run]

Report(k, run, gone) == [k |-> k, t |-> NoTask, run |-> run, gone |-> gone]

ProcState == {"none"} \cup Alive \cup Exited

TypeOK ==
  /\ row \in [Tasks -> Row]
  /\ mem \in [Stubs -> [Tasks -> Copy]]
  /\ online \subseteq Stubs
  /\ conn \in [Stubs -> {"none", "up", "broken"}]
  /\ failTimers \subseteq Stubs
  /\ killTimers \subseteq Stubs \X Tasks
  /\ link \subseteq Stubs
  /\ down \in [Stubs -> SUBSET DownMsg]
  /\ up \in [Stubs -> Seq(UpMsg)]
  /\ procs \in [Stubs -> [Tasks -> ProcState]]
  /\ dead \in [Stubs -> SUBSET Tasks]
  /\ left \in [EventKinds -> Nat]

Init ==
  /\ row = [t \in Tasks |-> NoRow]
  /\ mem = [s \in Stubs |-> [t \in Tasks |-> Absent]]
  /\ online = {}
  /\ conn = [s \in Stubs |-> "none"]
  /\ failTimers = {} /\ killTimers = {}
  /\ link = {}
  /\ down = [s \in Stubs |-> {}]
  /\ up = [s \in Stubs |-> <<>>]
  /\ procs = [s \in Stubs |-> [t \in Tasks |-> "none"]]
  /\ dead = [s \in Stubs |-> {}]
  /\ left \in Budgets

Spend(kind) == left[kind] > 0 /\ left' = [left EXCEPT ![kind] = @ - 1]

(***************************************************************************)
(* Worlds: the part of the server's state the helpers rewrite.             *)
(***************************************************************************)
World == [row |-> row, mem |-> mem, down |-> down]
Commit(w) == row' = w.row /\ mem' = w.mem /\ down' = w.down

Held(w, s, t) == w.mem[s][t].st # "absent"
HeldIn(w, s, sts) == {t \in Tasks : w.mem[s][t].st \in sts}

\* reliableEmitToStub: nothing is sent without a live registered socket.
Live == {s \in Stubs : conn[s] = "up"}
Send(w, s, live, ms) ==
  [row |-> w.row, mem |-> w.mem,
   down |-> [w.down EXCEPT ![s] = IF s \in live THEN @ \cup ms ELSE @]]

\* store.updateTask on objects c of one stub's array, once the transitions are
\* legal: a terminal status moves the row to the archive and takes the object
\* out of the array, any other is written to both.
Written(r, s, c) ==
  [loc |-> IF c.st \in Terminal THEN "archive" ELSE "stub", home |-> s,
   st |-> c.st, off |-> c.off, kill |-> c.kill,
   tries |-> r.tries, rc |-> r.rc, root |-> r.root]

\* Mutant: the object of an archived task stays in the array.
PutLeaving(w, s, c) ==
  [row |-> [t \in Tasks |-> IF t \in DOMAIN c THEN Written(w.row[t], s, c[t]) ELSE w.row[t]],
   mem |-> [w.mem EXCEPT ![s] = [t \in Tasks |-> IF t \in DOMAIN c THEN c[t] ELSE @[t]]],
   down |-> w.down]

Put(w, s, c) ==
  [row |-> [t \in Tasks |-> IF t \in DOMAIN c THEN Written(w.row[t], s, c[t]) ELSE w.row[t]],
   mem |-> [w.mem EXCEPT ![s] = [t \in Tasks |->
              IF t \notin DOMAIN c THEN @[t]
              ELSE IF c[t].st \in Terminal THEN Absent ELSE c[t]]],
   down |-> w.down]

\* Mutant: the write goes through whatever the array holds.
UpdatableAlways(w, s, t, st) == TRUE

\* store.updateTask with a status: refused for a task the array does not hold
\* and for an illegal transition.
Updatable(w, s, t, st) == Held(w, s, t) /\ CanWrite(w.mem[s][t].st, st)
SetStatus(w, s, T, st) ==
  Put(w, s, [t \in {u \in T : Updatable(w, s, u, st)} |-> [w.mem[s][t] EXCEPT !.st = st]])

\* Mutant: running tasks are requeued too.
RequeuedRunning(w, s) == HeldIn(w, s, {"assigned", "running"})

\* requeueStubTasks: every assigned object of the array becomes a pending row
\* of the global queue.
Requeued(w, s) == HeldIn(w, s, {"assigned"})

RequeueRows(w, s) ==
  [row |-> [t \in Tasks |-> IF t \in Requeued(w, s)
                            THEN Moved(w.row[t], "global", NoStub, "pending") ELSE w.row[t]],
   mem |-> w.mem, down |-> w.down]

Requeue(w, s) ==
  [row |-> RequeueRows(w, s).row,
   mem |-> [w.mem EXCEPT ![s] = [t \in Tasks |-> IF t \in Requeued(w, s) THEN Absent ELSE @[t]]],
   down |-> w.down]

(***************************************************************************)
(* schedule(): the pending rows are placed on the online stubs that have a *)
(* free slot until none fits, and maybeDispatch sends task.run for every   *)
(* assigned task of every online stub.  Requirements, tags and scores are  *)
(* abstracted to the slots: any placement that fills them may be chosen.   *)
(* Eligibility counts assigned tasks, so they all fit in the free slots    *)
(* maybeDispatch computes without them.                                    *)
(***************************************************************************)
Pending(w) == {t \in Tasks : w.row[t].loc = "global" /\ w.row[t].st = "pending"}
\* Mutant: a task flagged stub_offline holds no slot.
RoomOfOnline(w, s) ==
  MaxConcurrent - Cardinality({t \in HeldIn(w, s, Reserving) : ~w.mem[s][t].off})

Room(w, s) == MaxConcurrent - Cardinality(HeldIn(w, s, Reserving))

Placements(w, on) ==
  {f \in [Pending(w) -> on \cup {NoStub}] :
     \A s \in on :
       LET n == Cardinality({t \in Pending(w) : f[t] = s})
       IN  /\ n = 0 \/ n <= Room(w, s)
           /\ n < Room(w, s) => \A t \in Pending(w) : f[t] # NoStub}

Placed(w, f) == {t \in Pending(w) : f[t] # NoStub}

Assign(w, f) ==
  [row |-> [t \in Tasks |-> IF t \in Placed(w, f)
                            THEN Moved(w.row[t], "stub", f[t], "assigned") ELSE w.row[t]],
   mem |-> [s \in Stubs |-> [t \in Tasks |->
              IF t \in Placed(w, f) /\ f[t] = s
              THEN [st |-> "assigned", off |-> w.row[t].off, kill |-> w.row[t].kill]
              ELSE w.mem[s][t]]],
   down |-> w.down]

Dispatch(w, on, live) ==
  [row |-> w.row, mem |-> w.mem,
   down |-> [s \in Stubs |->
     IF s \in on \cap live THEN w.down[s] \cup {Msg("run", t) : t \in HeldIn(w, s, {"assigned"})}
     ELSE w.down[s]]]

Schedule(w, on, live) == {Dispatch(Assign(w, f), on, live) : f \in Placements(w, on)}

(***************************************************************************)
(* handleAutoRetry: a failed task with retries left gets a fresh pending   *)
(* copy, unless getAllTasks shows a live retry of the same root.           *)
(***************************************************************************)
AliveForRetry(w, u) ==
  \/ \E s \in Stubs : w.mem[s][u].st \in RetryAlive
  \/ /\ \A s \in Stubs : ~Held(w, s, u)
     /\ w.row[u].loc \in {"global", "archive"} /\ w.row[u].st \in RetryAlive

Kin(w, t, u) == w.row[t].root = w.row[u].root

Retryable(w, t) ==
  /\ w.row[t].rc < MaxRetries
  /\ \A u \in Tasks \ {t} : Kin(w, t, u) /\ w.row[u].rc > 0 => ~AliveForRetry(w, u)

\* The next ids, and which task of F each is a retry of: one per lineage.
NextIds(w) ==
  LET Fresh == {t \in Tasks : w.row[t].loc = "none"}
  IN  {N \in SUBSET Fresh : \A n \in N, u \in Fresh : u < n => u \in N}

RetryMaps(w, F) ==
  LET Cand == {t \in F : Retryable(w, t)}
      Covers(h, t) == \/ \E n \in DOMAIN h : Kin(w, h[n], t)
                      \/ \E u \in F \ {t} : Kin(w, u, t)
  IN  {h \in UNION {[N -> Cand] : N \in NextIds(w)} :
         /\ \A m, n \in DOMAIN h : m # n => ~Kin(w, h[m], h[n])
         /\ \A t \in Cand : Covers(h, t)}

\* createRetryTask copies dispatch_attempts with the rest of the task.
AddRetries(w, h) ==
  [row |-> [t \in Tasks |->
     IF t \notin DOMAIN h THEN w.row[t]
     ELSE NewRow("global", w.row[h[t]].tries, w.row[h[t]].rc + 1, w.row[h[t]].root)],
   mem |-> w.mem, down |-> w.down]

\* Each retry triggers a schedule() pass; a task that gets none triggers none.
RetryAll(w, F, on, live) ==
  UNION {IF DOMAIN h = {} THEN {w} ELSE Schedule(AddRetries(w, h), on, live) :
           h \in RetryMaps(w, F)}

\* failTask and handleAutoRetry for every task of F that stub s may fail.
FailAndRetry(w, s, F, on, live) ==
  RetryAll(SetStatus(w, s, F, "failed"), {t \in F : Updatable(w, s, t, "failed")}, on, live)

\* failDisconnectedTasks: what a kill was requested for is cancelled, the rest
\* fails and is retried.
FailDisconnected(w, s, on, live) ==
  LET F == {t \in HeldIn(w, s, {"running", "paused"}) : w.mem[s][t].off}
      K == {t \in F : w.mem[s][t].kill}
  IN  FailAndRetry(SetStatus(w, s, K, "cancelled"), s, F \ K, on, live)

(***************************************************************************)
(* The API.                                                                *)
(***************************************************************************)
KeepServer == UNCHANGED <<online, conn, failTimers, killTimers>>

Submitted(w, N) ==
  [row |-> [t \in Tasks |-> IF t \in N THEN NewRow("global", 0, 0, t) ELSE w.row[t]],
   mem |-> w.mem, down |-> w.down]

\* POST /tasks: a fresh id in the global queue, then a schedule() pass.
Submit ==
  /\ Spend("submit")
  /\ \E N \in NextIds(World) :
       /\ Cardinality(N) = 1
       /\ \E v \in Schedule(Submitted(World, N), online, Live) : Commit(v)
  /\ KeepServer /\ UNCHANGED stub

\* PATCH status=killed and the batch action "kill", with initiateKillChain.
Kill(t) ==
  LET s == row[t].home
      Chain == row[t].st \in {"running", "assigned"} /\ s # NoStub
      asked == [u \in {u \in {t} : Held(World, s, u)} |-> Flag(mem[s][u], mem[s][u].off, TRUE)]
  IN  /\ Spend("kill")
      /\ row[t].loc # "none" /\ row[t].st \notin Terminal
      /\ \/ /\ Chain /\ s \in online
            /\ Commit(Send(Put(World, s, asked), s, Live, {Msg("kill", t)}))
            /\ killTimers' = killTimers \cup {<<s, t>>}
         \/ /\ s # NoStub /\ (Chain => s \notin online)
            /\ Commit(SetStatus(World, s, {t}, "cancelled"))
            /\ UNCHANGED killTimers
         \/ /\ s = NoStub
            /\ Commit([row |-> [row EXCEPT ![t] = Moved(@, "archive", NoStub, "cancelled")],
                       mem |-> mem, down |-> down])
            /\ UNCHANGED killTimers
      /\ UNCHANGED <<online, conn, failTimers>> /\ UNCHANGED stub

\* PATCH status=cancelled on an assigned task: nothing is sent to the stub.
CancelAssigned(t) ==
  /\ Spend("cancel")
  /\ row[t].st = "assigned" /\ row[t].home # NoStub
  /\ Commit(SetStatus(World, row[t].home, {t}, "cancelled"))
  /\ KeepServer /\ UNCHANGED stub

\* PATCH status=paused, and status=running on a paused task: the status only.
Pause(t) ==
  /\ Spend("pause")
  /\ row[t].home # NoStub
  /\ \/ row[t].st = "running" /\ Commit(SetStatus(World, row[t].home, {t}, "paused"))
     \/ row[t].st = "paused" /\ Commit(SetStatus(World, row[t].home, {t}, "running"))
  /\ KeepServer /\ UNCHANGED stub

(***************************************************************************)
(* The server's timers.                                                    *)
(***************************************************************************)
\* The periodic schedule() of startScheduler.
ScheduleTick ==
  /\ Spend("tick")
  /\ \E w \in Schedule(World, online, Live) : Commit(w)
  /\ KeepServer /\ UNCHANGED stub

\* The second kill of initiateKillChain.
KillAgain(s, t) ==
  /\ <<s, t>> \in killTimers
  /\ killTimers' = killTimers \ {<<s, t>>}
  /\ Commit(IF Held(World, s, t) /\ mem[s][t].st \notin Terminal
            THEN Send(World, s, Live, {Msg("kill", t)}) ELSE World)
  /\ UNCHANGED <<online, conn, failTimers, left>> /\ UNCHANGED stub

\* requeueDispatchedTask.
NewAttempt(r) ==
  [loc |-> "global", home |-> NoStub, st |-> "pending", off |-> r.off, kill |-> r.kill,
   tries |-> r.tries + 1, rc |-> r.rc, root |-> r.root]

\* The 30 s timer of a dispatch, when the task is still assigned to the stub:
\* the third attempt fails the task, an earlier one puts it back in the queue.
DispatchTimeout(s, t) ==
  LET tries == row[t].tries + 1
      w == [row |-> [row EXCEPT ![t] = NewAttempt(@)],
            mem |-> [mem EXCEPT ![s] = [u \in Tasks |-> IF u = t THEN Absent ELSE @[u]]],
            down |-> down]
  IN  /\ Spend("timeout")
      /\ mem[s][t].st = "assigned" /\ row[t].loc = "stub" /\ row[t].st = "assigned"
      /\ \/ tries >= 3 /\ Commit(SetStatus(World, s, {t}, "failed"))
         \/ tries < 3 /\ \E v \in Schedule(w, online, Live) : Commit(v)
      /\ KeepServer /\ UNCHANGED stub

\* The heartbeat checker finds the last heartbeat older than 180 s: the link is
\* broken or the daemon stalls.
HeartbeatTimeout(s) ==
  /\ s \in online
  /\ IF conn[s] = "up" THEN Spend("stall") ELSE UNCHANGED left
  /\ online' = online \ {s}
  /\ \E w \in FailDisconnected(Requeue(World, s), s, online', Live) : Commit(w)
  /\ UNCHANGED <<conn, failTimers, killTimers>> /\ UNCHANGED stub

\* The server sees the current socket of the stub close.
Disconnect(s) ==
  LET w == Requeue(World, s)
      \* markDisconnected asks findTask, so a copy whose row is terminal is skipped
      R == {t \in HeldIn(w, s, {"running", "paused"}) : w.row[t].st \in {"running", "paused"}}
      v == Put(w, s, [t \in R |-> Flag(w.mem[s][t], TRUE, w.mem[s][t].kill)])
  IN  /\ conn[s] = "broken"
      /\ conn' = [conn EXCEPT ![s] = "none"]
      /\ online' = online \ {s}
      /\ killTimers' = {k \in killTimers : ~Held(World, s, k[2])}
      /\ failTimers' = failTimers \cup {s}
      /\ \E x \in Schedule(v, online', Live) : Commit(x)
      /\ UNCHANGED left /\ UNCHANGED stub

\* The 6 h timer of a disconnect.
DisconnectFail(s) ==
  /\ s \in failTimers
  /\ failTimers' = failTimers \ {s}
  /\ IF s \in online THEN Commit(World)
     ELSE \E w \in FailDisconnected(World, s, online, Live) : Commit(w)
  /\ UNCHANGED <<online, conn, killTimers, left>> /\ UNCHANGED stub

\* The 5 min status.sync request.
SyncRequest(s) ==
  /\ Spend("sync")
  /\ s \in online /\ conn[s] = "up"
  /\ down' = [down EXCEPT ![s] = @ \cup {Msg("sync", NoTask)}]
  /\ UNCHANGED <<row, mem>> /\ KeepServer /\ UNCHANGED stub

\* The process restarts: _loadFromDb, then the startup requeue of index.ts.
ServerRestart ==
  LET OnStub(s, t) == row[t].loc = "stub" /\ row[t].home = s
      Kept(s, t) == OnStub(s, t) /\ row[t].st # "assigned"
  IN  /\ Spend("restart")
      /\ mem' = [s \in Stubs |-> [t \in Tasks |->
                   IF Kept(s, t) THEN [st |-> row[t].st, off |-> row[t].off, kill |-> row[t].kill]
                   ELSE Absent]]
      /\ row' = [t \in Tasks |->
                   IF row[t].loc = "stub" /\ row[t].st = "assigned"
                   THEN Moved(row[t], "global", NoStub, "pending")
                   ELSE row[t]]
      /\ \E keep \in [Stubs -> SUBSET [k : {"run"}, t : Tasks]] :
           /\ \A s \in Stubs : keep[s] \subseteq down[s]
           /\ down' = keep
      /\ online' = {} /\ failTimers' = {} /\ killTimers' = {}
      /\ conn' = [s \in Stubs |-> "none"]
      /\ link' = {} /\ up' = [s \in Stubs |-> <<>>]
      /\ UNCHANGED <<procs, dead>>

(***************************************************************************)
(* handleResume.  The reconnected stub becomes a copy of the stub object   *)
(* that shares its task array.  The first archived task is marked in the   *)
(* shared array and then filtered into a new one, so every later change    *)
(* reaches the old object only, and setStub(copy) brings the old array     *)
(* back: that task in its terminal status, the others as they were.        *)
(***************************************************************************)
\* Mutant: a task the stub does not report is left alone.
MissingIgnored(s, m) == {}

\* Case A and the clearing of stub_offline, for running and paused tasks.
Missing(s, m) == {t \in HeldIn(World, s, {"running", "paused"}) : t \notin m.run \cup m.gone}
Flagged(s, m) == {t \in HeldIn(World, s, {"running", "paused"}) \ Missing(s, m) : mem[s][t].off}
Cleared(s, T) == [t \in T |-> Flag(mem[s][t], FALSE, mem[s][t].kill)]

CaseA(s, m, live) ==
  FailAndRetry(Put(World, s, Cleared(s, Flagged(s, m))), s, Missing(s, m), online, live)

\* dead_tasks (their exit code is always -1): the reconnecting stub's own
\* object first, otherwise wherever findTask sees the task.
DeadHere(w, s, m) == SetStatus(w, s, {t \in m.gone : w.mem[s][t].st \in Reserving}, "failed")
DeadElsewhere(w, s, m) ==
  LET Hit(h, t) == /\ h # s /\ t \in m.gone /\ ~Held(w, s, t)
                   /\ w.row[t].home = h /\ w.row[t].st \in Reserving
                   /\ Updatable(w, h, t, "failed")
  IN  [row |-> [t \in Tasks |-> IF \E h \in Stubs : Hit(h, t)
                                THEN Moved(w.row[t], "archive", w.row[t].home, "failed")
                                ELSE w.row[t]],
       mem |-> [h \in Stubs |-> [t \in Tasks |-> IF Hit(h, t) THEN Absent ELSE w.mem[h][t]]],
       down |-> w.down]

\* The arrays setStub(copy) may bring back, once w has been reached.
RestoredArrays(w, s, m) ==
  LET Gone == {t \in Tasks : Held(World, s, t) /\ ~Held(w, s, t)}
      ByA == {t \in Missing(s, m) : Updatable(World, s, t, "failed")}
      First == IF ByA # {} THEN ByA ELSE Gone
      \* what was cleared before the first task was archived
      Before == IF ByA # {} THEN SUBSET Flagged(s, m) ELSE {Flagged(s, m)}
  IN  IF Gone = {} THEN {w.mem[s]}
      ELSE {[t \in Tasks |-> IF t = f THEN [mem[s][t] EXCEPT !.st = "failed"]
                             ELSE IF t \in C THEN Cleared(s, C)[t] ELSE mem[s][t]] :
              f \in First, C \in Before}

SetStub(w, s, a) == [row |-> w.row, mem |-> [w.mem EXCEPT ![s] = a], down |-> w.down]

\* Kills: what a kill was requested for before, and what is cancelled by now.
ToKill(w, s, m) ==
  {t \in m.run : \/ mem[s][t].st \in {"running", "paused"} /\ mem[s][t].kill
                 \/ w.row[t].st = "cancelled"}

Resume(s) ==
  /\ up[s] # <<>> /\ Head(up[s]).k = "resume"
  /\ LET m == Head(up[s])
         live == Live \cup {s}
     IN  \E w \in CaseA(s, m, live) :
           LET v == DeadElsewhere(DeadHere(w, s, m), s, m)
           IN  \E a \in RestoredArrays(v, s, m) :
                 \E x \in Schedule(Send(SetStub(v, s, a), s, live,
                                        {Msg("clear", NoTask)}
                                        \cup {Msg("kill", t) : t \in ToKill(w, s, m)}),
                                   online \cup {s}, live) : Commit(x)
  /\ online' = online \cup {s}
  /\ conn' = [conn EXCEPT ![s] = "up"]
  /\ failTimers' = failTimers \ {s}
  /\ up' = [up EXCEPT ![s] = Tail(@)]
  /\ UNCHANGED <<killTimers, link, procs, dead, left>>

(***************************************************************************)
(* The other events of a stub.                                             *)
(***************************************************************************)
Receive(s, m) ==
  /\ conn[s] = "up" /\ up[s] # <<>> /\ Head(up[s]) = m
  /\ up' = [up EXCEPT ![s] = Tail(@)]
  /\ UNCHANGED <<online, conn, failTimers, link, procs, dead, left>>

HandleTaskStarted(s, t) ==
  /\ Receive(s, Event("started", t))
  /\ Commit(SetStatus(World, s, {t}, "running"))
  /\ UNCHANGED killTimers

\* A log line promotes an assigned task and rewrites the row of any other.
HandleTaskLog(s, t) ==
  /\ Receive(s, Event("log", t))
  /\ Commit(IF ~Held(World, s, t) THEN World
            ELSE SetStatus(World, s, {t},
                           IF mem[s][t].st = "assigned" THEN "running" ELSE mem[s][t].st))
  /\ UNCHANGED killTimers

\* Exit code 0: cancelled if the task was told to stop.
HandleTaskCompleted(s, t) ==
  LET target == IF mem[s][t].kill THEN "cancelled" ELSE "completed"
  IN  /\ Receive(s, Event("completed", t))
      /\ IF Held(World, s, t) /\ mem[s][t].st \notin Terminal
         THEN /\ killTimers' = {k \in killTimers : k[2] # t}
              /\ IF Updatable(World, s, t, target)
                 THEN \E w \in Schedule(SetStatus(World, s, {t}, target), online, Live) : Commit(w)
                 ELSE Commit(World)
         ELSE Commit(World) /\ UNCHANGED killTimers

\* A non-zero exit code; k is "resumable" when auto_retry_on or the death
\* cause allows an automatic retry.
HandleTaskFailed(s, t, k) ==
  LET target == IF mem[s][t].kill THEN "cancelled" ELSE "failed"
      w == SetStatus(World, s, {t}, target)
      retried == k = "resumable" /\ ~mem[s][t].kill /\ Retryable(World, t)
  IN  /\ Receive(s, Event(k, t))
      /\ IF Held(World, s, t)
         THEN /\ killTimers' = {p \in killTimers : p[2] # t}
              /\ IF retried
                 THEN \E h \in RetryMaps(World, {t}) :
                        \E v \in Schedule(AddRetries(w, h), online, Live) : Commit(v)
                 ELSE IF Updatable(World, s, t, target)
                 THEN \E v \in Schedule(w, online, Live) : Commit(v)
                 ELSE Commit(World)
         ELSE Commit(World) /\ UNCHANGED killTimers

HandlePreflightFail(s, t) ==
  /\ Receive(s, Event("pfail", t))
  /\ IF Updatable(World, s, t, "failed")
     THEN \E w \in Schedule(SetStatus(World, s, {t}, "failed"), online, Live) : Commit(w)
     ELSE Commit(World)
  /\ UNCHANGED killTimers

\* The answer to status.sync: first what has exited, then what the stub does
\* not report, each failed and retried.
HandleSynced(s) ==
  /\ up[s] # <<>> /\ Receive(s, Head(up[s])) /\ Head(up[s]).k = "synced"
  /\ LET m == Head(up[s])
         F == HeldIn(World, s, {"running", "assigned"}) \cap m.gone
     IN  \E w \in FailAndRetry(World, s, F, online, Live) :
           LET G == HeldIn(w, s, {"running", "assigned"}) \ (m.run \cup m.gone)
           IN  \E v \in FailAndRetry(w, s, G, online, Live) : Commit(v)
  /\ UNCHANGED killTimers

(***************************************************************************)
(* The daemon.                                                             *)
(***************************************************************************)
\* _emit: an event is dropped while the daemon is not connected.
Emit(s, ms) ==
  /\ s \in link => Len(up[s]) + Len(ms) <= MaxUp
  /\ up' = IF s \in link THEN [up EXCEPT ![s] = @ \o ms] ELSE up

Take(s, m) == m \in down[s] /\ down' = [down EXCEPT ![s] = @ \ {m}]

\* task.run after its preflight.  A live process makes it a duplicate; for one
\* that has exited but is not reaped, start() returns the old entry.
Start(s, t) ==
  /\ IF procs[s][t] = "none"
     THEN /\ procs' = [procs EXCEPT ![s][t] = "running"]
          /\ Emit(s, <<Event("started", t)>>)
     ELSE UNCHANGED <<procs, up>>
  /\ UNCHANGED server /\ UNCHANGED <<link, dead>>

RunTask(s, t) == Take(s, Msg("run", t)) /\ Start(s, t) /\ UNCHANGED left

\* reliableEmitToStub repeats a message after 10 s without an ack, and task.run
\* is acked when its preflight is over: one more handler of it is under way.
RunRepeated(s, t) ==
  /\ Spend("resend")
  /\ Msg("run", t) \in down[s] /\ Start(s, t) /\ UNCHANGED down

\* task.run whose preflight fails: three events, in this order.
FailPreflight(s, t) ==
  /\ Spend("preflight")
  /\ Take(s, Msg("run", t)) /\ procs[s][t] \notin Alive
  /\ Emit(s, <<Event("log", t), Event("pfail", t), Event("failed", t)>>)
  /\ UNCHANGED server /\ UNCHANGED <<link, procs, dead>>

\* task.kill, and the kills of resume_response.  A task that is still in its
\* preflight is not running, so the kill does nothing.
KillProcess(s, t) ==
  /\ Take(s, Msg("kill", t))
  /\ procs' = [procs EXCEPT ![s][t] = IF @ = "running" THEN "stopping" ELSE @]
  /\ UNCHANGED server /\ UNCHANGED <<link, up, dead, left>>

\* resume_response: the dead tasks have been reported.
ClearDead(s) ==
  /\ Take(s, Msg("clear", NoTask))
  /\ dead' = [dead EXCEPT ![s] = {}]
  /\ UNCHANGED server /\ UNCHANGED <<link, up, procs, left>>

AnswerSync(s) ==
  /\ Take(s, Msg("sync", NoTask))
  /\ Emit(s, <<Report("synced", {t \in Tasks : procs[s][t] \in Alive},
                                {t \in Tasks : procs[s][t] \in Exited})>>)
  /\ UNCHANGED server /\ UNCHANGED <<link, procs, dead, left>>

\* A process ends.  A re-attached one has no exit status, poll() gives -1; one
\* that was told to stop dies of no cause that is resumed.
Exit(s, t) ==
  /\ procs[s][t] \in Alive
  /\ \E p \in CASE procs[s][t] = "running" -> Outcomes
                [] procs[s][t] = "stopping" -> {"exit_ok", "exit_bad"}
                [] OTHER -> {"exit_bad"} :
       procs' = [procs EXCEPT ![s][t] = p]
  /\ UNCHANGED server /\ UNCHANGED <<link, down, up, dead, left>>

EmitLog(s, t) ==
  /\ Spend("log")
  /\ s \in link /\ procs[s][t] \in Alive
  /\ Emit(s, <<Event("log", t)>>)
  /\ UNCHANGED server /\ UNCHANGED <<link, down, procs, dead>>

\* _check_completions: the entry is dropped, then the outcome is reported.
Reap(s, t) ==
  /\ procs[s][t] \in Exited
  /\ procs' = [procs EXCEPT ![s][t] = "none"]
  /\ Emit(s, CASE procs[s][t] = "exit_ok" -> <<Event("completed", t)>>
               [] procs[s][t] = "exit_bad" -> <<Event("log", t), Event("failed", t)>>
               [] OTHER -> <<Event("log", t), Event("resumable", t)>>)
  /\ UNCHANGED server /\ UNCHANGED <<link, down, dead, left>>

(***************************************************************************)
(* The link.                                                               *)
(***************************************************************************)
\* What was in flight is lost; a task.run handler in its preflight goes on.
LoseLink(s, keep) ==
  /\ keep \subseteq {m \in down[s] : m.k = "run"}
  /\ down' = [down EXCEPT ![s] = keep]
  /\ link' = link \ {s}
  /\ up' = [up EXCEPT ![s] = <<>>]
  /\ conn' = [conn EXCEPT ![s] = IF @ = "up" THEN "broken" ELSE @]
  /\ UNCHANGED <<row, mem, online, failTimers, killTimers>>

LinkDrop(s) ==
  /\ Spend("drop")
  /\ s \in link
  /\ \E keep \in SUBSET down[s] : LoseLink(s, keep)
  /\ UNCHANGED <<procs, dead>>

\* The daemon dies and is started again: load_and_reattach finds each process
\* of the pid file alive or dead.
StubCrash(s) ==
  /\ Spend("crash")
  /\ LoseLink(s, {})
  /\ \E survivors \in SUBSET {t \in Tasks : procs[s][t] \in Alive} :
       /\ procs' = [procs EXCEPT ![s] =
                      [t \in Tasks |-> IF t \in survivors THEN "adopted" ELSE "none"]]
       /\ dead' = [dead EXCEPT ![s] = {t \in Tasks : procs[s][t] # "none"} \ survivors]

\* The daemon connects and sends resume; before the server has seen the old
\* socket close this makes that socket a ghost.
Connect(s) ==
  /\ s \notin link
  /\ IF conn[s] = "broken" THEN Spend("ghost") ELSE UNCHANGED left
  /\ link' = link \cup {s}
  /\ up' = [up EXCEPT ![s] = <<Report("resume", {t \in Tasks : procs[s][t] # "none"}, dead[s])>>]
  /\ UNCHANGED server /\ UNCHANGED <<down, procs, dead>>

Server ==
  \/ Submit \/ ScheduleTick \/ ServerRestart
  \/ \E t \in Tasks : Kill(t) \/ CancelAssigned(t) \/ Pause(t)
  \/ \E s \in Stubs : \/ HeartbeatTimeout(s) \/ Disconnect(s) \/ DisconnectFail(s)
                      \/ SyncRequest(s) \/ Resume(s) \/ HandleSynced(s)
  \/ \E s \in Stubs, t \in Tasks :
       \/ KillAgain(s, t) \/ DispatchTimeout(s, t)
       \/ HandleTaskStarted(s, t) \/ HandleTaskLog(s, t) \/ HandleTaskCompleted(s, t)
       \/ \E k \in {"failed", "resumable"} : HandleTaskFailed(s, t, k)
       \/ HandlePreflightFail(s, t)

Daemon ==
  \/ \E s \in Stubs : \/ ClearDead(s) \/ AnswerSync(s)
                      \/ LinkDrop(s) \/ StubCrash(s) \/ Connect(s)
  \/ \E s \in Stubs, t \in Tasks :
       \/ RunTask(s, t) \/ RunRepeated(s, t) \/ FailPreflight(s, t) \/ KillProcess(s, t)
       \/ Exit(s, t) \/ EmitLog(s, t) \/ Reap(s, t)

Next == Server \/ Daemon

Spec == Init /\ [][Next]_vars

(***************************************************************************)
(* Safety.                                                                 *)
(***************************************************************************)
\* A task object sits in the array of the stub its row names and of no other,
\* and a task that waits in the global queue is in no stub's array: a task is
\* never scheduled while some stub still holds it.
OneHome ==
  \A s \in Stubs, t \in Tasks :
    mem[s][t].st # "absent" => row[t].home = s /\ row[t].loc \in {"stub", "archive"}

\* No stub holds more assigned, running and paused tasks than max_concurrent,
\* whatever reconnects, restored arrays, requeues and retries do to it.
SlotBound ==
  \A s \in Stubs : Cardinality({t \in Tasks : mem[s][t].st \in Reserving}) <= MaxConcurrent

\* A completed task is archived and no array holds it, so neither a requeue nor
\* a late event of an older run can reach it.
CompletedGone ==
  \A t \in Tasks : row[t].st = "completed" =>
    row[t].loc = "archive" /\ \A s \in Stubs : mem[s][t].st = "absent"

\* A completed task is never assigned, failed, cancelled or queued again.
CompletedFinal == [][\A t \in Tasks : row[t].st = "completed" => row'[t].st = "completed"]_vars

\* A failed task is never run again, its rerun is a new task ("a terminal status
\* is irreversible", DESIGN_PHILOSOPHY.md:131): it holds until handleResume
\* (socket/stub.ts:1036) restores an array from before a second task had failed.
FailedIsFinal ==
  [][\A t \in Tasks : row[t].st = "failed" => row'[t].st \in {"failed", "pending"}]_vars

(***************************************************************************)
(* Refinement: hidden from stubs, links, queues and copies, the rows obey  *)
(* the abstract life of a task.                                            *)
(***************************************************************************)
Lifecycle == INSTANCE TaskLifecycle WITH
  status  <- [t \in Tasks |-> IF row[t].loc = "none" THEN "none" ELSE row[t].st],
  root    <- [t \in Tasks |-> row[t].root],
  attempt <- [t \in Tasks |-> row[t].rc]

\* The rows of the tasks table implement TaskLifecycle: legal moves only, completed
\* and cancelled for good, one lineage for life, retries within the budget.
ImplementsLifecycle == Lifecycle!Spec

(***************************************************************************)
(* Liveness.  The fairness is that of the event loops and of the daemon's  *)
(* reconnect loop: a timer that is armed fires, an event that arrived is   *)
(* handled, a broken connection is noticed and made again, and a process   *)
(* ends some day.  Nothing is assumed of users, drops and crashes.         *)
(***************************************************************************)
HandleEvent(s) ==
  \/ Resume(s) \/ HandleSynced(s)
  \/ \E t \in Tasks : \/ HandleTaskStarted(s, t) \/ HandleTaskLog(s, t) \/ HandleTaskCompleted(s, t)
                      \/ \E k \in {"failed", "resumable"} : HandleTaskFailed(s, t, k)
                      \/ HandlePreflightFail(s, t)

Fairness ==
  /\ \A s \in Stubs :
       /\ WF_vars(HandleEvent(s)) /\ WF_vars(Disconnect(s)) /\ WF_vars(Connect(s))
       /\ WF_vars(ClearDead(s))
  /\ \A s \in Stubs, t \in Tasks :
       /\ WF_vars(DispatchTimeout(s, t))
       /\ WF_vars(RunTask(s, t)) /\ WF_vars(KillProcess(s, t))
       /\ WF_vars(Exit(s, t)) /\ WF_vars(Reap(s, t))

FairSpec == Spec /\ Fairness

\* Every task, and every retry made of it, reaches a terminal status, through
\* lost links and daemon crashes, as long as daemons reconnect.
EverythingSettles == \A t \in Tasks : (row[t].loc # "none") ~> (row[t].st \in Terminal)
=============================================================================
