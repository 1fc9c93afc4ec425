------------------------------ MODULE Deployment ------------------------------
(***************************************************************************)
(* Deploying, restarting and stopping the stub of one target, a machine    *)
(* reached by SSH or a SLURM cluster (deploy.ts, api/deploy.ts, ssh.ts):   *)
(* what the server asks over SSH, what the remote shell then does by       *)
(* itself, the PID file of the target and the lock of the daemon           *)
(* (__main__.py).  Requests are not kept apart: two may be under way.      *)
(***************************************************************************)
EXTENDS Integers, FiniteSets

CONSTANTS
  MaxOrders,     \* requests to /deploy/stubs/:name in a run
  MaxPids,       \* daemons launched in a run, and jobs submitted
  SshFaults      \* failing connections, remote steps and self-checks in a run

ASSUME DeploymentAssumption == {MaxOrders, MaxPids, SshFaults} \subseteq Nat

VARIABLES
  order,     \* [Orders -> record]: what was asked, where the handler is, its answer
  shell,     \* [Orders -> [{"kill", "launch"} -> record]]: the remote shells, which outlive ssh
  host,      \* the target: its type, its daemons, the PID file
  job,       \* [pids -> state]: the jobs of the SLURM target
  faults     \* what is left of SshFaults, and whether the record has been spoilt

deployVars == <<order, shell, host, job, faults>>

Orders == 1..MaxOrders
Pids == 1..MaxPids
NoPid == 0
Alive == {p \in Pids : host.daemon[p] \in {"starting", "up"}}
AtOrder(o, pc) == order[o].pc = pc
Pending == {"sync", "preflight", "kill", "launch", "submit", "cancel"}
ShellRuns(o, c) == shell[o][c].pc \notin {"none", "end"}
Underway == {o \in Orders : order[o].pc \in Pending \/ ShellRuns(o, "kill") \/ ShellRuns(o, "launch")}

\* The next request arrives.
Arrives(o) == AtOrder(o, "new") /\ \A u \in Orders : u < o => ~AtOrder(u, "new")
Fault == faults.left > 0 /\ faults' = [faults EXCEPT !.left = @ - 1]
Proceed(o, pc) == order' = [order EXCEPT ![o].pc = pc]
Answer(o, ok, p) == order' = [order EXCEPT ![o].pc = "end", ![o].ok = ok, ![o].pid = p]

DeployInit ==
  /\ order = [o \in Orders |-> [kind |-> "none", pc |-> "new", ok |-> FALSE, pid |-> NoPid]]
  /\ shell = [o \in Orders |-> [c \in {"kill", "launch"} |-> [pc |-> "none", pid |-> NoPid]]]
  /\ host \in [slurm : BOOLEAN, daemon : {[p \in Pids |-> "unborn"]}, file : {NoPid}]
  /\ job = [p \in Pids |-> "none"]
  /\ faults = [left |-> SshFaults, spoilt |-> FALSE]

-----------------------------------------------------------------------------
(* The handlers.  A target in mode "installed" is deployed without a sync.  *)

DeployStub(o) ==
  \E synced \in BOOLEAN :
    /\ Arrives(o)
    /\ order' = [order EXCEPT ![o] = [@ EXCEPT !.kind = "deploy",
                                               !.pc = IF synced THEN "sync" ELSE "preflight"]]
    /\ faults' = [faults EXCEPT !.spoilt = @ \/ Underway # {}]
    /\ UNCHANGED <<shell, host, job>>

RestartStub(o) ==
  /\ Arrives(o)
  /\ order' = [order EXCEPT ![o] = [@ EXCEPT !.kind = "restart", !.pc = "preflight"]]
  /\ faults' = [faults EXCEPT !.spoilt = @ \/ Underway # {}]
  /\ UNCHANGED <<shell, host, job>>

\* A SLURM stub is stopped by the number of its job.
StopStub(o) ==
  \E p \in Pids \cup {NoPid} :
    /\ Arrives(o)
    /\ p # NoPid => host.slurm
    /\ order' = [order EXCEPT ![o] =
         [@ EXCEPT !.kind = "stop", !.pid = p,
                   !.pc = IF ~host.slurm THEN "kill" ELSE IF p = NoPid THEN "end" ELSE "cancel"]]
    /\ shell' = IF host.slurm THEN shell ELSE [shell EXCEPT ![o]["kill"].pc = "read"]
    /\ faults' = [faults EXCEPT !.spoilt = @ \/ Underway # {}]
    /\ UNCHANGED <<host, job>>

SyncCode(o) ==
  /\ AtOrder(o, "sync")
  /\ \/ Proceed(o, "preflight") /\ UNCHANGED faults
     \/ Fault /\ Answer(o, FALSE, NoPid)
  /\ UNCHANGED <<shell, host, job>>

\* Mutant: a restart launches without having killed.
LaunchAtOnce(o) ==
  IF host.slurm THEN Proceed(o, "submit") /\ UNCHANGED shell
  ELSE Proceed(o, "launch") /\ shell' = [shell EXCEPT ![o]["launch"].pc = "spawn"]

AfterPreflight(o) ==
  IF host.slurm THEN Proceed(o, "submit") /\ UNCHANGED shell
  ELSE Proceed(o, "kill") /\ shell' = [shell EXCEPT ![o]["kill"].pc = "read"]

PreflightRuntime(o) ==
  /\ AtOrder(o, "preflight")
  /\ \/ AfterPreflight(o) /\ UNCHANGED faults
     \/ Fault /\ Answer(o, FALSE, NoPid) /\ UNCHANGED shell
  /\ UNCHANGED <<host, job>>

(***************************************************************************)
(* startStub and stopStub.  ssh ends with its shell, or without it: then   *)
(* the shell never ran, or goes on alone.  startStub ignores that.         *)
(***************************************************************************)
KillAnswered(o, ok) ==
  IF order[o].kind = "stop" THEN Answer(o, ok, NoPid) /\ UNCHANGED shell
  ELSE Proceed(o, "launch") /\ shell' = [shell EXCEPT ![o]["launch"].pc = "spawn"]

KillEnds(o) ==
  /\ AtOrder(o, "kill") /\ ~ShellRuns(o, "kill")
  /\ KillAnswered(o, TRUE)
  /\ UNCHANGED <<host, job, faults>>

KillLost(o) ==
  /\ AtOrder(o, "kill") /\ ShellRuns(o, "kill")
  /\ faults.left > 0
  /\ faults' = [left |-> faults.left - 1, spoilt |-> TRUE]
  /\ KillAnswered(o, FALSE)
  /\ UNCHANGED <<host, job>>

\* A shell whose connection failed before it began.
NeverRan(o, c) ==
  /\ ShellRuns(o, c) /\ ~AtOrder(o, c) /\ shell[o][c].pc \in {"read", "spawn"}
  /\ shell' = [shell EXCEPT ![o][c].pc = "end"]
  /\ UNCHANGED <<order, host, job, faults>>

LaunchEnds(o) ==
  /\ AtOrder(o, "launch") /\ ~ShellRuns(o, "launch")
  /\ Answer(o, TRUE, shell[o]["launch"].pid)
  /\ UNCHANGED <<shell, host, job, faults>>

LaunchLost(o) ==
  /\ AtOrder(o, "launch") /\ ShellRuns(o, "launch")
  /\ Fault
  /\ Answer(o, FALSE, NoPid)
  /\ UNCHANGED <<shell, host, job>>

-----------------------------------------------------------------------------
(* The remote shells. *)

\* pid=$(cat file), kill: nothing handles SIGTERM in the daemon.
ShellKills(o) ==
  LET p == host.file
  IN  /\ shell[o]["kill"].pc = "read"
      /\ shell' = [shell EXCEPT ![o]["kill"] = [pc |-> IF p = NoPid THEN "end" ELSE "sleep", pid |-> p]]
      /\ host' = IF p = NoPid THEN host ELSE [host EXCEPT !.daemon[p] = "dead"]
      /\ UNCHANGED <<order, job, faults>>

\* kill -9; rm -f
ShellRemoves(o) ==
  /\ shell[o]["kill"].pc = "sleep"
  /\ shell' = [shell EXCEPT ![o]["kill"].pc = "end"]
  /\ host' = [host EXCEPT !.file = NoPid]
  /\ UNCHANGED <<order, job, faults>>

ShellSpawns(o) ==
  \E p \in Pids :
    /\ shell[o]["launch"].pc = "spawn"
    /\ host.daemon[p] = "unborn" /\ \A q \in Pids : q < p => host.daemon[q] # "unborn"
    /\ shell' = [shell EXCEPT ![o]["launch"] = [pc |-> "tee", pid |-> p]]
    /\ host' = [host EXCEPT !.daemon[p] = "starting"]
    /\ UNCHANGED <<order, job, faults>>

ShellWritesPid(o) ==
  /\ shell[o]["launch"].pc = "tee"
  /\ shell' = [shell EXCEPT ![o]["launch"].pc = "end"]
  /\ host' = [host EXCEPT !.file = shell[o]["launch"].pid]
  /\ UNCHANGED <<order, job, faults>>

\* _acquire_singleton_lock, then the self-check.
DaemonStarts(p) ==
  /\ host.daemon[p] = "starting"
  /\ host' = [host EXCEPT !.daemon[p] =
                IF \E q \in Pids : host.daemon[q] = "up" THEN "dead" ELSE "up"]
  /\ UNCHANGED <<order, shell, job, faults>>

DaemonDies(p) ==
  /\ p \in Alive
  /\ Fault
  /\ host' = [host EXCEPT !.daemon[p] = "dead"]
  /\ UNCHANGED <<order, shell, job>>

-----------------------------------------------------------------------------
(* SLURM: a restart is one more job; a reply that is lost leaves its job. *)

SubmitSlurmJob(o) ==
  /\ AtOrder(o, "submit")
  /\ \E p \in Pids :
       /\ job[p] = "none" /\ \A q \in Pids : q < p => job[q] # "none"
       /\ job' = [job EXCEPT ![p] = "in"]
       /\ \/ Answer(o, TRUE, p) /\ UNCHANGED faults
          \/ Fault /\ Answer(o, FALSE, NoPid)
  /\ UNCHANGED <<shell, host>>

SubmitFails(o) ==
  /\ AtOrder(o, "submit")
  /\ Fault
  /\ Answer(o, FALSE, NoPid)
  /\ UNCHANGED <<shell, host, job>>

CancelSlurmJob(o) ==
  LET p == order[o].pid
  IN  /\ AtOrder(o, "cancel")
      /\ \/ /\ Answer(o, TRUE, p) /\ UNCHANGED faults
            /\ job' = IF job[p] = "in" THEN [job EXCEPT ![p] = "over"] ELSE job
         \/ Fault /\ Answer(o, FALSE, p) /\ UNCHANGED job
  /\ UNCHANGED <<shell, host>>

DeployNext ==
  \/ \E o \in Orders :
       \/ DeployStub(o) \/ RestartStub(o) \/ StopStub(o) \/ SyncCode(o) \/ PreflightRuntime(o)
       \/ KillEnds(o) \/ KillLost(o) \/ LaunchEnds(o) \/ LaunchLost(o)
       \/ \E c \in {"kill", "launch"} : NeverRan(o, c)
       \/ ShellKills(o) \/ ShellRemoves(o) \/ ShellSpawns(o) \/ ShellWritesPid(o)
       \/ SubmitSlurmJob(o) \/ SubmitFails(o) \/ CancelSlurmJob(o)
  \/ \E p \in Pids : DaemonStarts(p) \/ DaemonDies(p)

DeploySpec == DeployInit /\ [][DeployNext]_deployVars

DeployTypeOK ==
  /\ \A o \in Orders :
       /\ order[o].pc \in Pending \cup {"new", "end"} /\ order[o].pid \in Pids \cup {NoPid}
       /\ \A c \in {"kill", "launch"} : shell[o][c].pc \in {"none", "read", "sleep", "spawn", "tee", "end"}
  /\ host.daemon \in [Pids -> {"unborn", "starting", "up", "dead"}] /\ host.file \in Pids \cup {NoPid}
  /\ job \in [Pids -> {"none", "in", "over"}]
  /\ faults.left \in 0..SshFaults

(***************************************************************************)
(* Where requests have not overlapped and no kill has been lost, at most   *)
(* one daemon lives, and the PID file names it unless its shell has yet to *)
(* write the file: so a stop that is answered ok has ended what there was, *)
(* and no daemon exits because its predecessor still holds the lock.       *)
(***************************************************************************)
DaemonsKnown ==
  ~faults.spoilt =>
    /\ Cardinality(Alive) <= 1
    /\ Alive \subseteq {host.file} \cup
         {shell[o]["launch"].pid : o \in {u \in Orders : shell[u]["launch"].pc = "tee"}}
=============================================================================
