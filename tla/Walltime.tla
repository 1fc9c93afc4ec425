------------------------------- MODULE Walltime -------------------------------
(***************************************************************************)
(* A stub inside a SLURM job near the end of its walltime: the drain of    *)
(* the daemon (daemon.py, walltime.py), the idle exit, the restart, what   *)
(* the server goes on sending to it, and the renewal of autorenew.ts.      *)
(* Time is counted in minutes; both minute timers run between two of them. *)
(***************************************************************************)
EXTENDS Integers, FiniteSets

CONSTANTS
  JobTasks,      \* tasks that the server may send to the stub
  JobMinutes,    \* what is left of the walltime at first
  DrainAt,       \* DRAIN_THRESHOLD_S
  RenewAt,       \* WALLTIME_THRESHOLD_S of the server
  IdleMinutes,   \* the idle timeout
  Incidents      \* failing squeue calls, restarts and signals in a run

ASSUME WalltimeAssumption ==
  /\ {JobMinutes, DrainAt, RenewAt, IdleMinutes, Incidents} \subseteq Nat
  /\ 2 < DrainAt /\ DrainAt < RenewAt /\ RenewAt <= JobMinutes

VARIABLES
  alloc,     \* the job and its daemon
  work,      \* [JobTasks -> record]: where a task is, how often it was sent, minutes since SIGTERM
  renewal    \* the stub's row: its last heartbeat, the walltime it tells; the jobs renewed

walltimeVars == <<alloc, work, renewal>>

Stages == {"queue", "sent", "ignored", "preflight", "run", "over", "cut", "failed"}
In(t, S) == work[t].at \in S
RunningTasks == {t \in JobTasks : In(t, {"run"})}
Waits == {t \in JobTasks : In(t, {"queue", "sent", "ignored"})}
Incident == alloc.incidents > 0
Untold == -1
MoveTask(t, at) == work' = [work EXCEPT ![t].at = at]

WalltimeInit ==
  /\ alloc = [left |-> JobMinutes, up |-> TRUE, accepting |-> TRUE, drain |-> "no", age |-> 0,
              checked |-> {}, idle |-> 0, exit |-> "none", incidents |-> Incidents]
  /\ work = [t \in JobTasks |-> [at |-> "queue", tries |-> 0, term |-> -1, late |-> FALSE]]
  /\ renewal = [beat |-> JobMinutes, walltime |-> Untold, jobs |-> 0]

-----------------------------------------------------------------------------
(***************************************************************************)
(* The server knows the stub as online; a task.run is acknowledged before  *)
(* the daemon looks whether it accepts tasks, and is then ignored.         *)
(***************************************************************************)
OfferRun(t) ==
  /\ alloc.up /\ In(t, {"queue"})
  /\ MoveTask(t, "sent")
  /\ UNCHANGED <<alloc, renewal>>

HearRun(t) ==
  /\ alloc.up /\ In(t, {"sent"})
  /\ MoveTask(t, IF alloc.accepting THEN "preflight" ELSE "ignored")
  /\ UNCHANGED <<alloc, renewal>>

\* The awaits of the preflight: a drain may begin meanwhile.
PreflightEnds(t) ==
  /\ alloc.up /\ In(t, {"preflight"})
  /\ \E ok \in BOOLEAN :
       /\ work' = [work EXCEPT ![t].at = IF ok THEN "run" ELSE "over", ![t].late = ~alloc.accepting]
       /\ alloc' = [alloc EXCEPT !.idle = IF ok THEN 0 ELSE @]
  /\ UNCHANGED renewal

\* 30 s without task.started; the third time the task fails.
RunNotStarted(t) ==
  /\ In(t, {"sent", "ignored"})
  /\ work' = [work EXCEPT ![t].at = IF work[t].tries = 2 THEN "failed" ELSE "queue", ![t].tries = @ + 1]
  /\ UNCHANGED <<alloc, renewal>>

TaskExits(t) ==
  /\ alloc.up /\ In(t, {"run"})
  /\ MoveTask(t, "over")
  /\ alloc' = [alloc EXCEPT !.idle = 0]
  /\ UNCHANGED renewal

-----------------------------------------------------------------------------
\* The daemon's end is the end of the job, whose script has no loop; all that runs is cut.
JobOver(why) ==
  /\ alloc' = [alloc EXCEPT !.up = FALSE, !.left = 0, !.exit = why]
  /\ work' = [t \in JobTasks |->
                [work[t] EXCEPT !.at = CASE @ = "run" -> "cut"
                                         [] @ \in {"sent", "ignored", "preflight"} -> "queue"
                                         [] OTHER -> @]]
  /\ UNCHANGED renewal

\* Mutant: what runs is killed without a SIGTERM before.
BeginDrainAtOnce ==
  /\ alloc' = [alloc EXCEPT !.drain = "term", !.age = 0, !.accepting = FALSE,
                            !.checked = @ \cup {"stub"}]
  /\ work' = [t \in JobTasks |-> IF In(t, {"run"}) THEN [work[t] EXCEPT !.at = "cut"] ELSE work[t]]

\* _walltime_check_loop, first part: every running task gets its SIGTERM; nothing is said of a checkpoint.
BeginDrain ==
  /\ alloc' = [alloc EXCEPT !.drain = "term", !.age = 0, !.accepting = FALSE,
                            !.checked = @ \cup {"stub"}]
  /\ work' = [t \in JobTasks |-> IF In(t, {"run"}) THEN [work[t] EXCEPT !.term = 0] ELSE work[t]]

DrainDue == alloc.drain = "no" /\ alloc.left < DrainAt

WalltimeCheck ==
  /\ alloc.up /\ "stub" \notin alloc.checked
  /\ \/ DrainDue /\ BeginDrain
     \/ ~DrainDue /\ alloc' = [alloc EXCEPT !.checked = @ \cup {"stub"}] /\ UNCHANGED work
     \/ \* squeue does not answer
        /\ Incident
        /\ alloc' = [alloc EXCEPT !.checked = @ \cup {"stub"}, !.incidents = @ - 1]
        /\ UNCHANGED work
  /\ UNCHANGED renewal

\* After its minute the drain waits for the rest, until a minute before the end.
DrainWaits ==
  /\ alloc.up /\ alloc.drain = "term" /\ alloc.age > 0
  /\ alloc' = [alloc EXCEPT !.drain = "grace"]
  /\ UNCHANGED <<work, renewal>>

DrainOver ==
  /\ alloc.up /\ alloc.drain = "grace"
  /\ RunningTasks = {} \/ alloc.left <= 1
  /\ alloc' = [alloc EXCEPT !.drain = "over"]
  /\ work' = [t \in JobTasks |-> IF In(t, {"run"}) THEN [work[t] EXCEPT !.at = "cut"] ELSE work[t]]
  /\ UNCHANGED renewal

\* The heartbeat names the walltime that is left; its handler keeps the time of the beat alone.
HeardBeat == [renewal EXCEPT !.beat = alloc.left]

\* A minute passes; kill_graceful ends what has not gone since its SIGTERM.
Minute ==
  LET overdue == {t \in RunningTasks : work[t].term = 0}
  IN  /\ alloc.up /\ alloc.left > 1 /\ alloc.checked = {"stub", "server"}
      /\ alloc.drain = "grace" => RunningTasks # {} /\ alloc.left > 1
      /\ alloc' = [alloc EXCEPT !.left = @ - 1, !.checked = {},
                                !.age = IF alloc.drain = "term" THEN 1 ELSE @,
                                !.idle = IF RunningTasks = {} /\ @ < IdleMinutes THEN @ + 1 ELSE @]
      /\ work' = [t \in JobTasks |->
                    [work[t] EXCEPT !.term = IF @ = 0 THEN 1 ELSE @,
                                    !.at = IF t \in overdue THEN "cut" ELSE @]]
      /\ renewal' = HeardBeat

WalltimeEnds == alloc.up /\ alloc.left = 1 /\ alloc.drain \in {"no", "over"} /\ JobOver("walltime")

\* _idle_check_loop, which also cancels the job.
IdleExit == alloc.up /\ RunningTasks = {} /\ alloc.idle >= IdleMinutes /\ JobOver("idle")

\* stub.restart: the daemon leaves; SIGUSR1: it leaves when nothing runs, or after five minutes.
Restarted == alloc.up /\ Incident /\ JobOver("restart")

(***************************************************************************)
(* checkAutoRenew: the stub's row tells how much is left, tasks wait, and  *)
(* squeue shows no job of that name waiting.                               *)
(***************************************************************************)
Renewable ==
  renewal.walltime # Untold /\ renewal.walltime < RenewAt /\ Waits # {} /\ renewal.jobs = 0
CheckAutoRenew ==
  /\ alloc.up /\ "server" \notin alloc.checked
  /\ alloc' = [alloc EXCEPT !.checked = @ \cup {"server"}]
  /\ renewal' = IF Renewable THEN [renewal EXCEPT !.jobs = @ + 1] ELSE renewal
  /\ UNCHANGED work

WalltimeNext ==
  \/ \E t \in JobTasks :
       OfferRun(t) \/ HearRun(t) \/ PreflightEnds(t) \/ RunNotStarted(t) \/ TaskExits(t)
  \/ WalltimeCheck \/ DrainWaits \/ DrainOver \/ Minute \/ WalltimeEnds
  \/ IdleExit \/ Restarted \/ CheckAutoRenew

WalltimeSpec == WalltimeInit /\ [][WalltimeNext]_walltimeVars

WalltimeTypeOK ==
  /\ alloc.left \in 0..JobMinutes /\ alloc.drain \in {"no", "term", "grace", "over"}
  /\ alloc.checked \subseteq {"stub", "server"} /\ alloc.idle \in 0..IdleMinutes
  /\ \A t \in JobTasks : In(t, Stages) /\ work[t].tries \in 0..3 /\ work[t].term \in {-1, 0, 1}
  /\ renewal.jobs \in {0, 1} /\ renewal.walltime \in {Untold} \cup 0..JobMinutes

(***************************************************************************)
(* Unless somebody restarts the stub, no task is cut that has not been     *)
(* asked to go a minute before, except one whose preflight was under way   *)
(* when the drain began; and the drain leaves none of the tasks it found.  *)
(***************************************************************************)
CutTasksWarned ==
  /\ alloc.exit # "restart" => \A t \in JobTasks : In(t, {"cut"}) => work[t].term = 1 \/ work[t].late
  /\ alloc.drain = "over" /\ alloc.up => \A t \in RunningTasks : work[t].late

=============================================================================
