-------------------------------- MODULE Tunnel --------------------------------
(***************************************************************************)
(* The cloudflared process of the server (tunnel.ts): restarts with        *)
(* backoff, POST /deploy/tunnel/restart, and the end of the server         *)
(* (index.ts).  What runs between two awaits is one step.                  *)
(***************************************************************************)
EXTENDS Integers, FiniteSets

CONSTANTS
  Restarters,    \* requests to restart the tunnel
  MaxSpawns,     \* processes started in a run
  RestartsOn     \* restart_on_failure

ASSUME TunnelAssumption ==
  /\ MaxSpawns \in Nat \ {0} /\ RestartsOn \in BOOLEAN /\ "sigterm" \notin Restarters

VARIABLES
  child,     \* [1..MaxSpawns -> state]
  manager,   \* proc, shuttingDown, whether restartTimer is set, backoffStep
  caller     \* [Callers -> record]: those that wait for a stop, and the target of each

tunnelVars == <<child, manager, caller>>

Callers == Restarters \cup {"sigterm"}
Children == 1..MaxSpawns
NoChild == 0
LastStep == 5
Unborn == {c \in Children : child[c] = "unborn"}
WaitingFor(c) == {r \in Callers : caller[r] = [pc |-> "waits", on |-> c]}

(***************************************************************************)
(* spawnProc and scheduleRestart, on the state [c |-> child, m |-> manager]*)
(* in which the handler has come so far.                                   *)
(***************************************************************************)
Spawned(s) ==
  IF s.m.shutting THEN {s}
  ELSE LET n == CHOOSE k \in Unborn : \A j \in Unborn : k <= j
       IN  {[c |-> [s.c EXCEPT ![n] = how], m |-> [s.m EXCEPT !.proc = n]] : how \in {"alive", "failing"}}

RestartScheduled(m) ==
  IF m.shutting \/ ~RestartsOn THEN m
  ELSE [m EXCEPT !.timer = TRUE, !.step = IF @ = LastStep THEN @ ELSE @ + 1]

\* start() of those whose stop is over: the first one spawns, for the others it runs already.
StartedAgain(s, R) ==
  IF R = {} \/ s.m.proc # NoChild THEN {s}
  ELSE Spawned([s EXCEPT !.m.shutting = FALSE])

\* Mutant: a stop leaves the timer of a restart alone.
StopLeavesTimer(m) == [m EXCEPT !.shutting = TRUE]

\* stop(), as far as its first await
Stopping(m) == [m EXCEPT !.shutting = TRUE, !.timer = FALSE]

Resolve(S) == \E s \in S : child' = s.c /\ manager' = s.m

TunnelInit ==
  /\ child \in {[c \in Children |-> IF c = 1 THEN how ELSE "unborn"] : how \in {"alive", "failing"}}
  /\ manager = [proc |-> 1, shutting |-> FALSE, timer |-> FALSE, step |-> 0]
  /\ caller = [r \in Callers |-> [pc |-> "idle", on |-> NoChild]]

-----------------------------------------------------------------------------
\* The exit of a process: its handler, then those that waited for it.
ChildExits(c) ==
  LET now == [c |-> [child EXCEPT ![c] = "gone"],
              m |-> IF manager.proc = c THEN RestartScheduled([manager EXCEPT !.proc = NoChild])
                    ELSE manager]
      back == WaitingFor(c)
  IN  /\ child[c] = "alive" /\ Unborn # {}
      /\ Resolve(StartedAgain(now, back \ {"sigterm"}))
      /\ caller' = [r \in Callers |-> IF r \in back THEN [pc |-> "done", on |-> NoChild] ELSE caller[r]]

\* A process that could not be started: no exit follows, and who waits for one waits for ever.
ChildFails(c) ==
  /\ child[c] = "failing"
  /\ child' = [child EXCEPT ![c] = "gone"]
  /\ manager' = IF manager.proc = c THEN RestartScheduled([manager EXCEPT !.proc = NoChild]) ELSE manager
  /\ UNCHANGED caller

RestartTimer ==
  /\ manager.timer /\ Unborn # {}
  /\ Resolve(Spawned([c |-> child, m |-> [manager EXCEPT !.timer = FALSE]]))
  /\ UNCHANGED caller

UptimeTimer ==
  /\ manager.proc # NoChild /\ manager.step > 0
  /\ manager' = [manager EXCEPT !.step = 0]
  /\ UNCHANGED <<child, caller>>

\* The server serves until its process has ended.
ServerEnded == caller["sigterm"].pc = "exited"

Restart(r) ==
  /\ ~ServerEnded /\ caller[r].pc = "idle" /\ Unborn # {}
  /\ IF manager.proc = NoChild
     THEN /\ Resolve(StartedAgain([c |-> child, m |-> Stopping(manager)], {r}))
          /\ caller' = [caller EXCEPT ![r].pc = "done"]
     ELSE /\ manager' = Stopping(manager)
          /\ caller' = [caller EXCEPT ![r] = [pc |-> "waits", on |-> manager.proc]]
          /\ UNCHANGED child

Sigterm ==
  /\ caller["sigterm"].pc = "idle"
  /\ manager' = Stopping(manager)
  /\ caller' = [caller EXCEPT !["sigterm"] = [pc |-> IF manager.proc = NoChild THEN "done" ELSE "waits",
                                              on |-> manager.proc]]
  /\ UNCHANGED child

ServerExits ==
  /\ caller["sigterm"].pc = "done"
  /\ caller' = [r \in Callers |-> [pc |-> "exited", on |-> NoChild]]
  /\ manager' = [manager EXCEPT !.timer = FALSE]
  /\ UNCHANGED child

TunnelNext ==
  \/ \E c \in Children : ChildExits(c) \/ ChildFails(c)
  \/ RestartTimer \/ UptimeTimer
  \/ \E r \in Restarters : Restart(r)
  \/ Sigterm \/ ServerExits

TunnelSpec == TunnelInit /\ [][TunnelNext]_tunnelVars

TunnelTypeOK ==
  /\ child \in [Children -> {"unborn", "alive", "failing", "gone"}]
  /\ manager \in [proc : Children \cup {NoChild}, shutting : BOOLEAN, timer : BOOLEAN, step : 0..LastStep]
  /\ caller \in [Callers -> [pc : {"idle", "waits", "done", "exited"}, on : Children \cup {NoChild}]]

(***************************************************************************)
(* Whatever restarts overlap: while the server serves there is one tunnel  *)
(* at most and the manager knows it; and the tunnel is kept, running or    *)
(* about to be started again, unless somebody is stopping it.              *)
(***************************************************************************)
TunnelKept ==
  ~ServerEnded =>
    /\ {c \in Children : child[c] \in {"alive", "failing"}} \subseteq {manager.proc}
    /\ RestartsOn /\ ~manager.shutting => manager.proc # NoChild \/ manager.timer
    /\ manager.timer => manager.proc = NoChild
=============================================================================
