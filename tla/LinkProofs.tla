------------------------------ MODULE LinkProofs ------------------------------
(***************************************************************************)
(* Proofs about who reaches whom, for any number of stubs, sockets,        *)
(* tunnels, targets and requests, and any number of losses, faults and     *)
(* restarts: no daemon and no tunnel runs that those who stop them do not  *)
(* know, and each socket the server keeps for a stub is that stub's        *)
(* (LinksKnown).                                                           *)
(***************************************************************************)
EXTENDS MCEdges, FiniteSetTheorems, WellFoundedInduction, TLAPS

\* A set of numbers that is not empty has a lowest one, and CHOOSE finds it.
LEMMA LowestOf ==
  ASSUME NEW S, S \subseteq Nat, S # {}
  PROVE  (CHOOSE k \in S : \A j \in S : k <= j) \in S
<1> DEFINE Less == {pair \in Nat \X Nat : pair[1] < pair[2]}
<1>1. IsWellFoundedOn(Less, Nat)
  BY NatLessThanWellFounded DEF OpToRel
<1>2. PICK low \in S : \A s \in S : ~(<<s, low>> \in Less)
  <2> HIDE DEF Less
  <2> QED BY <1>1, WFMin
<1>3. ASSUME NEW s \in S PROVE low <= s
  <2>1. s \in Nat /\ low \in Nat /\ ~(s < low)
    BY <1>2
  <2> QED BY <2>1
<1>4. \A s \in S : low <= s
  BY <1>3
<1> QED BY <1>4

-----------------------------------------------------------------------------
(* The tunnel. *)

ManagerRow == [proc : Children \cup {NoChild}, shutting : BOOLEAN, timer : BOOLEAN, step : 0..LastStep]
CallerRow == [pc : {"idle", "waits", "done", "exited"}, on : Children \cup {NoChild}]
ChildStates == {"unborn", "alive", "failing", "gone"}

\* Who waits for a process waits for one that was started, and while the server serves
\* nobody waits for the process that runs unless the tunnel is being stopped.
WaitsSound(r) ==
  /\ caller[r].pc = "waits" => caller[r].on \in Children /\ child[caller[r].on] # "unborn"
  /\ ServerEnded => caller[r].pc = "exited"
  /\ ~ServerEnded /\ caller[r].pc = "waits" /\ caller[r].on = manager.proc => manager.shutting

TunnelInv ==
  /\ TunnelTypeOK /\ TunnelKept
  /\ manager.proc # NoChild => child[manager.proc] # "unborn"
  /\ \A r \in Callers : WaitsSound(r)

LEMMA TunnelBounds ==
  MaxSpawns \in Nat /\ 1 \in Children /\ NoChild \notin Children /\ "sigterm" \notin Restarters
BY TunnelAssumption DEF Children, NoChild

LEMMA TunnelInvInit == TunnelInit => TunnelInv
<1> SUFFICES ASSUME TunnelInit PROVE TunnelInv
  OBVIOUS
<1> USE TunnelBounds
<1>1. TunnelTypeOK
  BY DEF TunnelInit, TunnelTypeOK, LastStep
<1>2. /\ {c \in Children : child[c] \in {"alive", "failing"}} \subseteq {1} /\ child[1] # "unborn"
      /\ manager.proc = 1 /\ ~manager.timer
  BY DEF TunnelInit
<1>3. \A r \in Callers : caller[r].pc = "idle"
  BY DEF TunnelInit
<1>4. ~ServerEnded
  BY <1>3 DEF ServerEnded, Callers
<1> QED BY <1>1, <1>2, <1>3, <1>4 DEF TunnelInv, TunnelKept, WaitsSound

\* spawnProc starts the next process, unless the tunnel is being stopped.
LEMMA SpawnedIs ==
  ASSUME NEW s, ~s.m.shutting, Unborn # {}, NEW t \in Spawned(s)
  PROVE  \E n \in Unborn, how \in {"alive", "failing"} :
           t = [c |-> [s.c EXCEPT ![n] = how], m |-> [s.m EXCEPT !.proc = n]]
<1> DEFINE n == CHOOSE k \in Unborn : \A j \in Unborn : k <= j
<1>1. n \in Unborn
  <2>1. Unborn \subseteq Nat
    BY TunnelBounds DEF Unborn, Children
  <2> QED BY <2>1, LowestOf
<1> HIDE DEF n
<1>2. \E how \in {"alive", "failing"} : t = [c |-> [s.c EXCEPT ![n] = how], m |-> [s.m EXCEPT !.proc = n]]
  BY DEF Spawned, n
<1> QED BY <1>1, <1>2

LEMMA ScheduledIs ==
  ASSUME NEW m \in ManagerRow
  PROVE  /\ RestartScheduled(m) \in ManagerRow
         /\ RestartScheduled(m).proc = m.proc /\ RestartScheduled(m).shutting = m.shutting
         /\ RestartScheduled(m).timer <=> m.timer \/ (RestartsOn /\ ~m.shutting)
<1>1. m.step \in 0..5 /\ m.step + 1 \in Nat /\ m = [m EXCEPT !.step = m.step]
  BY DEF ManagerRow, LastStep
<1>2. CASE m.shutting \/ ~RestartsOn
  BY <1>2 DEF RestartScheduled, ManagerRow
<1>3. CASE ~(m.shutting \/ ~RestartsOn)
  <2> DEFINE step == IF m.step = 5 THEN m.step ELSE m.step + 1
  <2>1. step \in 0..LastStep
    BY <1>1 DEF LastStep
  <2>2. RestartScheduled(m) = [m EXCEPT !.timer = TRUE, !.step = step]
    BY <1>3 DEF RestartScheduled, LastStep
  <2> HIDE DEF step
  <2> QED BY <1>3, <2>1, <2>2 DEF ManagerRow
<1> QED BY <1>2, <1>3

\* What holds of a tunnel nobody is waiting for makes a state in which it is kept.
StateKept(c, m) ==
  /\ c \in [Children -> ChildStates] /\ m \in ManagerRow
  /\ m.proc # NoChild => c[m.proc] # "unborn"
  /\ ~ServerEnded =>
       /\ {k \in Children : c[k] \in {"alive", "failing"}} \subseteq {m.proc}
       /\ RestartsOn /\ ~m.shutting => m.proc # NoChild \/ m.timer
       /\ m.timer => m.proc = NoChild

\* Starting a process where none runs and no restart is planned.
LEMMA StartKeeps ==
  ASSUME NEW c \in [Children -> ChildStates], NEW m \in ManagerRow, ~m.shutting, Unborn # {},
         ~ServerEnded => ~m.timer /\ m.proc = NoChild /\ {k \in Children : c[k] \in {"alive", "failing"}} = {},
         NEW t \in Spawned([c |-> c, m |-> m])
  PROVE  StateKept(t.c, t.m) /\ t.m.proc \in Unborn /\ \A k \in Children : t.c[k] = "unborn" => c[k] = "unborn"
<1>1. PICK n \in Unborn, how \in {"alive", "failing"} : t = [c |-> [c EXCEPT ![n] = how], m |-> [m EXCEPT !.proc = n]]
  <2> DEFINE s == [c |-> c, m |-> m]
  <2>1. ~s.m.shutting /\ s.c = c /\ s.m = m /\ t \in Spawned(s)
    OBVIOUS
  <2> HIDE DEF s
  <2>2. \E n \in Unborn, how \in {"alive", "failing"} :
           t = [c |-> [s.c EXCEPT ![n] = how], m |-> [s.m EXCEPT !.proc = n]]
    BY <2>1, SpawnedIs
  <2> QED BY <2>1, <2>2
<1>2. n \in Children /\ n # NoChild
  BY TunnelBounds DEF Unborn
<1>3. t.c = [c EXCEPT ![n] = how] /\ t.m = [m EXCEPT !.proc = n]
  BY <1>1
<1>4. t.m \in ManagerRow /\ t.m.proc = n /\ t.m.shutting = m.shutting /\ t.m.timer = m.timer
  BY <1>2, <1>3 DEF ManagerRow
<1>5. t.c \in [Children -> ChildStates] /\ t.c[n] = how /\ \A k \in Children \ {n} : t.c[k] = c[k]
  BY <1>2, <1>3 DEF ChildStates
<1>6. ~ServerEnded => {k \in Children : t.c[k] \in {"alive", "failing"}} \subseteq {n}
  BY <1>5
<1> QED BY <1>2, <1>4, <1>5, <1>6 DEF StateKept

LEMMA TunnelInvIs ==
  TunnelInv <=> StateKept(child, manager) /\ caller \in [Callers -> CallerRow] /\ \A r \in Callers : WaitsSound(r)
BY DEF TunnelInv, StateKept, TunnelTypeOK, TunnelKept, ChildStates, ManagerRow, CallerRow

\* A process is born once, and who still waits waits as before: no process that is started
\* is one somebody waits for.
LEMMA NobodyWaitsForNew ==
  ASSUME TunnelInv, caller' \in [Callers -> CallerRow], ServerEnded' = ServerEnded,
         StateKept(child, manager)',
         \A k \in Children : child'[k] = "unborn" => child[k] = "unborn",
         \A r \in Callers : caller'[r].pc = "waits" => caller'[r] = caller[r],
         ServerEnded => caller' = caller,
         manager'.proc \in Unborn \/ (manager'.proc = manager.proc /\ (manager.shutting => manager'.shutting))
           \/ manager'.proc = NoChild
  PROVE  TunnelInv'
<1>1. ASSUME NEW r \in Callers PROVE WaitsSound(r)'
  <2>1. WaitsSound(r)
    BY DEF TunnelInv
  <2>2. ServerEnded' => caller'[r].pc = "exited"
    BY <2>1 DEF WaitsSound
  <2>3. CASE caller'[r].pc = "waits"
    <3>1. caller'[r] = caller[r] /\ caller[r].on \in Children /\ child[caller[r].on] # "unborn"
      BY <2>1, <2>3 DEF WaitsSound
    <3>2. caller[r].on # NoChild /\ caller[r].on \notin Unborn
      BY <3>1, TunnelBounds DEF Unborn
    <3> QED BY <2>1, <2>2, <3>1, <3>2 DEF WaitsSound
  <2> QED BY <2>2, <2>3 DEF WaitsSound
<1> QED BY <1>1 DEF TunnelInv, StateKept, TunnelTypeOK, TunnelKept, ChildStates, ManagerRow, CallerRow

LEMMA Reopened ==
  ASSUME NEW c, NEW m
  PROVE  [[c |-> c, m |-> m] EXCEPT !.m.shutting = FALSE] = [c |-> c, m |-> [m EXCEPT !.shutting = FALSE]]
<1> DEFINE s == [c |-> c, m |-> m]
           x == [m EXCEPT !.shutting = FALSE]
<1>1. [s EXCEPT !.m.shutting = FALSE] = [s EXCEPT !.m = [s.m EXCEPT !.shutting = FALSE]]
  <2> HIDE DEF s
  <2> QED OBVIOUS
<1>2. [s EXCEPT !.m = x] = [c |-> c, m |-> x] /\ s.m = m
  <2> HIDE DEF x
  <2> QED OBVIOUS
<1> QED BY <1>1, <1>2

LEMMA ExitKeeps ==
  ASSUME TunnelInv, NEW c \in Children, ChildExits(c)
  PROVE  TunnelInv'
<1> DEFINE back == WaitingFor(c)
           free == [manager EXCEPT !.proc = NoChild]
           c1 == [child EXCEPT ![c] = "gone"]
           m1 == IF manager.proc = c THEN RestartScheduled(free) ELSE manager
           m2 == [m1 EXCEPT !.shutting = FALSE]
           at == [c |-> c1, m |-> m1]
           R == back \ {"sigterm"}
<1>1. /\ child[c] = "alive" /\ Unborn # {} /\ Resolve(StartedAgain(at, R))
      /\ caller' = [r \in Callers |-> IF r \in back THEN [pc |-> "done", on |-> NoChild] ELSE caller[r]]
  BY DEF ChildExits
<1>2. StateKept(child, manager) /\ caller \in [Callers -> CallerRow] /\ \A r \in Callers : WaitsSound(r)
  BY TunnelInvIs
<1>3. /\ caller' \in [Callers -> CallerRow] /\ ServerEnded' = ServerEnded
      /\ \A r \in Callers : caller'[r].pc = "waits" => caller'[r] = caller[r]
      /\ (ServerEnded => caller' = caller /\ R = {}) /\ back \subseteq Callers
      /\ \A r \in back : caller[r].pc = "waits" /\ caller[r].on = c
  <2>1. back \subseteq Callers /\ \A r \in back : caller[r].pc = "waits" /\ caller[r].on = c
    BY DEF WaitingFor
  <2>2. "sigterm" \in Callers /\ caller["sigterm"] \in CallerRow /\ \A r \in Callers : ServerEnded => caller[r].pc = "exited"
    BY <1>2 DEF Callers, WaitsSound
  <2>3. ServerEnded => back = {}
    BY <2>1, <2>2
  <2>4. caller' \in [Callers -> CallerRow]
    BY <1>1, <1>2 DEF CallerRow
  <2>5. ServerEnded' = ServerEnded
    <3>1. CASE "sigterm" \in back
      <4>1. ~ServerEnded /\ caller'["sigterm"].pc = "done"
        BY <1>1, <2>2, <2>3, <3>1
      <4> QED BY <4>1 DEF ServerEnded
    <3>2. CASE "sigterm" \notin back
      BY <1>1, <2>2, <3>2 DEF ServerEnded
    <3> QED BY <3>1, <3>2
  <2>6. \A r \in Callers : caller'[r].pc = "waits" => caller'[r] = caller[r]
    BY <1>1
  <2>7. ServerEnded => caller' = caller /\ R = {}
    BY <1>1, <1>2, <2>3
  <2> QED BY <2>1, <2>4, <2>5, <2>6, <2>7
<1>4. free \in ManagerRow /\ free.proc = NoChild /\ free.shutting = manager.shutting /\ free.timer = manager.timer
  BY <1>2 DEF StateKept, ManagerRow
<1>5. ~ServerEnded => manager.proc = c /\ ~manager.timer
  BY <1>1, <1>2, TunnelBounds DEF StateKept
<1>6. /\ m1 \in ManagerRow /\ m1.proc = (IF manager.proc = c THEN NoChild ELSE manager.proc)
      /\ m1.shutting = manager.shutting /\ (manager.proc = c => (m1.timer <=> manager.timer \/ (RestartsOn /\ ~manager.shutting)))
  <2>1. CASE manager.proc = c
    <3> HIDE DEF free
    <3> QED BY <1>4, <2>1, ScheduledIs
  <2>2. CASE manager.proc # c
    BY <1>2, <2>2 DEF StateKept
  <2> QED BY <2>1, <2>2
<1>7. /\ c1 \in [Children -> ChildStates] /\ c1[c] = "gone" /\ \A k \in Children \ {c} : c1[k] = child[k]
      /\ \A k \in Children : c1[k] = "unborn" => child[k] = "unborn"
  BY <1>1, <1>2 DEF StateKept, ChildStates
<1>8. StateKept(c1, m1) /\ (~ServerEnded => {k \in Children : c1[k] \in {"alive", "failing"}} = {})
  <2> HIDE DEF c1, m1
  <2>1. ~ServerEnded => {k \in Children : c1[k] \in {"alive", "failing"}} = {}
    BY <1>2, <1>5, <1>7 DEF StateKept
  <2>2. m1.proc # NoChild => c1[m1.proc] # "unborn"
    BY <1>2, <1>6, <1>7 DEF StateKept, ManagerRow
  <2> QED BY <1>5, <1>6, <1>7, <2>1, <2>2 DEF StateKept
<1>9. CASE R = {} \/ m1.proc # NoChild
  <2>1. child' = c1 /\ manager' = m1
    BY <1>1, <1>9 DEF Resolve, StartedAgain
  <2>2. StateKept(child, manager)'
    BY <1>3, <1>8, <2>1 DEF StateKept
  <2>3. manager'.proc = NoChild \/ (manager'.proc = manager.proc /\ (manager.shutting => manager'.shutting))
    BY <1>6, <2>1
  <2>4. \A k \in Children : child'[k] = "unborn" => child[k] = "unborn"
    BY <1>7, <2>1
  <2> HIDE DEF back, R, c1, m1
  <2> QED BY <1>3, <2>2, <2>3, <2>4, NobodyWaitsForNew
<1>10. CASE R # {} /\ m1.proc = NoChild
  <2>1. ~ServerEnded /\ manager.shutting
    <3>1. PICK r \in R : TRUE
      BY <1>10
    <3>2. r \in Callers /\ caller[r].pc = "waits" /\ caller[r].on = c
      BY <1>3
    <3> QED BY <1>2, <1>3, <1>5, <1>10, <3>2 DEF WaitsSound
  <2>2. m2 \in ManagerRow /\ ~m2.shutting /\ m2.proc = NoChild /\ ~m2.timer
    <3> HIDE DEF m1
    <3> QED BY <1>5, <1>6, <1>10, <2>1 DEF ManagerRow
  <2>3. PICK t \in Spawned([c |-> c1, m |-> m2]) : child' = t.c /\ manager' = t.m
    <3> HIDE DEF c1, m1, R
    <3>1. [at EXCEPT !.m.shutting = FALSE] = [c |-> c1, m |-> m2] /\ at.m = m1
      BY Reopened
    <3>2. StartedAgain(at, R) = Spawned([c |-> c1, m |-> m2])
      BY <1>10, <3>1 DEF StartedAgain
    <3> QED BY <1>1, <3>2 DEF Resolve
  <2>4. StateKept(t.c, t.m) /\ t.m.proc \in Unborn /\ \A k \in Children : t.c[k] = "unborn" => c1[k] = "unborn"
    <3> HIDE DEF c1, m2
    <3> QED BY <1>1, <1>7, <1>8, <2>2, StartKeeps
  <2>5. StateKept(child, manager)'
    BY <1>3, <2>3, <2>4 DEF StateKept
  <2>6. \A k \in Children : child'[k] = "unborn" => child[k] = "unborn"
    BY <1>7, <2>3, <2>4
  <2>7. manager'.proc \in Unborn
    BY <2>3, <2>4
  <2> HIDE DEF back, R, c1, m1
  <2> QED BY <1>3, <2>5, <2>6, <2>7, NobodyWaitsForNew
<1> QED BY <1>9, <1>10

LEMMA FailsKeeps ==
  ASSUME TunnelInv, NEW c \in Children, ChildFails(c)
  PROVE  TunnelInv'
<1> DEFINE free == [manager EXCEPT !.proc = NoChild]
<1>1. StateKept(child, manager) /\ caller \in [Callers -> CallerRow] /\ \A r \in Callers : WaitsSound(r)
  BY TunnelInvIs
<1>2. /\ child[c] = "failing" /\ child' = [child EXCEPT ![c] = "gone"] /\ caller' = caller
      /\ manager' = IF manager.proc = c THEN RestartScheduled(free) ELSE manager
  BY DEF ChildFails
<1>3. free \in ManagerRow /\ free.proc = NoChild /\ free.shutting = manager.shutting /\ free.timer = manager.timer
  BY <1>1 DEF StateKept, ManagerRow
<1>4. /\ manager' \in ManagerRow /\ manager'.proc = (IF manager.proc = c THEN NoChild ELSE manager.proc)
      /\ manager'.shutting = manager.shutting
      /\ (manager.proc = c => (manager'.timer <=> manager.timer \/ (RestartsOn /\ ~manager.shutting)))
  <2>1. CASE manager.proc = c
    <3> HIDE DEF free
    <3> QED BY <1>2, <1>3, <2>1, ScheduledIs
  <2>2. CASE manager.proc # c
    BY <1>1, <1>2, <2>2 DEF StateKept
  <2> QED BY <2>1, <2>2
<1>5. /\ child' \in [Children -> ChildStates] /\ child'[c] = "gone" /\ \A k \in Children \ {c} : child'[k] = child[k]
  BY <1>1, <1>2 DEF StateKept, ChildStates
<1>6. ServerEnded' = ServerEnded
  BY <1>2 DEF ServerEnded
<1>7. ~ServerEnded => manager.proc = c /\ ~manager.timer
  BY <1>1, <1>2, TunnelBounds DEF StateKept
<1>8. StateKept(child, manager)'
  <2>1. ~ServerEnded' => {k \in Children : child'[k] \in {"alive", "failing"}} = {}
    BY <1>1, <1>5, <1>6, <1>7 DEF StateKept
  <2>2. manager'.proc # NoChild => child'[manager'.proc] # "unborn"
    BY <1>1, <1>4, <1>5 DEF StateKept, ManagerRow
  <2> QED BY <1>4, <1>5, <1>6, <1>7, <2>1, <2>2 DEF StateKept
<1>9. \A k \in Children : child'[k] = "unborn" => child[k] = "unborn"
  BY <1>5
<1> HIDE DEF free
<1> QED BY <1>1, <1>2, <1>4, <1>6, <1>8, <1>9, NobodyWaitsForNew

LEMMA TimerKeeps ==
  ASSUME TunnelInv, RestartTimer
  PROVE  TunnelInv'
<1> DEFINE m1 == [manager EXCEPT !.timer = FALSE]
<1>1. StateKept(child, manager) /\ caller \in [Callers -> CallerRow] /\ \A r \in Callers : WaitsSound(r)
  BY TunnelInvIs
<1>2. PICK t \in Spawned([c |-> child, m |-> m1]) : child' = t.c /\ manager' = t.m
  BY DEF RestartTimer, Resolve
<1>3. caller' = caller /\ manager.timer /\ Unborn # {} /\ ServerEnded' = ServerEnded
  BY DEF RestartTimer, ServerEnded
<1>4. m1 \in ManagerRow /\ m1.proc = manager.proc /\ m1.shutting = manager.shutting /\ ~m1.timer
  BY <1>1 DEF StateKept, ManagerRow
<1>5. CASE manager.shutting
  <2>1. child' = child /\ manager' = m1
    <3> HIDE DEF m1
    <3> DEFINE s == [c |-> child, m |-> m1]
    <3>1. s.m.shutting /\ s.c = child /\ s.m = m1
      BY <1>4, <1>5
    <3> HIDE DEF s
    <3>2. Spawned(s) = {s}
      BY <3>1 DEF Spawned
    <3> QED BY <1>2, <3>1, <3>2 DEF s
  <2>2. StateKept(child, manager)'
    BY <1>1, <1>3, <1>4, <1>5, <2>1 DEF StateKept
  <2> HIDE DEF m1
  <2> QED BY <1>1, <1>3, <1>4, <2>1, <2>2, NobodyWaitsForNew
<1>6. CASE ~manager.shutting
  <2>1. ~ServerEnded => {k \in Children : child[k] \in {"alive", "failing"}} = {} /\ manager.proc = NoChild
    BY <1>1, <1>3, TunnelBounds DEF StateKept
  <2>2. child \in [Children -> ChildStates]
    BY <1>1 DEF StateKept
  <2>3. StateKept(t.c, t.m) /\ t.m.proc \in Unborn /\ \A k \in Children : t.c[k] = "unborn" => child[k] = "unborn"
    <3> HIDE DEF m1
    <3> QED BY <1>2, <1>3, <1>4, <1>6, <2>1, <2>2, StartKeeps
  <2>4. StateKept(child, manager)'
    BY <1>2, <1>3, <2>3 DEF StateKept
  <2> HIDE DEF m1
  <2> QED BY <1>1, <1>2, <1>3, <2>3, <2>4, NobodyWaitsForNew
<1> QED BY <1>5, <1>6

\* A restart of a tunnel that does not run starts it, another one waits for the process.
LEMMA RestartKeeps ==
  ASSUME TunnelInv, NEW r \in Restarters, Restart(r)
  PROVE  TunnelInv'
<1> DEFINE m1 == Stopping(manager)
           m2 == [m1 EXCEPT !.shutting = FALSE]
<1>1. StateKept(child, manager) /\ caller \in [Callers -> CallerRow] /\ \A x \in Callers : WaitsSound(x)
  BY TunnelInvIs
<1>2. ~ServerEnded /\ Unborn # {} /\ r # "sigterm" /\ r \in Callers /\ "sigterm" \in Callers
  BY TunnelBounds DEF Restart, Callers
<1>3. m1 \in ManagerRow /\ m1.proc = manager.proc /\ m1.shutting /\ ~m1.timer
  BY <1>1 DEF StateKept, ManagerRow, Stopping
<1>4. CASE manager.proc = NoChild
  <2>1. /\ Resolve(StartedAgain([c |-> child, m |-> m1], {r}))
        /\ caller' = [caller EXCEPT ![r].pc = "done"]
    BY <1>4 DEF Restart
  <2>2. m2 \in ManagerRow /\ ~m2.shutting /\ m2.proc = NoChild /\ ~m2.timer
    <3> HIDE DEF m1
    <3> QED BY <1>3, <1>4 DEF ManagerRow
  <2>3. PICK t \in Spawned([c |-> child, m |-> m2]) : child' = t.c /\ manager' = t.m
    <3> HIDE DEF m1
    <3> DEFINE s == [c |-> child, m |-> m1]
    <3>1. [s EXCEPT !.m.shutting = FALSE] = [c |-> child, m |-> m2] /\ s.m = m1
      BY Reopened
    <3>2. StartedAgain(s, {r}) = Spawned([c |-> child, m |-> m2])
      BY <1>3, <1>4, <3>1 DEF StartedAgain
    <3> QED BY <2>1, <3>2 DEF Resolve
  <2>4. {k \in Children : child[k] \in {"alive", "failing"}} = {} /\ child \in [Children -> ChildStates]
    BY <1>1, <1>2, <1>4, TunnelBounds DEF StateKept
  <2>5. StateKept(t.c, t.m) /\ t.m.proc \in Unborn /\ \A k \in Children : t.c[k] = "unborn" => child[k] = "unborn"
    <3> HIDE DEF m2
    <3> QED BY <1>2, <2>2, <2>3, <2>4, StartKeeps
  <2>6. /\ caller' \in [Callers -> CallerRow] /\ ServerEnded' = ServerEnded
        /\ \A x \in Callers : caller'[x].pc = "waits" => caller'[x] = caller[x]
    <3>1. caller[r] \in CallerRow /\ [caller[r] EXCEPT !.pc = "done"] \in CallerRow
      BY <1>1, <1>2 DEF CallerRow
    <3>2. caller' = [caller EXCEPT ![r] = [caller[r] EXCEPT !.pc = "done"]] /\ [caller[r] EXCEPT !.pc = "done"].pc = "done"
      BY <1>1, <1>2, <2>1 DEF CallerRow
    <3> QED BY <1>1, <1>2, <3>1, <3>2 DEF ServerEnded
  <2>7. StateKept(child, manager)'
    BY <2>3, <2>5, <2>6 DEF StateKept
  <2> HIDE DEF m1, m2
  <2> QED BY <1>1, <1>2, <2>3, <2>5, <2>6, <2>7, NobodyWaitsForNew
<1>5. CASE manager.proc # NoChild
  <2>1. /\ manager' = m1 /\ child' = child
        /\ caller' = [caller EXCEPT ![r] = [pc |-> "waits", on |-> manager.proc]]
    BY <1>5 DEF Restart
  <2>2. manager.proc \in Children /\ child[manager.proc] # "unborn"
    BY <1>1, <1>5 DEF StateKept, ManagerRow
  <2>3. caller' \in [Callers -> CallerRow] /\ ServerEnded' = ServerEnded
    BY <1>1, <1>2, <2>1, <2>2 DEF CallerRow, ServerEnded
  <2>4. StateKept(child, manager)'
    <3> HIDE DEF m1
    <3> QED BY <1>1, <1>3, <2>1, <2>3 DEF StateKept
  <2>5. ASSUME NEW x \in Callers PROVE WaitsSound(x)'
    <3>1. caller'[x] = IF x = r THEN [pc |-> "waits", on |-> manager.proc] ELSE caller[x]
      BY <1>1, <2>1
    <3> HIDE DEF m1
    <3> QED BY <1>1, <1>2, <1>3, <2>1, <2>2, <2>3, <3>1 DEF WaitsSound
  <2> QED BY <2>3, <2>4, <2>5 DEF TunnelInv, StateKept, TunnelTypeOK, TunnelKept, ChildStates, ManagerRow, CallerRow
<1> QED BY <1>4, <1>5

LEMMA StopKeeps ==
  ASSUME TunnelInv, Sigterm \/ ServerExits \/ UptimeTimer \/ UNCHANGED tunnelVars
  PROVE  TunnelInv'
<1>1. StateKept(child, manager) /\ caller \in [Callers -> CallerRow] /\ \A x \in Callers : WaitsSound(x)
  BY TunnelInvIs
<1>2. "sigterm" \in Callers
  BY DEF Callers
<1> SUFFICES StateKept(child, manager)' /\ caller' \in [Callers -> CallerRow] /\ \A x \in Callers : WaitsSound(x)'
  BY DEF TunnelInv, StateKept, TunnelTypeOK, TunnelKept, ChildStates, ManagerRow, CallerRow
<1>3. CASE Sigterm
  <2> DEFINE entry == [pc |-> IF manager.proc = NoChild THEN "done" ELSE "waits", on |-> manager.proc]
  <2>1. /\ manager' \in ManagerRow /\ manager'.proc = manager.proc /\ manager'.shutting /\ ~manager'.timer
        /\ child' = child
    BY <1>1, <1>3 DEF StateKept, ManagerRow, Stopping, Sigterm
  <2>2. caller' = [caller EXCEPT !["sigterm"] = entry] /\ caller["sigterm"].pc = "idle"
    BY <1>3 DEF Sigterm
  <2>3. entry \in CallerRow /\ entry.pc \in {"done", "waits"} /\ (entry.pc = "waits" => manager.proc # NoChild)
        /\ entry.on = manager.proc
    BY <1>1 DEF StateKept, ManagerRow, CallerRow
  <2> HIDE DEF entry
  <2>4. caller' \in [Callers -> CallerRow] /\ ~ServerEnded /\ ~ServerEnded'
    BY <1>1, <1>2, <2>2, <2>3 DEF ServerEnded
  <2>5. StateKept(child, manager)'
    BY <1>1, <2>1, <2>4 DEF StateKept
  <2>6. ASSUME NEW x \in Callers PROVE WaitsSound(x)'
    <3>1. caller'[x] = IF x = "sigterm" THEN entry ELSE caller[x]
      BY <1>1, <2>2
    <3>2. manager.proc # NoChild => manager.proc \in Children /\ child[manager.proc] # "unborn"
      BY <1>1 DEF StateKept, ManagerRow
    <3> QED BY <1>1, <2>1, <2>3, <2>4, <3>1, <3>2 DEF WaitsSound
  <2> QED BY <2>4, <2>5, <2>6
<1>4. CASE ServerExits
  <2>1. /\ manager' \in ManagerRow /\ manager'.proc = manager.proc /\ child' = child
        /\ caller' = [x \in Callers |-> [pc |-> "exited", on |-> NoChild]]
    BY <1>1, <1>4 DEF StateKept, ManagerRow, ServerExits
  <2>2. caller' \in [Callers -> CallerRow] /\ ServerEnded'
    BY <1>2, <2>1 DEF CallerRow, ServerEnded
  <2> QED BY <1>1, <2>1, <2>2 DEF StateKept, WaitsSound
<1>5. CASE UptimeTimer
  <2>1. /\ manager' \in ManagerRow /\ manager'.proc = manager.proc /\ child' = child /\ caller' = caller
        /\ manager'.shutting = manager.shutting /\ manager'.timer = manager.timer
    BY <1>1, <1>5 DEF StateKept, ManagerRow, UptimeTimer, LastStep
  <2> QED BY <1>1, <2>1 DEF StateKept, WaitsSound, ServerEnded
<1>6. CASE UNCHANGED tunnelVars
  BY <1>1, <1>6 DEF StateKept, WaitsSound, ServerEnded, tunnelVars
<1> QED BY <1>3, <1>4, <1>5, <1>6

LEMMA TunnelInvNext == TunnelInv /\ [TunnelNext]_tunnelVars => TunnelInv'
BY ExitKeeps, FailsKeeps, TimerKeeps, RestartKeeps, StopKeeps DEF TunnelNext

-----------------------------------------------------------------------------
(* Which socket is which stub. *)

LinkRow == [of : Daemons \cup {Nobody}, st : {"unborn", "open", "closed"}, map : Ids \cup {Nobody},
            deaf : BOOLEAN, astray : BOOLEAN]
StubRow == [here : BOOLEAN, online : BOOLEAN, sock : Sockets \cup {NoSocket}, released : BOOLEAN,
            busy : BOOLEAN, timer : BOOLEAN, sync : Sockets \cup {NoSocket}]
RegRow == [sock : Sockets \cup {NoSocket}, gen : Nat]
CallRow == [pc : {"new", "sent", "delay", "end"}, to : Ids \cup {Nobody}, gen : Nat,
            on : Sockets \cup {NoSocket}, began : Sockets \cup {NoSocket}, tries : 0..MaxRetries]
ServerRow == [token : BOOLEAN, alloc : {"live", "terminal", "ambiguous"}, turns : 0..Turns]
Worlds == [l : [Sockets -> LinkRow], r : [Ids -> StubRow], g : [Ids -> RegRow]]

\* A socket speaks for the identity of its own daemon, and the row of that names it.
LinkFits(w, k) ==
  /\ w.l[k].st # "unborn" => w.l[k].of \in Daemons
  /\ w.l[k].map # Nobody => w.l[k].st = "open" /\ w.l[k].map = StubOf[w.l[k].of]
  /\ w.l[k].deaf => w.l[k].map = Nobody
  /\ w.l[k].map # Nobody /\ ~w.l[k].astray => w.r[w.l[k].map].here /\ w.r[w.l[k].map].sock = k

\* A row names a socket of its own identity.
RowFits(w, i) ==
  /\ w.r[i].sock # NoSocket => w.l[w.r[i].sock].st # "unborn" /\ StubOf[w.l[w.r[i].sock].of] = i
  /\ w.r[i].released => w.r[i].here /\ ~w.r[i].online

\* A stub that is online is heard on the socket it is registered with, or deaf.
OnlineFits(w, i) ==
  LET k == w.r[i].sock
  IN  w.r[i].here /\ w.r[i].online =>
        k # NoSocket /\ (w.l[k].deaf \/ (w.l[k].st = "open" /\ w.g[i].sock = k /\ w.l[k].map = i))

\* In the middle of a handler the stubs in X are not yet back in order.
FitsBut(w, X) ==
  /\ w \in Worlds
  /\ \A k \in Sockets : LinkFits(w, k)
  /\ \A i \in Ids : RowFits(w, i)
  /\ \A i \in Ids \ X : OnlineFits(w, i)

CallFits(c) ==
  call[c].pc \in {"sent", "delay"} =>
    /\ call[c].to \in Ids /\ call[c].on = call[c].began /\ call[c].gen <= reg[call[c].to].gen
    /\ reg[call[c].to].gen = call[c].gen => reg[call[c].to].sock \in {call[c].began, NoSocket}
    /\ call[c].pc = "delay" => call[c].tries < MaxRetries

RegistryInv ==
  /\ FitsBut(World, {}) /\ server \in ServerRow
  /\ call \in [Calls -> CallRow] /\ \A c \in Calls : CallFits(c)

\* A registration is dropped, or replaced by a later one.
RegMoves(g, h) ==
  \A i \in Ids : h[i].gen > g[i].gen \/ (h[i].gen = g[i].gen /\ h[i].sock \in {g[i].sock, NoSocket})

LEMMA RegistryBounds ==
  /\ MaxSockets \in Nat /\ MaxRetries \in Nat /\ Turns \in Nat /\ Nobody \notin Ids /\ NoSocket \notin Sockets
  /\ \A d \in Daemons : StubOf[d] \in Ids
BY RegistryAssumption DEF Ids, Sockets, NoSocket

LEMMA RegistryInvMeans == RegistryInv => RegistryTypeOK /\ LinksAgree
<1> SUFFICES ASSUME RegistryInv PROVE RegistryTypeOK /\ LinksAgree
  OBVIOUS
<1>1. /\ link \in [Sockets -> LinkRow] /\ row \in [Ids -> StubRow] /\ reg \in [Ids -> RegRow]
      /\ World.l = link /\ World.r = row /\ World.g = reg
  BY DEF RegistryInv, FitsBut, Worlds, World
<1>2. RegistryTypeOK
  <2>1. ASSUME NEW k \in Sockets PROVE link[k].map \in Ids \cup {Nobody} /\ link[k].st \in {"unborn", "open", "closed"}
    BY <1>1 DEF LinkRow
  <2>2. ASSUME NEW i \in Ids PROVE {row[i].sock, row[i].sync, reg[i].sock} \subseteq Sockets \cup {NoSocket}
    BY <1>1 DEF StubRow, RegRow
  <2>3. ASSUME NEW c \in Calls PROVE call[c].pc \in {"new", "sent", "delay", "end"} /\ call[c].tries \in 0..MaxRetries
    BY DEF RegistryInv, CallRow
  <2>4. server.turns \in 0..Turns /\ server.alloc \in {"live", "terminal", "ambiguous"}
    BY DEF RegistryInv, ServerRow
  <2> QED BY <2>1, <2>2, <2>3, <2>4 DEF RegistryTypeOK
<1>3. ASSUME NEW i \in Ids, row[i].here, row[i].online
      PROVE  LET k == row[i].sock IN link[k].deaf \/ (Open(k) /\ reg[i].sock = k /\ link[k].map = i)
  <2>1. OnlineFits(World, i)
    BY DEF RegistryInv, FitsBut
  <2> QED BY <1>1, <1>3, <2>1 DEF OnlineFits, Open
<1>4. ASSUME NEW k \in Sockets, Open(k), link[k].map # Nobody, ~link[k].astray
      PROVE  LET i == link[k].map IN row[i].here /\ row[i].sock = k
  <2>1. LinkFits(World, k)
    BY DEF RegistryInv, FitsBut
  <2> QED BY <1>1, <1>4, <2>1 DEF LinkFits
<1>5. ASSUME NEW c \in Calls, call[c].pc \in {"sent", "delay"} PROVE call[c].on = call[c].began
  BY <1>5 DEF RegistryInv, CallFits
<1> QED BY <1>2, <1>3, <1>4, <1>5 DEF LinksAgree

LEMMA RegistryInvInit == RegistryInit => RegistryInv
<1> SUFFICES ASSUME RegistryInit PROVE RegistryInv
  OBVIOUS
<1> USE RegistryBounds
<1>1. NewLink \in LinkRow /\ NoRow \in StubRow /\ NewCall \in CallRow
  BY DEF NewLink, LinkRow, NoRow, StubRow, NewCall, CallRow
<1>2. /\ link = [k \in Sockets |-> NewLink] /\ row = [i \in Ids |-> NoRow]
      /\ reg \in [Ids -> RegRow] /\ call = [c \in Calls |-> NewCall] /\ server \in ServerRow
  BY DEF RegistryInit, RegRow, ServerRow
<1>3. World \in Worlds /\ World.l = link /\ World.r = row /\ World.g = reg
  BY <1>1, <1>2 DEF World, Worlds
<1>4. ASSUME NEW k \in Sockets PROVE LinkFits(World, k)
  BY <1>2, <1>3 DEF LinkFits, NewLink
<1>5. ASSUME NEW i \in Ids PROVE RowFits(World, i) /\ OnlineFits(World, i)
  BY <1>2, <1>3 DEF RowFits, OnlineFits, NoRow
<1>6. call \in [Calls -> CallRow] /\ \A c \in Calls : CallFits(c)
  BY <1>1, <1>2 DEF CallFits, NewCall
<1> QED BY <1>2, <1>3, <1>4, <1>5, <1>6 DEF RegistryInv, FitsBut

\* The world with the link closed, and what that changes.
Closing(w, k) == [w EXCEPT !.l[k].st = "closed", !.l[k].map = Nobody]
IsClosed(w, k, gone) ==
  /\ gone \in Worlds /\ gone.r = w.r /\ gone.g = w.g
  /\ gone.l = [w.l EXCEPT ![k] = [w.l[k] EXCEPT !.st = "closed", !.map = Nobody]]

LEMMA ClosedLink ==
  ASSUME NEW w \in Worlds, NEW k \in Sockets
  PROVE  IsClosed(w, k, Closing(w, k))
<1> DEFINE entry == [w.l[k] EXCEPT !.st = "closed", !.map = Nobody]
           l1 == [w.l EXCEPT ![k] = entry]
           gone == Closing(w, k)
<1>1. w.l \in [Sockets -> LinkRow] /\ w.r \in [Ids -> StubRow] /\ w.g \in [Ids -> RegRow]
  BY DEF Worlds
<1>2. entry \in LinkRow
  BY <1>1 DEF LinkRow
<1>3. l1 \in [Sockets -> LinkRow]
  <2> HIDE DEF entry
  <2> QED BY <1>1, <1>2
<1>4. gone = [w EXCEPT !.l = l1]
  BY <1>1 DEF Worlds, LinkRow, Closing
<1> HIDE DEF entry, l1, gone
<1>5. gone.l = l1 /\ gone.r = w.r /\ gone.g = w.g /\ gone \in Worlds
  BY <1>3, <1>4 DEF Worlds
<1> QED BY <1>5 DEF l1, entry, gone, IsClosed

LEMMA UnregisteredIs ==
  ASSUME NEW w \in Worlds, NEW i \in Ids, NEW k \in Sockets
  PROVE  /\ Unregistered(w, i, k) \in Worlds
         /\ Unregistered(w, i, k).l = w.l /\ Unregistered(w, i, k).r = w.r
         /\ \A x \in Ids : Unregistered(w, i, k).g[x] = IF x = i /\ w.g[i].sock = k
                                                         THEN [sock |-> NoSocket, gen |-> w.g[x].gen] ELSE w.g[x]
<1> DEFINE entry == [w.g[i] EXCEPT !.sock = NoSocket]
           g1 == [w.g EXCEPT ![i] = entry]
<1>1. w.g \in [Ids -> RegRow] /\ w.g[i] \in RegRow
  BY DEF Worlds
<1>2. entry \in RegRow /\ entry = [sock |-> NoSocket, gen |-> w.g[i].gen]
  BY <1>1 DEF RegRow
<1>3. CASE w.g[i].sock = k
  <2>1. g1 \in [Ids -> RegRow] /\ \A x \in Ids : g1[x] = IF x = i THEN entry ELSE w.g[x]
    <3> HIDE DEF entry
    <3> QED BY <1>1, <1>2
  <2>2. Unregistered(w, i, k) = [w EXCEPT !.g = g1]
    BY <1>1, <1>3 DEF Unregistered, Worlds, RegRow
  <2> HIDE DEF g1
  <2>3. /\ Unregistered(w, i, k).g = g1 /\ Unregistered(w, i, k).l = w.l /\ Unregistered(w, i, k).r = w.r
        /\ Unregistered(w, i, k) \in Worlds
    BY <2>1, <2>2 DEF Worlds
  <2> QED BY <1>2, <1>3, <2>1, <2>3
<1>4. CASE w.g[i].sock # k
  BY <1>4 DEF Unregistered
<1> QED BY <1>3, <1>4

\* What the disconnect of a socket comes to.
IsDisconnected(w, k, d) ==
  /\ d \in Worlds
  /\ \A j \in Sockets : d.l[j] = IF j = k THEN [w.l[k] EXCEPT !.st = "closed", !.map = Nobody] ELSE w.l[j]
  /\ \A x \in Ids :
       /\ d.r[x] = IF x = w.l[k].map /\ w.r[x].here /\ w.r[x].sock = k
                   THEN [w.r[x] EXCEPT !.online = FALSE, !.sock = NoSocket, !.timer = TRUE, !.sync = NoSocket]
                   ELSE w.r[x]
       /\ d.g[x] = IF x = w.l[k].map /\ w.g[x].sock = k THEN [sock |-> NoSocket, gen |-> w.g[x].gen] ELSE w.g[x]

LEMMA DisconnectedIs ==
  ASSUME NEW w \in Worlds, NEW k \in Sockets
  PROVE  IsDisconnected(w, k, Disconnected(w, k))
<1> USE RegistryBounds
<1> DEFINE i == w.l[k].map
           gone == [w EXCEPT !.l[k].st = "closed", !.l[k].map = Nobody]
           off == IF i = Nobody THEN gone ELSE Unregistered(gone, i, k)
           d == Disconnected(w, k)
           entry == [w.l[k] EXCEPT !.st = "closed", !.map = Nobody]
<1>1. /\ gone \in Worlds /\ gone.r = w.r /\ gone.g = w.g /\ gone.l = [w.l EXCEPT ![k] = entry]
  <2>1. gone = Closing(w, k)
    BY DEF Closing
  <2> HIDE DEF gone
  <2>2. IsClosed(w, k, gone)
    BY <2>1, ClosedLink
  <2> QED BY <2>2 DEF IsClosed
<1>2. /\ w.l \in [Sockets -> LinkRow] /\ w.r \in [Ids -> StubRow] /\ w.g \in [Ids -> RegRow] /\ i \in Ids \cup {Nobody}
  BY DEF Worlds, LinkRow
<1>3. d = IF i = Nobody \/ ~(w.r[i].here /\ w.r[i].sock = k) THEN off
          ELSE [off EXCEPT !.r[i] = [@ EXCEPT !.online = FALSE, !.sock = NoSocket, !.timer = TRUE, !.sync = NoSocket]]
  BY DEF Disconnected
<1>4. \A j \in Sockets : gone.l[j] = IF j = k THEN entry ELSE w.l[j]
  <2> HIDE DEF gone, entry
  <2> QED BY <1>1, <1>2
<1>5. /\ off \in Worlds /\ off.r = w.r /\ off.l = gone.l
      /\ \A x \in Ids : off.g[x] = IF x = i /\ w.g[x].sock = k THEN [sock |-> NoSocket, gen |-> w.g[x].gen] ELSE w.g[x]
  <2> HIDE DEF gone
  <2>1. CASE i = Nobody
    BY <1>1, <2>1
  <2>2. CASE i # Nobody
    <3>1. i \in Ids /\ off = Unregistered(gone, i, k)
      BY <1>2, <2>2
    <3> QED BY <1>1, <3>1, UnregisteredIs
  <2> QED BY <2>1, <2>2
<1> HIDE DEF off, gone, entry, d, i
<1>6. CASE i = Nobody \/ ~(w.r[i].here /\ w.r[i].sock = k)
  <2>1. d = off
    BY <1>3, <1>6
  <2>2. \A x \in Ids : ~(x = i /\ w.r[x].here /\ w.r[x].sock = k)
    BY <1>6
  <2> QED BY <1>4, <1>5, <2>1, <2>2 DEF d, entry, i, IsDisconnected
<1>7. CASE i # Nobody /\ w.r[i].here /\ w.r[i].sock = k
  <2> DEFINE stub == [w.r[i] EXCEPT !.online = FALSE, !.sock = NoSocket, !.timer = TRUE, !.sync = NoSocket]
             r1 == [w.r EXCEPT ![i] = stub]
  <2>1. i \in Ids /\ stub \in StubRow
    BY <1>2, <1>7 DEF StubRow
  <2>2. r1 \in [Ids -> StubRow] /\ \A x \in Ids : r1[x] = IF x = i THEN stub ELSE w.r[x]
    <3> HIDE DEF stub
    <3> QED BY <1>2, <2>1
  <2>3. d = [off EXCEPT !.r = r1]
    BY <1>2, <1>3, <1>5, <1>7, <2>1 DEF Worlds
  <2> HIDE DEF r1
  <2>4. d \in Worlds /\ d.l = off.l /\ d.g = off.g /\ d.r = r1
    BY <1>5, <2>2, <2>3 DEF Worlds
  <2>5. \A x \in Ids : d.r[x] = IF x = i /\ w.r[x].here /\ w.r[x].sock = k THEN stub ELSE w.r[x]
    BY <1>7, <2>2, <2>4
  <2>6. \A j \in Sockets : d.l[j] = IF j = k THEN entry ELSE w.l[j]
    BY <1>4, <1>5, <2>4
  <2>7. \A x \in Ids : d.g[x] = IF x = i /\ w.g[x].sock = k THEN [sock |-> NoSocket, gen |-> w.g[x].gen] ELSE w.g[x]
    BY <1>5, <2>4
  <2>8. \A x \in Ids : d.r[x] = IF x = i /\ w.r[x].here /\ w.r[x].sock = k
                              THEN [w.r[x] EXCEPT !.online = FALSE, !.sock = NoSocket, !.timer = TRUE, !.sync = NoSocket]
                              ELSE w.r[x]
    BY <2>5
  <2> HIDE DEF stub
  <2> QED BY <2>4, <2>6, <2>7, <2>8 DEF d, entry, i, IsDisconnected
<1> QED BY <1>6, <1>7 DEF d

\* A socket that was open closes, and what held holds.
LEMMA DisconnectFits ==
  ASSUME NEW w, NEW X, FitsBut(w, X), NEW k \in Sockets, w.l[k].st = "open"
  PROVE  FitsBut(Disconnected(w, k), X) /\ RegMoves(w.g, Disconnected(w, k).g)
<1> USE RegistryBounds
<1> DEFINE d == Disconnected(w, k)
<1>1. w \in Worlds /\ (\A j \in Sockets : LinkFits(w, j)) /\ (\A x \in Ids : RowFits(w, x)) /\ IsDisconnected(w, k, d)
  BY DisconnectedIs DEF FitsBut
<1> HIDE DEF d
<1>2. /\ w.l \in [Sockets -> LinkRow] /\ w.r \in [Ids -> StubRow] /\ w.g \in [Ids -> RegRow] /\ d \in Worlds
  BY <1>1 DEF Worlds, IsDisconnected
<1>3. /\ \A j \in Sockets \ {k} : d.l[j] = w.l[j]
      /\ d.l[k].st = "closed" /\ d.l[k].map = Nobody /\ d.l[k].of = w.l[k].of /\ d.l[k].deaf = w.l[k].deaf
  BY <1>1, <1>2 DEF IsDisconnected, LinkRow
<1>4. ASSUME NEW x \in Ids
      PROVE  /\ d.r[x].here = w.r[x].here /\ d.r[x].released = w.r[x].released
             /\ d.r[x] = w.r[x] \/ (d.r[x].online = FALSE /\ d.r[x].sock = NoSocket /\ x = w.l[k].map /\ w.r[x].sock = k)
             /\ x = w.l[k].map /\ w.r[x].here /\ w.r[x].sock = k => d.r[x].sock = NoSocket
             /\ d.g[x].gen = w.g[x].gen /\ d.g[x].sock \in {w.g[x].sock, NoSocket}
             /\ d.g[x] = w.g[x] \/ (x = w.l[k].map /\ w.g[x].sock = k)
  <2> DEFINE off == [w.r[x] EXCEPT !.online = FALSE, !.sock = NoSocket, !.timer = TRUE, !.sync = NoSocket]
  <2>1. w.r[x] \in StubRow /\ w.g[x] \in RegRow
    BY <1>2
  <2>2. off.here = w.r[x].here /\ off.released = w.r[x].released /\ off.online = FALSE /\ off.sock = NoSocket
    BY <2>1 DEF StubRow
  <2>3. d.r[x] = IF x = w.l[k].map /\ w.r[x].here /\ w.r[x].sock = k THEN off ELSE w.r[x]
    BY <1>1 DEF IsDisconnected
  <2>4. d.g[x] = IF x = w.l[k].map /\ w.g[x].sock = k THEN [sock |-> NoSocket, gen |-> w.g[x].gen] ELSE w.g[x]
    BY <1>1 DEF IsDisconnected
  <2>5. d.g[x].gen = w.g[x].gen /\ d.g[x].sock \in {w.g[x].sock, NoSocket}
    BY <2>4
  <2> HIDE DEF off
  <2> QED BY <2>2, <2>3, <2>4, <2>5
<1>5. ASSUME NEW j \in Sockets PROVE LinkFits(d, j)
  <2>1. LinkFits(w, j) /\ w.l[j].map \in Ids \cup {Nobody} /\ w.l[k].map \in Ids \cup {Nobody}
    BY <1>1, <1>2 DEF LinkRow
  <2>2. CASE j = k
    BY <1>3, <2>1, <2>2 DEF LinkFits
  <2>3. CASE j # k /\ w.l[j].map # Nobody
    <3> DEFINE x == w.l[j].map
    <3>1. x \in Ids /\ d.l[j] = w.l[j]
      BY <1>3, <2>1, <2>3
    <3>2. ~w.l[j].astray => d.r[x] = w.r[x]
      BY <1>4, <2>1, <2>3, <3>1 DEF LinkFits
    <3> QED BY <2>1, <3>1, <3>2 DEF LinkFits
  <2>4. CASE j # k /\ w.l[j].map = Nobody
    BY <1>3, <2>1, <2>4 DEF LinkFits
  <2> QED BY <2>2, <2>3, <2>4
<1>6. ASSUME NEW x \in Ids PROVE RowFits(d, x)
  <2>1. RowFits(w, x) /\ w.r[x].sock \in Sockets \cup {NoSocket}
    BY <1>1, <1>2 DEF StubRow
  <2>2. \A j \in Sockets : d.l[j].of = w.l[j].of /\ (d.l[j].st = "unborn" => w.l[j].st = "unborn")
    BY <1>3
  <2>3. d.r[x].released => d.r[x].here /\ ~d.r[x].online
    BY <1>4, <2>1 DEF RowFits
  <2>4. d.r[x].sock # NoSocket => d.r[x].sock = w.r[x].sock
    BY <1>4
  <2>5. d.r[x].sock # NoSocket => d.l[d.r[x].sock].st # "unborn" /\ StubOf[d.l[d.r[x].sock].of] = x
    BY <2>1, <2>2, <2>4 DEF RowFits
  <2> QED BY <2>3, <2>5 DEF RowFits
<1>7. ASSUME NEW x \in Ids \ X PROVE OnlineFits(d, x)
  <2>1. OnlineFits(w, x) /\ RowFits(w, x) /\ LinkFits(w, k) /\ w.r[x].sock \in Sockets \cup {NoSocket}
    BY <1>1, <1>2 DEF FitsBut, StubRow
  <2>2. CASE d.r[x] # w.r[x]
    BY <1>4, <2>2 DEF OnlineFits
  <2>3. CASE d.r[x] = w.r[x] /\ w.r[x].here /\ w.r[x].online /\ w.r[x].sock = k
    <3>1. w.l[k].map # x
      BY <1>4, <2>3, RegistryBounds
    <3> QED BY <1>3, <2>1, <2>3, <3>1 DEF OnlineFits
  <2>4. CASE d.r[x] = w.r[x] /\ w.r[x].here /\ w.r[x].online /\ w.r[x].sock # k
    <3>1. w.r[x].sock \in Sockets \ {k} /\ d.l[w.r[x].sock] = w.l[w.r[x].sock]
      BY <1>3, <2>1, <2>4 DEF OnlineFits
    <3>2. w.l[w.r[x].sock].deaf \/ d.g[x] = w.g[x]
      BY <1>4, <2>1, <2>4 DEF OnlineFits
    <3> QED BY <2>1, <2>4, <3>1, <3>2 DEF OnlineFits
  <2>5. CASE d.r[x] = w.r[x] /\ ~(w.r[x].here /\ w.r[x].online)
    BY <2>5 DEF OnlineFits
  <2> QED BY <2>2, <2>3, <2>4, <2>5
<1>8. RegMoves(w.g, d.g)
  BY <1>4 DEF RegMoves
<1> QED BY <1>2, <1>5, <1>6, <1>7, <1>8 DEF FitsBut, d

\* The row names its new socket, and the old one is forgotten.
IsFreed(w, i, old, k, u) ==
  /\ u = [w EXCEPT !.l[old].map = Nobody, !.r[i].sock = k] /\ u \in Worlds /\ u.g = w.g
  /\ \A j \in Sockets : u.l[j] = IF j = old THEN [w.l[j] EXCEPT !.map = Nobody] ELSE w.l[j]
  /\ \A x \in Ids : u.r[x] = IF x = i THEN [w.r[x] EXCEPT !.sock = k] ELSE w.r[x]

LEMMA FreedIs ==
  ASSUME NEW w \in Worlds, NEW i \in Ids, NEW old \in Sockets, NEW k \in Sockets
  PROVE  \E u : IsFreed(w, i, old, k, u)
<1> DEFINE entry == [w.l[old] EXCEPT !.map = Nobody]
           stub == [w.r[i] EXCEPT !.sock = k]
           l1 == [w.l EXCEPT ![old] = entry]
           r1 == [w.r EXCEPT ![i] = stub]
<1>0. PICK u : u = [w EXCEPT !.l[old].map = Nobody, !.r[i].sock = k]
  OBVIOUS
<1>1. w.l \in [Sockets -> LinkRow] /\ w.r \in [Ids -> StubRow] /\ w.g \in [Ids -> RegRow]
  BY DEF Worlds
<1>2. entry \in LinkRow /\ stub \in StubRow
  BY <1>1 DEF LinkRow, StubRow
<1>3. /\ l1 \in [Sockets -> LinkRow] /\ r1 \in [Ids -> StubRow]
      /\ \A j \in Sockets : l1[j] = IF j = old THEN entry ELSE w.l[j]
      /\ \A x \in Ids : r1[x] = IF x = i THEN stub ELSE w.r[x]
  <2> HIDE DEF entry, stub
  <2> QED BY <1>1, <1>2
<1>4. u = [w EXCEPT !.l = l1, !.r = r1]
  BY <1>0, <1>1 DEF Worlds
<1> HIDE DEF l1, r1
<1>5. u.l = l1 /\ u.r = r1 /\ u.g = w.g /\ u \in Worlds
  BY <1>3, <1>4 DEF Worlds
<1>6. \A j \in Sockets : u.l[j] = IF j = old THEN [w.l[j] EXCEPT !.map = Nobody] ELSE w.l[j]
  BY <1>3, <1>5
<1>7. \A x \in Ids : u.r[x] = IF x = i THEN [w.r[x] EXCEPT !.sock = k] ELSE w.r[x]
  BY <1>3, <1>5
<1>8. IsFreed(w, i, old, k, u)
  BY <1>0, <1>5, <1>6, <1>7 DEF IsFreed
<1> QED BY <1>8

\* What a resume finds once the socket before it has been closed.
MadeRoom(w, i, k, d) ==
  /\ d.l[k] = w.l[k]
  /\ \A j \in Sockets : d.l[j].map = i => d.l[j].astray
  /\ d.r[i].here = w.r[i].here /\ d.r[i].released = w.r[i].released /\ d.r[i].online = w.r[i].online
  /\ d.r[i].here /\ d.r[i].online => d.r[i].sock # NoSocket /\ (d.r[i].sock = k \/ d.l[d.r[i].sock].deaf)

LEMMA KickFits ==
  ASSUME NEW w, FitsBut(w, {}), NEW i \in Ids, NEW k \in Sockets, w.l[k].st = "open", w.l[k].map = Nobody,
         ~w.l[k].deaf, StubOf[w.l[k].of] = i
  PROVE  LET d == Kicked(w, i, k) IN FitsBut(d, {i}) /\ RegMoves(w.g, d.g) /\ MadeRoom(w, i, k, d)
<1> USE RegistryBounds
<1> DEFINE d == Kicked(w, i, k)
<1>0. PICK old : old = w.r[i].sock
  OBVIOUS
<1>1. /\ w \in Worlds /\ (\A j \in Sockets : LinkFits(w, j)) /\ (\A x \in Ids : RowFits(w, x) /\ OnlineFits(w, x))
      /\ w.l \in [Sockets -> LinkRow] /\ w.r \in [Ids -> StubRow] /\ w.g \in [Ids -> RegRow]
      /\ old \in Sockets \cup {NoSocket}
  BY <1>0 DEF FitsBut, Worlds, StubRow
<1>2. CASE ~w.r[i].here \/ old \in {NoSocket, k} \/ w.l[old].st # "open"
  <2>1. d = w
    BY <1>0, <1>2 DEF Kicked
  <2>2. FitsBut(w, {i}) /\ RegMoves(w.g, w.g)
    BY <1>1 DEF FitsBut, RegMoves, RegRow
  <2>3. ASSUME NEW j \in Sockets, w.l[j].map = i PROVE w.l[j].astray
    <3>1. LinkFits(w, j) /\ i # Nobody
      BY <1>1
    <3>2. ~w.l[j].astray => w.r[i].here /\ old = j /\ w.l[j].st = "open" /\ j # k /\ j # NoSocket
      BY <1>0, <2>3, <3>1 DEF LinkFits
    <3> QED BY <1>2, <3>2
  <2>4. w.r[i].here /\ w.r[i].online => old # NoSocket /\ (old = k \/ w.l[old].deaf)
    BY <1>0, <1>1, <1>2 DEF OnlineFits
  <2> QED BY <1>0, <2>1, <2>2, <2>3, <2>4 DEF MadeRoom
<1>3. CASE ~(~w.r[i].here \/ old \in {NoSocket, k} \/ w.l[old].st # "open")
  <2>0. old \in Sockets
    BY <1>1, <1>3
  <2>u. PICK u : IsFreed(w, i, old, k, u)
    BY <1>1, <2>0, FreedIs
  <2> DEFINE f == Unregistered(u, i, old)
  <2>1. d = Disconnected(f, old)
    BY <1>0, <1>3, <2>u DEF Kicked, IsFreed
  <2>2. w.r[i].here /\ old \in Sockets \ {k} /\ w.l[old].st = "open" /\ old # NoSocket
    BY <1>1, <1>3
  <2>3. /\ u \in Worlds /\ u.g = w.g
        /\ \A j \in Sockets : u.l[j] = IF j = old THEN [w.l[j] EXCEPT !.map = Nobody] ELSE w.l[j]
        /\ \A x \in Ids : u.r[x] = IF x = i THEN [w.r[x] EXCEPT !.sock = k] ELSE w.r[x]
    BY <2>u DEF IsFreed
  <2>4. /\ f \in Worlds /\ f.l = u.l /\ f.r = u.r
        /\ \A x \in Ids : f.g[x] = IF x = i /\ w.g[i].sock = old THEN [sock |-> NoSocket, gen |-> w.g[x].gen] ELSE w.g[x]
    <3> QED BY <2>2, <2>3, UnregisteredIs
  <2> HIDE DEF f, d
  <2>5. /\ f.l \in [Sockets -> LinkRow] /\ f.r \in [Ids -> StubRow]
        /\ f.l[old].map = Nobody /\ f.l[old].st = "open"
        /\ \A j \in Sockets : /\ f.l[j].of = w.l[j].of /\ f.l[j].st = w.l[j].st /\ f.l[j].deaf = w.l[j].deaf
                              /\ f.l[j].astray = w.l[j].astray /\ (j # old => f.l[j] = w.l[j])
    <3>1. f.l \in [Sockets -> LinkRow] /\ f.r \in [Ids -> StubRow]
      BY <2>4 DEF Worlds
    <3>2. ASSUME NEW j \in Sockets
          PROVE  /\ f.l[j].of = w.l[j].of /\ f.l[j].st = w.l[j].st /\ f.l[j].deaf = w.l[j].deaf
                 /\ f.l[j].astray = w.l[j].astray /\ (j # old => f.l[j] = w.l[j])
                 /\ (j = old => f.l[j].map = Nobody)
      <4>1. w.l[j] \in LinkRow /\ f.l[j] = IF j = old THEN [w.l[j] EXCEPT !.map = Nobody] ELSE w.l[j]
        BY <1>1, <2>3, <2>4
      <4> QED BY <4>1 DEF LinkRow
    <3> QED BY <2>2, <3>1, <3>2
  <2>6. /\ f.r[i].sock = k /\ f.r[i].here = w.r[i].here /\ f.r[i].released = w.r[i].released
        /\ f.r[i].online = w.r[i].online /\ \A x \in Ids \ {i} : f.r[x] = w.r[x] /\ f.g[x] = w.g[x]
    <3>1. w.r[i] \in StubRow /\ f.r[i] = [w.r[i] EXCEPT !.sock = k]
      BY <1>1, <2>3, <2>4
    <3>2. \A x \in Ids \ {i} : f.r[x] = w.r[x] /\ f.g[x] = w.g[x]
      BY <2>3, <2>4
    <3> QED BY <3>1, <3>2 DEF StubRow
  <2>7. ASSUME NEW j \in Sockets PROVE LinkFits(f, j) /\ (f.l[j].map = i => f.l[j].astray)
    <3>1. LinkFits(w, j) /\ w.l[j].map \in Ids \cup {Nobody} /\ i # Nobody
      BY <1>1 DEF LinkRow
    <3>2. CASE j = old
      BY <2>5, <3>1, <3>2 DEF LinkFits
    <3>3. CASE j # old /\ w.l[j].map = i
      <4>1. w.l[j].astray
        BY <1>0, <3>1, <3>3 DEF LinkFits
      <4> QED BY <2>5, <3>1, <3>3, <4>1 DEF LinkFits
    <3>4. CASE j # old /\ w.l[j].map # i
      <4>1. f.l[j] = w.l[j] /\ (w.l[j].map # Nobody => f.r[w.l[j].map] = w.r[w.l[j].map])
        BY <2>5, <2>6, <3>1, <3>4
      <4> QED BY <3>1, <3>4, <4>1 DEF LinkFits
    <3> QED BY <3>2, <3>3, <3>4
  <2>8. ASSUME NEW x \in Ids PROVE RowFits(f, x)
    <3>1. RowFits(w, x) /\ w.r[x].sock \in Sockets \cup {NoSocket} /\ w.l[k].st = "open" /\ StubOf[w.l[k].of] = i
      BY <1>1 DEF StubRow
    <3>2. CASE x = i
      BY <2>5, <2>6, <3>1, <3>2 DEF RowFits
    <3>3. CASE x # i
      <4>1. w.r[x].sock # NoSocket => f.l[w.r[x].sock].st = w.l[w.r[x].sock].st /\ f.l[w.r[x].sock].of = w.l[w.r[x].sock].of
        BY <2>5, <3>1
      <4> QED BY <2>6, <3>1, <3>3, <4>1 DEF RowFits
    <3> QED BY <3>2, <3>3
  <2>9. ASSUME NEW x \in Ids \ {i} PROVE OnlineFits(f, x)
    <3>1. OnlineFits(w, x) /\ RowFits(w, x) /\ RowFits(w, i) /\ w.r[x].sock \in Sockets \cup {NoSocket}
      BY <1>1 DEF StubRow
    <3>2. w.r[x].sock # NoSocket => w.r[x].sock # old
      BY <1>0, <2>2, <3>1 DEF RowFits
    <3>3. w.r[x].sock # NoSocket => f.l[w.r[x].sock] = w.l[w.r[x].sock]
      BY <2>5, <3>1, <3>2
    <3> QED BY <2>6, <3>1, <3>3 DEF OnlineFits
  <2>10. FitsBut(f, {i})
    BY <2>4, <2>7, <2>8, <2>9 DEF FitsBut
  <2>11. FitsBut(d, {i}) /\ RegMoves(f.g, d.g)
    <3> QED BY <2>1, <2>2, <2>5, <2>10, DisconnectFits
  <2>12. RegMoves(w.g, f.g)
    <3>1. ASSUME NEW x \in Ids PROVE f.g[x].gen = w.g[x].gen /\ f.g[x].sock \in {w.g[x].sock, NoSocket}
      <4>1. CASE x = i /\ w.g[i].sock = old
        <5>1. f.g[x] = [sock |-> NoSocket, gen |-> w.g[x].gen]
          BY <2>4, <4>1
        <5> QED BY <5>1
      <4>2. CASE ~(x = i /\ w.g[i].sock = old)
        <5>1. f.g[x] = w.g[x]
          BY <2>4, <4>2
        <5> QED BY <5>1
      <4> QED BY <4>1, <4>2
    <3> QED BY <3>1 DEF RegMoves
  <2>13. RegMoves(w.g, d.g)
    <3>1. ASSUME NEW x \in Ids PROVE w.g[x].gen \in Nat /\ f.g[x].gen \in Nat /\ d.g[x].gen \in Nat
      BY <1>1, <2>4, <2>11 DEF FitsBut, Worlds, RegRow
    <3> QED BY <2>11, <2>12, <3>1 DEF RegMoves
  <2>14. IsDisconnected(f, old, d)
    <3> QED BY <2>1, <2>2, <2>4, DisconnectedIs
  <2>15. d.r[i] = f.r[i] /\ (\A j \in Sockets \ {old} : d.l[j] = f.l[j]) /\ d.l[old].map = Nobody
    <3>1. \A j \in Sockets \ {old} : d.l[j] = f.l[j]
      BY <2>14 DEF IsDisconnected
    <3>2. d.r[i] = f.r[i]
      BY <2>5, <2>14 DEF IsDisconnected
    <3>3. d.l[old] = [f.l[old] EXCEPT !.st = "closed", !.map = Nobody] /\ f.l[old] \in LinkRow
      BY <2>2, <2>5, <2>14 DEF IsDisconnected
    <3>4. d.l[old].map = Nobody
      BY <3>3 DEF LinkRow
    <3> QED BY <3>1, <3>2, <3>4
  <2>16. \A j \in Sockets : d.l[j].map = i => d.l[j].astray
    BY <2>7, <2>15
  <2>17. d.l[k] = w.l[k] /\ d.r[i].sock = k
    BY <2>2, <2>5, <2>6, <2>15
  <2>18. MadeRoom(w, i, k, d)
    BY <2>6, <2>15, <2>16, <2>17 DEF MadeRoom
  <2> QED BY <2>11, <2>13, <2>18 DEF d
<1> QED BY <1>2, <1>3 DEF d

\* Whoever resumes last has the identity to itself.
LEMMA SettledFits ==
  ASSUME NEW i \in Ids, NEW k \in Sockets, NEW d, FitsBut(d, {i}), d.l[k].st = "open", d.l[k].map = Nobody,
         StubOf[d.l[k].of] = i, \A j \in Sockets : d.l[j].map = i => d.l[j].astray,
         NEW z \in Worlds, \A j \in Sockets \ {k} : z.l[j] = d.l[j], z.l[k].st = "open", z.l[k].of = d.l[k].of,
         \A x \in Ids \ {i} : z.r[x] = d.r[x] /\ z.g[x] = d.g[x], z.g[i].gen = d.g[i].gen + 1,
         LinkFits(z, k), RowFits(z, i), OnlineFits(z, i)
  PROVE  FitsBut(z, {}) /\ RegMoves(d.g, z.g)
<1> USE RegistryBounds
<1>1. /\ (\A j \in Sockets : LinkFits(d, j)) /\ (\A x \in Ids : RowFits(d, x)) /\ \A x \in Ids \ {i} : OnlineFits(d, x)
      /\ d.l \in [Sockets -> LinkRow] /\ d.r \in [Ids -> StubRow] /\ d.g \in [Ids -> RegRow] /\ z.g \in [Ids -> RegRow]
  BY DEF FitsBut, Worlds
<1>2. ASSUME NEW j \in Sockets PROVE LinkFits(z, j)
  <2>1. LinkFits(d, j) /\ d.l[j].map \in Ids \cup {Nobody}
    BY <1>1 DEF LinkRow
  <2>2. CASE j # k /\ d.l[j].map = i
    <3>1. z.l[j] = d.l[j] /\ d.l[j].astray
      BY <2>2
    <3> QED BY <2>1, <2>2, <3>1 DEF LinkFits
  <2>3. CASE j # k /\ d.l[j].map # i
    <3>1. z.l[j] = d.l[j] /\ (d.l[j].map # Nobody => z.r[d.l[j].map] = d.r[d.l[j].map])
      BY <2>1, <2>3
    <3> QED BY <2>1, <2>3, <3>1 DEF LinkFits
  <2> QED BY <2>2, <2>3
<1>3. ASSUME NEW x \in Ids \ {i} PROVE RowFits(z, x) /\ OnlineFits(z, x)
  <2>1. RowFits(d, x) /\ OnlineFits(d, x) /\ d.r[x].sock \in Sockets \cup {NoSocket} /\ z.r[x] = d.r[x] /\ z.g[x] = d.g[x]
    BY <1>1 DEF StubRow
  <2>2. d.r[x].sock # NoSocket => d.r[x].sock # k
    BY <2>1 DEF RowFits
  <2>3. d.r[x].sock # NoSocket => z.l[d.r[x].sock] = d.l[d.r[x].sock]
    BY <2>1, <2>2
  <2> QED BY <2>1, <2>3 DEF RowFits, OnlineFits
<1>4. RegMoves(d.g, z.g)
  <2>1. \A x \in Ids : d.g[x].gen \in Nat /\ z.g[x].gen \in Nat
    BY <1>1 DEF RegRow
  <2> QED BY <2>1 DEF RegMoves
<1> QED BY <1>2, <1>3, <1>4 DEF FitsBut

LEMMA RegisteredIs ==
  ASSUME NEW w \in Worlds, NEW i \in Ids, NEW k \in Sockets
  PROVE  LET z == Registered(w, i, k)
         IN  /\ z \in Worlds /\ z.l = w.l /\ z.r = w.r /\ z.g[i].sock = k /\ z.g[i].gen = w.g[i].gen + 1
             /\ \A x \in Ids \ {i} : z.g[x] = w.g[x]
<1> DEFINE entry == [sock |-> k, gen |-> w.g[i].gen + 1]
           g1 == [w.g EXCEPT ![i] = entry]
           z == Registered(w, i, k)
<1>1. w.g \in [Ids -> RegRow] /\ entry \in RegRow /\ entry.sock = k /\ entry.gen = w.g[i].gen + 1
  BY DEF Worlds, RegRow
<1>2. z = [w EXCEPT !.g = g1]
  BY <1>1 DEF Registered, Worlds
<1> HIDE DEF entry
<1>3. g1 \in [Ids -> RegRow] /\ g1[i] = entry /\ \A x \in Ids \ {i} : g1[x] = w.g[x]
  BY <1>1
<1> HIDE DEF g1, z
<1>4. z \in Worlds /\ z.l = w.l /\ z.r = w.r /\ z.g = g1
  BY <1>2, <1>3 DEF Worlds
<1> QED BY <1>1, <1>3, <1>4 DEF z

\* The conditions under which a resume goes on.
Room(d, i, k) ==
  /\ i \in Ids /\ k \in Sockets /\ FitsBut(d, {i}) /\ ~d.r[i].released
  /\ d.l[k].st = "open" /\ d.l[k].map = Nobody /\ StubOf[d.l[k].of] = i /\ d.l[k].of \in Daemons
  /\ \A j \in Sockets : d.l[j].map = i => d.l[j].astray
  /\ d.r[i].here /\ d.r[i].online => d.r[i].sock # NoSocket /\ (d.r[i].sock = k \/ d.l[d.r[i].sock].deaf)

LEMMA JoinFits ==
  ASSUME NEW d, NEW i, NEW k, Room(d, i, k), ~d.l[k].deaf, NEW busy \in BOOLEAN
  PROVE  LET z == Joined(Registered(d, i, k), i, k, busy) IN FitsBut(z, {}) /\ RegMoves(d.g, z.g)
<1> USE RegistryBounds
<1> DEFINE z == Joined(Registered(d, i, k), i, k, busy)
<1>1. PICK w : w = Registered(d, i, k)
  OBVIOUS
<1>2. /\ d \in Worlds /\ i \in Ids /\ k \in Sockets /\ w \in Worlds /\ w.l = d.l /\ w.r = d.r /\ w.g[i].sock = k
      /\ w.g[i].gen = d.g[i].gen + 1 /\ \A x \in Ids \ {i} : w.g[x] = d.g[x]
  BY <1>1, RegisteredIs DEF Room, FitsBut
<1> DEFINE entry == [w.l[k] EXCEPT !.map = i]
           stub == [w.r[i] EXCEPT !.here = TRUE, !.online = TRUE, !.sock = k, !.busy = busy, !.sync = k]
           l1 == [w.l EXCEPT ![k] = entry]
           r1 == [w.r EXCEPT ![i] = stub]
<1>3. /\ w.l \in [Sockets -> LinkRow] /\ w.r \in [Ids -> StubRow] /\ w.g \in [Ids -> RegRow]
      /\ w.l[k] \in LinkRow /\ w.r[i] \in StubRow
  BY <1>2 DEF Worlds
<1>4. /\ entry \in LinkRow /\ entry.map = i /\ entry.st = w.l[k].st /\ entry.of = w.l[k].of /\ entry.deaf = w.l[k].deaf
      /\ stub \in StubRow /\ stub.here /\ stub.online /\ stub.sock = k /\ stub.released = w.r[i].released
  <2>1. entry \in LinkRow /\ entry.map = i /\ entry.st = w.l[k].st /\ entry.of = w.l[k].of /\ entry.deaf = w.l[k].deaf
    BY <1>2, <1>3 DEF LinkRow
  <2>2. stub \in StubRow /\ stub.here /\ stub.online /\ stub.sock = k /\ stub.released = w.r[i].released
    BY <1>2, <1>3 DEF StubRow
  <2> QED BY <2>1, <2>2
<1>5. z = [w EXCEPT !.l = l1, !.r = r1]
  BY <1>1, <1>2, <1>3 DEF Joined, Worlds
<1> HIDE DEF z, entry, stub
<1>6. /\ l1 \in [Sockets -> LinkRow] /\ l1[k] = entry /\ (\A j \in Sockets \ {k} : l1[j] = w.l[j])
      /\ r1 \in [Ids -> StubRow] /\ r1[i] = stub /\ (\A x \in Ids \ {i} : r1[x] = w.r[x])
  BY <1>2, <1>3, <1>4
<1> HIDE DEF l1, r1
<1>7. z \in Worlds /\ z.l = l1 /\ z.r = r1 /\ z.g = w.g
  BY <1>2, <1>5, <1>6 DEF Worlds
<1>8. LinkFits(z, k)
  BY <1>2, <1>4, <1>6, <1>7 DEF LinkFits, Room
<1>9. RowFits(z, i) /\ OnlineFits(z, i)
  BY <1>2, <1>4, <1>6, <1>7 DEF RowFits, OnlineFits, Room
<1> QED BY <1>2, <1>4, <1>6, <1>7, <1>8, <1>9, SettledFits DEF Room, z

\* The allocation has ended: the row is kept, released, and its socket is closed.
TurnedAway(w, i, k, busy) ==
  [w EXCEPT !.r[i] = [@ EXCEPT !.here = TRUE, !.online = FALSE, !.sock = k, !.busy = busy, !.released = TRUE]]

LEMMA TurnedAwayFits ==
  ASSUME NEW d, NEW i, NEW k, Room(d, i, k), NEW busy \in BOOLEAN
  PROVE  LET z == TurnedAway(Registered(d, i, k), i, k, busy)
         IN  FitsBut(z, {}) /\ RegMoves(d.g, z.g) /\ z.l[k].st = "open"
<1> USE RegistryBounds
<1> DEFINE z == TurnedAway(Registered(d, i, k), i, k, busy)
<1>1. PICK w : w = Registered(d, i, k)
  OBVIOUS
<1>2. /\ d \in Worlds /\ i \in Ids /\ k \in Sockets /\ w \in Worlds /\ w.l = d.l /\ w.r = d.r /\ w.g[i].sock = k
      /\ w.g[i].gen = d.g[i].gen + 1 /\ \A x \in Ids \ {i} : w.g[x] = d.g[x]
  BY <1>1, RegisteredIs DEF Room, FitsBut
<1> DEFINE stub == [w.r[i] EXCEPT !.here = TRUE, !.online = FALSE, !.sock = k, !.busy = busy, !.released = TRUE]
           r1 == [w.r EXCEPT ![i] = stub]
<1>3. /\ w.l \in [Sockets -> LinkRow] /\ w.r \in [Ids -> StubRow] /\ w.g \in [Ids -> RegRow]
      /\ w.l[k] \in LinkRow /\ w.r[i] \in StubRow
  BY <1>2 DEF Worlds
<1>4. stub \in StubRow /\ stub.here /\ ~stub.online /\ stub.sock = k
  BY <1>2, <1>3 DEF StubRow
<1>5. z = [w EXCEPT !.r = r1]
  BY <1>1, <1>2, <1>3 DEF TurnedAway, Worlds
<1> HIDE DEF z, stub
<1>6. r1 \in [Ids -> StubRow] /\ r1[i] = stub /\ (\A x \in Ids \ {i} : r1[x] = w.r[x])
  BY <1>2, <1>3, <1>4
<1> HIDE DEF r1
<1>7. z \in Worlds /\ z.l = w.l /\ z.r = r1 /\ z.g = w.g
  BY <1>2, <1>5, <1>6 DEF Worlds
<1>8. LinkFits(z, k)
  BY <1>2, <1>7 DEF LinkFits, Room
<1>9. RowFits(z, i) /\ OnlineFits(z, i)
  BY <1>2, <1>4, <1>6, <1>7 DEF RowFits, OnlineFits, Room
<1>10. \A x \in Ids \ {i} : z.r[x] = d.r[x] /\ z.g[x] = d.g[x]
  BY <1>2, <1>6, <1>7
<1>11. FitsBut(z, {}) /\ RegMoves(d.g, z.g)
  BY <1>2, <1>7, <1>8, <1>9, <1>10, SettledFits DEF Room
<1> QED BY <1>2, <1>7, <1>11 DEF Room, z

\* Nobody knows whether the allocation has ended: the handler throws, and the socket stays deaf.
Deafened(w, i, k, busy) == [w EXCEPT !.l[k].deaf = TRUE, !.r[i].busy = busy]

LEMMA DeafFits ==
  ASSUME NEW d, NEW i, NEW k, Room(d, i, k), NEW busy \in BOOLEAN
  PROVE  LET z == Deafened(Registered(d, i, k), i, k, busy) IN FitsBut(z, {}) /\ RegMoves(d.g, z.g)
<1> USE RegistryBounds
<1> DEFINE z == Deafened(Registered(d, i, k), i, k, busy)
<1>1. PICK w : w = Registered(d, i, k)
  OBVIOUS
<1>2. /\ d \in Worlds /\ i \in Ids /\ k \in Sockets /\ w \in Worlds /\ w.l = d.l /\ w.r = d.r /\ w.g[i].sock = k
      /\ w.g[i].gen = d.g[i].gen + 1 /\ \A x \in Ids \ {i} : w.g[x] = d.g[x]
  BY <1>1, RegisteredIs DEF Room, FitsBut
<1> DEFINE entry == [w.l[k] EXCEPT !.deaf = TRUE]
           stub == [w.r[i] EXCEPT !.busy = busy]
           l1 == [w.l EXCEPT ![k] = entry]
           r1 == [w.r EXCEPT ![i] = stub]
<1>3. /\ w.l \in [Sockets -> LinkRow] /\ w.r \in [Ids -> StubRow] /\ w.g \in [Ids -> RegRow]
      /\ w.l[k] \in LinkRow /\ w.r[i] \in StubRow
  BY <1>2 DEF Worlds
<1>4. /\ entry \in LinkRow /\ entry.map = w.l[k].map /\ entry.st = w.l[k].st /\ entry.of = w.l[k].of /\ entry.deaf
      /\ stub \in StubRow /\ stub.here = w.r[i].here /\ stub.online = w.r[i].online /\ stub.sock = w.r[i].sock
      /\ stub.released = w.r[i].released
  <2>1. entry \in LinkRow /\ entry.map = w.l[k].map /\ entry.st = w.l[k].st /\ entry.of = w.l[k].of /\ entry.deaf
    BY <1>2, <1>3 DEF LinkRow
  <2>2. /\ stub \in StubRow /\ stub.here = w.r[i].here /\ stub.online = w.r[i].online /\ stub.sock = w.r[i].sock
           /\ stub.released = w.r[i].released
    BY <1>2, <1>3 DEF StubRow
  <2> QED BY <2>1, <2>2
<1>5. z = [w EXCEPT !.l = l1, !.r = r1]
  BY <1>1, <1>2, <1>3 DEF Deafened, Worlds
<1> HIDE DEF z, entry, stub
<1>6. /\ l1 \in [Sockets -> LinkRow] /\ l1[k] = entry /\ (\A j \in Sockets \ {k} : l1[j] = w.l[j])
      /\ r1 \in [Ids -> StubRow] /\ r1[i] = stub /\ (\A x \in Ids \ {i} : r1[x] = w.r[x])
  BY <1>2, <1>3, <1>4
<1> HIDE DEF l1, r1
<1>7. z \in Worlds /\ z.l = l1 /\ z.r = r1 /\ z.g = w.g
  BY <1>2, <1>5, <1>6 DEF Worlds
<1>8. LinkFits(z, k)
  BY <1>2, <1>4, <1>6, <1>7 DEF LinkFits, Room
<1>9. RowFits(z, i) /\ OnlineFits(z, i)
  <2>1. RowFits(d, i) /\ d.r[i].sock \in Sockets \cup {NoSocket}
    BY <1>2, <1>3 DEF Room, FitsBut, StubRow
  <2>2. ASSUME NEW j \in Sockets PROVE z.l[j].st = d.l[j].st /\ z.l[j].of = d.l[j].of /\ (d.l[j].deaf \/ j = k => z.l[j].deaf)
    BY <1>2, <1>4, <1>6, <1>7
  <2>3. RowFits(z, i)
    BY <1>2, <1>4, <1>6, <1>7, <2>1, <2>2 DEF RowFits
  <2>4. OnlineFits(z, i)
    BY <1>2, <1>4, <1>6, <1>7, <2>1, <2>2 DEF OnlineFits, Room
  <2> QED BY <2>3, <2>4
<1>10. \A x \in Ids \ {i} : z.r[x] = d.r[x] /\ z.g[x] = d.g[x]
  BY <1>2, <1>6, <1>7
<1>11. (\A j \in Sockets \ {k} : z.l[j] = d.l[j]) /\ z.l[k].st = "open" /\ z.l[k].of = d.l[k].of
  BY <1>2, <1>4, <1>6, <1>7 DEF Room
<1> QED BY <1>2, <1>7, <1>8, <1>9, <1>10, <1>11, SettledFits DEF Room, z

LEMMA CallsStay ==
  ASSUME \A c \in Calls : CallFits(c), call \in [Calls -> CallRow], call' = call,
         reg \in [Ids -> RegRow], reg' \in [Ids -> RegRow], RegMoves(reg, reg')
  PROVE  \A c \in Calls : CallFits(c)'
<1> SUFFICES ASSUME NEW c \in Calls, call[c].pc \in {"sent", "delay"} PROVE CallFits(c)'
  BY DEF CallFits
<1>1. CallFits(c) /\ call[c].to \in Ids /\ call[c] \in CallRow
  BY DEF CallFits
<1>2. /\ reg[call[c].to].gen \in Nat /\ reg'[call[c].to].gen \in Nat /\ call[c].gen \in Nat
      /\ reg[call[c].to] \in RegRow /\ reg'[call[c].to] \in RegRow
  BY <1>1 DEF RegRow, CallRow
<1> DEFINE i == call[c].to
<1>3. reg'[i].gen > reg[i].gen \/ (reg'[i].gen = reg[i].gen /\ reg'[i].sock \in {reg[i].sock, NoSocket})
  BY <1>1 DEF RegMoves
<1>4. call[c].gen <= reg'[i].gen
  BY <1>1, <1>2, <1>3 DEF CallFits
<1>5. reg'[i].gen = call[c].gen => reg'[i].sock \in {call[c].began, NoSocket}
  <2>1. reg'[i].gen = call[c].gen => reg[i].gen = call[c].gen /\ reg'[i].sock \in {reg[i].sock, NoSocket}
    BY <1>1, <1>2, <1>3 DEF CallFits
  <2> QED BY <1>1, <2>1 DEF CallFits
<1> QED BY <1>1, <1>4, <1>5 DEF CallFits

\* A step that leaves every stub in order and drops or renews registrations.
LEMMA WorldMoves ==
  ASSUME RegistryInv, NEW w, FitsBut(w, {}), RegMoves(reg, w.g), Become3(w), call' = call, server' \in ServerRow
  PROVE  RegistryInv'
<1>1. w \in Worlds /\ link' = w.l /\ row' = w.r /\ reg' = w.g
  BY DEF FitsBut, Become3
<1>2. World' = w
  BY <1>1 DEF World, Worlds
<1>3. reg \in [Ids -> RegRow] /\ reg' \in [Ids -> RegRow]
  BY <1>1 DEF RegistryInv, FitsBut, World, Worlds
<1>4. \A c \in Calls : CallFits(c)'
  BY <1>1, <1>3, CallsStay DEF RegistryInv
<1>5. FitsBut(World, {})'
  BY <1>2
<1> QED BY <1>4, <1>5 DEF RegistryInv

LEMMA TurnTyped == server \in ServerRow /\ Turn => server' \in ServerRow
BY RegistryBounds DEF ServerRow, Turn

LEMMA WorldTyped ==
  ASSUME RegistryInv
  PROVE  /\ link \in [Sockets -> LinkRow] /\ row \in [Ids -> StubRow] /\ reg \in [Ids -> RegRow]
         /\ World.l = link /\ World.r = row /\ World.g = reg /\ World \in Worlds /\ FitsBut(World, {})
         /\ server \in ServerRow /\ call \in [Calls -> CallRow] /\ \A c \in Calls : CallFits(c)
         /\ \A k \in Sockets : LinkFits(World, k)
         /\ \A i \in Ids : RowFits(World, i) /\ OnlineFits(World, i)
BY DEF RegistryInv, FitsBut, World, Worlds

LEMMA StaysPut == ASSUME RegistryInv PROVE RegMoves(reg, reg)
BY WorldTyped DEF RegMoves, RegRow

\* Rows change in what they say of tasks and timers, go offline, or are no longer released.
LEMMA RowsFit ==
  ASSUME RegistryInv, NEW r \in [Ids -> StubRow],
         \A i \in Ids : /\ r[i].here = row[i].here /\ r[i].sock = row[i].sock
                        /\ (r[i].online => row[i].online) /\ (r[i].released => row[i].released)
  PROVE  FitsBut([World EXCEPT !.r = r], {})
<1> DEFINE w == [World EXCEPT !.r = r]
<1>1. w \in Worlds /\ w.l = World.l /\ w.r = r /\ w.g = World.g
  BY WorldTyped DEF Worlds
<1> HIDE DEF w
<1>2. ASSUME NEW k \in Sockets PROVE LinkFits(w, k)
  <2>1. LinkFits(World, k) /\ World.l[k].map \in Ids \cup {Nobody} /\ World.r = row
    BY WorldTyped DEF LinkRow
  <2> QED BY <1>1, <2>1 DEF LinkFits
<1>3. ASSUME NEW i \in Ids PROVE RowFits(w, i) /\ OnlineFits(w, i)
  <2>1. RowFits(World, i) /\ OnlineFits(World, i) /\ World.r = row
    BY WorldTyped
  <2> QED BY <1>1, <2>1 DEF RowFits, OnlineFits
<1> QED BY <1>1, <1>2, <1>3 DEF FitsBut, w

LEMMA RowsStep ==
  ASSUME RegistryInv, row' \in [Ids -> StubRow], UNCHANGED <<link, reg, call>>, server' \in ServerRow,
         \A i \in Ids : /\ row'[i].here = row[i].here /\ row'[i].sock = row[i].sock
                        /\ (row'[i].online => row[i].online) /\ (row'[i].released => row[i].released)
  PROVE  RegistryInv'
<1> DEFINE w == [World EXCEPT !.r = row']
<1>1. FitsBut(w, {})
  BY RowsFit
<1>2. Become3(w) /\ w.g = reg
  BY WorldTyped DEF Become3, Worlds
<1> HIDE DEF w
<1>3. RegMoves(reg, w.g)
  BY <1>2, StaysPut
<1> QED BY <1>1, <1>2, <1>3, WorldMoves

LEMMA RowStep ==
  ASSUME RegistryInv, NEW i \in Ids,
         HeartbeatTimeout(i) \/ FailTimer(i) \/ SyncInterval(i) \/ TaskBegins(i) \/ UnreleaseStub(i)
  PROVE  RegistryInv'
<1>1. UNCHANGED <<link, reg, call>> /\ server' \in ServerRow
  BY TurnTyped, WorldTyped DEF HeartbeatTimeout, FailTimer, SyncInterval, TaskBegins, UnreleaseStub
<1>2. row \in [Ids -> StubRow] /\ row[i] \in StubRow
  BY WorldTyped
<1>3. PICK entry \in StubRow : /\ row' = [row EXCEPT ![i] = entry]
                               /\ entry.here = row[i].here /\ entry.sock = row[i].sock
                               /\ (entry.online => row[i].online) /\ (entry.released => row[i].released)
  <2>1. CASE HeartbeatTimeout(i)
    <3> DEFINE entry == [row[i] EXCEPT !.online = FALSE]
    <3>1. row' = [row EXCEPT ![i] = entry] /\ entry \in StubRow
      BY <1>2, <2>1 DEF HeartbeatTimeout, StubRow
    <3>2. entry.here = row[i].here /\ entry.sock = row[i].sock /\ ~entry.online /\ entry.released = row[i].released
      BY <1>2 DEF StubRow
    <3> HIDE DEF entry
    <3> QED BY <3>1, <3>2
  <2>2. CASE FailTimer(i)
    <3> DEFINE on == row[i].busy /\ row[i].online
               entry == [row[i] EXCEPT !.timer = FALSE, !.busy = on]
    <3>0. on \in BOOLEAN
      BY Zenon
    <3>1. row' = [row EXCEPT ![i] = entry]
      BY <1>2, <2>2 DEF FailTimer, StubRow
    <3>2. /\ entry \in StubRow /\ entry.here = row[i].here /\ entry.sock = row[i].sock
          /\ entry.online = row[i].online /\ entry.released = row[i].released
      <4> HIDE DEF on
      <4> QED BY <1>2, <3>0 DEF StubRow
    <3> HIDE DEF entry
    <3> QED BY <3>1, <3>2
  <2>3. CASE SyncInterval(i)
    <3>1. \E entry \in {[row[i] EXCEPT !.busy = FALSE], [row[i] EXCEPT !.sync = NoSocket]} : row' = [row EXCEPT ![i] = entry]
      BY <1>2, <2>3 DEF SyncInterval
    <3>2. \A entry \in {[row[i] EXCEPT !.busy = FALSE], [row[i] EXCEPT !.sync = NoSocket]} :
            /\ entry \in StubRow /\ entry.here = row[i].here /\ entry.sock = row[i].sock
            /\ entry.online = row[i].online /\ entry.released = row[i].released
      BY <1>2 DEF StubRow
    <3> QED BY <3>1, <3>2
  <2>4. CASE TaskBegins(i)
    <3> DEFINE entry == [row[i] EXCEPT !.busy = TRUE]
    <3>1. row' = [row EXCEPT ![i] = entry] /\ entry \in StubRow
      BY <1>2, <2>4 DEF TaskBegins, StubRow
    <3>2. entry.here = row[i].here /\ entry.sock = row[i].sock /\ entry.online = row[i].online /\ entry.released = row[i].released
      BY <1>2 DEF StubRow
    <3> HIDE DEF entry
    <3> QED BY <3>1, <3>2
  <2>5. CASE UnreleaseStub(i)
    <3> DEFINE entry == [row[i] EXCEPT !.released = FALSE]
    <3>1. row' = [row EXCEPT ![i] = entry] /\ entry \in StubRow
      BY <1>2, <2>5 DEF UnreleaseStub, StubRow
    <3>2. entry.here = row[i].here /\ entry.sock = row[i].sock /\ entry.online = row[i].online /\ ~entry.released
      BY <1>2 DEF StubRow
    <3> HIDE DEF entry
    <3> QED BY <3>1, <3>2
  <2> QED BY <2>1, <2>2, <2>3, <2>4, <2>5
<1>4. row' \in [Ids -> StubRow] /\ \A x \in Ids : row'[x] = IF x = i THEN entry ELSE row[x]
  BY <1>2, <1>3
<1>5. \A x \in Ids : /\ row'[x].here = row[x].here /\ row'[x].sock = row[x].sock
                     /\ (row'[x].online => row[x].online) /\ (row'[x].released => row[x].released)
  BY <1>3, <1>4
<1> QED BY <1>1, <1>4, <1>5, RowsStep

LEMMA LostStep ==
  ASSUME RegistryInv, NEW k \in Sockets, LinkLost(k)
  PROVE  RegistryInv'
<1> DEFINE d == Disconnected(World, k)
<1>1. link[k].st = "open" /\ Become3(d) /\ call' = call /\ server' \in ServerRow
  BY TurnTyped, WorldTyped DEF LinkLost, Open
<1>2. FitsBut(d, {}) /\ RegMoves(reg, d.g)
  BY <1>1, WorldTyped, DisconnectFits
<1> HIDE DEF d
<1> QED BY <1>1, <1>2, WorldMoves

\* A resume ends the six hours before it looks at anything else.
Resuming(i) == [World EXCEPT !.r[i].timer = FALSE]

LEMMA ResumingFits ==
  ASSUME RegistryInv, NEW i \in Ids
  PROVE  LET w == Resuming(i)
         IN  FitsBut(w, {}) /\ w.l = link /\ w.g = reg /\ w.r[i].here = row[i].here /\ w.r[i].released = row[i].released
<1> DEFINE entry == [row[i] EXCEPT !.timer = FALSE]
           r1 == [row EXCEPT ![i] = entry]
<1>1. row \in [Ids -> StubRow] /\ row[i] \in StubRow
  BY WorldTyped
<1>2. /\ entry \in StubRow /\ entry.here = row[i].here /\ entry.sock = row[i].sock
      /\ entry.online = row[i].online /\ entry.released = row[i].released
  BY <1>1 DEF StubRow
<1>3. Resuming(i) = [World EXCEPT !.r = r1]
  BY WorldTyped DEF Resuming, Worlds
<1> HIDE DEF entry
<1>4. r1 \in [Ids -> StubRow] /\ \A x \in Ids : r1[x] = IF x = i THEN entry ELSE row[x]
  BY <1>1, <1>2
<1> HIDE DEF r1
<1>5. \A x \in Ids : /\ r1[x].here = row[x].here /\ r1[x].sock = row[x].sock
                     /\ (r1[x].online => row[x].online) /\ (r1[x].released => row[x].released)
  BY <1>2, <1>4
<1>6. FitsBut(Resuming(i), {})
  BY <1>3, <1>4, <1>5, RowsFit
<1>7. Resuming(i).l = link /\ Resuming(i).g = reg /\ Resuming(i).r = r1
  BY <1>3, WorldTyped DEF Worlds
<1> QED BY <1>2, <1>4, <1>6, <1>7

LEMMA KickedRoom ==
  ASSUME RegistryInv, NEW k \in Sockets, Open(k), link[k].map = Nobody, ~link[k].deaf,
         NEW i, i = StubOf[link[k].of]
  PROVE  LET d == Kicked(Resuming(i), i, k)
         IN  /\ i \in Ids /\ FitsBut(d, {i}) /\ RegMoves(reg, d.g) /\ d.l[k] = link[k]
             /\ MadeRoom(Resuming(i), i, k, d) /\ (~(row[i].here /\ row[i].released) => Room(d, i, k))
<1> USE RegistryBounds
<1> DEFINE d == Kicked(Resuming(i), i, k)
<1>1. i \in Ids /\ link[k].of \in Daemons /\ link[k].st = "open" /\ RowFits(World, i) /\ World.r = row
  <2>1. LinkFits(World, k) /\ World.l = link
    BY WorldTyped
  <2>2. link[k].of \in Daemons
    BY <2>1 DEF LinkFits, Open
  <2> QED BY <2>2, WorldTyped DEF Open
<1>2. PICK w : w = Resuming(i)
  OBVIOUS
<1>3. FitsBut(w, {}) /\ w.l = link /\ w.g = reg /\ w.r[i].here = row[i].here /\ w.r[i].released = row[i].released
  BY <1>1, <1>2, ResumingFits
<1>4. FitsBut(d, {i}) /\ RegMoves(reg, d.g) /\ MadeRoom(w, i, k, d)
  BY <1>1, <1>2, <1>3, KickFits
<1> HIDE DEF d
<1>5. d.l[k] = link[k] /\ d.r[i].released = row[i].released /\ d.r[i].here = row[i].here
  BY <1>3, <1>4 DEF MadeRoom
<1>6. ~(row[i].here /\ row[i].released) => ~row[i].released
  BY <1>1 DEF RowFits
<1>7. ~(row[i].here /\ row[i].released) => Room(d, i, k)
  BY <1>1, <1>4, <1>5, <1>6 DEF Room, MadeRoom
<1> QED BY <1>1, <1>2, <1>4, <1>5, <1>7 DEF d

LEMMA RegMovesOn ==
  ASSUME NEW g \in [Ids -> RegRow], NEW h \in [Ids -> RegRow], NEW f \in [Ids -> RegRow], RegMoves(g, h), RegMoves(h, f)
  PROVE  RegMoves(g, f)
<1> SUFFICES ASSUME NEW i \in Ids
             PROVE  f[i].gen > g[i].gen \/ (f[i].gen = g[i].gen /\ f[i].sock \in {g[i].sock, NoSocket})
  BY DEF RegMoves
<1>1. g[i].gen \in Nat /\ h[i].gen \in Nat /\ f[i].gen \in Nat
  BY DEF RegRow
<1>2. h[i].gen > g[i].gen \/ (h[i].gen = g[i].gen /\ h[i].sock \in {g[i].sock, NoSocket})
  BY DEF RegMoves
<1>3. f[i].gen > h[i].gen \/ (f[i].gen = h[i].gen /\ f[i].sock \in {h[i].sock, NoSocket})
  BY DEF RegMoves
<1> QED BY <1>1, <1>2, <1>3

LEMMA RefusedStep ==
  ASSUME RegistryInv, NEW k \in Sockets, ResumeRefused(k)
  PROVE  RegistryInv'
<1>1. PICK i : i = StubOf[link[k].of]
  OBVIOUS
<1>2. /\ Open(k) /\ link[k].map = Nobody /\ ~link[k].deaf /\ (~server.token \/ (row[i].here /\ row[i].released))
      /\ Become3(Disconnected(IF server.token THEN Kicked(Resuming(i), i, k) ELSE World, k))
      /\ call' = call /\ server' = server
  BY <1>1 DEF ResumeRefused, Resuming
<1>3. PICK t : t = IF server.token THEN Kicked(Resuming(i), i, k) ELSE World
  OBVIOUS
<1>4. FitsBut(t, {}) /\ RegMoves(reg, t.g) /\ t.l[k].st = "open"
  <2>1. CASE ~server.token
    BY <1>2, <1>3, <2>1, WorldTyped, StaysPut DEF Open
  <2>2. CASE server.token
    <3>1. /\ i \in Ids /\ FitsBut(t, {i}) /\ RegMoves(reg, t.g) /\ t.l[k] = link[k] /\ MadeRoom(Resuming(i), i, k, t)
      BY <1>1, <1>2, <1>3, <2>2, KickedRoom
    <3>2. PICK w : w = Resuming(i)
      OBVIOUS
    <3>3. t.r[i].released
      <4>1. w.r[i].released = row[i].released
        BY <3>1, <3>2, ResumingFits
      <4> QED BY <1>2, <2>2, <3>1, <3>2, <4>1 DEF MadeRoom
    <3>4. OnlineFits(t, i)
      BY <3>1, <3>3 DEF FitsBut, RowFits, OnlineFits
    <3> QED BY <1>2, <3>1, <3>4 DEF FitsBut, Open
  <2> QED BY <2>1, <2>2
<1>5. PICK d : d = Disconnected(t, k)
  OBVIOUS
<1>6. FitsBut(d, {}) /\ RegMoves(t.g, d.g)
  BY <1>4, <1>5, DisconnectFits
<1>7. RegMoves(reg, d.g)
  <2>1. reg \in [Ids -> RegRow] /\ t.g \in [Ids -> RegRow] /\ d.g \in [Ids -> RegRow]
    BY <1>4, <1>6, WorldTyped DEF FitsBut, Worlds
  <2> QED BY <1>4, <1>6, <2>1, RegMovesOn
<1> QED BY <1>2, <1>3, <1>5, <1>6, <1>7, WorldMoves, WorldTyped

LEMMA ResumeStep ==
  ASSUME RegistryInv, NEW k \in Sockets, Resume(k)
  PROVE  RegistryInv'
<1>1. PICK i : i = StubOf[link[k].of]
  OBVIOUS
<1>2. PICK d : d = Kicked(Resuming(i), i, k)
  OBVIOUS
<1>3. PICK busy \in BOOLEAN :
        /\ Open(k) /\ link[k].map = Nobody /\ ~link[k].deaf /\ ~(row[i].here /\ row[i].released)
        /\ call' = call /\ server' = server
        /\ \/ Become3(Joined(Registered(d, i, k), i, k, busy))
           \/ Become3(Disconnected(TurnedAway(Registered(d, i, k), i, k, busy), k))
           \/ Become3(Deafened(Registered(d, i, k), i, k, busy))
  <2>1. server.alloc \in {"live", "terminal", "ambiguous"}
    BY WorldTyped DEF ServerRow
  <2> QED BY <1>1, <1>2, <2>1 DEF Resume, Resuming, TurnedAway, Deafened
<1>4. Room(d, i, k) /\ RegMoves(reg, d.g) /\ d.l[k] = link[k]
  BY <1>1, <1>2, <1>3, KickedRoom
<1>5. PICK z : FitsBut(z, {}) /\ RegMoves(d.g, z.g) /\ Become3(z)
  <2>1. CASE Become3(Joined(Registered(d, i, k), i, k, busy))
    BY <1>3, <1>4, <2>1, JoinFits
  <2>2. CASE Become3(Disconnected(TurnedAway(Registered(d, i, k), i, k, busy), k))
    <3>1. PICK t : t = TurnedAway(Registered(d, i, k), i, k, busy)
      OBVIOUS
    <3>2. PICK z : z = Disconnected(t, k)
      OBVIOUS
    <3>3. FitsBut(t, {}) /\ RegMoves(d.g, t.g) /\ t.l[k].st = "open"
      BY <1>4, <3>1, TurnedAwayFits
    <3>4. FitsBut(z, {}) /\ RegMoves(t.g, z.g)
      BY <3>2, <3>3, DisconnectFits
    <3>5. d.g \in [Ids -> RegRow] /\ t.g \in [Ids -> RegRow] /\ z.g \in [Ids -> RegRow]
      BY <1>4, <3>3, <3>4 DEF FitsBut, Worlds, Room
    <3>6. RegMoves(d.g, z.g)
      BY <3>3, <3>4, <3>5, RegMovesOn
    <3> QED BY <2>2, <3>1, <3>2, <3>4, <3>6
  <2>3. CASE Become3(Deafened(Registered(d, i, k), i, k, busy))
    BY <1>4, <2>3, DeafFits
  <2> QED BY <1>3, <2>1, <2>2, <2>3
<1>6. RegMoves(reg, z.g)
  <2>1. reg \in [Ids -> RegRow] /\ d.g \in [Ids -> RegRow] /\ z.g \in [Ids -> RegRow]
    BY <1>4, <1>5, WorldTyped DEF FitsBut, Worlds, Room
  <2> QED BY <1>4, <1>5, <2>1, RegMovesOn
<1> QED BY <1>3, <1>5, <1>6, WorldMoves, WorldTyped

\* A new socket is nobody's yet, and no row names it.
LEMMA ConnectStep ==
  ASSUME RegistryInv, NEW d \in Daemons, Connect(d)
  PROVE  RegistryInv'
<1> USE RegistryBounds
<1>1. PICK k \in Sockets :
        /\ link[k].st = "unborn" /\ link' = [link EXCEPT ![k] = [NewLink EXCEPT !.of = d, !.st = "open"]]
        /\ row' = row /\ reg' = reg /\ call' = call /\ server' = server
  BY DEF Connect
<1> DEFINE entry == [NewLink EXCEPT !.of = d, !.st = "open"]
<1>2. entry \in LinkRow /\ entry.of = d /\ entry.st = "open" /\ entry.map = Nobody /\ ~entry.deaf
  BY DEF NewLink, LinkRow
<1>3. link' = [link EXCEPT ![k] = entry]
  BY <1>1
<1> HIDE DEF entry
<1>4. link' \in [Sockets -> LinkRow] /\ link'[k] = entry /\ \A j \in Sockets \ {k} : link'[j] = link[j]
  BY <1>2, <1>3, WorldTyped
<1>5. PICK w : w = [l |-> link', r |-> row', g |-> reg']
  OBVIOUS
<1>6. w \in Worlds /\ w.l = link' /\ w.r = row /\ w.g = reg /\ Become3(w)
  BY <1>1, <1>4, <1>5, WorldTyped DEF Worlds, Become3
<1>7. ASSUME NEW j \in Sockets PROVE LinkFits(w, j)
  <2>1. LinkFits(World, j)
    BY WorldTyped
  <2>2. World.l = link /\ World.r = row
    BY WorldTyped
  <2>3. CASE j = k
    BY <1>2, <1>4, <1>6, <2>3 DEF LinkFits
  <2>4. CASE j # k
    BY <1>4, <1>6, <2>1, <2>2, <2>4 DEF LinkFits
  <2> QED BY <2>3, <2>4
<1>8. ASSUME NEW x \in Ids PROVE RowFits(w, x) /\ OnlineFits(w, x)
  <2>1. RowFits(World, x) /\ OnlineFits(World, x) /\ World.l = link /\ World.r = row /\ World.g = reg
    BY WorldTyped
  <2>2. row[x].sock \in Sockets \cup {NoSocket}
    BY WorldTyped DEF StubRow
  <2>3. row[x].sock # NoSocket => row[x].sock # k /\ link'[row[x].sock] = link[row[x].sock]
    BY <1>1, <1>4, <2>1, <2>2 DEF RowFits
  <2> QED BY <1>6, <2>1, <2>2, <2>3 DEF RowFits, OnlineFits
<1>9. FitsBut(w, {}) /\ RegMoves(reg, w.g)
  BY <1>6, <1>7, <1>8, StaysPut DEF FitsBut
<1> QED BY <1>1, <1>6, <1>9, WorldMoves, WorldTyped

\* A row that no longer names a socket, once no socket speaks for it but those astray.
LEMMA ClearedFits ==
  ASSUME NEW i \in Ids, NEW d, FitsBut(d, {}), \A j \in Sockets : d.l[j].map = i => d.l[j].astray,
         NEW z \in Worlds, z.l = d.l, z.g = d.g, \A x \in Ids \ {i} : z.r[x] = d.r[x],
         z.r[i].sock = NoSocket, ~z.r[i].online, z.r[i].released => z.r[i].here
  PROVE  FitsBut(z, {})
<1> USE RegistryBounds
<1>1. /\ (\A j \in Sockets : LinkFits(d, j)) /\ (\A x \in Ids : RowFits(d, x) /\ OnlineFits(d, x))
      /\ d.l \in [Sockets -> LinkRow]
  BY DEF FitsBut, Worlds
<1>2. ASSUME NEW j \in Sockets PROVE LinkFits(z, j)
  <2>1. LinkFits(d, j) /\ d.l[j].map \in Ids \cup {Nobody} /\ (d.l[j].map = i => d.l[j].astray)
    BY <1>1 DEF LinkRow
  <2>2. d.l[j].map \notin {i, Nobody} => z.r[d.l[j].map] = d.r[d.l[j].map]
    BY <2>1
  <2> QED BY <2>1, <2>2 DEF LinkFits
<1>3. ASSUME NEW x \in Ids PROVE RowFits(z, x) /\ OnlineFits(z, x)
  <2>1. CASE x = i
    BY <2>1 DEF RowFits, OnlineFits
  <2>2. CASE x # i
    <3>1. z.r[x] = d.r[x] /\ RowFits(d, x) /\ OnlineFits(d, x)
      BY <1>1, <2>2
    <3> QED BY <3>1 DEF RowFits, OnlineFits
  <2> QED BY <2>1, <2>2
<1> QED BY <1>2, <1>3 DEF FitsBut

LEMMA ReleaseStep ==
  ASSUME RegistryInv, NEW i \in Ids, ReleaseStub(i)
  PROVE  RegistryInv'
<1> USE RegistryBounds
<1>0. PICK k : k = row[i].sock
  OBVIOUS
<1>1. PICK cut : cut = IF Open(k) THEN Disconnected(World, k) ELSE World
  OBVIOUS
<1>2. /\ row[i].here /\ call' = call /\ server' \in ServerRow
      /\ Become3([cut EXCEPT !.r[i] = [@ EXCEPT !.online = FALSE, !.sock = NoSocket, !.released = TRUE]])
  BY <1>0, <1>1, TurnTyped, WorldTyped DEF ReleaseStub
<1>3. k \in Sockets \cup {NoSocket}
  BY <1>0, WorldTyped DEF StubRow
<1>4. ASSUME NEW j \in Sockets, link[j].map = i, ~link[j].astray PROVE j = k /\ Open(k)
  <2>1. LinkFits(World, j) /\ World.l = link /\ World.r = row /\ i # Nobody
    BY WorldTyped
  <2>2. row[i].sock = j /\ link[j].st = "open" /\ j # NoSocket
    BY <1>4, <2>1 DEF LinkFits
  <2> QED BY <1>0, <2>2 DEF Open
<1>5. FitsBut(cut, {}) /\ RegMoves(reg, cut.g) /\ cut.r[i].here /\ \A j \in Sockets : cut.l[j].map = i => cut.l[j].astray
  <2>1. CASE ~Open(k)
    BY <1>1, <1>2, <1>4, <2>1, WorldTyped, StaysPut
  <2>2. CASE Open(k)
    <3>1. k \in Sockets /\ cut = Disconnected(World, k) /\ World.l = link /\ World.r = row /\ World.g = reg /\ link[k].st = "open"
      BY <1>1, <1>3, <2>2, WorldTyped DEF Open
    <3>2. FitsBut(cut, {}) /\ RegMoves(reg, cut.g) /\ IsDisconnected(World, k, cut)
      BY <3>1, WorldTyped, DisconnectFits, DisconnectedIs
    <3>3. ASSUME NEW j \in Sockets, cut.l[j].map = i PROVE cut.l[j].astray
      <4>1. CASE j = k
        <5>1. cut.l[k] = [link[k] EXCEPT !.st = "closed", !.map = Nobody] /\ link[k] \in LinkRow
          BY <3>1, <3>2, WorldTyped DEF IsDisconnected
        <5>2. cut.l[k].map = Nobody
          BY <5>1 DEF LinkRow
        <5> QED BY <3>3, <4>1, <5>2
      <4>2. CASE j # k
        <5>1. cut.l[j] = link[j]
          BY <3>1, <3>2, <4>2 DEF IsDisconnected
        <5> QED BY <1>4, <3>3, <4>2, <5>1
      <4> QED BY <4>1, <4>2
    <3>4. cut.r[i].here
      <4> DEFINE off == [row[i] EXCEPT !.online = FALSE, !.sock = NoSocket, !.timer = TRUE, !.sync = NoSocket]
      <4>1. cut.r[i] \in {off, row[i]}
        BY <3>1, <3>2 DEF IsDisconnected
      <4>2. off.here = row[i].here
        BY WorldTyped DEF StubRow
      <4> HIDE DEF off
      <4> QED BY <1>2, <4>1, <4>2
    <3> QED BY <3>2, <3>3, <3>4
  <2> QED BY <2>1, <2>2
<1> DEFINE stub == [cut.r[i] EXCEPT !.online = FALSE, !.sock = NoSocket, !.released = TRUE]
           r1 == [cut.r EXCEPT ![i] = stub]
<1>6. cut \in Worlds /\ cut.r \in [Ids -> StubRow] /\ cut.r[i] \in StubRow
  BY <1>5 DEF FitsBut, Worlds
<1>7. stub \in StubRow /\ stub.sock = NoSocket /\ ~stub.online /\ stub.here
  BY <1>5, <1>6 DEF StubRow
<1>8. Become3([cut EXCEPT !.r = r1])
  BY <1>2, <1>6 DEF Worlds
<1> HIDE DEF stub
<1>9. r1 \in [Ids -> StubRow] /\ r1[i] = stub /\ \A x \in Ids \ {i} : r1[x] = cut.r[x]
  BY <1>6, <1>7
<1> HIDE DEF r1
<1>10. PICK z : z = [cut EXCEPT !.r = r1]
  OBVIOUS
<1>11. z \in Worlds /\ z.l = cut.l /\ z.g = cut.g /\ z.r = r1
  BY <1>6, <1>9, <1>10 DEF Worlds
<1>12. FitsBut(z, {})
  BY <1>5, <1>7, <1>9, <1>11, ClearedFits
<1> QED BY <1>2, <1>5, <1>8, <1>10, <1>11, <1>12, WorldMoves

LEMMA DeleteStep ==
  ASSUME RegistryInv, NEW i \in Ids, DeleteStub(i)
  PROVE  RegistryInv'
<1> USE RegistryBounds
<1> DEFINE entry == [NoRow EXCEPT !.timer = row[i].timer, !.sync = row[i].sync]
<1>1. /\ row' = [row EXCEPT ![i] = entry] /\ reg' = reg /\ call' = call /\ server' \in ServerRow
      /\ link' = [k \in Sockets |-> IF link[k].map = i THEN [link[k] EXCEPT !.astray = TRUE] ELSE link[k]]
  BY TurnTyped, WorldTyped DEF DeleteStub
<1>2. entry \in StubRow /\ entry.sock = NoSocket /\ ~entry.online /\ ~entry.released
  BY WorldTyped DEF StubRow, NoRow
<1> HIDE DEF entry
<1>3. row' \in [Ids -> StubRow] /\ row'[i] = entry /\ \A x \in Ids \ {i} : row'[x] = row[x]
  BY <1>1, <1>2, WorldTyped
<1>4. ASSUME NEW k \in Sockets
      PROVE  /\ link'[k] \in LinkRow /\ link'[k].of = link[k].of /\ link'[k].st = link[k].st
             /\ link'[k].map = link[k].map /\ link'[k].deaf = link[k].deaf
             /\ (link[k].map # i => link'[k] = link[k]) /\ (link[k].map = i => link'[k].astray)
  <2>1. link[k] \in LinkRow /\ link'[k] = IF link[k].map = i THEN [link[k] EXCEPT !.astray = TRUE] ELSE link[k]
    BY <1>1, WorldTyped
  <2>2. CASE link[k].map = i
    BY <2>1, <2>2 DEF LinkRow
  <2> QED BY <2>1, <2>2
<1>5. link' \in [Sockets -> LinkRow]
  BY <1>1, <1>4
<1>6. PICK d : d = [l |-> link', r |-> row, g |-> reg]
  OBVIOUS
<1>7. d \in Worlds /\ d.l = link' /\ d.r = row /\ d.g = reg
  BY <1>5, <1>6, WorldTyped DEF Worlds
<1>8. ASSUME NEW k \in Sockets PROVE LinkFits(d, k)
  <2>1. LinkFits(World, k) /\ World.l = link /\ World.r = row
    BY WorldTyped
  <2>2. CASE link[k].map = i
    BY <1>4, <1>7, <2>1, <2>2 DEF LinkFits
  <2>3. CASE link[k].map # i
    BY <1>4, <1>7, <2>1, <2>3 DEF LinkFits
  <2> QED BY <2>2, <2>3
<1>9. ASSUME NEW x \in Ids PROVE RowFits(d, x) /\ OnlineFits(d, x)
  <2>1. RowFits(World, x) /\ OnlineFits(World, x) /\ World.l = link /\ World.r = row /\ World.g = reg
    BY WorldTyped
  <2>2. row[x].sock \in Sockets \cup {NoSocket}
    BY WorldTyped DEF StubRow
  <2>3. row[x].sock # NoSocket =>
          /\ link'[row[x].sock].of = link[row[x].sock].of /\ link'[row[x].sock].st = link[row[x].sock].st
          /\ link'[row[x].sock].map = link[row[x].sock].map /\ link'[row[x].sock].deaf = link[row[x].sock].deaf
    BY <1>4, <2>2
  <2> QED BY <1>7, <2>1, <2>3 DEF RowFits, OnlineFits
<1>10. PICK z : z = [l |-> link', r |-> row', g |-> reg']
  OBVIOUS
<1>11. z \in Worlds /\ z.l = link' /\ z.r = row' /\ z.g = reg /\ Become3(z)
  BY <1>1, <1>3, <1>5, <1>10, WorldTyped DEF Worlds, Become3
<1>12. FitsBut(d, {}) /\ \A j \in Sockets : d.l[j].map = i => d.l[j].astray
  BY <1>4, <1>7, <1>8, <1>9 DEF FitsBut
<1>13. FitsBut(z, {}) /\ RegMoves(reg, z.g)
  BY <1>2, <1>3, <1>7, <1>11, <1>12, ClearedFits, StaysPut
<1> QED BY <1>1, <1>11, <1>13, WorldMoves

LEMMA ServerRestartsStep ==
  ASSUME RegistryInv, ServerRestarts
  PROVE  RegistryInv'
<1> USE RegistryBounds
<1>1. ASSUME NEW k \in Sockets
      PROVE  /\ link'[k] \in LinkRow /\ link'[k].of = link[k].of /\ link'[k].map = Nobody
             /\ (link'[k].st = "unborn" <=> link[k].st = "unborn")
  <2>1. link[k] \in LinkRow /\ link'[k] = [link[k] EXCEPT !.st = IF @ = "open" THEN "closed" ELSE @, !.map = Nobody]
    BY WorldTyped DEF ServerRestarts
  <2> QED BY <2>1 DEF LinkRow
<1>2. ASSUME NEW i \in Ids
      PROVE  /\ row'[i] \in StubRow /\ row'[i].sock = NoSocket /\ ~row'[i].online
             /\ row'[i].here = row[i].here /\ row'[i].released = row[i].released
             /\ reg'[i] \in RegRow
  <2>1. /\ row[i] \in StubRow /\ reg'[i] = [sock |-> NoSocket, gen |-> 0]
        /\ row'[i] = [row[i] EXCEPT !.online = FALSE, !.sock = NoSocket, !.timer = FALSE, !.sync = NoSocket]
    BY WorldTyped DEF ServerRestarts
  <2>2. reg'[i] \in RegRow
    BY <2>1 DEF RegRow
  <2> QED BY <2>1, <2>2 DEF StubRow
<1>3. ASSUME NEW c \in Calls PROVE call'[c] \in CallRow /\ call'[c].pc \in {"new", "end"}
  <2>1. call'[c] \in {NewCall, [NewCall EXCEPT !.pc = "end"]}
    BY DEF ServerRestarts
  <2> QED BY <2>1 DEF NewCall, CallRow
<1>4. server' \in ServerRow
  BY TurnTyped, WorldTyped DEF ServerRestarts
<1>5. link' \in [Sockets -> LinkRow] /\ row' \in [Ids -> StubRow] /\ reg' \in [Ids -> RegRow] /\ call' \in [Calls -> CallRow]
  BY <1>1, <1>2, <1>3 DEF ServerRestarts
<1>6. PICK w : w = World'
  OBVIOUS
<1>7. w \in Worlds /\ w.l = link' /\ w.r = row' /\ w.g = reg'
  BY <1>5, <1>6 DEF Worlds, World
<1>8. ASSUME NEW k \in Sockets PROVE LinkFits(w, k)
  <2>1. LinkFits(World, k) /\ World.l = link
    BY WorldTyped
  <2> QED BY <1>1, <1>7, <2>1 DEF LinkFits
<1>9. ASSUME NEW i \in Ids PROVE RowFits(w, i) /\ OnlineFits(w, i)
  <2>1. RowFits(World, i) /\ World.r = row
    BY WorldTyped
  <2> QED BY <1>2, <1>7, <2>1 DEF RowFits, OnlineFits
<1>10. FitsBut(World, {})'
  BY <1>6, <1>7, <1>8, <1>9 DEF FitsBut
<1>11. \A c \in Calls : CallFits(c)'
  BY <1>3 DEF CallFits
<1> QED BY <1>4, <1>5, <1>10, <1>11 DEF RegistryInv

\* The messages that wait for their acknowledgement.
LEMMA CallsStep ==
  ASSUME RegistryInv, NEW c \in Calls, Emit(c) \/ Acked(c) \/ AckTimeout(c) \/ Retry(c)
  PROVE  RegistryInv'
<1> USE RegistryBounds
<1>1. UNCHANGED <<link, row, reg, server>>
  BY DEF Emit, Acked, AckTimeout, Retry
<1>2. call[c] \in CallRow /\ CallFits(c) /\ call \in [Calls -> CallRow] /\ reg \in [Ids -> RegRow]
  BY WorldTyped
<1>3. PICK entry \in CallRow :
        /\ call' = [call EXCEPT ![c] = entry]
        /\ entry.pc \in {"sent", "delay"} =>
             /\ entry.to \in Ids /\ entry.on = entry.began /\ entry.gen <= reg[entry.to].gen
             /\ reg[entry.to].gen = entry.gen => reg[entry.to].sock \in {entry.began, NoSocket}
             /\ entry.pc = "delay" => entry.tries < MaxRetries
  <2> DEFINE over == [call[c] EXCEPT !.pc = "end"]
  <2>0. over \in CallRow /\ over.pc = "end"
    BY <1>2 DEF CallRow
  <2>1. CASE Finish(c)
    <3>1. call' = [call EXCEPT ![c] = over]
      BY <1>2, <2>1 DEF Finish
    <3> HIDE DEF over
    <3> QED BY <2>0, <3>1
  <2>2. CASE Emit(c)
    <3>1. PICK i \in Ids : /\ Open(reg[i].sock)
                           /\ call' = [call EXCEPT ![c] = [pc |-> "sent", to |-> i, gen |-> reg[i].gen, on |-> reg[i].sock,
                                                           began |-> reg[i].sock, tries |-> 0]]
      BY <2>2 DEF Emit
    <3> DEFINE entry == [pc |-> "sent", to |-> i, gen |-> reg[i].gen, on |-> reg[i].sock,
                         began |-> reg[i].sock, tries |-> 0]
    <3>2. reg[i] \in RegRow /\ reg[i].gen \in Nat
      BY <1>2 DEF RegRow
    <3>3. /\ entry \in CallRow /\ entry.pc = "sent" /\ entry.to = i /\ entry.gen = reg[i].gen
          /\ entry.on = reg[i].sock /\ entry.began = reg[i].sock
      BY <3>2 DEF CallRow, RegRow
    <3>4. call' = [call EXCEPT ![c] = entry]
      BY <3>1
    <3> HIDE DEF entry
    <3>5. /\ entry.to \in Ids /\ entry.on = entry.began /\ entry.gen <= reg[entry.to].gen
          /\ reg[entry.to].sock = entry.began /\ entry.pc # "delay"
      BY <3>2, <3>3
    <3> QED BY <3>3, <3>4, <3>5
  <2>3. CASE AckTimeout(c) /\ ~Finish(c)
    <3> DEFINE entry == [call[c] EXCEPT !.pc = "delay"]
    <3>1. call[c].pc = "sent" /\ call[c].tries # MaxRetries /\ call' = [call EXCEPT ![c] = entry]
      BY <1>2, <2>3 DEF AckTimeout
    <3>2. call[c].tries < MaxRetries
      BY <1>2, <3>1 DEF CallRow
    <3>3. /\ entry \in CallRow /\ entry.pc = "delay" /\ entry.to = call[c].to /\ entry.gen = call[c].gen
          /\ entry.on = call[c].on /\ entry.began = call[c].began /\ entry.tries = call[c].tries
      BY <1>2 DEF CallRow
    <3> HIDE DEF entry
    <3> QED BY <1>2, <3>1, <3>2, <3>3 DEF CallFits
  <2>4. CASE Retry(c) /\ ~Finish(c)
    <3>1. PICK k : k = reg[call[c].to].sock
      OBVIOUS
    <3> DEFINE entry == [call[c] EXCEPT !.pc = "sent", !.on = k, !.tries = call[c].tries + 1]
    <3>2. /\ call[c].pc = "delay" /\ Open(k) /\ reg[call[c].to].gen = call[c].gen
          /\ call' = [call EXCEPT ![c] = entry]
      BY <1>2, <2>4, <3>1 DEF Retry, CallRow
    <3>3. /\ call[c].to \in Ids /\ k = call[c].began /\ call[c].tries < MaxRetries
      BY <1>2, <3>1, <3>2 DEF CallFits, Open
    <3>4. k \in Sockets \cup {NoSocket} /\ call[c].tries + 1 \in 0..MaxRetries
      BY <1>2, <3>3 DEF CallRow
    <3>5. /\ entry \in CallRow /\ entry.pc = "sent" /\ entry.to = call[c].to /\ entry.gen = call[c].gen
          /\ entry.on = k /\ entry.began = call[c].began
      BY <1>2, <3>4 DEF CallRow
    <3> HIDE DEF entry
    <3> QED BY <1>2, <3>1, <3>2, <3>3, <3>5 DEF CallFits
  <2> QED BY <2>1, <2>2, <2>3, <2>4 DEF Acked
<1>4. call' \in [Calls -> CallRow] /\ \A x \in Calls : call'[x] = IF x = c THEN entry ELSE call[x]
  BY <1>2, <1>3
<1>5. ASSUME NEW x \in Calls PROVE CallFits(x)'
  <2>1. CallFits(x) /\ reg' = reg
    BY <1>1, WorldTyped
  <2> QED BY <1>3, <1>4, <2>1 DEF CallFits
<1>6. FitsBut(World, {})'
  <2>1. World' = World
    BY <1>1 DEF World
  <2> QED BY <2>1, WorldTyped
<1> QED BY <1>1, <1>4, <1>5, <1>6, WorldTyped DEF RegistryInv

LEMMA ServerStep ==
  ASSUME RegistryInv, TokenChanges \/ AllocationChanges \/ UNCHANGED registryVars
  PROVE  RegistryInv'
<1>1. UNCHANGED <<link, row, reg, call>>
  BY DEF TokenChanges, AllocationChanges, registryVars
<1>2. server' \in ServerRow
  <2>1. server \in ServerRow /\ (server.turns > 0 => server.turns - 1 \in 0..Turns)
    BY WorldTyped, RegistryBounds DEF ServerRow
  <2>2. CASE TokenChanges
    <3>1. (~server.token) \in BOOLEAN
      OBVIOUS
    <3> QED BY <2>1, <2>2, <3>1 DEF TokenChanges, ServerRow
  <2>3. CASE AllocationChanges
    BY <2>1, <2>3 DEF AllocationChanges, ServerRow
  <2>4. CASE UNCHANGED registryVars
    BY <2>1, <2>4 DEF registryVars
  <2> QED BY <2>2, <2>3, <2>4
<1>3. Become3(World)
  BY <1>1, WorldTyped DEF Become3
<1> QED BY <1>1, <1>2, <1>3, WorldTyped, StaysPut, WorldMoves

LEMMA RegistryInvNext == RegistryInv /\ [RegistryNext]_registryVars => RegistryInv'
BY ConnectStep, ResumeStep, RefusedStep, LostStep, RowStep, ReleaseStep, DeleteStep, ServerRestartsStep,
   CallsStep, ServerStep DEF RegistryNext

-----------------------------------------------------------------------------
(* A target, its daemons and the shells that outlive their ssh. *)

ShellKinds == {"kill", "launch"}
ShellPcs == {"none", "read", "sleep", "spawn", "tee", "end"}
OrderRow == [kind : {"none", "deploy", "restart", "stop"}, pc : Pending \cup {"new", "end"},
             ok : BOOLEAN, pid : Pids \cup {NoPid}]
ShellRow == [pc : ShellPcs, pid : Pids \cup {NoPid}]
DaemonStates == {"unborn", "starting", "up", "dead"}
HostRow == [slurm : BOOLEAN, daemon : [Pids -> DaemonStates], file : Pids \cup {NoPid}]

DeployFields ==
  /\ order \in [Orders -> OrderRow] /\ shell \in [Orders -> [ShellKinds -> ShellRow]]
  /\ host \in HostRow /\ job \in [Pids -> {"none", "in", "over"}]
  /\ faults \in [left : 0..SshFaults, spoilt : BOOLEAN]

KillAt(o) == shell[o]["kill"].pc
LaunchAt(o) == shell[o]["launch"].pc

\* A shell goes on where its handler has started it, and what it is about to do is still
\* true of the target: nothing runs when a daemon is started, and what runs is what the
\* shell is about to write down.
ShellsFit(o) ==
  /\ order[o].pc \in {"new", "sync", "preflight", "submit", "cancel"} => KillAt(o) = "none" /\ LaunchAt(o) = "none"
  /\ order[o].pc = "kill" => LaunchAt(o) = "none" /\ KillAt(o) \in {"read", "sleep", "end"}
  /\ KillAt(o) \in {"none", "read", "sleep", "end"} /\ LaunchAt(o) \in {"none", "spawn", "tee", "end"}
  /\ KillAt(o) \in {"read", "sleep"} => order[o].pc = "kill"
  /\ LaunchAt(o) \in {"spawn", "tee"} => order[o].pc \in {"launch", "end"}
  /\ KillAt(o) = "sleep" \/ (order[o].pc = "kill" /\ KillAt(o) = "end") \/ LaunchAt(o) = "spawn" => Alive = {}
  /\ LaunchAt(o) = "tee" => Alive \subseteq {shell[o]["launch"].pid}

FileFits == (\A o \in Orders : LaunchAt(o) # "tee") => Alive \subseteq {host.file}
OneUnderway == \A o, u \in Underway : o = u

DeployInv ==
  /\ DeployFields
  /\ ~faults.spoilt => OneUnderway /\ (\A o \in Orders : ShellsFit(o)) /\ FileFits

LEMMA DeployBounds ==
  MaxOrders \in Nat /\ MaxPids \in Nat /\ SshFaults \in Nat /\ NoPid \notin Pids
BY DeploymentAssumption DEF Pids, NoPid

LEMMA DeployInvMeans == DeployInv => DeployTypeOK /\ DaemonsKnown
<1> SUFFICES ASSUME DeployInv PROVE DeployTypeOK /\ DaemonsKnown
  OBVIOUS
<1> USE DeployBounds
<1>1. DeployTypeOK
  <2>1. ASSUME NEW o \in Orders
        PROVE  order[o].pc \in Pending \cup {"new", "end"} /\ order[o].pid \in Pids \cup {NoPid}
    BY DEF DeployInv, DeployFields, OrderRow
  <2>2. ASSUME NEW o \in Orders, NEW c \in {"kill", "launch"}
        PROVE  shell[o][c].pc \in {"none", "read", "sleep", "spawn", "tee", "end"}
    BY DEF DeployInv, DeployFields, ShellRow, ShellKinds, ShellPcs
  <2>3. /\ host.daemon \in [Pids -> {"unborn", "starting", "up", "dead"}] /\ host.file \in Pids \cup {NoPid}
        /\ job \in [Pids -> {"none", "in", "over"}] /\ faults.left \in 0..SshFaults
    BY DEF DeployInv, DeployFields, HostRow, DaemonStates
  <2> QED BY <2>1, <2>2, <2>3 DEF DeployTypeOK
<1>2. ASSUME ~faults.spoilt
      PROVE  /\ Cardinality(Alive) <= 1
             /\ Alive \subseteq {host.file} \cup
                  {shell[o]["launch"].pid : o \in {u \in Orders : shell[u]["launch"].pc = "tee"}}
  <2>1. PICK p : /\ Alive \subseteq {p}
                 /\ p = host.file \/ \E o \in Orders : shell[o]["launch"].pc = "tee" /\ p = shell[o]["launch"].pid
    <3>1. CASE \A o \in Orders : LaunchAt(o) # "tee"
      BY <1>2, <3>1 DEF DeployInv, FileFits
    <3>2. CASE \E o \in Orders : LaunchAt(o) = "tee"
      <4>1. PICK o \in Orders : LaunchAt(o) = "tee"
        BY <3>2
      <4>2. Alive \subseteq {shell[o]["launch"].pid}
        BY <1>2, <4>1 DEF DeployInv, ShellsFit
      <4> QED BY <4>1, <4>2 DEF LaunchAt
    <3> QED BY <3>1, <3>2
  <2>2. IsFiniteSet({p}) /\ Cardinality({p}) = 1
    BY FS_Singleton
  <2>3. IsFiniteSet(Alive) /\ Cardinality(Alive) \in Nat /\ Cardinality(Alive) <= Cardinality({p})
    BY <2>1, <2>2, FS_Subset, FS_CardinalityType
  <2> QED BY <2>1, <2>2, <2>3
<1> QED BY <1>1, <1>2 DEF DaemonsKnown

LEMMA DeployInvInit == DeployInit => DeployInv
<1> SUFFICES ASSUME DeployInit PROVE DeployInv
  OBVIOUS
<1> USE DeployBounds
<1>1. order \in [Orders -> OrderRow] /\ \A o \in Orders : order[o].pc = "new"
  BY DEF DeployInit, OrderRow
<1>2. shell \in [Orders -> [ShellKinds -> ShellRow]] /\ \A o \in Orders : KillAt(o) = "none" /\ LaunchAt(o) = "none"
  BY DEF DeployInit, ShellRow, ShellKinds, ShellPcs, KillAt, LaunchAt
<1>3. host \in HostRow /\ Alive = {}
  BY DEF DeployInit, HostRow, DaemonStates, Alive
<1>4. job \in [Pids -> {"none", "in", "over"}] /\ faults \in [left : 0..SshFaults, spoilt : BOOLEAN]
  BY DEF DeployInit
<1>5. \A o \in Orders : ShellsFit(o)
  BY <1>1, <1>2 DEF ShellsFit
<1>6. Underway = {}
  BY <1>1, <1>2 DEF Underway, Pending, ShellRuns, KillAt, LaunchAt
<1> QED BY <1>1, <1>2, <1>3, <1>4, <1>5, <1>6 DEF DeployInv, DeployFields, FileFits, OneUnderway

\* An order that is over or has not come asks nothing of the target.
LEMMA OthersFit ==
  ASSUME NEW u \in Orders, ShellsFit(u), u \notin Underway, order \in [Orders -> OrderRow],
         order'[u] = order[u], shell'[u] = shell[u]
  PROVE  ShellsFit(u)' /\ u \notin Underway' /\ LaunchAt(u) # "tee" /\ LaunchAt(u)' # "tee"
<1>1. order[u].pc \notin Pending /\ KillAt(u) \in {"none", "end"} /\ LaunchAt(u) \in {"none", "end"}
  BY DEF Underway, ShellRuns, ShellsFit, KillAt, LaunchAt
<1>2. order[u].pc \in {"new", "end"}
  BY <1>1 DEF OrderRow
<1>3. KillAt(u)' = KillAt(u) /\ LaunchAt(u)' = LaunchAt(u) /\ u \notin Underway'
  BY <1>1 DEF KillAt, LaunchAt, Underway, ShellRuns
<1> QED BY <1>1, <1>2, <1>3 DEF ShellsFit

\* A step of one order, the only one under way if requests have not overlapped.
LEMMA OneOrderMoves ==
  ASSUME DeployInv, NEW o \in Orders, DeployFields',
         \A u \in Orders \ {o} : order'[u] = order[u] /\ shell'[u] = shell[u],
         ~faults'.spoilt => ~faults.spoilt /\ Underway \subseteq {o} /\ ShellsFit(o)'
                            /\ (LaunchAt(o)' # "tee" => Alive' \subseteq {host'.file})
  PROVE  DeployInv'
<1> SUFFICES ASSUME ~faults'.spoilt
             PROVE  OneUnderway' /\ (\A u \in Orders : ShellsFit(u)') /\ FileFits'
  BY DEF DeployInv
<1>1. \A u \in Orders \ {o} : ShellsFit(u)' /\ u \notin Underway'
  BY OthersFit DEF DeployInv, DeployFields
<1>2. OneUnderway'
  BY <1>1 DEF OneUnderway, Underway
<1>3. FileFits'
  BY DEF FileFits
<1> QED BY <1>1, <1>2, <1>3

LEMMA UnderwayOnly ==
  ASSUME DeployInv, ~faults.spoilt, NEW o \in Orders,
         order[o].pc \in Pending \/ KillAt(o) \in {"read", "sleep"} \/ LaunchAt(o) \in {"spawn", "tee"}
  PROVE  /\ Underway \subseteq {o} /\ ShellsFit(o)
         /\ LaunchAt(o) # "tee" => Alive \subseteq {host.file}
<1>1. o \in Underway
  BY DEF Underway, ShellRuns, KillAt, LaunchAt
<1>2. Underway \subseteq {o} /\ \A u \in Orders : ShellsFit(u)
  BY <1>1 DEF DeployInv, OneUnderway
<1>3. \A u \in Orders \ {o} : LaunchAt(u) # "tee"
  BY <1>2 DEF Underway, ShellRuns, LaunchAt
<1> QED BY <1>2, <1>3 DEF DeployInv, FileFits

ShellGoes(o, c, pc) == shell' = [shell EXCEPT ![o][c].pc = pc]
ShellBecomes(o, c, entry) == shell' = [shell EXCEPT ![o][c] = entry]

LEMMA ShellMoves ==
  ASSUME DeployFields, NEW o \in Orders, NEW c \in ShellKinds, NEW pc \in ShellPcs, ShellGoes(o, c, pc)
  PROVE  /\ shell' \in [Orders -> [ShellKinds -> ShellRow]] /\ shell'[o][c].pc = pc /\ shell'[o][c].pid = shell[o][c].pid
         /\ (\A b \in ShellKinds \ {c} : shell'[o][b] = shell[o][b]) /\ \A u \in Orders \ {o} : shell'[u] = shell[u]
<1> DEFINE entry == [shell[o][c] EXCEPT !.pc = pc]
           pair == [shell[o] EXCEPT ![c] = entry]
<1>1. shell \in [Orders -> [ShellKinds -> ShellRow]] /\ shell[o] \in [ShellKinds -> ShellRow] /\ shell[o][c] \in ShellRow
  BY DEF DeployFields
<1>2. entry \in ShellRow /\ entry.pc = pc /\ entry.pid = shell[o][c].pid
  BY <1>1 DEF ShellRow
<1>3. shell' = [shell EXCEPT ![o] = pair]
  BY <1>1 DEF ShellGoes
<1> HIDE DEF entry
<1>4. pair \in [ShellKinds -> ShellRow] /\ pair[c] = entry /\ \A b \in ShellKinds \ {c} : pair[b] = shell[o][b]
  BY <1>1, <1>2
<1> HIDE DEF pair
<1> QED BY <1>1, <1>2, <1>3, <1>4

LEMMA ShellIsReplaced ==
  ASSUME DeployFields, NEW o \in Orders, NEW c \in ShellKinds, NEW entry \in ShellRow, ShellBecomes(o, c, entry)
  PROVE  /\ shell' \in [Orders -> [ShellKinds -> ShellRow]] /\ shell'[o][c] = entry
         /\ (\A b \in ShellKinds \ {c} : shell'[o][b] = shell[o][b]) /\ \A u \in Orders \ {o} : shell'[u] = shell[u]
<1> DEFINE pair == [shell[o] EXCEPT ![c] = entry]
<1>1. shell \in [Orders -> [ShellKinds -> ShellRow]] /\ shell[o] \in [ShellKinds -> ShellRow]
  BY DEF DeployFields
<1>2. pair \in [ShellKinds -> ShellRow] /\ pair[c] = entry /\ \A b \in ShellKinds \ {c} : pair[b] = shell[o][b]
  BY <1>1
<1>3. shell' = [shell EXCEPT ![o] = pair]
  BY <1>1 DEF ShellBecomes
<1> HIDE DEF pair
<1> QED BY <1>1, <1>2, <1>3

\* Where a handler goes on, answers, or a request begins.
OrderGoes(o, pc) ==
  order' \in [Orders -> OrderRow] /\ order'[o].pc = pc /\ \A u \in Orders \ {o} : order'[u] = order[u]

LEMMA ProceedMoves ==
  ASSUME DeployFields, NEW o \in Orders, NEW pc \in Pending, Proceed(o, pc)
  PROVE  OrderGoes(o, pc)
<1> DEFINE entry == [order[o] EXCEPT !.pc = pc]
<1>1. order \in [Orders -> OrderRow] /\ order[o] \in OrderRow
  BY DEF DeployFields
<1>2. entry \in OrderRow /\ entry.pc = pc /\ order' = [order EXCEPT ![o] = entry]
  BY <1>1 DEF Proceed, OrderRow
<1> HIDE DEF entry
<1> QED BY <1>1, <1>2 DEF OrderGoes

LEMMA AnswerMoves ==
  ASSUME DeployFields, NEW o \in Orders, NEW ok \in BOOLEAN, NEW p \in Pids \cup {NoPid}, Answer(o, ok, p)
  PROVE  OrderGoes(o, "end")
<1> DEFINE entry == [order[o] EXCEPT !.pc = "end", !.ok = ok, !.pid = p]
<1>1. order \in [Orders -> OrderRow] /\ order[o] \in OrderRow
  BY DEF DeployFields
<1>2. entry \in OrderRow /\ entry.pc = "end"
  BY <1>1 DEF OrderRow
<1>3. order' = [order EXCEPT ![o] = entry]
  BY <1>1 DEF Answer, OrderRow
<1> HIDE DEF entry
<1> QED BY <1>1, <1>2, <1>3 DEF OrderGoes

LEMMA RequestMoves ==
  ASSUME DeployFields, NEW o \in Orders, NEW pc \in Pending \cup {"end"}, NEW p \in Pids \cup {NoPid},
         NEW kind \in {"none", "deploy", "restart", "stop"},
         \/ order' = [order EXCEPT ![o] = [@ EXCEPT !.kind = kind, !.pc = pc]]
         \/ order' = [order EXCEPT ![o] = [@ EXCEPT !.kind = kind, !.pid = p, !.pc = pc]]
  PROVE  OrderGoes(o, pc)
<1>1. order \in [Orders -> OrderRow] /\ order[o] \in OrderRow
  BY DEF DeployFields
<1>2. CASE order' = [order EXCEPT ![o] = [@ EXCEPT !.kind = kind, !.pc = pc]]
  <2> DEFINE entry == [order[o] EXCEPT !.kind = kind, !.pc = pc]
  <2>1. entry \in OrderRow /\ entry.pc = pc /\ order' = [order EXCEPT ![o] = entry]
    BY <1>1, <1>2 DEF OrderRow
  <2> HIDE DEF entry
  <2> QED BY <1>1, <2>1 DEF OrderGoes
<1>3. CASE order' = [order EXCEPT ![o] = [@ EXCEPT !.kind = kind, !.pid = p, !.pc = pc]]
  <2> DEFINE entry == [order[o] EXCEPT !.kind = kind, !.pid = p, !.pc = pc]
  <2>1. entry \in OrderRow /\ entry.pc = pc /\ order' = [order EXCEPT ![o] = entry]
    BY <1>1, <1>3 DEF OrderRow
  <2> HIDE DEF entry
  <2> QED BY <1>1, <2>1 DEF OrderGoes
<1> QED BY <1>2, <1>3

LEMMA FaultTyped ==
  ASSUME DeployFields, Fault
  PROVE  faults' \in [left : 0..SshFaults, spoilt : BOOLEAN] /\ faults'.spoilt = faults.spoilt
BY DeployBounds DEF DeployFields, Fault

LEMMA DeployTyped ==
  ASSUME DeployInv
  PROVE  /\ order \in [Orders -> OrderRow] /\ shell \in [Orders -> [ShellKinds -> ShellRow]]
         /\ host \in HostRow /\ job \in [Pids -> {"none", "in", "over"}]
         /\ faults \in [left : 0..SshFaults, spoilt : BOOLEAN] /\ DeployFields
BY DEF DeployInv, DeployFields

\* A request that arrives while nothing is under way.
LEMMA ArrivesStep ==
  ASSUME DeployInv, NEW o \in Orders, DeployStub(o) \/ RestartStub(o) \/ StopStub(o)
  PROVE  DeployInv'
<1> USE DeployBounds
<1>1. /\ order[o].pc = "new" /\ host' = host /\ job' = job
      /\ faults' = [faults EXCEPT !.spoilt = @ \/ Underway # {}]
  BY DEF DeployStub, RestartStub, StopStub, Arrives, AtOrder
<1>2. /\ faults' \in [left : 0..SshFaults, spoilt : BOOLEAN]
      /\ ~faults'.spoilt => ~faults.spoilt /\ Underway = {}
  <2> DEFINE late == faults.spoilt \/ Underway # {}
  <2>1. late \in BOOLEAN
    BY Zenon
  <2>2. faults' = [faults EXCEPT !.spoilt = late]
    BY <1>1, DeployTyped
  <2>3. faults' \in [left : 0..SshFaults, spoilt : BOOLEAN] /\ faults'.spoilt = late
    <3> HIDE DEF late
    <3> QED BY <2>1, <2>2, DeployTyped
  <2> QED BY <2>3
<1>3. PICK pc \in Pending \cup {"end"} :
        /\ OrderGoes(o, pc)
        /\ \/ pc \in {"sync", "preflight", "cancel", "end"} /\ shell' = shell
           \/ pc = "kill" /\ ShellGoes(o, "kill", "read")
  <2>1. CASE DeployStub(o)
    <3>1. PICK pc \in {"sync", "preflight"} : order' = [order EXCEPT ![o] = [@ EXCEPT !.kind = "deploy", !.pc = pc]]
      BY <2>1 DEF DeployStub
    <3>2. pc \in Pending
      BY <3>1 DEF Pending
    <3>3. shell' = shell
      BY <2>1 DEF DeployStub
    <3>4. OrderGoes(o, pc)
      BY <3>1, <3>2, DeployTyped, RequestMoves
    <3> QED BY <3>1, <3>2, <3>3, <3>4
  <2>2. CASE RestartStub(o)
    <3>1. order' = [order EXCEPT ![o] = [@ EXCEPT !.kind = "restart", !.pc = "preflight"]] /\ shell' = shell
      BY <2>2 DEF RestartStub
    <3>2. "preflight" \in Pending
      BY DEF Pending
    <3>3. OrderGoes(o, "preflight")
      BY <3>1, <3>2, DeployTyped, RequestMoves
    <3> QED BY <3>1, <3>2, <3>3
  <2>3. CASE StopStub(o)
    <3>1. PICK p \in Pids \cup {NoPid}, pc \in {"kill", "end", "cancel"} :
            /\ order' = [order EXCEPT ![o] = [@ EXCEPT !.kind = "stop", !.pid = p, !.pc = pc]]
            /\ \/ pc \in {"end", "cancel"} /\ shell' = shell
               \/ pc = "kill" /\ ShellGoes(o, "kill", "read")
      <4>1. PICK p \in Pids \cup {NoPid} :
              /\ order' = [order EXCEPT ![o] =
                   [@ EXCEPT !.kind = "stop", !.pid = p,
                             !.pc = IF ~host.slurm THEN "kill" ELSE IF p = NoPid THEN "end" ELSE "cancel"]]
              /\ shell' = IF host.slurm THEN shell ELSE [shell EXCEPT ![o]["kill"].pc = "read"]
        BY <2>3 DEF StopStub
      <4>2. CASE ~host.slurm
        BY <4>1, <4>2 DEF ShellGoes
      <4>3. CASE host.slurm /\ p = NoPid
        BY <4>1, <4>3
      <4>4. CASE host.slurm /\ p # NoPid
        BY <4>1, <4>4
      <4> QED BY <4>2, <4>3, <4>4
    <3>2. pc \in Pending \cup {"end"}
      BY <3>1 DEF Pending
    <3>3. OrderGoes(o, pc)
      BY <3>1, <3>2, DeployTyped, RequestMoves
    <3> QED BY <3>1, <3>2, <3>3
  <2> QED BY <2>1, <2>2, <2>3
<1>4. /\ shell' \in [Orders -> [ShellKinds -> ShellRow]] /\ (\A u \in Orders \ {o} : shell'[u] = shell[u])
      /\ shell'[o]["launch"] = shell[o]["launch"]
      /\ IF pc = "kill" THEN KillAt(o)' = "read" ELSE KillAt(o)' = KillAt(o)
  <2>1. CASE pc # "kill" /\ shell' = shell
    BY <1>3, <2>1, DeployTyped DEF KillAt
  <2>2. CASE pc = "kill" /\ ShellGoes(o, "kill", "read")
    <3>1. "kill" \in ShellKinds /\ "launch" \in ShellKinds \ {"kill"} /\ "read" \in ShellPcs
      BY DEF ShellKinds, ShellPcs
    <3> QED BY <2>2, <3>1, DeployTyped, ShellMoves DEF KillAt
  <2> QED BY <1>3, <2>1, <2>2
<1>5. DeployFields'
  BY <1>1, <1>2, <1>3, <1>4, DeployTyped DEF DeployFields, OrderGoes
<1>6. ASSUME ~faults'.spoilt
      PROVE  ShellsFit(o)' /\ (LaunchAt(o)' # "tee" => Alive' \subseteq {host'.file})
  <2>1. ~faults.spoilt /\ Underway = {} /\ Alive' = Alive /\ host' = host
    BY <1>1, <1>2, <1>6 DEF Alive
  <2>2. ShellsFit(o) /\ FileFits /\ \A u \in Orders : ~ShellRuns(u, "launch")
    BY <2>1 DEF DeployInv, Underway
  <2>3. KillAt(o) = "none" /\ LaunchAt(o) = "none" /\ LaunchAt(o)' = "none"
    BY <1>1, <1>4, <2>2 DEF ShellsFit, LaunchAt
  <2>4. Alive \subseteq {host.file}
    BY <2>2 DEF FileFits, ShellRuns, LaunchAt
  <2>5. ShellsFit(o)'
    BY <1>3, <1>4, <2>3 DEF ShellsFit, Pending, OrderGoes
  <2> QED BY <2>1, <2>4, <2>5
<1> QED BY <1>2, <1>3, <1>4, <1>5, <1>6, OneOrderMoves DEF OrderGoes

\* The handler alone moves, and the target is as it was.
LEMMA HandlerStep ==
  ASSUME DeployInv, NEW o \in Orders, order[o].pc \in Pending, NEW pc \in Pending \cup {"end"},
         OrderGoes(o, pc), host' = host, job' \in [Pids -> {"none", "in", "over"}],
         faults' \in [left : 0..SshFaults, spoilt : BOOLEAN], ~faults'.spoilt => ~faults.spoilt,
         \/ pc \notin {"kill", "launch"} /\ shell' = shell
         \/ pc = "kill" /\ ShellGoes(o, "kill", "read")
         \/ pc = "launch" /\ ShellGoes(o, "launch", "spawn"),
         ~faults'.spoilt =>
           \/ order[o].pc \in {"sync", "preflight"} /\ pc \in {"preflight", "submit", "end"}
           \/ order[o].pc = "preflight" /\ pc = "kill"
           \/ order[o].pc = "kill" /\ ~ShellRuns(o, "kill") /\ pc \in {"launch", "end"}
           \/ order[o].pc \in {"launch", "submit", "cancel"} /\ pc = "end"
  PROVE  DeployInv'
<1> USE DeployBounds
<1>1. /\ shell' \in [Orders -> [ShellKinds -> ShellRow]] /\ (\A u \in Orders \ {o} : shell'[u] = shell[u])
      /\ KillAt(o)' = (IF pc = "kill" THEN "read" ELSE KillAt(o))
      /\ LaunchAt(o)' = (IF pc = "launch" THEN "spawn" ELSE LaunchAt(o))
      /\ shell'[o]["launch"].pid = shell[o]["launch"].pid
  <2>0. "kill" \in ShellKinds /\ "launch" \in ShellKinds /\ "read" \in ShellPcs /\ "spawn" \in ShellPcs
    BY DEF ShellKinds, ShellPcs
  <2>1. CASE pc \notin {"kill", "launch"} /\ shell' = shell
    BY <2>1, DeployTyped DEF KillAt, LaunchAt
  <2>2. CASE pc = "kill" /\ ShellGoes(o, "kill", "read")
    <3>1. /\ shell' \in [Orders -> [ShellKinds -> ShellRow]] /\ shell'[o]["kill"].pc = "read"
          /\ shell'[o]["launch"] = shell[o]["launch"] /\ \A u \in Orders \ {o} : shell'[u] = shell[u]
      BY <2>0, <2>2, DeployTyped, ShellMoves
    <3> QED BY <2>2, <3>1 DEF KillAt, LaunchAt
  <2>3. CASE pc = "launch" /\ ShellGoes(o, "launch", "spawn")
    <3>1. /\ shell' \in [Orders -> [ShellKinds -> ShellRow]] /\ shell'[o]["launch"].pc = "spawn"
          /\ shell'[o]["launch"].pid = shell[o]["launch"].pid
          /\ shell'[o]["kill"] = shell[o]["kill"] /\ \A u \in Orders \ {o} : shell'[u] = shell[u]
      BY <2>0, <2>3, DeployTyped, ShellMoves
    <3> QED BY <2>3, <3>1 DEF KillAt, LaunchAt
  <2> QED BY <2>1, <2>2, <2>3
<1>2. DeployFields'
  BY <1>1, DeployTyped DEF DeployFields, OrderGoes
<1>3. ASSUME ~faults'.spoilt
      PROVE  ShellsFit(o)' /\ Underway \subseteq {o} /\ (LaunchAt(o)' # "tee" => Alive' \subseteq {host'.file})
  <2>1. ~faults.spoilt /\ Alive' = Alive
    BY <1>3 DEF Alive
  <2>2. Underway \subseteq {o} /\ ShellsFit(o) /\ (LaunchAt(o) # "tee" => Alive \subseteq {host.file})
    BY <2>1, UnderwayOnly
  <2>3. CASE order[o].pc \in {"sync", "preflight"} /\ pc \in {"preflight", "submit", "end"}
    BY <1>1, <2>1, <2>2, <2>3 DEF ShellsFit, OrderGoes
  <2>4. CASE order[o].pc = "preflight" /\ pc = "kill"
    BY <1>1, <2>1, <2>2, <2>4 DEF ShellsFit, OrderGoes
  <2>5. CASE order[o].pc = "kill" /\ ~ShellRuns(o, "kill") /\ pc \in {"launch", "end"}
    <3>1. KillAt(o) = "end" /\ Alive = {} /\ LaunchAt(o) = "none"
      BY <2>2, <2>5 DEF ShellsFit, ShellRuns, KillAt
    <3>2. LaunchAt(o)' # "tee" /\ KillAt(o)' = "end" /\ LaunchAt(o)' \in {"none", "spawn"}
          /\ (pc = "end" => LaunchAt(o)' = "none")
      BY <1>1, <2>5, <3>1
    <3> QED BY <2>1, <2>2, <2>5, <3>1, <3>2 DEF ShellsFit, OrderGoes
  <2>6. CASE order[o].pc \in {"launch", "submit", "cancel"} /\ pc = "end"
    BY <1>1, <2>1, <2>2, <2>6 DEF ShellsFit, OrderGoes
  <2> QED BY <1>3, <2>3, <2>4, <2>5, <2>6
<1> QED BY <1>1, <1>2, <1>3, OneOrderMoves DEF OrderGoes

\* A handler that answers an order.
LEMMA AnswerKeeps ==
  ASSUME DeployInv, NEW o \in Orders, order[o].pc \in Pending,
         NEW ok \in BOOLEAN, NEW p \in Pids \cup {NoPid}, Answer(o, ok, p), UNCHANGED <<shell, host>>,
         job' \in [Pids -> {"none", "in", "over"}], faults' = faults \/ Fault,
         \/ order[o].pc \in {"sync", "preflight", "launch", "submit", "cancel"}
         \/ order[o].pc = "kill" /\ ~ShellRuns(o, "kill")
  PROVE  DeployInv'
<1>1. OrderGoes(o, "end")
  BY DeployTyped, AnswerMoves
<1>2. faults' \in [left : 0..SshFaults, spoilt : BOOLEAN] /\ (~faults'.spoilt => ~faults.spoilt)
  BY DeployTyped, FaultTyped
<1> QED BY <1>1, <1>2, HandlerStep

LEMMA PreflightStep ==
  ASSUME DeployInv, NEW o \in Orders, SyncCode(o) \/ PreflightRuntime(o)
  PROVE  DeployInv'
<1>0. {"sync", "preflight", "kill", "submit"} \subseteq Pending /\ NoPid \in Pids \cup {NoPid}
  BY DEF Pending
<1>1. order[o].pc \in {"sync", "preflight"} /\ host' = host /\ job' = job
  BY DEF SyncCode, PreflightRuntime, AtOrder
<1>2. CASE Answer(o, FALSE, NoPid) /\ Fault /\ shell' = shell
  BY <1>0, <1>1, <1>2, DeployTyped, AnswerKeeps
<1>3. CASE SyncCode(o) /\ Proceed(o, "preflight") /\ faults' = faults
  <2>1. OrderGoes(o, "preflight")
    BY <1>0, <1>3, DeployTyped, ProceedMoves
  <2>2. shell' = shell
    BY <1>3 DEF SyncCode
  <2> QED BY <1>0, <1>1, <1>3, <2>1, <2>2, DeployTyped, HandlerStep
<1>4. CASE PreflightRuntime(o) /\ AfterPreflight(o) /\ faults' = faults
  <2>0. order[o].pc = "preflight"
    BY <1>4 DEF PreflightRuntime, AtOrder
  <2>1. PICK pc \in {"submit", "kill"} : /\ Proceed(o, pc)
                                         /\ \/ pc = "submit" /\ shell' = shell
                                            \/ pc = "kill" /\ ShellGoes(o, "kill", "read")
    BY <1>4 DEF AfterPreflight, ShellGoes
  <2>2. OrderGoes(o, pc)
    BY <1>0, <2>1, DeployTyped, ProceedMoves
  <2> QED BY <1>0, <1>1, <1>4, <2>0, <2>1, <2>2, DeployTyped, HandlerStep
<1> QED BY <1>2, <1>3, <1>4 DEF SyncCode, PreflightRuntime

LEMMA KillStep ==
  ASSUME DeployInv, NEW o \in Orders, KillEnds(o) \/ KillLost(o)
  PROVE  DeployInv'
<1>0. {"kill", "launch"} \subseteq Pending /\ NoPid \in Pids \cup {NoPid}
  BY DEF Pending
<1>1. PICK ok \in BOOLEAN : KillAnswered(o, ok)
  BY DEF KillEnds, KillLost
<1>2. order[o].pc = "kill" /\ host' = host /\ job' = job
  BY DEF KillEnds, KillLost, AtOrder
<1>3. /\ faults' \in [left : 0..SshFaults, spoilt : BOOLEAN]
      /\ ~faults'.spoilt => ~faults.spoilt /\ ~ShellRuns(o, "kill")
  <2>1. CASE KillEnds(o)
    BY <2>1, DeployTyped DEF KillEnds
  <2>2. CASE KillLost(o)
    BY <2>2, DeployTyped, DeployBounds DEF KillLost
  <2> QED BY <2>1, <2>2
<1>4. PICK pc \in {"launch", "end"} :
        /\ OrderGoes(o, pc)
        /\ \/ pc = "end" /\ shell' = shell
           \/ pc = "launch" /\ ShellGoes(o, "launch", "spawn")
  <2>1. CASE Answer(o, ok, NoPid) /\ shell' = shell
    <3>1. OrderGoes(o, "end")
      BY <1>0, <2>1, DeployTyped, AnswerMoves
    <3> QED BY <2>1, <3>1
  <2>2. CASE Proceed(o, "launch") /\ ShellGoes(o, "launch", "spawn")
    <3>1. OrderGoes(o, "launch")
      BY <1>0, <2>2, DeployTyped, ProceedMoves
    <3> QED BY <2>2, <3>1
  <2> QED BY <1>1, <2>1, <2>2 DEF KillAnswered, ShellGoes
<1> QED BY <1>0, <1>2, <1>3, <1>4, DeployTyped, HandlerStep

LEMMA LaunchStep ==
  ASSUME DeployInv, NEW o \in Orders, LaunchEnds(o) \/ LaunchLost(o)
  PROVE  DeployInv'
<1>1. /\ order[o].pc = "launch" /\ UNCHANGED <<shell, host, job>> /\ (faults' = faults \/ Fault)
      /\ Answer(o, TRUE, shell[o]["launch"].pid) \/ Answer(o, FALSE, NoPid)
  BY DEF LaunchEnds, LaunchLost, AtOrder
<1>2. shell[o]["launch"].pid \in Pids \cup {NoPid} /\ "launch" \in Pending
  BY DeployTyped DEF ShellKinds, ShellRow, Pending
<1> QED BY <1>1, <1>2, DeployTyped, AnswerKeeps

LEMMA SlurmStep ==
  ASSUME DeployInv, NEW o \in Orders, SubmitSlurmJob(o) \/ SubmitFails(o) \/ CancelSlurmJob(o)
  PROVE  DeployInv'
<1>1. /\ order[o].pc \in {"submit", "cancel"} /\ UNCHANGED <<shell, host>> /\ (faults' = faults \/ Fault)
      /\ order[o].pc \in Pending
  BY DEF SubmitSlurmJob, SubmitFails, CancelSlurmJob, AtOrder, Pending
<1>2. job' \in [Pids -> {"none", "in", "over"}]
  <2>1. CASE SubmitSlurmJob(o)
    BY <2>1, DeployTyped DEF SubmitSlurmJob
  <2>2. CASE SubmitFails(o)
    BY <2>2, DeployTyped DEF SubmitFails
  <2>3. CASE CancelSlurmJob(o)
    <3>1. job' \in {[job EXCEPT ![order[o].pid] = "over"], job}
      BY <2>3 DEF CancelSlurmJob
    <3> QED BY <3>1, DeployTyped
  <2> QED BY <2>1, <2>2, <2>3
<1>3. PICK ok \in BOOLEAN, p \in Pids \cup {NoPid} : Answer(o, ok, p)
  <2>1. order[o].pid \in Pids \cup {NoPid}
    BY DeployTyped DEF OrderRow
  <2>2. CASE SubmitSlurmJob(o)
    BY <2>2 DEF SubmitSlurmJob
  <2>3. CASE SubmitFails(o)
    BY <2>3 DEF SubmitFails
  <2>4. CASE CancelSlurmJob(o)
    BY <2>1, <2>4 DEF CancelSlurmJob
  <2> QED BY <2>2, <2>3, <2>4
<1> QED BY <1>1, <1>2, <1>3, AnswerKeeps

-----------------------------------------------------------------------------
\* A shell moves while its order stays where it is.
LEMMA ShellStep ==
  ASSUME DeployInv, NEW o \in Orders, order' = order, job' = job, faults' = faults, host' \in HostRow,
         shell' \in [Orders -> [ShellKinds -> ShellRow]], \A u \in Orders \ {o} : shell'[u] = shell[u],
         ~faults.spoilt => KillAt(o) \in {"read", "sleep"} \/ LaunchAt(o) \in {"spawn", "tee"},
         ~faults.spoilt => ShellsFit(o)' /\ (LaunchAt(o)' # "tee" => Alive' \subseteq {host'.file})
  PROVE  DeployInv'
<1>1. DeployFields'
  BY DeployTyped DEF DeployFields
<1>2. ~faults.spoilt => Underway \subseteq {o}
  BY UnderwayOnly
<1> QED BY <1>1, <1>2, OneOrderMoves

LEMMA NeverRanStep ==
  ASSUME DeployInv, NEW o \in Orders, NEW c \in {"kill", "launch"}, NeverRan(o, c)
  PROVE  DeployInv'
<1>0. c \in ShellKinds /\ "end" \in ShellPcs /\ ShellKinds = {"kill", "launch"}
  BY DEF ShellKinds, ShellPcs
<1>1. /\ order' = order /\ host' = host /\ job' = job /\ faults' = faults /\ ShellGoes(o, c, "end")
      /\ shell[o][c].pc \in {"read", "spawn"} /\ order[o].pc # c
  BY DEF NeverRan, ShellGoes, AtOrder
<1>2. /\ shell' \in [Orders -> [ShellKinds -> ShellRow]] /\ shell'[o][c].pc = "end"
      /\ (\A b \in ShellKinds \ {c} : shell'[o][b] = shell[o][b]) /\ \A u \in Orders \ {o} : shell'[u] = shell[u]
  BY <1>0, <1>1, DeployTyped, ShellMoves
<1>3. ASSUME ~faults.spoilt
      PROVE  /\ LaunchAt(o) = "spawn" /\ ShellsFit(o)'
             /\ LaunchAt(o)' # "tee" => Alive' \subseteq {host'.file}
  <2>1. ShellsFit(o) /\ Alive' = Alive
    BY <1>1, <1>3 DEF DeployInv, Alive
  <2>2. c = "launch" /\ LaunchAt(o) = "spawn"
    BY <1>1, <2>1 DEF ShellsFit, KillAt, LaunchAt
  <2>3. Alive = {} /\ LaunchAt(o)' = "end" /\ KillAt(o)' = KillAt(o)
    BY <1>0, <1>2, <2>1, <2>2 DEF ShellsFit, KillAt, LaunchAt
  <2>4. ShellsFit(o)'
    BY <1>1, <2>1, <2>2, <2>3 DEF ShellsFit
  <2> QED BY <2>1, <2>2, <2>3, <2>4
<1> QED BY <1>1, <1>2, <1>3, DeployTyped, ShellStep

LEMMA DaemonMoves ==
  ASSUME DeployInv, NEW p \in Pids, NEW d \in DaemonStates, host' = [host EXCEPT !.daemon[p] = d]
  PROVE  /\ host' \in HostRow /\ host'.file = host.file
         /\ host'.daemon[p] = d /\ \A q \in Pids \ {p} : host'.daemon[q] = host.daemon[q]
<1> DEFINE daemons == [host.daemon EXCEPT ![p] = d]
<1>1. host \in HostRow /\ host.daemon \in [Pids -> DaemonStates]
  BY DeployTyped DEF HostRow
<1>2. daemons \in [Pids -> DaemonStates] /\ daemons[p] = d /\ \A q \in Pids \ {p} : daemons[q] = host.daemon[q]
  BY <1>1
<1>3. host' = [host EXCEPT !.daemon = daemons]
  BY <1>1 DEF HostRow
<1> HIDE DEF daemons
<1> QED BY <1>1, <1>2, <1>3 DEF HostRow

LEMMA FileMoves ==
  ASSUME DeployInv, NEW p \in Pids \cup {NoPid}, host' = [host EXCEPT !.file = p]
  PROVE  host' \in HostRow /\ host'.file = p /\ Alive' = Alive
BY DeployTyped DEF HostRow, Alive

LEMMA ShellKillsStep ==
  ASSUME DeployInv, NEW o \in Orders, ShellKills(o)
  PROVE  DeployInv'
<1> USE DeployBounds
<1>1. PICK p : p = host.file
  OBVIOUS
<1>2. PICK pc \in {"sleep", "end"} : pc = IF p = NoPid THEN "end" ELSE "sleep"
  OBVIOUS
<1>3. /\ order' = order /\ job' = job /\ faults' = faults /\ KillAt(o) = "read"
      /\ p \in Pids \cup {NoPid}
      /\ ShellBecomes(o, "kill", [pc |-> pc, pid |-> p])
      /\ host' = IF p = NoPid THEN host ELSE [host EXCEPT !.daemon[p] = "dead"]
  BY <1>1, <1>2, DeployTyped DEF ShellKills, KillAt, ShellBecomes, HostRow
<1>4. "kill" \in ShellKinds /\ [pc |-> pc, pid |-> p] \in ShellRow /\ ShellKinds = {"kill", "launch"}
  BY <1>3 DEF ShellKinds, ShellRow, ShellPcs
<1>5. /\ shell' \in [Orders -> [ShellKinds -> ShellRow]] /\ KillAt(o)' = pc
      /\ shell'[o]["launch"] = shell[o]["launch"] /\ \A u \in Orders \ {o} : shell'[u] = shell[u]
  <2>1. /\ shell' \in [Orders -> [ShellKinds -> ShellRow]] /\ shell'[o]["kill"] = [pc |-> pc, pid |-> p]
        /\ (\A b \in ShellKinds \ {"kill"} : shell'[o][b] = shell[o][b])
        /\ \A u \in Orders \ {o} : shell'[u] = shell[u]
    BY <1>3, <1>4, DeployTyped, ShellIsReplaced
  <2> QED BY <1>4, <2>1 DEF KillAt
<1>6. host' \in HostRow /\ Alive' \subseteq Alive \ {p}
  <2>1. CASE p = NoPid
    BY <1>3, <2>1, DeployTyped DEF Alive
  <2>2. CASE p \in Pids
    <3>1. host' = [host EXCEPT !.daemon[p] = "dead"] /\ "dead" \in DaemonStates
      BY <1>3, <2>2 DEF DaemonStates
    <3>2. host' \in HostRow /\ host'.daemon[p] = "dead" /\ \A q \in Pids \ {p} : host'.daemon[q] = host.daemon[q]
      BY <2>2, <3>1, DaemonMoves
    <3> QED BY <3>2 DEF Alive
  <2> QED BY <1>3, <2>1, <2>2
<1>7. ASSUME ~faults.spoilt
      PROVE  ShellsFit(o)' /\ (LaunchAt(o)' # "tee" => Alive' \subseteq {host'.file})
  <2>1. ShellsFit(o) /\ (LaunchAt(o) # "tee" => Alive \subseteq {host.file})
    BY <1>3, <1>7, UnderwayOnly
  <2>2. order[o].pc = "kill" /\ LaunchAt(o) = "none"
    BY <1>3, <2>1 DEF ShellsFit
  <2>3. Alive' = {} /\ LaunchAt(o)' = "none"
    BY <1>1, <1>5, <1>6, <2>1, <2>2 DEF LaunchAt
  <2> QED BY <1>3, <1>5, <2>2, <2>3 DEF ShellsFit
<1> QED BY <1>3, <1>5, <1>6, <1>7, ShellStep

LEMMA ShellRemovesStep ==
  ASSUME DeployInv, NEW o \in Orders, ShellRemoves(o)
  PROVE  DeployInv'
<1> USE DeployBounds
<1>1. /\ order' = order /\ job' = job /\ faults' = faults /\ KillAt(o) = "sleep"
      /\ ShellGoes(o, "kill", "end") /\ host' = [host EXCEPT !.file = NoPid]
  BY DEF ShellRemoves, KillAt, ShellGoes
<1>2. "kill" \in ShellKinds /\ "end" \in ShellPcs /\ ShellKinds = {"kill", "launch"}
  BY DEF ShellKinds, ShellPcs
<1>3. /\ shell' \in [Orders -> [ShellKinds -> ShellRow]] /\ KillAt(o)' = "end"
      /\ shell'[o]["launch"] = shell[o]["launch"] /\ \A u \in Orders \ {o} : shell'[u] = shell[u]
  <2>1. /\ shell' \in [Orders -> [ShellKinds -> ShellRow]] /\ shell'[o]["kill"].pc = "end"
        /\ (\A b \in ShellKinds \ {"kill"} : shell'[o][b] = shell[o][b])
        /\ \A u \in Orders \ {o} : shell'[u] = shell[u]
    BY <1>1, <1>2, DeployTyped, ShellMoves
  <2> QED BY <1>2, <2>1 DEF KillAt
<1>4. host' \in HostRow /\ Alive' = Alive
  BY <1>1, FileMoves
<1>5. ASSUME ~faults.spoilt
      PROVE  ShellsFit(o)' /\ (LaunchAt(o)' # "tee" => Alive' \subseteq {host'.file})
  <2>1. ShellsFit(o)
    BY <1>1, <1>5, UnderwayOnly
  <2>2. order[o].pc = "kill" /\ LaunchAt(o) = "none" /\ Alive = {}
    BY <1>1, <2>1 DEF ShellsFit
  <2>3. Alive' = {} /\ LaunchAt(o)' = "none"
    BY <1>3, <1>4, <2>2 DEF LaunchAt
  <2> QED BY <1>1, <1>3, <2>2, <2>3 DEF ShellsFit
<1> QED BY <1>1, <1>3, <1>4, <1>5, ShellStep

LEMMA ShellSpawnsStep ==
  ASSUME DeployInv, NEW o \in Orders, ShellSpawns(o)
  PROVE  DeployInv'
<1> USE DeployBounds
<1>1. PICK p \in Pids : /\ order' = order /\ job' = job /\ faults' = faults /\ LaunchAt(o) = "spawn"
                        /\ ShellBecomes(o, "launch", [pc |-> "tee", pid |-> p])
                        /\ host' = [host EXCEPT !.daemon[p] = "starting"]
  BY DEF ShellSpawns, LaunchAt, ShellBecomes
<1>2. "launch" \in ShellKinds /\ [pc |-> "tee", pid |-> p] \in ShellRow /\ ShellKinds = {"kill", "launch"}
  BY DEF ShellKinds, ShellRow, ShellPcs
<1>3. /\ shell' \in [Orders -> [ShellKinds -> ShellRow]] /\ shell'[o]["launch"] = [pc |-> "tee", pid |-> p]
      /\ KillAt(o)' = KillAt(o) /\ \A u \in Orders \ {o} : shell'[u] = shell[u]
  <2>1. /\ shell' \in [Orders -> [ShellKinds -> ShellRow]] /\ shell'[o]["launch"] = [pc |-> "tee", pid |-> p]
        /\ (\A b \in ShellKinds \ {"launch"} : shell'[o][b] = shell[o][b])
        /\ \A u \in Orders \ {o} : shell'[u] = shell[u]
    BY <1>1, <1>2, DeployTyped, ShellIsReplaced
  <2> QED BY <1>2, <2>1 DEF KillAt
<1>4. host' \in HostRow /\ Alive' \subseteq Alive \cup {p}
  <2>1. "starting" \in DaemonStates
    BY DEF DaemonStates
  <2>2. host' \in HostRow /\ \A q \in Pids \ {p} : host'.daemon[q] = host.daemon[q]
    BY <1>1, <2>1, DaemonMoves
  <2> QED BY <2>2 DEF Alive
<1>5. ASSUME ~faults.spoilt
      PROVE  ShellsFit(o)' /\ (LaunchAt(o)' # "tee" => Alive' \subseteq {host'.file})
  <2>1. ShellsFit(o)
    BY <1>1, <1>5, UnderwayOnly
  <2>2. order[o].pc \in {"launch", "end"} /\ Alive = {} /\ KillAt(o) \in {"none", "end"}
    BY <1>1, <2>1 DEF ShellsFit
  <2>3. Alive' \subseteq {p} /\ LaunchAt(o)' = "tee" /\ shell'[o]["launch"].pid = p
    BY <1>3, <1>4, <2>2 DEF LaunchAt
  <2> QED BY <1>1, <1>3, <2>2, <2>3 DEF ShellsFit
<1> QED BY <1>1, <1>3, <1>4, <1>5, ShellStep

LEMMA ShellWritesPidStep ==
  ASSUME DeployInv, NEW o \in Orders, ShellWritesPid(o)
  PROVE  DeployInv'
<1> USE DeployBounds
<1>1. PICK p : p = shell[o]["launch"].pid
  OBVIOUS
<1>2. /\ order' = order /\ job' = job /\ faults' = faults /\ LaunchAt(o) = "tee"
      /\ ShellGoes(o, "launch", "end") /\ host' = [host EXCEPT !.file = p]
  BY <1>1 DEF ShellWritesPid, LaunchAt, ShellGoes
<1>3. /\ "launch" \in ShellKinds /\ "end" \in ShellPcs /\ ShellKinds = {"kill", "launch"}
      /\ p \in Pids \cup {NoPid}
  BY <1>1, DeployTyped DEF ShellKinds, ShellPcs, ShellRow
<1>4. /\ shell' \in [Orders -> [ShellKinds -> ShellRow]] /\ LaunchAt(o)' = "end"
      /\ KillAt(o)' = KillAt(o) /\ \A u \in Orders \ {o} : shell'[u] = shell[u]
  <2>1. /\ shell' \in [Orders -> [ShellKinds -> ShellRow]] /\ shell'[o]["launch"].pc = "end"
        /\ (\A b \in ShellKinds \ {"launch"} : shell'[o][b] = shell[o][b])
        /\ \A u \in Orders \ {o} : shell'[u] = shell[u]
    BY <1>2, <1>3, DeployTyped, ShellMoves
  <2> QED BY <1>3, <2>1 DEF KillAt, LaunchAt
<1>5. host' \in HostRow /\ host'.file = p /\ Alive' = Alive
  BY <1>2, <1>3, FileMoves
<1>6. ASSUME ~faults.spoilt
      PROVE  ShellsFit(o)' /\ (LaunchAt(o)' # "tee" => Alive' \subseteq {host'.file})
  <2>1. ShellsFit(o)
    BY <1>2, <1>6, UnderwayOnly
  <2>2. order[o].pc \in {"launch", "end"} /\ Alive \subseteq {p} /\ KillAt(o) \in {"none", "end"}
    BY <1>1, <1>2, <2>1 DEF ShellsFit
  <2> QED BY <1>2, <1>4, <1>5, <2>1, <2>2 DEF ShellsFit
<1> QED BY <1>2, <1>4, <1>5, <1>6, ShellStep

\* What is alive only shrinks while the orders and the shells stay.
LEMMA DaemonStep ==
  ASSUME DeployInv, NEW p \in Pids, DaemonStarts(p) \/ DaemonDies(p)
  PROVE  DeployInv'
<1> USE DeployBounds
<1>1. p \in Alive /\ order' = order /\ shell' = shell /\ job' = job /\ (faults' = faults \/ Fault)
  BY DEF DaemonStarts, DaemonDies, Alive
<1>2. PICK d \in {"up", "dead"} : host' = [host EXCEPT !.daemon[p] = d]
  <2>1. CASE DaemonStarts(p)
    BY <2>1 DEF DaemonStarts
  <2>2. CASE DaemonDies(p)
    BY <2>2 DEF DaemonDies
  <2> QED BY <1>1, <2>1, <2>2
<1>3. host' \in HostRow /\ host'.file = host.file /\ Alive' \subseteq Alive
  <2>1. d \in DaemonStates
    BY DEF DaemonStates
  <2>2. host' \in HostRow /\ host'.file = host.file /\ \A q \in Pids \ {p} : host'.daemon[q] = host.daemon[q]
    BY <1>2, <2>1, DaemonMoves
  <2> QED BY <1>1, <2>2 DEF Alive
<1>4. faults' \in [left : 0..SshFaults, spoilt : BOOLEAN] /\ faults'.spoilt = faults.spoilt
  BY <1>1, DeployTyped, FaultTyped
<1>5. DeployFields'
  BY <1>1, <1>3, <1>4, DeployTyped DEF DeployFields
<1>6. ASSUME ~faults'.spoilt
      PROVE  OneUnderway' /\ (\A o \in Orders : ShellsFit(o)') /\ FileFits'
  <2>1. OneUnderway /\ (\A o \in Orders : ShellsFit(o)) /\ FileFits
    BY <1>4, <1>6 DEF DeployInv
  <2>2. OneUnderway'
    BY <1>1, <2>1 DEF OneUnderway, Underway, ShellRuns
  <2>3. ASSUME NEW o \in Orders PROVE ShellsFit(o)'
    BY <1>1, <1>3, <2>1 DEF ShellsFit, KillAt, LaunchAt
  <2>4. FileFits'
    BY <1>1, <1>3, <2>1 DEF FileFits, LaunchAt
  <2> QED BY <2>2, <2>3, <2>4
<1> QED BY <1>5, <1>6 DEF DeployInv

LEMMA DeployInvNext == DeployInv /\ [DeployNext]_deployVars => DeployInv'
<1> SUFFICES ASSUME DeployInv, [DeployNext]_deployVars PROVE DeployInv'
  OBVIOUS
<1>1. CASE UNCHANGED deployVars
  BY <1>1 DEF deployVars, DeployInv, DeployFields, OneUnderway, Underway, ShellRuns, ShellsFit, FileFits, KillAt, LaunchAt, Alive
<1>2. ASSUME NEW o \in Orders, DeployStub(o) \/ RestartStub(o) \/ StopStub(o) PROVE DeployInv'
  BY <1>2, ArrivesStep
<1>3. ASSUME NEW o \in Orders, SyncCode(o) \/ PreflightRuntime(o) PROVE DeployInv'
  BY <1>3, PreflightStep
<1>4. ASSUME NEW o \in Orders, KillEnds(o) \/ KillLost(o) PROVE DeployInv'
  BY <1>4, KillStep
<1>5. ASSUME NEW o \in Orders, LaunchEnds(o) \/ LaunchLost(o) PROVE DeployInv'
  BY <1>5, LaunchStep
<1>6. ASSUME NEW o \in Orders, NEW c \in {"kill", "launch"}, NeverRan(o, c) PROVE DeployInv'
  BY <1>6, NeverRanStep
<1>7. ASSUME NEW o \in Orders, ShellKills(o) \/ ShellRemoves(o) \/ ShellSpawns(o) \/ ShellWritesPid(o) PROVE DeployInv'
  BY <1>7, ShellKillsStep, ShellRemovesStep, ShellSpawnsStep, ShellWritesPidStep
<1>8. ASSUME NEW o \in Orders, SubmitSlurmJob(o) \/ SubmitFails(o) \/ CancelSlurmJob(o) PROVE DeployInv'
  BY <1>8, SlurmStep
<1>9. ASSUME NEW p \in Pids, DaemonStarts(p) \/ DaemonDies(p) PROVE DeployInv'
  BY <1>9, DaemonStep
<1> QED BY <1>1, <1>2, <1>3, <1>4, <1>5, <1>6, <1>7, <1>8, <1>9 DEF DeployNext

-----------------------------------------------------------------------------
(* The three beside the other parts. *)

LEMMA LinksBegin == Init => TunnelInit /\ RegistryInit /\ DeployInit
BY DEF Init

LEMMA LinksMove ==
  [Next]_edgesVars => [TunnelNext]_tunnelVars /\ [RegistryNext]_registryVars /\ [DeployNext]_deployVars
BY DEF Next, edgesVars, otherVars

\* Whatever is lost, cut off or restarted, no daemon and no tunnel runs that those who
\* stop them do not know, and each socket the server keeps for a stub is that stub's
\* (deploy.ts:186-333, tunnel.ts:20-136, socket/stub.ts:934-1037).
THEOREM LinksHold == Spec => []LinksKnown
<1>1. Init => TunnelInv /\ RegistryInv /\ DeployInv
  BY LinksBegin, TunnelInvInit, RegistryInvInit, DeployInvInit
<1>2. TunnelInv /\ RegistryInv /\ DeployInv /\ [Next]_edgesVars => TunnelInv' /\ RegistryInv' /\ DeployInv'
  BY LinksMove, TunnelInvNext, RegistryInvNext, DeployInvNext
<1>3. TunnelInv /\ RegistryInv /\ DeployInv => LinksKnown
  BY RegistryInvMeans, DeployInvMeans DEF LinksKnown, TunnelInv
<1> QED BY <1>1, <1>2, <1>3, PTL DEF Spec
=============================================================================
