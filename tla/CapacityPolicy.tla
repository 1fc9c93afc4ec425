---------------------------- MODULE CapacityPolicy ----------------------------
(***************************************************************************)
(* The automatic capacity policy (capacity/automation.ts and its routes in *)
(* api/capacity.ts): at most one allocation is acquired or released per    *)
(* reconciliation, within caps and after a cooldown, each with its intent  *)
(* and its outcome in a ledger, until the kill switch ends it for good.    *)
(* The provider of recommendations, the barrier before a release and the   *)
(* backend are given to the router from outside and awaited.               *)
(***************************************************************************)
EXTENDS Naturals, FiniteSets, FiniteSetsExt

CONSTANTS
  Wanted,      \* recommendations, by their identity
  Owned,       \* allocations that are there from the start, managed and not pinned
  Rounds,      \* POST /capacity/policy/reconcile
  MaxTotal,    \* max_total
  MaxPending,  \* max_pending
  Cooldown,    \* cooldown_seconds
  Horizon,     \* the time a run takes
  PolicyCrashes

ASSUME PolicyAssumption ==
  /\ {MaxTotal, MaxPending, Cooldown, Horizon, PolicyCrashes} \subseteq Nat
  /\ Wanted \cap Owned = {} /\ IsFiniteSet(Owned) /\ Cardinality(Owned) <= MaxTotal

VARIABLES
  policy,   \* in memory: enabled and automatic, last_action_at (Never if there is none), crashes left
  ledger,   \* on disk: the kill switch, and the intents with what became of them
  pool,     \* [Wanted \cup Owned -> state of the allocation], by idempotency key
  visit,    \* [Rounds -> where the reconciliation is]
  now

policyVars == <<policy, ledger, pool, visit, now>>

Never == Horizon + Cooldown + 1
Allocs == Wanted \cup Owned
Active(k) == pool[k] \in {"pending", "running", "busy"}
ActiveOnes == {k \in Allocs : Active(k)}
PendingOnes == {k \in Allocs : pool[k] = "pending"}
CoolingDown == policy.last # Never /\ now - policy.last < Cooldown
Applying == {c \in Rounds : visit[c].pc \in {"acquire", "barrier", "release"}}
Leaves(c) == visit' = [visit EXCEPT ![c].pc = "end"]

PolicyInit ==
  /\ policy = [on |-> TRUE, last |-> Never, crashes |-> PolicyCrashes]
  /\ ledger = [off |-> FALSE, intents |-> {}]
  /\ pool = [k \in Allocs |-> IF k \in Owned THEN "running" ELSE "none"]
  /\ visit = [c \in Rounds |-> [pc |-> "new", on |-> "none", at |-> 0, alone |-> TRUE]]
  /\ now = 0

\* A policy that is not automatic only records what it would do.
Reconcile(c) ==
  /\ visit[c].pc = "new"
  /\ visit' = [visit EXCEPT ![c].pc = IF policy.on THEN "provider" ELSE "end"]
  /\ UNCHANGED <<policy, ledger, pool, now>>

Intent(c, k, kind, alone) ==
  [by |-> c, key |-> k, kind |-> kind, at |-> visit[c].at, end |-> now, out |-> "intent", alone |-> alone,
   late |-> ledger.off]
Record(i) == ledger' = [ledger EXCEPT !.intents = @ \cup {i}]

\* The provider recommends an acquisition: checks, intent and call are one step.
Recommends(c, k) ==
  /\ visit[c].pc = "provider"
  /\ IF ~policy.on \/ CoolingDown \/ Cardinality(ActiveOnes) >= MaxTotal \/ Cardinality(PendingOnes) >= MaxPending
     THEN Leaves(c) /\ UNCHANGED ledger
     ELSE /\ visit' = [visit EXCEPT ![c] = [pc |-> "acquire", on |-> k, at |-> now, alone |-> Applying = {}]]
          /\ Record([Intent(c, k, "acquire", Applying = {}) EXCEPT !.at = now])
  /\ UNCHANGED <<policy, pool, now>>

\* A recommendation without enough validated snapshots, or none and nothing idle.
NothingToDo(c) ==
  /\ visit[c].pc = "provider"
  /\ Leaves(c)
  /\ UNCHANGED <<policy, ledger, pool, now>>

\* It recommends nothing, and an allocation of ours is idle: the mode is settled, the barrier awaited.
OwnedIdle(c, k) ==
  /\ visit[c].pc = "provider" /\ pool[k] \in {"pending", "running"}
  /\ visit' = [visit EXCEPT ![c] =
       IF policy.on /\ ~CoolingDown THEN [pc |-> "barrier", on |-> k, at |-> now, alone |-> Applying = {}]
       ELSE [@ EXCEPT !.pc = "end"]]
  /\ UNCHANGED <<policy, ledger, pool, now>>

\* The barrier finds it idle, or not; the policy is not looked at again.
BarrierEnds(c) ==
  /\ visit[c].pc = "barrier"
  /\ \/ /\ visit' = [visit EXCEPT ![c].pc = "release"]
        /\ pool[visit[c].on] # "busy"
        /\ Record(Intent(c, visit[c].on, "release", visit[c].alone))
     \/ Leaves(c) /\ UNCHANGED ledger
  /\ UNCHANGED <<policy, pool, now>>

\* What the calls of D do to the pool, once per key.
Effect(D) ==
  pool' = [k \in Allocs |->
    IF \E c \in D : visit[c].pc = "release" /\ visit[c].on = k THEN "released"
    ELSE IF pool[k] = "none" /\ \E c \in D : visit[c].pc = "acquire" /\ visit[c].on = k THEN "pending"
    ELSE pool[k]]
Outcome(c, out) ==
  ledger' = [ledger EXCEPT !.intents = {IF i.by = c THEN [i EXCEPT !.out = out, !.end = now] ELSE i : i \in @}]

BackendEnds(c) ==
  /\ visit[c].pc \in {"acquire", "release"}
  /\ \/ /\ Effect({c}) /\ Outcome(c, "applied")
        /\ policy' = [policy EXCEPT !.last = visit[c].at]
     \/ /\ \E D \in SUBSET {c} : Effect(D) \* an error does not say which
        /\ Outcome(c, "failed") /\ UNCHANGED policy
  /\ Leaves(c)
  /\ UNCHANGED now

\* POST /capacity/policy/disable
DisableCapacityPolicy ==
  /\ ~ledger.off
  /\ ledger' = [ledger EXCEPT !.off = TRUE]
  /\ policy' = [policy EXCEPT !.on = FALSE]
  /\ UNCHANGED <<pool, visit, now>>

\* Mutant: the cooldown is not read back.
Forgotten == [policy EXCEPT !.on = ~ledger.off, !.last = Never, !.crashes = @ - 1]

\* createCapacityRouter: the switch first, else the time of the latest applied event.
Restored ==
  LET applied == {i.end : i \in {j \in ledger.intents : j.out = "applied"}}
  IN  [policy EXCEPT !.on = ~ledger.off, !.crashes = @ - 1,
                     !.last = IF ledger.off \/ applied = {} THEN Never ELSE Max(applied)]

\* A restart: what was under way is forgotten, and took effect or did not.
RestartPolicy ==
  /\ policy.crashes > 0
  /\ \E D \in SUBSET Applying : Effect(D)
  /\ ledger' = [ledger EXCEPT !.intents =
                 {IF i.out = "intent" THEN [i EXCEPT !.out = "unknown"] ELSE i : i \in @}]
  /\ visit' = [c \in Rounds |-> IF visit[c].pc = "new" THEN visit[c] ELSE [visit[c] EXCEPT !.pc = "end"]]
  /\ policy' = Restored
  /\ UNCHANGED now

\* The machines and the clock.
PoolMoves(k) ==
  /\ \/ pool[k] = "pending" /\ pool' = [pool EXCEPT ![k] = "running"]
     \/ pool[k] = "running" /\ pool' = [pool EXCEPT ![k] = "busy"]
     \/ pool[k] = "busy" /\ pool' = [pool EXCEPT ![k] = "running"]
  /\ UNCHANGED <<policy, ledger, visit, now>>

TimePasses ==
  /\ now < Horizon
  /\ now' = now + 1
  /\ UNCHANGED <<policy, ledger, pool, visit>>

PolicyNext ==
  \/ \E c \in Rounds : Reconcile(c) \/ NothingToDo(c) \/ BarrierEnds(c) \/ BackendEnds(c)
  \/ \E c \in Rounds, k \in Wanted : Recommends(c, k)
  \/ \E c \in Rounds, k \in Allocs : OwnedIdle(c, k)
  \/ \E k \in Allocs : PoolMoves(k)
  \/ DisableCapacityPolicy \/ RestartPolicy \/ TimePasses

PolicySpec == PolicyInit /\ [][PolicyNext]_policyVars

Intents == [by : Rounds, key : Allocs, kind : {"acquire", "release"}, at : 0..Horizon, end : 0..Horizon,
            out : {"intent", "applied", "failed", "unknown"}, alone : BOOLEAN, late : BOOLEAN]
PolicyTypeOK ==
  /\ policy \in [on : BOOLEAN, last : 0..Horizon \cup {Never}, crashes : 0..PolicyCrashes]
  /\ ledger \in [off : BOOLEAN, intents : SUBSET Intents]
  /\ pool \in [Allocs -> {"none", "pending", "running", "busy", "released"}]
  /\ visit \in [Rounds -> [pc : {"new", "provider", "acquire", "barrier", "release", "end"},
                                 on : Allocs \cup {"none"}, at : 0..Horizon, alone : BOOLEAN]]
  /\ now \in 0..Horizon

-----------------------------------------------------------------------------
\* Reconciliations do not wait for one another: what two at once decide is excepted.
AllAlone == \A i \in ledger.intents : i.alone

\* No more allocations than the cap, whatever failed, took effect late or was repeated.
CapKept == AllAlone => Cardinality(ActiveOnes) <= MaxTotal

\* Two changes are a cooldown apart, across restarts too; excepted what a crash kept from the ledger.
CooldownKept ==
  AllAlone => \A i, j \in ledger.intents :
    i.out = "applied" /\ j.out = "applied" /\ i.by # j.by => i.at + Cooldown <= j.at \/ j.at + Cooldown <= i.at

\* The kill switch is not undone by a restart, and nothing is begun after it but a
\* release whose barrier was under way.
SwitchKept ==
  /\ ledger.off => ~policy.on
  /\ \A i \in ledger.intents : i.late => i.kind = "release"

\* The policy stays within its caps and its cooldown, and off once it is switched off
\* (automation.ts:86-170, api/capacity.ts:357-362, 389-398).
PolicyKept == CapKept /\ CooldownKept /\ SwitchKept
=============================================================================
