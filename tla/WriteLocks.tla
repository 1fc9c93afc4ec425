------------------------------ MODULE WriteLocks ------------------------------
(***************************************************************************)
(* Two tables the server keeps in memory beside its tasks: the write locks *)
(* of explicit run_dirs, and the index of active fingerprints.  Both say   *)
(* no to a submission, both are written from every status update, and both *)
(* are rebuilt: the index when the server starts, the locks when a stub    *)
(* resumes.                                                                *)
(***************************************************************************)
EXTENDS Naturals, FiniteSets

CONSTANTS
  Dirs,         \* explicit run_dirs
  Nested,       \* the pairs of them of which one contains the other
  Prints,       \* fingerprints
  MaxHolders,   \* bound: task ids
  Disturbances  \* bound: requeues, retries, recoveries, lost stubs, restarts

NoDir == "a run_dir of its own"
NoTask == 0

ASSUME LockAssumption ==
  /\ NoDir \notin Dirs /\ Nested \subseteq Dirs \X Dirs
  /\ MaxHolders \in Nat /\ Disturbances \in Nat

VARIABLES
  holder,     \* the tasks: status, run_dir, fingerprint, kill_requested or stub_offline
  lock,       \* writeLockTable
  index,      \* fingerprintIndex
  locksKnown, \* a stub has resumed since the server started
  shared,     \* history: run_dirs given to a task without a look at the table
  opened,     \* history: run_dirs whose lock the update of an ended task took away
  twice,      \* history: fingerprints let in beside an active task
  lockLeft    \* what is left of Disturbances

lockVars == <<holder, lock, index, locksKnown, shared, opened, twice, lockLeft>>

Holders == 1..MaxHolders
Holder == [status : {"none", "pending", "live", "ended", "deleted"},
           dir : Dirs \cup {NoDir}, print : Prints, away : BOOLEAN]

LockTypeOK ==
  /\ holder \in [Holders -> Holder]
  /\ lock \in [Dirs -> Holders \cup {NoTask}]
  /\ index \in [Prints -> Holders \cup {NoTask}]
  /\ locksKnown \in BOOLEAN /\ lockLeft \in 0..Disturbances
  /\ shared \subseteq Dirs /\ opened \subseteq Dirs /\ twice \subseteq Prints

Active(t) == holder[t].status \in {"pending", "live"}
Unused(t) == holder[t].status = "none" /\ \A u \in 1..(t - 1) : holder[u].status # "none"
Conflict(d, e) == d = e \/ <<d, e>> \in Nested \/ <<e, d>> \in Nested
Disturb == lockLeft > 0 /\ lockLeft' = lockLeft - 1

LockInit ==
  /\ \E p \in Prints :
       holder = [t \in Holders |-> [status |-> "none", dir |-> NoDir, print |-> p, away |-> FALSE]]
  /\ lock = [d \in Dirs |-> NoTask] /\ index = [p \in Prints |-> NoTask]
  /\ locksKnown = TRUE
  /\ shared = {} /\ opened = {} /\ twice = {}
  /\ lockLeft = Disturbances

(***************************************************************************)
(* The tables.                                                             *)
(***************************************************************************)
Free(dir) == \A d \in Dirs : Conflict(dir, d) => lock[d] = NoTask

\* acquire: a conflict leaves the table as it is, whoever holds the lock.
Acquired(t, dir) == IF dir \in Dirs /\ Free(dir) THEN [lock EXCEPT ![dir] = t] ELSE lock

\* Mutant: the end of a task leaves its lock.
ReleasedNot(dir) == IF dir \in Dirs THEN lock ELSE lock

\* release: by path, whoever holds the lock.
Released(dir) == IF dir \in Dirs THEN [lock EXCEPT ![dir] = NoTask] ELSE lock

Indexed(t) == [index EXCEPT ![holder[t].print] = t]
Unindexed(t) == IF index[holder[t].print] = t THEN [index EXCEPT ![holder[t].print] = NoTask] ELSE index

\* findActiveByFingerprint.
Known(print) ==
  /\ index[print] # NoTask
  /\ holder[index[print]].status # "deleted" /\ ~holder[index[print]].away

OthersWith(print, t) == {u \in Holders \ {t} : Active(u) /\ holder[u].print = print}
Again(print, t) == IF OthersWith(print, t) = {} THEN twice ELSE twice \cup {print}

\* rebuild: the last of the active tasks of a path gets its lock.
Rebuilt(h, table) ==
  \A d \in Dirs :
    LET on == {t \in Holders : h[t].status \in {"pending", "live"} /\ h[t].dir = d}
    IN  IF on = {} THEN table[d] = NoTask ELSE table[d] \in on

(***************************************************************************)
(* Submission: POST /tasks, and POST /stubs/:id/tasks, which leaves the    *)
(* index alone when the task has to wait for a slot.                       *)
(***************************************************************************)
Unguarded(dir) ==
  dir \in Dirs /\ \E t \in Holders : Active(t) /\ holder[t].dir \in Dirs /\ Conflict(dir, holder[t].dir)

\* Mutant: the lock is looked up and not taken.
AdmitUnlocked(t, dir, print) ==
  /\ Unused(t)
  /\ ~Known(print) /\ (dir \in Dirs => Free(dir))
  /\ holder' = [holder EXCEPT ![t] = [status |-> "pending", dir |-> dir, print |-> print, away |-> FALSE]]
  /\ lock' = lock
  /\ shared' = IF Unguarded(dir) /\ ~locksKnown THEN shared \cup {dir} ELSE shared
  /\ UNCHANGED <<locksKnown, opened, lockLeft>>

Admit(t, dir, print) ==
  /\ Unused(t)
  /\ ~Known(print) /\ (dir \in Dirs => Free(dir))
  /\ holder' = [holder EXCEPT ![t] = [status |-> "pending", dir |-> dir, print |-> print, away |-> FALSE]]
  /\ lock' = Acquired(t, dir)
  /\ shared' = IF Unguarded(dir) /\ ~locksKnown THEN shared \cup {dir} ELSE shared
  /\ UNCHANGED <<locksKnown, opened, lockLeft>>

SubmitTask(t) ==
  \E dir \in Dirs \cup {NoDir}, print \in Prints :
    /\ Admit(t, dir, print)
    /\ index' = [index EXCEPT ![print] = t]
    /\ twice' = Again(print, t)

SubmitToStub(t) ==
  \E dir \in Dirs \cup {NoDir}, print \in Prints :
    /\ Admit(t, dir, print)
    /\ UNCHANGED index
    /\ twice' = twice \cup {print}

(***************************************************************************)
(* Updates of a task.  Each update of an active one indexes it again.      *)
(***************************************************************************)
TaskStarted(t) ==
  /\ holder[t].status = "pending"
  /\ holder' = [holder EXCEPT ![t].status = "live"]
  /\ lock' = Acquired(t, holder[t].dir)
  /\ index' = Indexed(t)
  /\ UNCHANGED <<locksKnown, shared, opened, twice, lockLeft>>

\* A kill is requested, or the stub is lost; or it comes back.
TaskAway(t) ==
  /\ Disturb /\ Active(t)
  /\ holder' = [holder EXCEPT ![t].away = ~@]
  /\ index' = Indexed(t)
  /\ UNCHANGED <<lock, locksKnown, shared, opened, twice>>

\* Any end: completed, failed, cancelled.
TaskEnds(t) ==
  /\ Active(t)
  /\ holder' = [holder EXCEPT ![t].status = "ended", ![t].away = FALSE]
  /\ lock' = Released(holder[t].dir)
  /\ index' = Unindexed(t)
  /\ UNCHANGED <<locksKnown, shared, opened, twice, lockLeft>>

\* An ended task is adopted by an experiment, replaced, marked: its run_dir is
\* released once more.
UpdateEnded(t) ==
  /\ holder[t].status = "ended"
  /\ lock' = Released(holder[t].dir)
  /\ opened' = IF holder[t].dir \in Dirs /\ lock[holder[t].dir] # NoTask
               THEN opened \cup {holder[t].dir} ELSE opened
  /\ UNCHANGED <<holder, index, locksKnown, shared, twice, lockLeft>>

DeleteTask(t) ==
  /\ holder[t].status = "ended"
  /\ holder' = [holder EXCEPT ![t].status = "deleted"]
  /\ UNCHANGED <<lock, index, locksKnown, shared, opened, twice, lockLeft>>

(***************************************************************************)
(* What makes a task active without asking the tables.                     *)
(***************************************************************************)
\* createRetryTask: a new id, a run_dir of its own.
RetryTask(t) ==
  /\ Disturb /\ holder[t].status = "ended"
  /\ \E u \in Holders :
       /\ Unused(u)
       /\ holder' = [holder EXCEPT ![u] = [holder[t] EXCEPT !.status = "pending", !.dir = NoDir]]
       /\ index' = [index EXCEPT ![holder[t].print] = u]
  /\ twice' = Again(holder[t].print, t)
  /\ UNCHANGED <<lock, locksKnown, shared, opened>>

\* Batch requeue: the same task in the same run_dir.
RequeueTask(t) ==
  /\ Disturb /\ holder[t].status \in {"ended", "pending"}
  /\ holder' = [holder EXCEPT ![t].status = "pending"]
  /\ index' = Indexed(t)
  /\ twice' = Again(holder[t].print, t)
  /\ shared' = IF holder[t].dir \in Dirs THEN shared \cup {holder[t].dir} ELSE shared
  /\ UNCHANGED <<lock, locksKnown, opened>>

\* handleResume: tasks taken for failed are recovered, then the locks rebuilt.
StubResumes ==
  /\ Disturb
  /\ \E back \in SUBSET {t \in Holders : holder[t].status = "ended"} :
       /\ Cardinality(back) <= 1
       /\ holder' = [t \in Holders |-> IF t \in back THEN [holder[t] EXCEPT !.status = "live"] ELSE holder[t]]
       /\ index' = [p \in Prints |-> IF \E t \in back : holder[t].print = p
                                     THEN CHOOSE t \in back : holder[t].print = p ELSE index[p]]
       /\ twice' = twice \cup {p \in Prints : \E t \in back : holder[t].print = p /\ OthersWith(p, t) # {}}
       /\ shared' = shared \cup {d \in Dirs : \E t \in back : holder[t].dir = d}
  /\ lock' \in [Dirs -> Holders \cup {NoTask}] /\ Rebuilt(holder', lock')
  /\ locksKnown' = TRUE
  /\ UNCHANGED opened

\* The index is rebuilt from the database, the table of locks is empty.
ServerRestart ==
  /\ Disturb
  /\ lock' = [d \in Dirs |-> NoTask]
  /\ index' \in [Prints -> Holders \cup {NoTask}]
  /\ \A p \in Prints :
       LET on == {t \in Holders : Active(t) /\ holder[t].print = p}
       IN  IF on = {} THEN index'[p] = NoTask ELSE index'[p] \in on
  /\ locksKnown' = FALSE
  /\ UNCHANGED <<holder, shared, opened, twice>>

LockNext ==
  \/ \E t \in Holders :
       \/ SubmitTask(t) \/ SubmitToStub(t) \/ TaskStarted(t) \/ TaskAway(t) \/ TaskEnds(t)
       \/ UpdateEnded(t) \/ DeleteTask(t) \/ RetryTask(t) \/ RequeueTask(t)
  \/ StubResumes \/ ServerRestart

LockSpec == LockInit /\ [][LockNext]_lockVars

(***************************************************************************)
(* Properties.                                                             *)
(***************************************************************************)
Together(t, u) ==
  /\ t # u /\ Active(t) /\ Active(u)
  /\ holder[t].dir \in Dirs /\ holder[u].dir \in Dirs /\ Conflict(holder[t].dir, holder[u].dir)

\* No lock outlives its task: whoever is named in the table is active, and in
\* that run_dir.  A lock that leaked would refuse the run_dir for ever
\* (dedup.ts:1-135, store/index.ts:1776-1809).
LocksHaveOwners ==
  \A d \in Dirs : lock[d] # NoTask => Active(lock[d]) /\ holder[lock[d]].dir = d

\* Two active tasks never have run_dirs of which one contains the other, but
\* for those that came in without the table or whose lock was opened.
OneWriterPerDir ==
  \A t, u \in Holders :
    Together(t, u) => {holder[t].dir, holder[u].dir} \cap (shared \cup opened) # {}

\* The table of write locks does what it is for: both of the above.
DirsGuarded == LocksHaveOwners /\ OneWriterPerDir

\* An active fingerprint is refused: but for those let in again on purpose it
\* has one active task, and the index names it, through restarts, retries and
\* updates in any order (store/index.ts:1740-1773).
DuplicateRefused ==
  \A t \in Holders :
    Active(t) /\ holder[t].print \notin twice =>
      index[holder[t].print] = t /\ OthersWith(holder[t].print, t) = {}

\* Neither a run_dir nor a fingerprint has two writers: both of the above
\* (dedup.ts:1-135, store/index.ts:1740-1809).
LocksSound == DirsGuarded /\ DuplicateRefused
=============================================================================
