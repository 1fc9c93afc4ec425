---------------------------- MODULE Checkpointing ----------------------------
(***************************************************************************)
(* The training loop of ManagedTraining (managed.py): steps, the four      *)
(* reasons to save, the atomic save, and what a later process of the same  *)
(* task finds.  Processes may be killed between any two steps, the disk    *)
(* may be full, and two processes of a task may overlap.                   *)
(***************************************************************************)
EXTENDS Integers, FiniteSets, FiniteSetsExt

CONSTANTS
  Processes,     \* the processes the stub starts, in order
  TaskRun,       \* [Processes -> tasks]: a requeue keeps the task, a retry is a new one
  TotalSteps, EverySteps,
  Mishaps        \* kills, signals, full disks and overlaps in a run

ASSUME CheckpointingAssumption ==
  /\ TotalSteps \in Nat \ {0} /\ EverySteps \in Nat \ {0} /\ Mishaps \in Nat
  /\ Processes \subseteq Nat

VARIABLES
  disk,      \* [task -> step -> "none", "torn" or "whole"]: the files checkpoint_<step>.pkl
  temp,      \* [process -> "none", "torn" or "whole"]: its temporary file
  proc,      \* [process -> record]
  mishaps

checkpointVars == <<disk, temp, proc, mishaps>>

Dirs == {TaskRun[p] : p \in Processes}
Steps == 0..TotalSteps
\* _default_checkpoint_dir: by task, so a retry finds nothing of its predecessor.
DirOf(p) == TaskRun[p]
Saved(d) == {s \in Steps : disk[d][s] # "none"}
LivePc == {"loop", "stepped", "due", "saving", "written", "placed"}
Ended == {"done", "stopped", "failed", "dead"}

Mishap == mishaps > 0 /\ mishaps' = mishaps - 1
At(p, pc) == proc[p].pc = pc
Go(p, pc) == proc' = [proc EXCEPT ![p].pc = pc]

CheckpointInit ==
  /\ disk = [d \in Dirs |-> [s \in Steps |-> "none"]]
  /\ temp = [p \in Processes |-> "none"]
  /\ proc = [p \in Processes |->
               [pc |-> "new", step |-> 0, start |-> 0, found |-> {}, own |-> TRUE, usr1 |-> FALSE,
                signalled |-> -1, ask |-> FALSE, stop |-> FALSE, then |-> "loop"]]
  /\ mishaps = Mishaps

BeginsAt(p, step, own) ==
  /\ proc' = [proc EXCEPT ![p].pc = "loop", ![p].step = step, ![p].start = step,
                          ![p].found = Saved(DirOf(p)), ![p].own = own]
  /\ UNCHANGED <<disk, temp>>

Free(p) ==
  /\ At(p, "new")
  /\ \A q \in Processes : q < p => ~At(q, "new")

\* _find_latest_checkpoint: the highest step.  Only a mishap starts a second
\* process beside one that lives.
Launch(p) ==
  /\ Free(p)
  /\ IF \A q \in Processes : TaskRun[q] = TaskRun[p] => proc[q].pc \notin LivePc
     THEN UNCHANGED mishaps ELSE Mishap
  /\ BeginsAt(p, Max(Saved(DirOf(p)) \cup {0}), TRUE)

\* --resume-from wins, whichever checkpoint it names; a legacy file without a number is step 0.
LaunchFrom(p, d, step) ==
  /\ Free(p) /\ Mishap
  /\ step = 0 \/ disk[d][step] = "whole"
  /\ BeginsAt(p, step, FALSE)

TakeStep(p) ==
  /\ At(p, "loop") /\ proc[p].step < TotalSteps /\ ~proc[p].stop
  /\ proc' = [proc EXCEPT ![p].pc = "stepped", ![p].step = @ + 1]
  /\ UNCHANGED <<disk, temp, mishaps>>

\* _should_checkpoint, whose reasons are asked in this order; minutes pass or do not.
ShouldCheckpoint(p) ==
  \E late \in BOOLEAN :
    LET sure == proc[p].usr1 \/ proc[p].step % EverySteps = 0 \/ late
    IN  /\ At(p, "stepped")
        /\ proc' = [proc EXCEPT ![p].pc = IF sure \/ proc[p].ask THEN "due" ELSE "loop",
                                ![p].ask = @ /\ sure]
        /\ UNCHANGED <<disk, temp, mishaps>>

\* The flag is taken back first, then the state is saved.
BeginSave(p) ==
  /\ At(p, "due")
  /\ proc' = [proc EXCEPT ![p].pc = "saving", ![p].usr1 = FALSE, ![p].then = "loop"]
  /\ UNCHANGED <<disk, temp, mishaps>>

\* The loop is left by a stop, at its end, or with the data: one last save.
LeaveLoop(p) ==
  \E end \in {"stopped", "done"} :
    /\ At(p, "loop")
    /\ end = "stopped" => proc[p].stop /\ proc[p].step < TotalSteps
    /\ proc' = [proc EXCEPT ![p].pc = "saving", ![p].then = end]
    /\ UNCHANGED <<disk, temp, mishaps>>

\* Mutant: the file is written under its name.
WriteInPlace(p) ==
  /\ At(p, "saving")
  /\ temp' = [temp EXCEPT ![p] = IF @ = "torn" THEN "whole" ELSE "torn"]
  /\ disk' = [disk EXCEPT ![DirOf(p)][proc[p].step] = temp'[p]]
  /\ Go(p, IF temp[p] = "torn" THEN "written" ELSE "saving")
  /\ UNCHANGED mishaps

WriteTemp(p) ==
  /\ At(p, "saving")
  /\ temp' = [temp EXCEPT ![p] = IF @ = "torn" THEN "whole" ELSE "torn"]
  /\ Go(p, IF temp[p] = "torn" THEN "written" ELSE "saving")
  /\ UNCHANGED <<disk, mishaps>>

\* os.replace, after the fsync.
PlaceFile(p) ==
  /\ At(p, "written")
  /\ disk' = [disk EXCEPT ![DirOf(p)][proc[p].step] = temp[p]]
  /\ temp' = [temp EXCEPT ![p] = "none"]
  /\ Go(p, "placed")
  /\ UNCHANGED mishaps

\* Alchemy.checkpoint, and at the end done() and close().
ReportSave(p) ==
  /\ At(p, "placed")
  /\ Go(p, proc[p].then)
  /\ UNCHANGED <<disk, temp, mishaps>>

SaveFails(p) ==
  /\ Mishap
  /\ proc[p].pc \in {"saving", "written"}
  /\ temp' = [temp EXCEPT ![p] = "none"]
  /\ Go(p, "failed")
  /\ UNCHANGED disk

\* SIGTERM has no handler; the temporary file stays.
Killed(p) ==
  /\ Mishap
  /\ proc[p].pc \in LivePc
  /\ Go(p, "dead")
  /\ UNCHANGED <<disk, temp>>

Usr1(p) ==
  /\ Mishap
  /\ proc[p].pc \in LivePc
  /\ proc' = [proc EXCEPT ![p].usr1 = TRUE, ![p].signalled = proc[p].step]
  /\ UNCHANGED <<disk, temp>>

ServerAsks(p) ==
  \E stop \in BOOLEAN :
    /\ Mishap
    /\ proc[p].pc \in LivePc
    /\ proc' = [proc EXCEPT ![p].stop = @ \/ stop, ![p].ask = @ \/ ~stop]
    /\ UNCHANGED <<disk, temp>>

CheckpointNext ==
  \E p \in Processes :
    \/ Launch(p)
    \/ \E d \in Dirs, s \in Steps : LaunchFrom(p, d, s)
    \/ TakeStep(p) \/ ShouldCheckpoint(p) \/ BeginSave(p) \/ LeaveLoop(p)
    \/ WriteTemp(p) \/ PlaceFile(p) \/ ReportSave(p)
    \/ SaveFails(p) \/ Killed(p) \/ Usr1(p) \/ ServerAsks(p)

CheckpointSpec == CheckpointInit /\ [][CheckpointNext]_checkpointVars

CheckpointTypeOK ==
  /\ disk \in [Dirs -> [Steps -> {"none", "torn", "whole"}]]
  /\ temp \in [Processes -> {"none", "torn", "whole"}]
  /\ \A p \in Processes :
       /\ proc[p].pc \in LivePc \cup Ended \cup {"new"} /\ proc[p].then \in {"loop", "stopped", "done"}
       /\ {proc[p].step, proc[p].start} \cup proc[p].found \subseteq Steps
       /\ proc[p].signalled \in Steps \cup {-1}

(***************************************************************************)
(* Whatever is killed, and whoever else writes: a checkpoint that can be   *)
(* found is whole; a process that chose its checkpoint itself repeats no   *)
(* step that was saved when it began; what has ended in order, or has      *)
(* answered a SIGUSR1, has saved the step it was at.                       *)
(***************************************************************************)
CheckpointsSound ==
  /\ \A d \in Dirs, s \in Steps : disk[d][s] # "torn"
  /\ \A p \in Processes :
       LET kept == {s \in Steps : disk[DirOf(p)][s] = "whole"}
       IN  /\ proc[p].pc # "new" /\ proc[p].own => \A s \in proc[p].found : proc[p].start >= s
           /\ proc[p].pc \in {"done", "stopped"} => proc[p].step \in kept
           /\ At(p, "loop") /\ ~proc[p].usr1 /\ proc[p].signalled >= 0
                => \E s \in kept : s >= proc[p].signalled
=============================================================================
