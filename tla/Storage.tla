------------------------------- MODULE Storage -------------------------------
(***************************************************************************)
(* Where the tasks are kept (store/index.ts, store/backup.ts): the arrays  *)
(* of the stubs in memory, the rows of the database, and the backups.      *)
(* A handler is one step for everybody else, but its commits are not one   *)
(* for a crash: what lies between two commits is a state of its own        *)
(* ("moving", "cleared").                                                  *)
(***************************************************************************)
EXTENDS Sequences, Naturals

CONSTANTS
  Held,         \* tasks
  Hosts,        \* stubs; none is deleted
  KeepCount,    \* BACKUP_KEEP_COUNT
  MaxBackups,   \* backups taken in a run
  Slips         \* crashes and failed writes in a run

NoHost == "nowhere"

ASSUME StorageAssumption ==
  KeepCount \in Nat \ {0} /\ {MaxBackups, Slips} \subseteq Nat /\ NoHost \notin Hosts

VARIABLES
  rows,     \* [Held -> row]: the table of tasks
  live,     \* [Hosts -> [Held -> status]]: the arrays of the stubs, "none" where a task is absent
  copy,     \* the backup that is being written
  files,    \* the backups on disk, newest first
  serving,  \* what the server is at, and what is left of Slips and MaxBackups
  loose     \* tasks whose row is known to be behind the memory

storageVars == <<rows, live, copy, files, serving, loose>>

Statuses == {"none", "pending", "assigned", "running", "done"}
ActiveStatuses == {"assigned", "running"}
Absent == [at |-> "none", st |-> "none", host |-> NoHost]
Queued == [at |-> "global", st |-> "pending", host |-> NoHost]
Over == [at |-> "archive", st |-> "done", host |-> NoHost]
OnHost(s, st) == [at |-> "stub", st |-> st, host |-> s]
Empty == [s \in Hosts |-> [t \in Held |-> "none"]]
NoTable == [t \in Held |-> Absent]
NoCopy == [pc |-> "none", table |-> NoTable, arrays |-> Empty, shared |-> {}, had |-> {}, torn |-> {}]

Unhosted == [t \in Held |-> IF rows[t].at = "stub" THEN Absent ELSE rows[t]]
OnArrays(a) == {t \in Held : \E s \in Hosts : a[s][t] # "none"}
\* a backup that was shared may restore a task to two arrays: writing one does not mend it
Twice(a) == {t \in Held : \E s, h \in Hosts : s # h /\ a[s][t] # "none" /\ a[h][t] # "none"}
Up == serving.pc = "up"
Slip == serving.slips > 0 /\ serving' = [serving EXCEPT !.slips = @ - 1]
\* a write succeeds, or fails as long as there are slips left
Written(ok) == IF ok THEN UNCHANGED serving ELSE Slip

StorageInit ==
  /\ rows = NoTable
  /\ live = Empty /\ copy = NoCopy /\ files = <<>> /\ loose = {}
  /\ \E b \in 1..MaxBackups :
       serving = [pc |-> "up", on |-> {}, host |-> NoHost, from |-> 0, saved |-> FALSE,
                  backups |-> b, slips |-> Slips + MaxBackups - b] \* a backup less, a slip more

-----------------------------------------------------------------------------
(***************************************************************************)
(* An array that a backup shares is changed in place by a push, by the     *)
(* update of an entry and by the splice of the dispatch timeout; a filter  *)
(* makes a new one and leaves the old one to the backup.                   *)
(***************************************************************************)
InPlace(s, t, st) ==
  /\ live' = [live EXCEPT ![s][t] = st]
  /\ copy' = IF s \in copy.shared THEN [copy EXCEPT !.arrays[s][t] = st] ELSE copy

\* addToGlobalQueue: the error of a write is logged and the task accepted all the same.
AddToGlobalQueue(t) ==
  \E ok \in BOOLEAN :
    /\ Up /\ rows[t] = Absent /\ t \notin OnArrays(live) \cup loose
    /\ Written(ok)
    /\ IF ok THEN rows' = [rows EXCEPT ![t] = Queued] /\ UNCHANGED loose
       ELSE loose' = loose \cup {t} /\ UNCHANGED rows
    /\ UNCHANGED <<live, copy, files>>

\* POST /stubs/:id/tasks pushes the task and saves the stub, whose row holds no tasks.
PostToStub(s, t) ==
  /\ Up /\ rows[t] = Absent /\ t \notin OnArrays(live) \cup loose
  /\ InPlace(s, t, "assigned")
  /\ loose' = loose \cup {t}
  /\ UNCHANGED <<rows, files, serving>>

\* moveToStubQueue deletes the row in one commit ...
MoveToStubQueue(s, t) ==
  /\ Up /\ rows[t] = Queued
  /\ rows' = [rows EXCEPT ![t] = Absent]
  /\ serving' = [serving EXCEPT !.pc = "moving", !.on = {t}, !.host = s]
  /\ UNCHANGED <<live, copy, files, loose>>

\* ... and writes it in the next; the push comes before that and stays if it fails.
MoveEnds(ok) ==
  \E t \in serving.on, s \in Hosts \cap {serving.host} :
    /\ serving.pc = "moving"
    /\ ok \/ serving.slips > 0
    /\ serving' = [serving EXCEPT !.pc = "up", !.on = {}, !.host = NoHost, !.slips = IF ok THEN @ ELSE @ - 1]
    /\ InPlace(s, t, "assigned")
    /\ IF ok THEN rows' = [rows EXCEPT ![t] = OnHost(s, "assigned")] /\ UNCHANGED loose
       ELSE loose' = loose \cup {t} /\ UNCHANGED rows
    /\ UNCHANGED files

\* Mutant: the entry is replaced before the write that may fail.
UpdatedAhead(s, t, st, ok) ==
  /\ InPlace(s, t, st)
  /\ IF ok THEN rows' = [rows EXCEPT ![t] = OnHost(s, st)] /\ loose' = loose \ ({t} \ Twice(live))
     ELSE UNCHANGED <<rows, loose>>

\* updateTask of a task that stays active: the write first, and nothing if it fails.
Updated(s, t, st, ok) ==
  IF ok THEN InPlace(s, t, st) /\ rows' = [rows EXCEPT ![t] = OnHost(s, st)] /\ loose' = loose \ ({t} \ Twice(live))
  ELSE UNCHANGED <<live, copy, rows, loose>>

UpdateTask(s, t) ==
  \E ok \in BOOLEAN :
    /\ Up /\ live[s][t] \in ActiveStatuses
    /\ Written(ok) /\ Updated(s, t, "running", ok)
    /\ UNCHANGED files

\* Mutant: the ended task is spliced out of the array that a backup may share.
ArchivedInPlace(s, t) == InPlace(s, t, "none")

\* _archiveTask: the entry is replaced in place, then the array filtered.
Archived(s, t) ==
  /\ live' = [live EXCEPT ![s][t] = "none"]
  /\ copy' = IF s \in copy.shared
             THEN [copy EXCEPT !.arrays[s][t] = "done", !.shared = @ \ {s}] ELSE copy

EndTask(s, t) ==
  \E ok \in BOOLEAN :
    /\ Up /\ live[s][t] \in ActiveStatuses
    /\ Written(ok) /\ Archived(s, t)
    /\ IF ok THEN rows' = [rows EXCEPT ![t] = Over] /\ loose' = loose \ ({t} \ Twice(live))
       ELSE loose' = loose \cup {t} /\ UNCHANGED rows
    /\ UNCHANGED files

\* The dispatch timeout splices the task out of the array and requeues it in one transaction.
DispatchTimeout(s, t) ==
  \E ok \in BOOLEAN :
    /\ Up /\ live[s][t] = "assigned"
    /\ Written(ok)
    /\ live' = [live EXCEPT ![s][t] = "none"]
    /\ copy' = IF s \in copy.shared
               THEN [copy EXCEPT !.arrays[s][t] = "none", !.torn = @ \cup {t}] ELSE copy
    /\ IF ok THEN rows' = [rows EXCEPT ![t] = Queued] /\ loose' = loose \ ({t} \ Twice(live))
       ELSE loose' = loose \cup {t} /\ UNCHANGED rows
    /\ UNCHANGED files

\* requeueStubTasks writes into the task objects, which a backup may share, and makes a new array.
RequeuedOf(s) == {t \in Held : live[s][t] = "assigned"}
RequeueStubTasks(s) ==
  /\ Up /\ RequeuedOf(s) # {}
  /\ live' = [live EXCEPT ![s] = [t \in Held |-> IF t \in RequeuedOf(s) THEN "none" ELSE @[t]]]
  /\ copy' = IF s \in copy.shared
             THEN [copy EXCEPT !.arrays[s] = [t \in Held |-> IF t \in RequeuedOf(s) THEN "pending" ELSE @[t]],
                               !.shared = @ \ {s}]
             ELSE copy
  /\ rows' = [t \in Held |-> IF t \in RequeuedOf(s) THEN Queued ELSE rows[t]]
  /\ loose' = loose \ (RequeuedOf(s) \ Twice(live))
  /\ UNCHANGED <<files, serving>>

\* The end of a queued task (updateGlobalQueueTask), and the requeue of one that has ended.
EndQueued(t) ==
  /\ Up /\ rows[t] = Queued
  /\ rows' = [rows EXCEPT ![t] = Over]
  /\ UNCHANGED <<live, copy, files, serving, loose>>

\* Its row is deleted in one commit and written in the next, in one callback.
RequeueArchived(t) ==
  /\ Up /\ rows[t] = Over /\ t \notin OnArrays(live)
  /\ rows' = [rows EXCEPT ![t] = Absent]
  /\ serving' = [serving EXCEPT !.pc = "moving", !.on = {t}, !.host = NoHost]
  /\ UNCHANGED <<live, copy, files, loose>>

RequeueEnds(ok) ==
  \E t \in serving.on :
    /\ serving.pc = "moving" /\ serving.host = NoHost
    /\ ok \/ serving.slips > 0
    /\ serving' = [serving EXCEPT !.pc = "up", !.on = {}, !.slips = IF ok THEN @ ELSE @ - 1]
    /\ IF ok THEN rows' = [rows EXCEPT ![t] = Queued] /\ UNCHANGED loose
       ELSE loose' = loose \cup {t} /\ UNCHANGED rows
    /\ UNCHANGED <<live, copy, files>>

-----------------------------------------------------------------------------
(* Backups: export, the directory, the file, the old files. *)

\* exportState copies the rows of the queue and of the archive, and refers to the arrays.
ExportState ==
  /\ Up /\ copy.pc = "none" /\ serving.backups > 0
  /\ copy' = [pc |-> "exported", table |-> Unhosted, arrays |-> live, shared |-> Hosts,
              had |-> {t \in Held : Unhosted[t] # Absent} \cup OnArrays(live), torn |-> {}]
  /\ serving' = [serving EXCEPT !.backups = @ - 1]
  /\ UNCHANGED <<rows, live, files, loose>>

\* The directory is there and the state becomes text: nothing is shared any more.
Serialise ==
  /\ Up /\ copy.pc = "exported"
  /\ copy' = [copy EXCEPT !.pc = "text", !.shared = {}]
  /\ UNCHANGED <<rows, live, files, serving, loose>>

File(whole) == [table |-> copy.table, arrays |-> copy.arrays, had |-> copy.had, torn |-> copy.torn,
                whole |-> whole]

Pruned(fs) == SubSeq(fs, 1, IF Len(fs) < KeepCount THEN Len(fs) ELSE KeepCount)

\* writeFile and pruneBackups
FileWritten ==
  /\ Up /\ copy.pc = "text"
  /\ files' = Pruned(<<File(TRUE)>> \o files)
  /\ copy' = NoCopy
  /\ serving' = [serving EXCEPT !.saved = TRUE]
  /\ UNCHANGED <<rows, live, loose>>

-----------------------------------------------------------------------------
(* Restoring a backup, in one callback once the file is read and parsed. *)

\* Every table is deleted from by itself ...
LoadFromState(k) ==
  /\ Up /\ k \in DOMAIN files /\ files[k].whole
  /\ rows' = NoTable /\ live' = Empty /\ loose' = {}
  /\ copy' = [copy EXCEPT !.shared = {}]
  /\ serving' = [serving EXCEPT !.pc = "cleared", !.from = k]
  /\ UNCHANGED files

\* What an array holds as pending has lost its stub_id to requeueStubTasks.
RowOf(st, s) == IF st = "done" THEN Over ELSE OnHost(IF st = "pending" THEN NoHost ELSE s, st)

\* Mutant: the queue is written after the arrays.
AppliedQueueLast(f, last) ==
  [t \in Held |-> IF f.table[t].at = "global" \/ f.arrays[last[t]][t] = "none" THEN f.table[t]
                  ELSE RowOf(f.arrays[last[t]][t], last[t])]

\* Archive, queue, arrays: the later write wins, and of the arrays the last that holds the task.
Applied(f, last) ==
  [t \in Held |-> IF f.arrays[last[t]][t] = "none" THEN f.table[t]
                  ELSE RowOf(f.arrays[last[t]][t], last[t])]

Holding(f, t) == {s \in Hosts : f.arrays[s][t] # "none"}
LastOf(f) == {last \in [Held -> Hosts] : \A t \in Held : Holding(f, t) # {} => last[t] \in Holding(f, t)}

\* ... and _applyState is one transaction.
ApplyState ==
  LET f == files[serving.from]
  IN  /\ serving.pc = "cleared"
      /\ \E last \in LastOf(f) : rows' = Applied(f, last)
      /\ live' = [s \in Hosts |-> [t \in Held |->
                     IF f.arrays[s][t] = "done" THEN "none" ELSE f.arrays[s][t]]]
      /\ loose' = f.torn \cup Twice(f.arrays) \cup {t \in Held : \E s \in Hosts : f.arrays[s][t] = "pending"}
      /\ serving' = [serving EXCEPT !.pc = "up", !.from = 0]
      /\ UNCHANGED <<copy, files>>

\* Its constraints may refuse the backup: the error is answered, the tables stay empty, and the
\* memory keeps the stubs it has read by then, with all that their arrays held.
ApplyFails ==
  /\ serving.pc = "cleared" /\ serving.slips > 0
  /\ live' \in {Empty, files[serving.from].arrays}
  /\ loose' = OnArrays(live')
  /\ serving' = [serving EXCEPT !.pc = "up", !.from = 0, !.slips = @ - 1]
  /\ UNCHANGED <<rows, copy, files>>

-----------------------------------------------------------------------------
\* A crash: the memory is gone, and a file that was being written is cut short.
Crash ==
  /\ serving.pc # "down" /\ serving.slips > 0
  /\ serving' = [serving EXCEPT !.pc = "down", !.on = {}, !.host = NoHost, !.from = 0, !.slips = @ - 1]
  /\ live' = Empty /\ copy' = NoCopy /\ loose' = {}
  /\ files' = IF copy.pc = "text" THEN <<File(FALSE)>> \o files ELSE files
  /\ UNCHANGED rows

Loaded(t) == rows[t].at = "stub" /\ rows[t].host # NoHost /\ rows[t].st \in {"pending", "assigned", "running"}

\* _loadFromDb, and the requeue of what was assigned (index.ts).
LoadFromDb ==
  /\ serving.pc = "down"
  /\ serving' = [serving EXCEPT !.pc = "up"]
  /\ rows' = [t \in Held |-> IF rows[t].at # "stub" THEN rows[t]
                             ELSE IF ~Loaded(t) THEN [rows[t] EXCEPT !.at = "archive"]
                             ELSE IF rows[t].st = "assigned" THEN Queued ELSE rows[t]]
  /\ live' = [s \in Hosts |-> [t \in Held |->
                 IF Loaded(t) /\ rows[t].host = s /\ rows[t].st # "assigned" THEN rows[t].st ELSE "none"]]
  /\ UNCHANGED <<copy, files, loose>>

StorageNext ==
  \/ \E t \in Held : AddToGlobalQueue(t) \/ EndQueued(t) \/ RequeueArchived(t)
  \/ \E s \in Hosts, t \in Held :
       PostToStub(s, t) \/ MoveToStubQueue(s, t) \/ UpdateTask(s, t) \/ EndTask(s, t) \/ DispatchTimeout(s, t)
  \/ \E ok \in BOOLEAN : MoveEnds(ok) \/ RequeueEnds(ok)
  \/ \E s \in Hosts : RequeueStubTasks(s)
  \/ ExportState \/ Serialise \/ FileWritten
  \/ \E k \in 1..(KeepCount + Slips) : LoadFromState(k)
  \/ ApplyState \/ ApplyFails \/ Crash \/ LoadFromDb

StorageSpec == StorageInit /\ [][StorageNext]_storageVars

Rows == [at : {"none", "global", "stub", "archive"}, st : Statuses, host : Hosts \cup {NoHost}]
Arrays == [Hosts -> [Held -> Statuses]]
Servings == [pc : {"up", "down", "moving", "cleared"}, on : SUBSET Held, host : Hosts \cup {NoHost},
             from : Nat, saved : BOOLEAN, backups : Nat, slips : Nat]
Copies == [pc : {"none", "exported", "text"}, table : [Held -> Rows], arrays : Arrays,
           shared : SUBSET Hosts, had : SUBSET Held, torn : SUBSET Held]
Files == [table : [Held -> Rows], arrays : Arrays, had : SUBSET Held, torn : SUBSET Held, whole : BOOLEAN]

StorageTypeOK ==
  /\ rows \in [Held -> Rows] /\ live \in Arrays /\ loose \subseteq Held
  /\ copy \in Copies /\ files \in Seq(Files)
  /\ serving \in Servings

(***************************************************************************)
(* A restart loses nothing: between two handlers, what the database holds  *)
(* of a task is what the memory holds, on one array or on none, whatever   *)
(* backup was restored.  Excepted by name (loose): what                    *)
(* POST /stubs/:id/tasks has not saved yet, what a failed write left       *)
(* behind, and what a backup restores as torn, pending, or to two arrays.  *)
(***************************************************************************)
RestartLosesNothing ==
  Up => \A t \in Held \ loose, s \in Hosts :
          /\ live[s][t] # "none" => rows[t] = OnHost(s, live[s][t])
          /\ rows[t].at = "stub" => live[rows[t].host][t] = rows[t].st

(***************************************************************************)
(* A backup holds every task that was there when it was taken, although    *)
(* tasks move while it is written; and once one was written there is a     *)
(* whole one, whatever a crash cuts short and whatever is pruned.          *)
(* Excepted: tasks that a dispatch timeout took off an array between the   *)
(* export and its text (torn).                                             *)
(***************************************************************************)
BackupsHold ==
  /\ \A k \in DOMAIN files : files[k].whole =>
       \A t \in files[k].had \ files[k].torn, last \in LastOf(files[k]) :
         Applied(files[k], last)[t] # Absent
  /\ serving.saved => \E k \in DOMAIN files : files[k].whole
=============================================================================
