-------------------------------- MODULE Desk ---------------------------------
(***************************************************************************)
(* The tasks as a person or an agent works with them over REST: the list   *)
(* read page by page, the inbox with its marks, and the priority with its  *)
(* temporary overlay.  A call is handled to its end before the next one;   *)
(* a reader who turns pages makes one call per page, and the tasks move    *)
(* between them.                                                           *)
(***************************************************************************)
EXTENDS Naturals, FiniteSets, SequencesExt

CONSTANTS
  Ids,        \* ids of tasks, numbered as their seq
  Actors,     \* who marks tasks
  Flags,      \* the marks they use, of read, acked, pinned and watched
  Priorities, \* priorities that are asked for, below the step of an overlay
  Classes,    \* overlays in use
  Filters,    \* what a reader asks for: all, active, terminal or a status
  PageSize,   \* limit of a page
  InboxSize,  \* limit of the inbox
  Turns       \* bound: ends of tasks and restores

NoTask == 0
None == "none"
Unset == 100 \* no base_priority: above every priority
Active == {"pending", "running", "blocked", "assigned", "paused"}
Ended == {"completed", "failed", "cancelled"}
Bump == [elevated |-> 100, urgent |-> 1000]

ASSUME DeskAssumption ==
  /\ Ids \subseteq Nat \ {NoTask} /\ IsFiniteSet(Ids)
  /\ Flags \subseteq {"read", "acked", "pinned", "watched"}
  /\ Priorities \subseteq 0 .. 99 /\ Classes \subseteq DOMAIN Bump
  /\ Filters \subseteq {"all", "active", "terminal"} \cup Active \cup Ended
  /\ PageSize \in 1 .. 500 /\ InboxSize \in Nat \ {0} /\ Turns \in Nat

VARIABLES
  task,   \* the rows of the tasks
  mark,   \* task_marks: [Actors -> [Ids -> SUBSET Flags]]
  reader, \* someone who reads the list page by page
  hasRead, \* history: [Actors -> the tasks the actor marked as read since the last restore]
  seq,     \* seq_counter
  turns

deskVars == <<task, mark, reader, hasRead, seq, turns>>

\* base: base_priority.  over: expedite_class; live: expedite_until has not passed.
\* wish: history, the priority last asked for; buried: it was asked for under a base_priority.
Row == [status : Active \cup Ended \cup {None}, priority : Priorities,
        base : Priorities \cup {Unset}, over : Classes \cup {None}, live : BOOLEAN,
        wish : Priorities, buried : BOOLEAN]

There == {t \in Ids : task[t].status # None}

(***************************************************************************)
(* Reading the list.                                                       *)
(***************************************************************************)

Matches(row, filter) ==
  CASE filter = "all" -> row.status # None
    [] filter = "active" -> row.status \in Active
    [] filter = "terminal" -> row.status \in Ended
    [] OTHER -> row.status = filter

\* queryTasksPage: the rows under the filter, by seq.
Listed(rows, filter, order) ==
  SetToSortSeq({t \in Ids : Matches(rows[t], filter)},
               LAMBDA s, t : IF order = "asc" THEN s < t ELSE t < s)

Place(list, t) == CHOOSE i \in DOMAIN list : list[i] = t

\* Mutant: pages are counted from zero.
OffsetFromZero(page) == page * PageSize

\* GET /tasks with page: offset = (page - 1) * limit.
Offset(page) == (page - 1) * PageSize

\* A page the reader has not asked for yet starts after those read so far.
ReadSoFar(r) == Offset(r.page)

\* history of the reader: throughout, the tasks that matched all the time; left and came,
\* whether a row before the next page left or entered the list meanwhile.
Followed(r, new) ==
  LET before == Listed(task, r.filter, r.order)
      after  == Listed(new, r.filter, r.order)
      out == {t \in ToSet(before) \ ToSet(after) : Place(before, t) <= ReadSoFar(r)}
      in  == {t \in ToSet(after) \ ToSet(before) : Place(after, t) <= ReadSoFar(r)}
  IN  IF ~r.open THEN r
      ELSE [r EXCEPT !.throughout = @ \cap ToSet(after),
                     !.left = @ \/ out # {}, !.came = @ \/ in # {}]

Idle == [open |-> FALSE, done |-> FALSE, filter |-> "all", order |-> "desc", page |-> 1,
         seen |-> <<>>, throughout |-> {}, left |-> FALSE, came |-> FALSE]

Rows(new) == task' = new /\ reader' = Followed(reader, new)

OpenList(filter, order) ==
  /\ ~reader.open /\ ~reader.done
  /\ reader' = [Idle EXCEPT !.open = TRUE, !.filter = filter, !.order = order,
                  !.throughout = {t \in Ids : Matches(task[t], filter)}]
  /\ UNCHANGED <<task, mark, hasRead, seq, turns>>

\* total is counted with the page: the reader goes on while there is more.
TurnPage ==
  /\ reader.open
  /\ LET list == Listed(task, reader.filter, reader.order)
         from == Offset(reader.page)
         last == from + PageSize >= Len(list)
         page == SubSeq(list, from + 1, IF last THEN Len(list) ELSE from + PageSize)
     IN  reader' = [reader EXCEPT !.seen = @ \o page, !.page = @ + 1,
                                  !.open = ~last, !.done = last]
  /\ UNCHANGED <<task, mark, hasRead, seq, turns>>

(***************************************************************************)
(* Tasks come, run, end, and are put back, retried and deleted.            *)
(***************************************************************************)

Bare(p) == [status |-> "pending", priority |-> p, base |-> Unset, over |-> None,
            live |-> FALSE, wish |-> p, buried |-> FALSE]

\* nextSeq: no id is used twice.
Fresh(t) == seq + 1 = t /\ seq' = t

Submit(t, p) ==
  /\ Fresh(t)
  /\ Rows([task EXCEPT ![t] = Bare(p)])
  /\ UNCHANGED <<mark, hasRead, turns>>

\* createRetryTask: a copy of the row, overlay and base priority included.
Retry(t, new) ==
  /\ task[t].status \in Ended
  /\ Fresh(new)
  /\ Rows([task EXCEPT ![new] = [task[t] EXCEPT !.status = "pending"]])
  /\ UNCHANGED <<mark, hasRead, turns>>

Become(t, from, to) ==
  /\ task[t].status \in from
  /\ Rows([task EXCEPT ![t].status = to])
  /\ UNCHANGED <<mark, hasRead, seq>>

End(t, from, to) ==
  /\ turns < Turns /\ turns' = turns + 1
  /\ Become(t, from, to)

Start(t) == Become(t, {"pending"}, "running") /\ UNCHANGED turns
Finish(t) == \E how \in {"completed", "failed"} : End(t, {"running"}, how)
Cancel(t) == End(t, {"pending", "blocked", "assigned"}, "cancelled")

\* The same row and its marks, back in the queue.
Requeue(t) == Become(t, Ended \cup {"assigned", "pending"}, "pending") /\ UNCHANGED turns

DeleteRow(t) ==
  /\ task[t].status \in Ended
  /\ Rows([task EXCEPT ![t].status = None])
  /\ UNCHANGED <<mark, hasRead, seq, turns>>

LifeNext ==
  \/ \E t \in Ids, p \in Priorities : Submit(t, p)
  \/ \E t, new \in Ids : Retry(t, new)
  \/ \E t \in Ids : Start(t) \/ Finish(t) \/ Cancel(t) \/ Requeue(t) \/ DeleteRow(t)

PagesNext ==
  \/ \E filter \in Filters, order \in {"asc", "desc"} : OpenList(filter, order)
  \/ TurnPage

(***************************************************************************)
(* Marks and the inbox.                                                    *)
(***************************************************************************)

\* setTaskMark: the fields that are not in the patch stay.
SetMark(a, t, on, off) ==
  /\ t \in There
  /\ mark' = [mark EXCEPT ![a][t] = (@ \cup on) \ off]
  /\ UNCHANGED <<task, reader, seq, turns>>

\* Of a task in any status.
Read(a, t) ==
  /\ SetMark(a, t, {"read"}, {})
  /\ hasRead' = [hasRead EXCEPT ![a] = @ \cup {t}]

Ack(a, t) == SetMark(a, t, {"acked"}, {}) /\ UNCHANGED hasRead

Set(a, t, flag, value) ==
  /\ IF value THEN SetMark(a, t, {flag}, {}) ELSE SetMark(a, t, {}, {flag})
  /\ UNCHANGED hasRead

Pin(a, t, value) == Set(a, t, "pinned", value)
Watch(a, t, value) == Set(a, t, "watched", value)

\* A backup of this moment is restored: it holds no marks.
LoseMarks ==
  /\ turns < Turns /\ turns' = turns + 1
  /\ mark' = [a \in Actors |-> [t \in Ids |-> {}]]
  /\ hasRead' = [a \in Actors |-> {}]
  /\ UNCHANGED <<task, reader, seq>>

MarksNext ==
  \/ \E a \in Actors, t \in Ids :
       \/ "read" \in Flags /\ Read(a, t)
       \/ "acked" \in Flags /\ Ack(a, t)
       \/ "pinned" \in Flags /\ \E value \in BOOLEAN : Pin(a, t, value)
       \/ "watched" \in Flags /\ \E value \in BOOLEAN : Watch(a, t, value)
  \/ LoseMarks

\* getTaskMark: no row, no flag.
TaskMark(a, t) == mark[a][t]

\* buildInboxBuckets; active tasks whose stub is cut off are left out.
Buckets(a, t) ==
  {b \in {"unread_terminal", "pinned", "watched", "blocked_needs_decision", "failed_recent"} :
     CASE b = "unread_terminal" -> task[t].status \in Ended /\ "read" \notin TaskMark(a, t)
       [] b = "blocked_needs_decision" -> task[t].status = "blocked"
       [] b = "failed_recent" -> task[t].status = "failed"
       [] OTHER -> b \in TaskMark(a, t)}

Interesting(a) == {t \in There : Buckets(a, t) # {}}

\* GET /tasks/inbox: the newest of them, up to the limit.
Inbox(a) == {t \in Interesting(a) : Cardinality({s \in Interesting(a) : s > t}) < InboxSize}

(***************************************************************************)
(* The priority and its overlay.                                           *)
(***************************************************************************)

Base(row) == IF row.base = Unset THEN row.priority ELSE row.base
Boost(row) == IF row.over # None /\ row.live THEN Bump[row.over] ELSE 0

\* effectiveTaskPriority.
Effective(row) == Base(row) + Boost(row)

PutRow(t, row) == task' = [task EXCEPT ![t] = row] /\ UNCHANGED <<mark, reader, hasRead, seq, turns>>

\* POST /tasks/:id/expedite.
Expedite(t, class) ==
  /\ task[t].status \in {"pending", "assigned", "paused", "blocked"}
  /\ PutRow(t, [task[t] EXCEPT !.base = Base(task[t]), !.over = class, !.live = TRUE])

\* POST /tasks/:id/unexpedite, in any status: the base priority stays set.
Unexpedite(t) ==
  /\ t \in There
  /\ PutRow(t, [task[t] EXCEPT !.base = Base(task[t]), !.over = None, !.live = FALSE])

\* expedite_until passes.
Expire(t) ==
  /\ task[t].live
  /\ PutRow(t, [task[t] EXCEPT !.live = FALSE])

\* PATCH /tasks/:id with a priority: an archived row is not found in the queue.
Patch(t, p) ==
  /\ task[t].status \in Active
  /\ PutRow(t, [task[t] EXCEPT !.priority = p, !.wish = p, !.buried = task[t].base # Unset])

PriorityNext ==
  \E t \in Ids :
    \/ \E class \in Classes : Expedite(t, class)
    \/ Unexpedite(t)
    \/ Expire(t)
    \/ \E p \in Priorities : Patch(t, p)

DeskInit ==
  /\ task = [t \in Ids |-> [Bare(CHOOSE p \in Priorities : TRUE) EXCEPT !.status = None]]
  /\ mark = [a \in Actors |-> [t \in Ids |-> {}]]
  /\ reader = Idle /\ hasRead = [a \in Actors |-> {}] /\ seq = 0 /\ turns = 0

DeskTypeOK ==
  /\ task \in [Ids -> Row] /\ mark \in [Actors -> [Ids -> SUBSET Flags]]
  /\ hasRead \in [Actors -> SUBSET Ids] /\ seq \in 0 .. Cardinality(Ids)
  /\ turns \in 0 .. Turns /\ ToSet(reader.seen) \subseteq Ids

(* Reading page after page while tasks come, end and go shows every task that matched *)
(* all along, unless one before the next page left the list meanwhile, and none twice, *)
(* unless one came in before it.                                                        *)
PagesTell ==
  reader.done =>
    /\ ~reader.left => reader.throughout \subseteq ToSet(reader.seen)
    /\ ~reader.came => IsInjective(reader.seen)

(* An end that an actor has not read is in his inbox, whatever else he marks, until as  *)
(* many newer ones are; an end of a task he read, at whichever of its ends or before,    *)
(* is not shown as unread.                                                               *)
InboxTells ==
  \A a \in Actors, t \in There :
    task[t].status \in Ended =>
      IF t \in hasRead[a] THEN "unread_terminal" \notin Buckets(a, t)
      ELSE t \in Inbox(a) \/ Cardinality({s \in Inbox(a) : s > t}) = InboxSize

(* The effective priority is what was last asked for, plus the step of the overlay while *)
(* it lasts: neither a second overlay, nor its end, a retry or a requeue moves the base.  *)
(* A priority that is patched after the first overlay is the exception: it has no effect. *)
BaseKept ==
  \A t \in There :
    IF task[t].buried THEN Base(task[t]) = task[t].base
    ELSE Effective(task[t]) = task[t].wish + Boost(task[t])

(* Readers of the list, the inbox and the priority are told what is so                  *)
(* (api/tasks.ts:389-531, 835-978).                                                       *)
DeskSound == DeskTypeOK /\ PagesTell /\ InboxTells /\ BaseKept
=============================================================================
