---------------------------- MODULE Subscriptions ----------------------------
(***************************************************************************)
(* Who is told of the ends of tasks, and what: the webhook subscriptions,  *)
(* the message that is built for each of them, and the record of the       *)
(* deliveries.  When a failed POST is repeated, and by whom, is the        *)
(* subject of module Webhooks.  The subscriber is external: a POST reaches *)
(* it or fails.                                                            *)
(***************************************************************************)
EXTENDS Naturals, FiniteSets, SequencesExt

CONSTANTS
  SubIds,    \* ids of subscriptions, each used once
  SubNames,  \* their names
  EventSets, \* the sets of events they ask for, some of no known event
  Watched,   \* tasks
  EndWays,      \* how they end: completed, failed, cancelled
  Logs,      \* what a log may show: termination, memory, import, traceback
  MaxAttempts, \* OUTBOX_MAX_ATTEMPTS
  Ends,      \* bound: ends of tasks
  Upsets,    \* bound: restores, restarts, and deletions of a row that fail
  OldestShown \* limit of the list of deliveries, 1 .. 200

Over == {"completed", "failed", "cancelled"}
WebhookEvents == {"task.completed", "task.failed", "task.cancelled", "task.terminal"}

ASSUME SubscriptionsAssumption ==
  /\ IsFiniteSet(SubIds) /\ IsFiniteSet(Watched) /\ EndWays \subseteq Over
  /\ Logs \subseteq {"termination", "memory", "import", "traceback"}
  /\ MaxAttempts \in Nat \ {0, 1} /\ Ends \in Nat /\ Upsets \in Nat /\ OldestShown \in 1 .. 200

VARIABLES
  subs,    \* webhookSubscriptions
  used,    \* ids given out
  tasks,   \* the tasks: their status, and what their log shows
  posts,   \* first POSTs under way
  waiting, \* rows of the outbox; told: the success is recorded, the row not yet deleted
  record,  \* webhook_deliveries: per id of a subscription, oldest first
  inboxOf, \* history: per id the messages that reached the subscriber
  owed,    \* history: per id the ends it was to hear of, those that were cut off, and
           \* those whose row outlived their success
  ends, upsets

subVars == <<subs, used, tasks, posts, waiting, record, inboxOf, owed, ends, upsets>>

Upset == upsets < Upsets /\ upsets' = upsets + 1

NoSub == [name |-> "none", events |-> {}, enabled |-> FALSE]
Sub == [name : SubNames, events : EventSets, enabled : BOOLEAN]
Subscribed == {i \in SubIds : subs[i] # NoSub}

\* end: which end of a task this is, 0 for a test.
Ordered(event, t, end) == [event |-> event, task |-> t, end |-> end]

(***************************************************************************)
(* The message.                                                            *)
(***************************************************************************)
EventFor(status) ==
  CASE status = "completed" -> "task.completed"
    [] status = "failed" -> "task.failed"
    [] OTHER -> "task.cancelled"

Concrete(event) == IF event = "task.terminal" THEN "task.failed" ELSE event

StatusOf(event) ==
  CASE event = "task.completed" -> "completed"
    [] event = "task.failed" -> "failed"
    [] OTHER -> "cancelled"

\* deriveDiagnosis: of a failure, the first of the signs its log shows.
Diagnosis(status, log) ==
  CASE status = "completed" -> "success"
    [] status = "cancelled" -> "cancelled"
    [] status = "failed" /\ "termination" \in log -> "slurm_or_termination"
    [] status = "failed" /\ "memory" \in log -> "oom"
    [] status = "failed" /\ "import" \in log -> "environment"
    [] status = "failed" /\ "traceback" \in log -> "code_error"
    [] OTHER -> "failed"

Severity(category) ==
  CASE category = "success" -> "info"
    [] category \in {"cancelled", "slurm_or_termination"} -> "warning"
    [] OTHER -> "error"

\* formatTaskNotification: the summary in words of the status, and the diagnosis.
Notification(row) ==
  LET category == Diagnosis(row.status, row.log)
  IN  [status |-> row.status, category |-> category, severity |-> Severity(category)]

\* buildTaskWebhookPayload.
Message(event, end, row, again) ==
  [event |-> event, end |-> end, again |-> again, told |-> Notification(row)]

Matching(sub, event) == sub.enabled /\ sub.events \cap {event, "task.terminal"} # {}

(***************************************************************************)
(* /webhooks.                                                              *)
(***************************************************************************)
\* getWebhookSubscription: ids are random, no name is one.
Called(name) == {i \in Subscribed : subs[i].name = name}

\* parseEvents.
Known(events) == events # {} /\ events \subseteq WebhookEvents

Subscribe(i, name, events, enabled) ==
  /\ i \notin used /\ \A j \in SubIds : j < i => j \in used
  /\ Known(events) /\ Called(name) = {}
  /\ subs' = [subs EXCEPT ![i] = [name |-> name, events |-> events, enabled |-> enabled]]
  /\ used' = used \cup {i}
  /\ UNCHANGED <<tasks, posts, waiting, record, inboxOf, owed, ends, upsets>>

Drop(i) ==
  /\ i \in Subscribed
  /\ subs' = [subs EXCEPT ![i] = NoSub]
  /\ UNCHANGED <<used, tasks, posts, waiting, record, inboxOf, owed, ends, upsets>>

\* POST /webhooks/:id/test, with a task made up for it: also to one that is not enabled.
TestEvents(i) == {Concrete(event) : event \in subs[i].events}

Test(i) ==
  /\ i \in Subscribed
  /\ \E event \in TestEvents(i) :
       inboxOf' = [inboxOf EXCEPT ![i] = @ \cup
         {Message(event, 0, [status |-> StatusOf(event), log |-> {}], FALSE)}]
  /\ UNCHANGED <<subs, used, tasks, posts, waiting, record, owed, ends, upsets>>

\* GET /webhooks/:id/deliveries, newest first.
DeliveriesOf(i) ==
  LET last == Len(record[i])
  IN  [k \in 1 .. (IF last < OldestShown THEN last ELSE OldestShown) |-> record[i][last - k + 1]]

\* Between the two commits of a repeated delivery no handler runs.
Removing == \E row \in waiting : row.told

SubscribersNext ==
  ~Removing /\ \E i \in SubIds :
    \/ Drop(i) \/ Test(i)
    \/ \E name \in SubNames, events \in EventSets, enabled \in BOOLEAN :
         Subscribe(i, name, events, enabled)

(***************************************************************************)
(* Ends of tasks, and their deliveries.                                    *)
(***************************************************************************)
Job(i, t, event, end, message) ==
  [sub |-> i, name |-> subs[i].name, task |-> t, event |-> event, end |-> end,
   message |-> message]

\* deliverTaskStatusWebhooks: the payload is built and the subscribers are picked at once.
EndWatched(t, how, log) ==
  /\ tasks[t].status = "active" /\ ends < Ends /\ ends' = ends + 1
  /\ tasks' = [tasks EXCEPT ![t] = [status |-> how, log |-> log]]
  /\ LET event == EventFor(how)
         told == {i \in Subscribed : Matching(subs[i], event)}
         message == Message(event, ends + 1, tasks'[t], FALSE)
     IN  /\ posts' = posts \cup {Job(i, t, event, ends + 1, message) : i \in told}
         /\ owed' = [i \in SubIds |-> [owed[i] EXCEPT
              !.ends = IF i \in told THEN @ \cup {ends + 1} ELSE @]]
  /\ UNCHANGED <<subs, used, waiting, record, inboxOf, upsets>>

NoMessage == "none"

\* recordWebhookDelivery.
RecordPost(job, ok) ==
  record' = [record EXCEPT ![job.sub] = Append(@, [name |-> job.name, end |-> job.end, ok |-> ok])]

Reach(job, message) == inboxOf' = [inboxOf EXCEPT ![job.sub] = @ \cup {message}]

PostArrives(job) ==
  /\ posts' = posts \ {job}
  /\ Reach(job, job.message)
  /\ RecordPost(job, TRUE)
  /\ UNCHANGED <<subs, used, tasks, waiting, owed, ends, upsets>>

\* createWebhookDeliveryOutbox: what identifies the delivery, and not the message.
Outboxed(job) ==
  [sub |-> job.sub, task |-> job.task, event |-> job.event, end |-> job.end, tries |-> 1,
   told |-> FALSE]

PostFails(job) ==
  /\ posts' = posts \ {job}
  /\ waiting' = waiting \cup {Outboxed(job)}
  /\ RecordPost(job, FALSE)
  /\ UNCHANGED <<subs, used, tasks, inboxOf, owed, ends, upsets>>

\* retryOutboxDelivery: the message is built from the task as it is now.  The success
\* is recorded and then the row deleted, in two commits.
RetryArrives(row) ==
  LET job == Job(row.sub, row.task, row.event, row.end,
                 Message(row.event, row.end, tasks[row.task], TRUE))
  IN  /\ row.sub \in Subscribed /\ tasks[row.task].status # "gone"
      /\ waiting' = (waiting \ {row}) \cup {[row EXCEPT !.told = TRUE]}
      /\ Reach(job, job.message)
      /\ RecordPost(job, TRUE)
      /\ UNCHANGED <<subs, used, tasks, posts, owed, ends, upsets>>

RowRemoved(row) ==
  /\ row.told /\ waiting' = waiting \ {row}
  /\ UNCHANGED <<subs, used, tasks, posts, record, inboxOf, owed, ends, upsets>>

\* The catch of retryOutboxDelivery: one attempt more, and the entry of a failure.
Exhausts(row) == row.tries + 1 >= MaxAttempts

SetBack(row) ==
  /\ waiting' = (waiting \ {row}) \cup
       (IF Exhausts(row) THEN {} ELSE {[row EXCEPT !.tries = @ + 1, !.told = FALSE]})
  /\ owed' = [owed EXCEPT ![row.sub].cut = IF Exhausts(row) THEN @ \cup {row.end} ELSE @,
                          ![row.sub].again = IF row.told THEN @ \cup {row.end} ELSE @]
  /\ RecordPost(Job(row.sub, row.task, row.event, row.end, NoMessage), FALSE)

RetryFails(row) ==
  /\ row.sub \in Subscribed /\ tasks[row.task].status # "gone"
  /\ SetBack(row)
  /\ UNCHANGED <<subs, used, tasks, posts, inboxOf, ends, upsets>>

\* The deletion of a row throws: its success is treated as a failure too.
RemovalFails(row) ==
  /\ Upset /\ row.told /\ SetBack(row)
  /\ UNCHANGED <<subs, used, tasks, posts, inboxOf, ends>>

\* The subscription or the task is gone: the row is exhausted without a POST or an entry.
GiveUp(row) ==
  /\ row.sub \notin Subscribed \/ tasks[row.task].status = "gone"
  /\ waiting' = waiting \ {row}
  /\ UNCHANGED <<subs, used, tasks, posts, record, inboxOf, owed, ends, upsets>>

DeliveriesNext ==
  \/ /\ ~Removing
     /\ \/ \E t \in Watched, how \in EndWays : \E log \in SUBSET Logs : EndWatched(t, how, log)
        \/ \E job \in posts : PostArrives(job) \/ PostFails(job)
        \/ \E row \in waiting : RetryArrives(row) \/ RetryFails(row) \/ GiveUp(row)
  \/ \E row \in waiting : RowRemoved(row) \/ RemovalFails(row)

(***************************************************************************)
(* A task is put back or deleted; the server restarts, or restores a       *)
(* backup, which holds no subscription and no record.                      *)
(***************************************************************************)
ChangeTask(t, row) ==
  /\ tasks' = [tasks EXCEPT ![t] = row]
  /\ UNCHANGED <<subs, used, posts, waiting, record, inboxOf, owed, ends, upsets>>

PutBackWatched(t) ==
  tasks[t].status \in Over /\ ChangeTask(t, [status |-> "active", log |-> {}])

DeleteWatched(t) ==
  tasks[t].status \in Over /\ ChangeTask(t, [status |-> "gone", log |-> {}])

EndsIn(which, i) == {one.end : one \in {one \in which : one.sub = i}}
CutOff(which) == [i \in SubIds |-> [owed[i] EXCEPT !.cut = @ \cup EndsIn(which, i)]]

\* Also between the two commits of a retry: the row is found again, and due.
RestartHooks ==
  /\ Upset /\ posts' = {}
  /\ waiting' = {[row EXCEPT !.told = FALSE] : row \in waiting}
  /\ LET told == {row \in waiting : row.told}
     IN  owed' = [i \in SubIds |-> [CutOff(posts)[i] EXCEPT !.again = @ \cup EndsIn(told, i)]]
  /\ UNCHANGED <<subs, used, tasks, record, inboxOf, ends>>

\* The tasks are those of the backup, here a recent one; posts under way go on.
RestoreBackup ==
  /\ Upset /\ owed' = CutOff(waiting \cup posts)
  /\ subs' = [i \in SubIds |-> NoSub] /\ waiting' = {} /\ record' = [i \in SubIds |-> <<>>]
  /\ UNCHANGED <<used, tasks, posts, inboxOf, ends>>

UpsetsNext ==
  \/ ~Removing /\ (RestoreBackup \/ \E t \in Watched : PutBackWatched(t) \/ DeleteWatched(t))
  \/ RestartHooks

SubscriptionsInit ==
  /\ subs = [i \in SubIds |-> NoSub] /\ used = {}
  /\ tasks = [t \in Watched |-> [status |-> "active", log |-> {}]]
  /\ posts = {} /\ waiting = {} /\ record = [i \in SubIds |-> <<>>]
  /\ inboxOf = [i \in SubIds |-> {}]
  /\ owed = [i \in SubIds |-> [ends |-> {}, cut |-> {}, again |-> {}]]
  /\ ends = 0 /\ upsets = 0

SubscriptionsTypeOK ==
  /\ subs \in [SubIds -> Sub \cup {NoSub}] /\ used \subseteq SubIds
  /\ tasks \in [Watched -> [status : Over \cup {"active", "gone"}, log : SUBSET Logs]]
  /\ ends \in 0 .. Ends /\ upsets \in 0 .. Upsets
  /\ \A i, j \in Subscribed : subs[i].name = subs[j].name => i = j

Heard(i) == {message.end : message \in inboxOf[i]} \ {0}
Underway(i) == {job.end : job \in {job \in posts : job.sub = i}}
              \cup {row.end : row \in {row \in waiting : row.sub = i}}

(* A subscriber hears of just the ends that were its business when they happened: of each *)
(* it has heard, is being told or waits in the outbox, unless it unsubscribed, the task    *)
(* was deleted, or its attempts, a restart or a restore ended it (webhooks.ts:300-466).     *)
ToldOfItsEnds ==
  \A i \in SubIds :
    /\ Heard(i) \cup Underway(i) \subseteq owed[i].ends
    /\ i \in Subscribed => \A end \in owed[i].ends \ (Heard(i) \cup Underway(i) \cup owed[i].cut) :
         \E t \in Watched : tasks[t].status = "gone"

(* A message says what its task came to: a first POST has the status of its event and a   *)
(* severity that fits it, however late it arrives and whatever became of the task; a retry *)
(* names the event of the end, but speaks of the task as it is then.                        *)
MessagesTell ==
  \A i \in SubIds : \A message \in inboxOf[i] :
    IF message.again THEN message.told.status # "gone"
    ELSE /\ message.told.status = StatusOf(message.event)
         /\ message.told.severity = "error" => message.event = "task.failed"
         /\ message.told.severity = "info" => message.event = "task.completed"

(* The deliveries that are listed of a subscription are its own, also when a later one has *)
(* the same name; what they call a success has been heard of, and never twice, unless the   *)
(* server died or failed between recording it and deleting its row (webhooks.ts:336-364).   *)
RecordTells ==
  \A i \in SubIds :
    LET shown == DeliveriesOf(i) IN
    /\ Len(shown) <= OldestShown
    /\ \A k \in DOMAIN shown : shown[k].ok => shown[k].end \in Heard(i)
    /\ \A k, l \in DOMAIN shown : shown[k].ok /\ shown[l].ok /\ shown[k].end = shown[l].end
         => k = l \/ shown[k].end \in owed[i].again
    /\ i \in Subscribed => \A k \in DOMAIN shown : shown[k].name = subs[i].name

SubscriptionsSound == SubscriptionsTypeOK /\ ToldOfItsEnds /\ MessagesTell /\ RecordTells
=============================================================================
