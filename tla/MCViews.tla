------------------------------- MODULE MCViews -------------------------------
(***************************************************************************)
(* What the server tells its readers, one view in focus at a time: the     *)
(* timeline and the answers of experiments, the names of objects, the      *)
(* lists, marks and priorities of tasks, what running tasks report, and    *)
(* what subscribers are sent.  The views share no state but the rows that  *)
(* each of them models as far as it reads them, so those out of focus      *)
(* stand still.                                                            *)
(***************************************************************************)
EXTENDS Journal, Names, Desk, Telemetry, Subscriptions, TLC

CONSTANT Foci

VARIABLE focus

\* Values of the constants that a configuration cannot write down.
Submitted == 1 :> {1} @@ 2 :> {2}
DeclaredWays == {[p \in Papers |-> "min"], [p \in Papers |-> "latest"]}
ByHand == {[kind |-> "task_started", note |-> 1, located |-> FALSE],
           [kind |-> "task_ended", note |-> 2, located |-> FALSE],
           [kind |-> "artifact", note |-> 1, located |-> TRUE],
           [kind |-> "artifact", note |-> NoNote, located |-> FALSE]}
Nonces == 1 :> <<"a", "b", "c", "d">> @@ 2 :> <<"a", "c", "b", "d">>
       @@ 3 :> <<"b", "a", "c", "d">> @@ 4 :> <<"x", "y", "z", "w">>
Asked == {{"task.failed"}, {"task.terminal"}, {}, {"task.started"}}

viewVars == <<journalVars, namesVars, deskVars, teleVars, subVars>>

Init ==
  /\ focus \in Foci
  /\ JournalInit /\ (focus # "journal" => \A p \in Papers : paper[p].way = "min")
  /\ NamesInit /\ DeskInit /\ TelemetryInit /\ SubscriptionsInit

(***************************************************************************)
(* What keeps a focus small.                                               *)
(***************************************************************************)
\* Of a metric of which the latest counts, only results are of interest.
JournalPlain ==
  (\E p \in Papers : paper[p].way = "latest") => \A i \in DOMAIN log' : log'[i].by = "sdk"

\* Priorities matter in their own focus, where the last task only comes of a retry.
PriorityPlain ==
  IF focus = "prio" THEN seq' <= 2 ELSE \A t \in Ids : task'[t].priority = 1

\* The second task is for logs and the overview.
OneRuns == focus \in {"curves", "steps", "words"} => run'[2] = Unborn

\* Tests are of a subscription that is not enabled, before the ends; the log of a
\* failure shows something; the first subscription is enabled and asks for all of
\* them, the second has its name, or another and asks for less; subscribers change up to the last
\* end; tasks are deleted, and a row outlives its success, where nobody else subscribes.
HooksPlain ==
  /\ \A i \in SubIds : (ends > 0 \/ subs[i].enabled) => \A message \in inboxOf'[i] \ inboxOf[i] : message.end > 0
  /\ \A t \in Watched : (tasks'[t].status = "failed") <=> (tasks'[t].log # {})
  /\ \A t \in Watched : tasks'[t].status = "gone" => used' \subseteq {1}
  /\ \A i \in SubIds : owed'[i].again # {} => owed'[i].again = {1} /\ used' = {1}
  /\ \A i \in SubIds : subs'[i] # subs[i] =>
       /\ ends < Ends
       /\ i = 1 => subs'[i] \in {NoSub, [name |-> "ops", events |-> {"task.terminal"}, enabled |-> TRUE]}
       /\ i = 2 => subs'[i] \in {NoSub, [name |-> "ops", events |-> {"task.terminal"}, enabled |-> TRUE],
                                 [name |-> "ml", events |-> {"task.failed"}, enabled |-> TRUE],
                                 [name |-> "ml", events |-> {"task.terminal"}, enabled |-> FALSE]}

DeskFocus == {"pages", "marks", "prio"}
TeleFocus == {"curves", "steps", "lines", "words", "overview"}

JournalStep ==
  focus = "journal" /\ JournalNext /\ JournalPlain /\ UNCHANGED <<namesVars, deskVars, teleVars, subVars>>

NamesStep == focus = "names" /\ NamesNext /\ UNCHANGED <<journalVars, deskVars, teleVars, subVars>>

DeskStep ==
  /\ focus \in DeskFocus
  /\ \/ LifeNext
     \/ focus = "pages" /\ PagesNext
     \/ focus = "marks" /\ MarksNext
     \/ focus = "prio" /\ PriorityNext
  /\ PriorityPlain
  /\ UNCHANGED <<journalVars, namesVars, teleVars, subVars>>

TelemetryStep ==
  /\ focus \in TeleFocus
  /\ \/ MovesNext
     \/ focus = "curves" /\ CurvesNext
     \/ focus = "steps" /\ ProgressNext
     \/ focus = "lines" /\ LinesNext
     \/ focus = "words" /\ WordsNext
     \/ focus = "overview" /\ OverviewNext
  /\ OneRuns
  /\ UNCHANGED <<journalVars, namesVars, deskVars, subVars>>

SubscriptionsStep ==
  /\ focus = "hooks"
  /\ SubscribersNext \/ DeliveriesNext \/ UpsetsNext
  /\ HooksPlain
  /\ UNCHANGED <<journalVars, namesVars, deskVars, teleVars>>

Next ==
  /\ UNCHANGED focus
  /\ JournalStep \/ NamesStep \/ DeskStep \/ TelemetryStep \/ SubscriptionsStep

Spec == Init /\ [][Next]_<<viewVars, focus>>

\* What tasks report is kept and answered as it was told, and subscribers hear of
\* their ends, and truly (metrics.ts:24-134, stub.ts:482-541, webhooks.ts:298-466).
\* A part that is not in focus never moves, and is asked where it is.
ReportsSound ==
  /\ focus \in TeleFocus => TelemetrySound
  /\ focus = "hooks" => SubscriptionsSound
=============================================================================
