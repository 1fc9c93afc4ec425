------------------------------ MODULE Webhooks ------------------------------
(***************************************************************************)
(* Webhook deliveries of the server: a terminal status of a task is posted *)
(* at once to each matching subscription, and what could not be posted     *)
(* waits in the outbox table for processWebhookOutbox, which a timer calls *)
(* every 250 ms and which goes through the due rows one by one.            *)
(*                                                                         *)
(* A delivery is one event of one task for one subscription.  The          *)
(* subscriber is external: a POST may reach it or not, and its answer may  *)
(* be lost.  Rows survive a restart of the server; posts under way do not. *)
(* Every write of a row is a commit of its own, and may fail.              *)
(***************************************************************************)
EXTENDS Naturals

CONSTANTS
  Deliveries,       \* the events to deliver
  Pollers,          \* calls of processWebhookOutbox that may overlap
  OutboxMaxAttempts,
  HookFaults        \* bound: restarts of the server, and writes that fail

ASSUME WebhookAssumption ==
  /\ OutboxMaxAttempts \in Nat \ {0, 1} /\ HookFaults \in Nat
  /\ "nothing" \notin Deliveries

VARIABLES
  hook,       \* the deliverTaskStatusWebhooks call of each delivery
  outbox,     \* its row in the outbox table
  poller,     \* where each call of processWebhookOutbox is
  succeeded,  \* the deliveries recorded as a success
  wanted,     \* the subscription and the task still exist
  cutHooks,   \* history: deliveries whose first POST a restart cut off
  outlived,   \* history: deliveries whose row stayed behind when their success was recorded
  hookLeft    \* what is left of HookFaults

hookVars == <<hook, outbox, poller, succeeded, wanted, cutHooks, outlived, hookLeft>>

Nothing == "nothing"
\* recorded: the success is in the table of deliveries, the row not yet deleted.
Post == [of : Deliveries \cup {Nothing}, stage : {"sent", "landed", "recorded"}]
NoPost == [of |-> Nothing, stage |-> "sent"]
Row == [status : {"none", "pending", "in_flight", "exhausted"},
        attempts : 0..OutboxMaxAttempts, due : BOOLEAN]
NoRow == [status |-> "none", attempts |-> 0, due |-> FALSE]

\* batch: the rows read and not yet dealt with; running: the call is at work.
Poller == [running : BOOLEAN, batch : SUBSET Deliveries, post : Post]
IdlePoller == [running |-> FALSE, batch |-> {}, post |-> NoPost]

WebhookTypeOK ==
  /\ hook \in [Deliveries -> {"none", "posting", "landed", "over"}]
  /\ outbox \in [Deliveries -> Row]
  /\ poller \in [Pollers -> Poller]
  /\ succeeded \subseteq Deliveries /\ cutHooks \subseteq Deliveries /\ outlived \subseteq Deliveries
  /\ wanted \in BOOLEAN /\ hookLeft \in 0..HookFaults

WebhookInit ==
  /\ hook = [d \in Deliveries |-> "none"]
  /\ outbox = [d \in Deliveries |-> NoRow]
  /\ poller = [p \in Pollers |-> IdlePoller]
  /\ succeeded = {} /\ cutHooks = {} /\ outlived = {}
  /\ wanted = TRUE
  /\ hookLeft = HookFaults

(***************************************************************************)
(* The first POST.  Nothing is persisted until it has failed.              *)
(***************************************************************************)
StatusChanges(d) ==
  /\ hook[d] = "none" /\ wanted
  /\ hook' = [hook EXCEPT ![d] = "posting"]
  /\ UNCHANGED <<outbox, poller, succeeded, wanted, cutHooks, outlived, hookLeft>>

FirstPostLands(d) ==
  /\ hook[d] = "posting"
  /\ hook' = [hook EXCEPT ![d] = "landed"]
  /\ UNCHANGED <<outbox, poller, succeeded, wanted, cutHooks, outlived, hookLeft>>

FirstPostSucceeds(d) ==
  /\ hook[d] = "landed"
  /\ hook' = [hook EXCEPT ![d] = "over"]
  /\ succeeded' = succeeded \cup {d}
  /\ UNCHANGED <<outbox, poller, wanted, cutHooks, outlived, hookLeft>>

\* Mutant: an answer of 4xx is final.
FirstPostDropped(d) ==
  /\ hook[d] \in {"posting", "landed"}
  /\ hook' = [hook EXCEPT ![d] = "over"]
  /\ \/ hook[d] = "landed" /\ UNCHANGED outbox
     \/ outbox' = [outbox EXCEPT ![d] = [status |-> "pending", attempts |-> 1, due |-> FALSE]]
  /\ UNCHANGED <<poller, succeeded, wanted, cutHooks, outlived, hookLeft>>

FirstPostFails(d) ==
  /\ hook[d] \in {"posting", "landed"}
  /\ hook' = [hook EXCEPT ![d] = "over"]
  /\ outbox' = [outbox EXCEPT ![d] = [status |-> "pending", attempts |-> 1, due |-> FALSE]]
  /\ UNCHANGED <<poller, succeeded, wanted, cutHooks, outlived, hookLeft>>

(***************************************************************************)
(* processWebhookOutbox.                                                   *)
(***************************************************************************)
Due == {d \in Deliveries : outbox[d].status \in {"pending", "in_flight"} /\ outbox[d].due}

RetryTimePasses(d) ==
  /\ outbox[d].status \in {"pending", "in_flight"} /\ ~outbox[d].due
  /\ outbox' = [outbox EXCEPT ![d].due = TRUE]
  /\ UNCHANGED <<hook, poller, succeeded, wanted, cutHooks, outlived, hookLeft>>

\* Mutant: the calls are not kept apart.
PollAnyway(p) ==
  /\ ~poller[p].running /\ Due # {}
  /\ poller' = [poller EXCEPT ![p] = [running |-> TRUE, batch |-> Due, post |-> NoPost]]
  /\ UNCHANGED <<hook, outbox, succeeded, wanted, cutHooks, outlived, hookLeft>>

\* A call while another runs, or with nothing due, has no effect.
Poll(p) ==
  /\ \A q \in Pollers : ~poller[q].running
  /\ Due # {}
  /\ poller' = [poller EXCEPT ![p] = [running |-> TRUE, batch |-> Due, post |-> NoPost]]
  /\ UNCHANGED <<hook, outbox, succeeded, wanted, cutHooks, outlived, hookLeft>>

\* retryOutboxDelivery up to its fetch.  A row that is gone is not written.
Written(d, row) == IF outbox[d].status = "none" THEN outbox ELSE [outbox EXCEPT ![d] = row]

Retry(p, d) ==
  /\ poller[p].post = NoPost /\ d \in poller[p].batch
  /\ IF wanted
     THEN /\ outbox' = Written(d, [outbox[d] EXCEPT !.status = "in_flight"])
          /\ poller' = [poller EXCEPT ![p].batch = @ \ {d},
                                      ![p].post = [of |-> d, stage |-> "sent"]]
     ELSE /\ outbox' = Written(d, [outbox[d] EXCEPT !.status = "exhausted"])
          /\ poller' = [poller EXCEPT ![p].batch = @ \ {d}]
  /\ UNCHANGED <<hook, succeeded, wanted, cutHooks, outlived, hookLeft>>

RetryLands(p) ==
  /\ poller[p].post # NoPost /\ poller[p].post.stage = "sent"
  /\ poller' = [poller EXCEPT ![p].post.stage = "landed"]
  /\ UNCHANGED <<hook, outbox, succeeded, wanted, cutHooks, outlived, hookLeft>>

\* Two commits: the success is recorded, then the row is deleted.  No handler runs
\* between them, but the server may die there; the other actions commute with the second.
RetrySucceeds(p) ==
  /\ poller[p].post.stage = "landed"
  /\ succeeded' = succeeded \cup {poller[p].post.of}
  /\ poller' = [poller EXCEPT ![p].post.stage = "recorded"]
  /\ UNCHANGED <<hook, outbox, wanted, cutHooks, outlived, hookLeft>>

RetryRemoves(p) ==
  /\ poller[p].post.stage = "recorded"
  /\ outbox' = [outbox EXCEPT ![poller[p].post.of] = NoRow]
  /\ poller' = [poller EXCEPT ![p].post = NoPost]
  /\ UNCHANGED <<hook, succeeded, wanted, cutHooks, outlived, hookLeft>>

\* Mutant: the attempts of a row are not limited.
FailedForever(row) ==
  [status |-> "pending", due |-> FALSE,
   attempts |-> IF row.attempts + 1 >= OutboxMaxAttempts THEN row.attempts ELSE row.attempts + 1]

Failed(row) ==
  [status |-> IF row.attempts + 1 >= OutboxMaxAttempts THEN "exhausted" ELSE "pending",
   attempts |-> row.attempts + 1,
   due |-> FALSE]

\* The POST failed, its answer was lost, or the success could not be recorded.
RetryFails(p) ==
  /\ poller[p].post # NoPost /\ poller[p].post.stage \in {"sent", "landed"}
  /\ LET d == poller[p].post.of IN outbox' = Written(d, Failed(outbox[d]))
  /\ poller' = [poller EXCEPT ![p].post = NoPost]
  /\ UNCHANGED <<hook, succeeded, wanted, cutHooks, outlived, hookLeft>>

HookFault == hookLeft > 0 /\ hookLeft' = hookLeft - 1

\* The deletion throws: what was recorded as a success is treated as a failure too.
RemovalFails(p) ==
  /\ HookFault /\ poller[p].post.stage = "recorded"
  /\ LET d == poller[p].post.of
     IN  outbox' = Written(d, Failed(outbox[d])) /\ outlived' = outlived \cup {d}
  /\ poller' = [poller EXCEPT ![p].post = NoPost]
  /\ UNCHANGED <<hook, succeeded, wanted, cutHooks>>

\* A write before the POST or after its failure throws: the call logs it and goes on
\* to the next row, and this one stays as it is.
WriteFails(p) ==
  /\ HookFault
  /\ \/ /\ poller[p].post = NoPost
        /\ \E d \in poller[p].batch : poller' = [poller EXCEPT ![p].batch = @ \ {d}]
     \/ /\ poller[p].post # NoPost
        /\ poller' = [poller EXCEPT ![p].post = NoPost]
  /\ outlived' = IF poller[p].post.stage = "recorded" THEN outlived \cup {poller[p].post.of} ELSE outlived
  /\ UNCHANGED <<hook, outbox, succeeded, wanted, cutHooks>>

PollEnds(p) ==
  /\ poller[p].running /\ poller[p].batch = {} /\ poller[p].post = NoPost
  /\ poller' = [poller EXCEPT ![p] = IdlePoller]
  /\ UNCHANGED <<hook, outbox, succeeded, wanted, cutHooks, outlived, hookLeft>>

(***************************************************************************)
(* An operator deletes the subscription or the task; the server restarts.  *)
(* A first POST whose failure cannot be written down ends the server: the  *)
(* rejection of its handler is caught by nobody.                           *)
(***************************************************************************)
Unsubscribe ==
  /\ wanted /\ wanted' = FALSE
  /\ UNCHANGED <<hook, outbox, poller, succeeded, cutHooks, outlived, hookLeft>>

HookRestart ==
  /\ HookFault
  /\ cutHooks' = cutHooks \cup {d \in Deliveries : hook[d] \in {"posting", "landed"}}
  /\ hook' = [d \in Deliveries |-> IF hook[d] \in {"posting", "landed"} THEN "over" ELSE hook[d]]
  /\ poller' = [p \in Pollers |-> IdlePoller]
  /\ outlived' = outlived \cup {poller[p].post.of : p \in {p \in Pollers : poller[p].post.stage = "recorded"}}
  /\ UNCHANGED <<outbox, succeeded, wanted>>

WebhookNext ==
  \/ \E d \in Deliveries : \/ StatusChanges(d) \/ FirstPostLands(d) \/ FirstPostSucceeds(d)
                           \/ FirstPostFails(d) \/ RetryTimePasses(d)
  \/ \E p \in Pollers : \/ Poll(p) \/ RetryLands(p) \/ RetrySucceeds(p) \/ RetryRemoves(p) \/ RetryFails(p)
                        \/ RemovalFails(p) \/ WriteFails(p) \/ PollEnds(p)
                        \/ \E d \in Deliveries : Retry(p, d)
  \/ Unsubscribe \/ HookRestart

WebhookSpec == WebhookInit /\ [][WebhookNext]_hookVars

\* The timers fire, and a fetch ends or is aborted after ten seconds.
WebhookFairness ==
  /\ \A d \in Deliveries : WF_hookVars(RetryTimePasses(d))
  /\ WF_hookVars(\E p \in Pollers : Poll(p))
  /\ \A p \in Pollers :
       /\ WF_hookVars(RetrySucceeds(p) \/ RetryFails(p)) /\ WF_hookVars(RetryRemoves(p))
       /\ WF_hookVars(PollEnds(p))
       /\ \A d \in Deliveries : WF_hookVars(Retry(p, d))

(***************************************************************************)
(* Properties.                                                             *)
(***************************************************************************)
\* No delivery is lost without a trace: when its first POST is over it was
\* recorded as a success or has a row that says what became of it, unless a
\* restart cut that POST off (webhooks.ts:409-466).
DeliveryAccounted ==
  \A d \in Deliveries :
    hook[d] = "over" /\ d \notin cutHooks => d \in succeeded \/ outbox[d].status # "none"

\* A delivery recorded as a success is never posted again, whatever ticks, restarts,
\* lost answers and failed writes there are, unless its row outlived its success: the
\* server died between the two commits, or the deletion threw (webhooks.ts:336-364, 386-407).
NoPostAfterSuccess ==
  [][\A p \in Pollers, d \in Deliveries :
       Retry(p, d) /\ poller'[p].post.of = d => d \notin succeeded \ outlived]_hookVars

\* Every row of the outbox is delivered or exhausted in the end.
OutboxDrains ==
  \A d \in Deliveries :
    outbox[d].status \in {"pending", "in_flight"} ~> outbox[d].status \in {"none", "exhausted"}
=============================================================================
