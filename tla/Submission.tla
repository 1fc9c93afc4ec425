------------------------------ MODULE Submission ------------------------------
(***************************************************************************)
(* Submitting an experiment from the SDK (experiment.py, submit.py) to     *)
(* POST /experiments (experiments.ts) over a connection that may lose the  *)
(* request, the answer or both, and the keys of POST /tasks and            *)
(* POST /stubs/:id/tasks.  A content stands for the whole payload, the     *)
(* working directory and commit that to_spec() adds included.              *)
(***************************************************************************)
EXTENDS Integers, Sequences, FiniteSets

CONSTANTS
  Authors,       \* Experiment objects of the SDK
  GivenKeys,     \* keys a caller may give to submit()
  Contents,      \* payloads; "malformed" is refused by the SDK, "invalid" by the server
  Scripts,       \* fingerprints of tasks posted one by one
  MaxPosts,      \* requests to POST /experiments in a run
  MaxTasks,      \* tasks posted one by one
  Mischances     \* edits, lost messages, failing transactions and deletions in a run

ASSUME SubmissionAssumption ==
  /\ {MaxPosts, MaxTasks, Mischances} \subseteq Nat
  /\ GivenKeys \cap Authors = {} /\ Contents \cap {"none"} = {}

VARIABLES
  author,    \* [Authors -> record]: its content and key, the post it waits for, the last outcome
  post,      \* [Posts -> record]: the requests, what the server made of each
  db,        \* [Keys -> record]: rows of the experiment of a key, its grid and its tasks
  single,    \* sequence of the tasks posted one by one, with idempotencyCache's entry
  chances    \* what is left of Mischances

submissionVars == <<author, post, db, single, chances>>

Keys == Authors \cup GivenKeys   \* an object is the name of the uuid it makes itself
Posts == 1..MaxPosts
None == "none"
TaskKey(k) == <<k, "task">>
Mischance == chances > 0 /\ chances' = chances - 1

SubmissionInit ==
  /\ author \in [Authors -> [content : Contents, key : {None}, waits : {0}, outcome : {None}]]
  /\ post = [n \in Posts |-> [st |-> "unused", by |-> None, key |-> None, given |-> FALSE,
                              content |-> None, answer |-> None]]
  /\ db = [k \in Keys |-> [experiment |-> None, grid |-> FALSE, tasks |-> None, made |-> 0]]
  /\ single = <<>>
  /\ chances = Mischances

-----------------------------------------------------------------------------
(* The SDK. *)

\* The object is changed, or used from another directory or commit.
Edit(a, c) ==
  /\ Mischance
  /\ author[a].waits = 0
  /\ author' = [author EXCEPT ![a].content = c]
  /\ UNCHANGED <<post, db, single>>

\* What to_spec() and submit_experiment() make of the object, and what each side refuses in it.
ToSpec(a) == author[a].content
Malformed(c) == c = "malformed"
Invalid(c) == c = "invalid"

\* Mutant: every submit() makes a key of its own.
SubmitAfresh(a, given) ==
  LET used == {post[n].key : n \in {m \in Posts : post[m].st # "unused"}}
  IN  IF given # None THEN given ELSE CHOOSE k \in Keys : k \notin used \/ used = Keys

\* A key that is given replaces the one the object has; else its own is made once.
SubmitKey(a, given) ==
  IF given # None THEN given ELSE IF author[a].key = None THEN a ELSE author[a].key

\* submit(): what fails here has sent nothing.
Submit(a, given) ==
  LET k == SubmitKey(a, given)
      c == ToSpec(a)
  IN  /\ author[a].waits = 0
      /\ IF Malformed(c)
         THEN author' = [author EXCEPT ![a].outcome = "not_submitted"] /\ UNCHANGED post
         ELSE \E n \in Posts :
                /\ post[n].st = "unused" /\ \A m \in Posts : m < n => post[m].st # "unused"
                /\ post' = [post EXCEPT ![n] =
                     [@ EXCEPT !.st = "sent", !.by = a, !.key = k, !.content = c,
                               !.given = given # None \/ (author[a].key \notin {None, a})]]
                /\ author' = [author EXCEPT ![a] =
                     [@ EXCEPT !.key = k, !.waits = n, !.outcome = None]]
      /\ UNCHANGED <<db, single, chances>>

\* 200, 201; 4xx is rejected, anything else unknown.
Hear(n) ==
  LET a == post[n].by
  IN  /\ post[n].st = "answered" /\ author[a].waits = n
      /\ post' = [post EXCEPT ![n].st = "over"]
      /\ author' = [author EXCEPT ![a].waits = 0, ![a].outcome =
                      CASE post[n].answer \in {"created", "exists"} -> post[n].answer
                        [] post[n].answer \in {"invalid", "conflict", "partial"} -> "rejected"
                        [] OTHER -> "unknown"]
      /\ UNCHANGED <<db, single, chances>>

\* Thirty seconds, a lost answer or one that cannot be read; the request may yet arrive.
GiveUp(a) ==
  /\ Mischance
  /\ author[a].waits # 0
  /\ author' = [author EXCEPT ![a].waits = 0, ![a].outcome = "unknown"]
  /\ UNCHANGED <<post, db, single>>

NeverArrives(n) ==
  /\ post[n].st = "sent" /\ author[post[n].by].waits # n
  /\ post' = [post EXCEPT ![n].st = "over"]
  /\ UNCHANGED <<author, db, single, chances>>

-----------------------------------------------------------------------------
(* POST /experiments; the handler does not wait for anything. *)

Answered(n, what) == post' = [post EXCEPT ![n].st = "answered", ![n].answer = what]
PartialConflict(k, c) ==
  \/ db[k].tasks \notin {None, c}
  \/ \E i \in DOMAIN single : single[i].key = TaskKey(k)

PostExperiment(n) ==
  LET k == post[n].key
      c == post[n].content
      row == db[k]
      refused == CASE row.experiment \notin {None, c} -> "conflict"
                   [] row.experiment = c -> "exists"
                   [] Invalid(c) -> "invalid"
                   [] PartialConflict(k, c) -> "partial"
                   [] OTHER -> None
  IN  /\ post[n].st = "sent"
      /\ \/ refused # None /\ Answered(n, refused) /\ UNCHANGED <<db, chances>>
         \/ \* persistExperimentDag inserts the grid, which a deleted experiment leaves behind
            /\ refused = None /\ row.grid
            /\ Answered(n, "error") /\ UNCHANGED <<db, chances>>
         \/ /\ refused = None /\ ~row.grid
            /\ Answered(n, "created")
            /\ db' = [db EXCEPT ![k] = [experiment |-> c, grid |-> TRUE, tasks |-> c, made |-> @.made + 1]]
            /\ UNCHANGED chances
         \/ \* the transaction fails and leaves nothing
            /\ refused = None /\ ~row.grid
            /\ Mischance
            /\ Answered(n, "error") /\ UNCHANGED db
      /\ UNCHANGED <<author, single>>

\* DELETE /experiments/:id takes the row of the experiment alone.
DeleteExperimentRow(k) ==
  /\ Mischance
  /\ db[k].experiment # None
  /\ db' = [db EXCEPT ![k].experiment = None]
  /\ UNCHANGED <<author, post, single>>

-----------------------------------------------------------------------------
(* Tasks one by one. *)

NewSingle(k, p, direct) == [key |-> k, stored |-> ~direct, print |-> p, active |-> TRUE, cached |-> TRUE]
Cached(k) == \E i \in DOMAIN single : single[i].key = k /\ single[i].cached
Twin(p) == \E i \in DOMAIN single : single[i].print = p /\ single[i].active

\* POST /tasks: a stored key, a cached one, an active task of that fingerprint, or a new task.
PostTask(k, p) ==
  /\ Len(single) < MaxTasks
  /\ ~\E i \in DOMAIN single : single[i].key = k /\ single[i].stored
  /\ db[k[1]].tasks = None
  /\ ~Cached(k) /\ ~Twin(p)
  /\ single' = Append(single, NewSingle(k, p, FALSE))
  /\ UNCHANGED <<author, post, db, chances>>

\* POST /stubs/:id/tasks keeps the key in the cache only.
PostTaskToStub(k, p) ==
  /\ Len(single) < MaxTasks
  /\ ~Cached(k) /\ ~Twin(p)
  /\ single' = Append(single, NewSingle(k, p, TRUE))
  /\ UNCHANGED <<author, post, db, chances>>

SingleEnds(i) ==
  /\ single[i].active
  /\ single' = [single EXCEPT ![i].active = FALSE]
  /\ UNCHANGED <<author, post, db, chances>>

\* A minute later, or by a restart of the server.
CacheExpires(i) ==
  /\ single[i].cached
  /\ single' = [single EXCEPT ![i].cached = FALSE]
  /\ UNCHANGED <<author, post, db, chances>>

SubmissionNext ==
  \/ \E a \in Authors :
       \/ \E c \in Contents : Edit(a, c)
       \/ \E g \in GivenKeys \cup {None} : Submit(a, g)
       \/ GiveUp(a)
  \/ \E n \in Posts : Hear(n) \/ NeverArrives(n) \/ PostExperiment(n)
  \/ \E k \in Keys : DeleteExperimentRow(k)
  \/ \E k \in {TaskKey(j) : j \in Keys}, p \in Scripts : PostTask(k, p) \/ PostTaskToStub(k, p)
  \/ \E i \in DOMAIN single : SingleEnds(i) \/ CacheExpires(i)

SubmissionSpec == SubmissionInit /\ [][SubmissionNext]_submissionVars

SubmissionTypeOK ==
  /\ \A a \in Authors : author[a].key \in Keys \cup {None} /\ author[a].waits \in 0..MaxPosts
  /\ \A n \in Posts : post[n].st \in {"unused", "sent", "answered", "over"}
                      /\ post[n].key \in Keys \cup {None}
  /\ \A k \in Keys : db[k].experiment \in Contents \cup {None} /\ db[k].tasks \in Contents \cup {None}
  /\ chances \in 0..Mischances

(***************************************************************************)
(* Whatever is lost, repeated, late, edited or deleted: a key makes one    *)
(* experiment at most, with its grid and tasks in the content that was     *)
(* sent or not at all; an object that is submitted again under the key it  *)
(* made itself makes one; and who hears that the experiment is there has   *)
(* sent exactly what is stored.  A key makes one task through POST /tasks. *)
(***************************************************************************)
OneExperimentPerKey ==
  /\ \A k \in Keys :
       /\ db[k].made <= 1
       /\ db[k].experiment # None => db[k].grid /\ db[k].tasks = db[k].experiment
       /\ db[k].grid = (db[k].tasks # None)
  /\ \A a \in Authors :
       Cardinality({n \in Posts : post[n].by = a /\ ~post[n].given /\ post[n].answer = "created"}) <= 1
  /\ \A n \in Posts :
       post[n].answer \in {"created", "exists"} => db[post[n].key].tasks = post[n].content
  /\ \A i, j \in DOMAIN single :
       single[i].stored /\ single[j].stored /\ single[i].key = single[j].key => i = j
=============================================================================
