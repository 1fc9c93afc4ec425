------------------------------- MODULE Journal -------------------------------
(***************************************************************************)
(* What is said of an experiment: the events appended to its timeline by   *)
(* operators, by a synchronised ledger, by its series and by the SDK; the  *)
(* decision on its row; the results its tasks export; and the answers put  *)
(* together from these, the research bundle among them, which waits for a  *)
(* manifest between collecting and answering.  There is one metric.        *)
(*                                                                         *)
(* A handler runs to its end but for that wait, and a crash: the row and   *)
(* the event of an edit, the task and the event of a result are commits of *)
(* their own.  Experiments and their first tasks are there from the start. *)
(***************************************************************************)
EXTENDS Naturals, FiniteSets, FiniteSetsExt, SequencesExt

CONSTANTS
  Papers,     \* experiments, numbered as they were created
  Notes,      \* task ids, numbered as they are made
  Matrix,     \* experiments of a matrix: no refs, and tasks that do not name them
  Submission, \* [Papers -> the tasks it was submitted with]
  Series,     \* families
  Declared,   \* choices of [Papers -> how the metric is declared]
  Scores,     \* values of the metric
  Spelt,      \* decisions as a request may spell them
  Entries,    \* entries of a ledger
  Hashes,     \* content hashes of an entry
  Remarks,    \* what operators post by hand: kinds, with a task and a path or without
  Doings,     \* bound: postings, reports of tasks, edits and retries
  Cuts        \* bound: crashes

NoNote == 0
NoScore == 0
Nothing == "none"
Ways == {"min", "max", "latest", Nothing}
Kinds == {"decision", "note", "artifact", "task_started", "task_ended"}
Decisions == {"keep", "try_more", "discard"}

ASSUME JournalAssumption ==
  /\ Doings \in Nat /\ Cuts \in Nat
  /\ Papers \subseteq Nat \ {0} /\ IsFiniteSet(Papers) /\ Matrix \subseteq Papers
  /\ Notes \subseteq Nat \ {NoNote} /\ IsFiniteSet(Notes)
  /\ Submission \in [Papers -> SUBSET Notes]
  /\ \A p, q \in Papers : p # q => Submission[p] \cap Submission[q] = {}
  /\ Scores \subseteq Nat \ {NoScore} /\ IsFiniteSet(Scores)
  /\ Declared \subseteq [Papers -> Ways]
  /\ Remarks \subseteq [kind : Kinds, note : Notes \cup {NoNote}, located : BOOLEAN]

VARIABLES
  paper,   \* the rows of the experiments
  note,    \* the tasks, as far as they are told of
  log,     \* the events, in the order they were appended
  told,    \* ledger postings that were answered with 200 or 201
  bundle,  \* the research bundle that waits for its manifest
  cut,     \* history: experiments of which a crash kept a row or a task and lost the event
  journalLeft

journalVars == <<paper, note, log, told, bundle, cut, journalLeft>>

\* listed: task_ids of the grid.  again: history, a task of it was retried.
Paper == [at : {"there", "deleted"}, family : Series \cup {Nothing}, way : Ways,
          decision : Decisions \cup {Nothing}, listed : SUBSET Notes,
          result : [Notes -> {Nothing, "passed", "missed"}], again : BOOLEAN]
\* on: grid_id.  score: exports.result.  copied: the exports came with a copy.
Note == [on : Papers \cup {0}, status : {Nothing, "pending", "live", "completed", "failed", "cancelled"},
         started : BOOLEAN, score : Scores \cup {NoScore}, copied : BOOLEAN]
Event == [on : Papers, kind : Kinds, by : {"patch", "ledger", "series", "sdk", "operator"},
          note : Notes \cup {NoNote}, decision : Decisions \cup {Nothing},
          series : Series \cup {Nothing}, at : Nat,
          entry : Entries \cup {Nothing}, hash : Hashes \cup {Nothing}, score : Scores \cup {NoScore}]
Bundle == [at : {"none", "waiting"}, on : Papers, decision : Decisions \cup {Nothing},
           said : Decisions \cup {Nothing}, events : Nat, passed : Nat, missed : Nat, touched : BOOLEAN]

JournalTypeOK ==
  /\ paper \in [Papers -> Paper] /\ note \in [Notes -> Note] /\ log \in Seq(Event)
  /\ told \subseteq [on : Papers, kind : Kinds, entry : Entries, hash : Hashes \cup {Nothing}]
  /\ bundle \in Bundle /\ cut \subseteq Papers \X Kinds
  /\ journalLeft \in [doings : 0..Doings, cuts : 0..Cuts]

NoResult == [n \in Notes |-> Nothing]
NoBundle == [at |-> "none", on |-> Min(Papers), decision |-> Nothing, said |-> Nothing,
             events |-> 0, passed |-> 0, missed |-> 0, touched |-> FALSE]

JournalInit ==
  /\ \E way \in Declared, family \in [Papers -> Series] :
       paper = [p \in Papers |-> [at |-> "there", family |-> family[p], way |-> way[p],
                                  decision |-> Nothing, listed |-> Submission[p],
                                  result |-> NoResult, again |-> FALSE]]
  /\ note = [n \in Notes |-> LET owners == {p \in Papers : n \in Submission[p]}
                             IN  [on |-> IF owners = {} THEN 0 ELSE Max(owners),
                                  status |-> IF owners = {} THEN Nothing ELSE "pending",
                                  started |-> FALSE, score |-> NoScore, copied |-> FALSE]]
  /\ log = <<>> /\ told = {} /\ cut = {} /\ bundle = NoBundle
  /\ journalLeft = [doings |-> Doings, cuts |-> Cuts]

Living == {p \in Papers : paper[p].at = "there"}
Does == journalLeft.doings > 0 /\ journalLeft' = [journalLeft EXCEPT !.doings = @ - 1]

(***************************************************************************)
(* Tasks, results and the status.                                          *)
(***************************************************************************)
Grid(p) == {n \in Notes : note[n].on = p}
EndedNote(n) == note[n].status \in {"completed", "failed", "cancelled"}

\* canonicalTasksForExperiment: those its refs name, and else those of its grid.
Canonical(p) == IF p \in Matrix THEN Grid(p) ELSE Submission[p]

Judged(p, verdict) == Cardinality({n \in Notes : paper[p].result[n] = verdict})

\* deriveExperimentStatus.
PaperStatus(p) ==
  LET total == Cardinality(paper[p].listed)
      done == Cardinality({n \in Grid(p) : note[n].status = "completed"})
  IN  IF Judged(p, "passed") = total /\ total > 0 THEN "passed"
      ELSE IF \E n \in Grid(p) : ~EndedNote(n) THEN "running"
      ELSE IF Judged(p, "missed") > 0 THEN (IF Judged(p, "passed") > 0 THEN "partial" ELSE "failed")
      ELSE IF done = total THEN "passed"
      ELSE IF done \in 1..(Cardinality(Grid(p)) - 1) THEN "partial" ELSE "failed"

\* The snapshot that a watcher polls: terminal, and the refs that miss a result.
Terminal(p) == Canonical(p) # {} /\ \A n \in Canonical(p) : EndedNote(n)
MissingResults(p) == {n \in Canonical(p) : EndedNote(n) /\ note[n].score = NoScore}

\* Those of its tasks with a result, in the order of seq.
WithResult(P) == {n \in Notes : note[n].on \in P /\ note[n].score # NoScore}
Later(m, n) == note[m].on < note[n].on \/ (note[m].on = note[n].on /\ m <= n)

\* bestResultMetricsForExperiment: the rows one by one.
BestOf(way, rows) ==
  LET scores == {note[n].score : n \in rows}
  IN  CASE rows = {} \/ way = Nothing -> NoScore
        [] rows # {} /\ way = "min" -> Min(scores)
        [] rows # {} /\ way = "max" -> Max(scores)
        [] rows # {} /\ way = "latest" ->
             note[CHOOSE n \in rows : \A m \in rows : Later(m, n)].score

\* getAllExperiments by family.
Members(f) == {p \in Living : paper[p].family = f}

\* schemaSummaryForSeries: the last member that declares the metric.
SeriesWay(f) ==
  LET declaring == {p \in Members(f) : paper[p].way # Nothing}
  IN  IF declaring = {} THEN Nothing ELSE paper[Max(declaring)].way

\* bestMetricsForSeries.
SeriesBest(f) == BestOf(SeriesWay(f), WithResult(Members(f)))

(***************************************************************************)
(* The timeline.                                                           *)
(***************************************************************************)
Stored(p) == {i \in DOMAIN log : log[i].on = p}

\* synthesizeTaskEvents.
Lived(p) == {<<"task_started", n>> : n \in {m \in Grid(p) : note[m].started}}
       \cup {<<"task_ended", n>> : n \in {m \in Grid(p) : EndedNote(m)}}

\* Those of them that no stored event tells of already.
Synthesized(p) == {e \in Lived(p) : \A i \in Stored(p) : <<log[i].kind, log[i].note>> # e}

TimesTold(p, e) ==
  Cardinality({i \in Stored(p) : <<log[i].kind, log[i].note>> = e})
  + Cardinality({e} \cap Synthesized(p))

\* What the last PATCH that the timeline tells of decided.
LastSaid(events) ==
  LET patched == {i \in events : log[i].by = "patch" /\ log[i].kind = "decision"}
  IN  IF patched = {} THEN Nothing ELSE log[Max(patched)].decision

\* Of the events of a series, one of those that say the same at the same time.
SeriesEvents(f) == {i \in DOMAIN log : log[i].on \in Members(f) /\ log[i].series = f}
Same(d, e) == d.kind = e.kind /\ d.decision = e.decision /\ d.at = e.at
Latest(f) == {i \in SeriesEvents(f) : \A j \in SeriesEvents(f) : Same(log[i], log[j]) => j <= i}

(***************************************************************************)
(* The course of the tasks.                                                *)
(***************************************************************************)
StartNote(n) ==
  /\ note[n].status = "pending"
  /\ note' = [note EXCEPT ![n].status = "live", ![n].started = TRUE]
  /\ UNCHANGED <<paper, log, told, bundle, cut, journalLeft>>

EndNote(n) ==
  /\ \/ /\ note[n].status = "live"
        /\ \E end \in {"completed", "failed", "cancelled"} : note' = [note EXCEPT ![n].status = end]
     \/ /\ note[n].status = "pending"
        /\ note' = [note EXCEPT ![n].status = "cancelled"]
  /\ UNCHANGED <<paper, log, told, bundle, cut, journalLeft>>

Said(p, kind, by) ==
  [on |-> p, kind |-> kind, by |-> by, note |-> NoNote, decision |-> Nothing, series |-> Nothing,
   at |-> 0, entry |-> Nothing, hash |-> Nothing, score |-> NoScore]

\* A row or a task is kept, and then its event, unless a crash comes in between;
\* a bundle in the making goes with the process.
Entered(event) ==
  /\ journalLeft.doings > 0
  /\ \/ /\ log' = Append(log, event)
        /\ journalLeft' = [journalLeft EXCEPT !.doings = @ - 1]
        /\ UNCHANGED <<cut, bundle>>
     \/ /\ journalLeft.cuts > 0
        /\ cut' = cut \cup {<<event.on, event.kind>>} /\ bundle' = NoBundle
        /\ journalLeft' = [journalLeft EXCEPT !.doings = @ - 1, !.cuts = @ - 1]
        /\ UNCHANGED log

\* task.result: the exports of the task, and an event if it names an experiment.
ReportResult(n) ==
  /\ note[n].status = "live"
  /\ \E score \in Scores :
       /\ note' = [note EXCEPT ![n].score = score, ![n].copied = FALSE]
       /\ IF note[n].on \in Matrix
          THEN Does /\ UNCHANGED <<log, cut, bundle>>
          ELSE Entered([Said(note[n].on, "artifact", "sdk") EXCEPT !.note = n, !.score = score])
  /\ UNCHANGED <<paper, told>>

Touched(p) == bundle' = IF bundle.at = "waiting" /\ bundle.on = p THEN [bundle EXCEPT !.touched = TRUE] ELSE bundle

\* task.eval: the results of the row are changed in place.
Judge(n) ==
  LET p == note[n].on
  IN  /\ note[n].status = "live" /\ p \in Living /\ Does
      /\ \E verdict \in {"passed", "missed"} : paper' = [paper EXCEPT ![p].result[n] = verdict]
      /\ Touched(p)
      /\ UNCHANGED <<note, log, told, cut>>

\* POST /experiments/:id/retry-failed: a copy of each task that failed takes its
\* place in the grid, not among the refs, and has its exports.
RetryNotes(p) ==
  /\ p \in Living /\ Does
  /\ \E n \in Grid(p), m \in Notes :
       /\ {k \in Grid(p) : note[k].status = "failed" \/ paper[p].result[k] = "missed"} = {n}
       /\ note[m].status = Nothing /\ \A k \in Notes : note[k].status = Nothing => m <= k
       /\ note' = [note EXCEPT ![m] = [note[n] EXCEPT !.status = "pending", !.started = FALSE,
                                                      !.copied = note[n].score # NoScore]]
       /\ paper' = [paper EXCEPT ![p].listed = IF n \in @ THEN (@ \ {n}) \cup {m} ELSE @,
                                 ![p].result[n] = Nothing, ![p].again = TRUE]
  /\ Touched(p)
  /\ UNCHANGED <<log, told, cut>>

(***************************************************************************)
(* What is posted.                                                         *)
(***************************************************************************)
\* validateArtifactData: where an artifact is has to be said.
Acceptable(r) == r.kind = "artifact" => r.located

\* POST /experiments/:id/events, by hand.
Remark(p) ==
  /\ p \in Living /\ Does
  /\ \E r \in {s \in Remarks : Acceptable(s)} : log' = Append(log, [Said(p, r.kind, "operator") EXCEPT !.note = r.note])
  /\ UNCHANGED <<paper, note, told, bundle, cut>>

\* Mutant: an entry counts as posted only with the content that it has now.
PostedAsIs(p, kind, entry, hash) ==
  {i \in Stored(p) : log[i].by = "ledger" /\ log[i].kind = kind /\ log[i].entry = entry /\ log[i].hash = hash}

Posted(p, kind, entry, hash) ==
  {i \in Stored(p) : log[i].by = "ledger" /\ log[i].kind = kind /\ log[i].entry = entry}

\* POST /experiments/:id/events, of an entry of a ledger, as often as its sender
\* does not know that it came: 201, or 200 with the event that is there, or 409.
SyncEntry(p, kind, entry, hash) ==
  LET there == Posted(p, kind, entry, hash)
      conflict == \E i \in there : hash # Nothing /\ log[i].hash # Nothing /\ hash # log[i].hash
  IN  /\ p \in Living /\ Does
      /\ log' = IF there = {} THEN Append(log, [Said(p, kind, "ledger") EXCEPT !.entry = entry, !.hash = hash])
                              ELSE log
      /\ told' = IF conflict THEN told
                 ELSE told \cup {[on |-> p, kind |-> kind, entry |-> entry, hash |-> hash]}
      /\ UNCHANGED <<paper, note, bundle, cut>>

\* normalizeDecision: a request with none of these is refused.
Normal(spelt) ==
  CASE spelt \in {"try-more", "try_more", "rerun", "fork"} -> "try_more"
    [] spelt \in {"drop", "discard"} -> "discard"
    [] spelt = "keep" -> "keep"
    [] OTHER -> Nothing

\* PATCH /experiments/:id/decision.
Decide(p, spelt) ==
  /\ p \in Living /\ Normal(spelt) # Nothing
  /\ paper' = [paper EXCEPT ![p].decision = Normal(spelt)]
  /\ Entered([Said(p, "decision", "patch") EXCEPT !.decision = Normal(spelt)])
  /\ UNCHANGED <<note, told>>

\* POST /experiments/series/:series/events: one event on each member, with one time.
Announce(f, spelt) ==
  LET last == Max({0} \cup {log[i].at : i \in DOMAIN log})
      members == SetToSortSeq(Members(f), LAMBDA p, q : p < q)
  IN  /\ members # <<>> /\ Normal(spelt) # Nothing /\ Does
      /\ \E at \in {last, last + 1} \ {0} :
           log' = log \o [i \in DOMAIN members |->
             [Said(members[i], "decision", "series") EXCEPT !.decision = Normal(spelt), !.series = f, !.at = at]]
      /\ UNCHANGED <<paper, note, told, bundle, cut>>

\* PATCH /experiments/:id, of the family.
Refile(p, f) ==
  /\ p \in Living /\ paper[p].family # f
  /\ paper' = [paper EXCEPT ![p].family = f]
  /\ Entered(Said(p, "note", "patch"))
  /\ UNCHANGED <<note, told>>

\* DELETE /experiments/:id: the row goes, the events stay.
DeletePaper(p) ==
  /\ p \in Living /\ Does
  /\ paper' = [paper EXCEPT ![p].at = "deleted"]
  /\ UNCHANGED <<note, log, told, bundle, cut>>

(***************************************************************************)
(* GET /experiments/:id/research-bundle.                                   *)
(***************************************************************************)
\* Everything is collected, and then the manifest is waited for: the results as
\* the object that evaluations change, the rest as it is now.
Collect(p) ==
  /\ p \in Living /\ bundle.at = "none"
  /\ bundle' = [at |-> "waiting", on |-> p, decision |-> paper[p].decision, said |-> LastSaid(Stored(p)),
                events |-> Cardinality(Stored(p)), passed |-> Judged(p, "passed"),
                missed |-> Judged(p, "missed"), touched |-> FALSE]
  /\ UNCHANGED <<paper, note, log, told, cut, journalLeft>>

Answer ==
  /\ bundle.at = "waiting" /\ bundle' = NoBundle
  /\ UNCHANGED <<paper, note, log, told, cut, journalLeft>>

JournalNext ==
  \/ \E n \in Notes : StartNote(n) \/ EndNote(n) \/ ReportResult(n) \/ Judge(n)
  \/ \E p \in Papers :
       \/ RetryNotes(p) \/ Remark(p) \/ DeletePaper(p) \/ Collect(p)
       \/ \E kind \in {"decision", "note"}, entry \in Entries, hash \in Hashes \cup {Nothing} :
            SyncEntry(p, kind, entry, hash)
       \/ \E spelt \in Spelt : Decide(p, spelt)
       \/ \E f \in Series \cup {Nothing} : Refile(p, f)
  \/ \E f \in Series, spelt \in Spelt : Announce(f, spelt)
  \/ Answer

JournalSpec == JournalInit /\ [][JournalNext]_journalVars

(***************************************************************************)
(* Properties.                                                             *)
(***************************************************************************)
\* An entry of a ledger is on the timeline once, however often and with whatever
\* content it is sent, and a sender that was told it is there sent this content.
PostedOnce ==
  /\ \A p \in Papers : \A i, j \in Stored(p) :
       log[i].by = "ledger" /\ log[j].by = "ledger" /\ log[i].kind = log[j].kind /\ log[i].entry = log[j].entry
       => i = j
  /\ \A t \in told : \E i \in Stored(t.on) :
       /\ log[i].by = "ledger" /\ log[i].kind = t.kind /\ log[i].entry = t.entry
       /\ log[i].hash = t.hash \/ Nothing \in {log[i].hash, t.hash}

\* The decision of a row is the last one that its timeline tells of; what a
\* ledger or a series decided does not change it.
DecisionTold ==
  \A p \in Papers : <<p, "decision">> \notin cut => paper[p].decision = LastSaid(Stored(p))

\* A result that the summary shows was told of on the timeline, with this score,
\* unless it came with the copy of a task or the task names no experiment.
ResultsTold ==
  \A n \in WithResult(Papers \ Matrix) :
    note[n].copied \/ <<note[n].on, "artifact">> \in cut
    \/ LET events == {i \in Stored(note[n].on) : log[i].by = "sdk" /\ log[i].note = n}
       IN  events # {} /\ log[Max(events)].score = note[n].score

\* The start and the end of each task are told of, and once, unless operators
\* told of them more often.
LivesTold ==
  \A p \in Papers : \A e \in Lived(p) :
    LET byHand == Cardinality({i \in Stored(p) : log[i].by = "operator" /\ <<log[i].kind, log[i].note>> = e})
    IN  TimesTold(p, e) = IF byHand = 0 THEN 1 ELSE byHand

\* A watcher that is told that all is over is not told as well that it is
\* running, unless a task was retried, of which its refs do not know.
SnapshotAgrees ==
  \A p \in Living :
    /\ Terminal(p) /\ ~paper[p].again => PaperStatus(p) # "running"
    /\ PaperStatus(p) # "running" /\ ~Terminal(p) => Judged(p, "passed") = Cardinality(paper[p].listed)

\* The best of a series is the best of the bests of its members, when they
\* declare the metric in one way.
SeriesLed ==
  \A f \in Series :
    LET best(p) == BestOf(paper[p].way, WithResult({p}))
        scored == {p \in Members(f) : best(p) # NoScore}
        way == SeriesWay(f)
    IN  (\A p \in Members(f) : paper[p].way = way) =>
          SeriesBest(f) =
            CASE scored = {} -> NoScore
              [] scored # {} /\ way = "min" -> Min({best(p) : p \in scored})
              [] scored # {} /\ way = "max" -> Max({best(p) : p \in scored})
              [] scored # {} /\ way = "latest" -> best(Max(scored))

\* An announcement to a series is shown once, as long as one of those it was
\* made to is still a member.
AnnouncedOnce ==
  \A f \in Series :
    /\ \A i, j \in Latest(f) : Same(log[i], log[j]) => i = j
    /\ \A i \in SeriesEvents(f) : \E j \in Latest(f) : Same(log[i], log[j])

\* The parts of a bundle are of one moment, though the manifest took its time:
\* the results fit their summary unless a task was judged or retried meanwhile.
BundleOfOneMoment ==
  bundle.at = "waiting" =>
    /\ <<bundle.on, "decision">> \in cut \/ bundle.decision = bundle.said
    /\ bundle.touched \/ (bundle.passed = Judged(bundle.on, "passed") /\ bundle.missed = Judged(bundle.on, "missed"))

\* Through lost answers, crashes, retries and deletions the timeline tells what
\* happened, as it happened, and once (api/experiments.ts:205-243, 2109-2149,
\* 2296-2367, stub.ts:595-632).
TimelineTells == PostedOnce /\ DecisionTold /\ ResultsTold /\ LivesTold /\ AnnouncedOnce

\* The parts of each answer fit each other: of a snapshot, a series and a bundle
\* (api/experiments.ts:790-983, 2060-2107, 2370-2475).
AnswersFit == SnapshotAgrees /\ SeriesLed /\ BundleOfOneMoment

\* Both, of states of the shape described (api/experiments.ts:205-243, 2370-2475).
JournalSound == JournalTypeOK /\ TimelineTells /\ AnswersFit
=============================================================================
