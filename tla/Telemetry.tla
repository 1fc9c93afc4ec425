------------------------------ MODULE Telemetry ------------------------------
(***************************************************************************)
(* What running tasks tell of themselves: curves, progress, log lines and  *)
(* results, which their daemon passes on over its socket and the SDK posts *)
(* where there is no daemon.  The curves are kept twice, in the memory of  *)
(* the server and as a snapshot in the row of the task; the log and the    *)
(* last words are kept in the row alone.  A row outlives a restart of the  *)
(* server, its memory does not.  Events of the socket are not repeated:    *)
(* one that is lost is an action not taken.                                *)
(***************************************************************************)
EXTENDS Naturals, FiniteSets, SequencesExt

CONSTANTS
  Runs,        \* tasks
  Curves,      \* names of metrics
  PointsKept,  \* TASK_METRICS_BUFFER_SIZE, 500 a metric
  RingSize,    \* 1000 points of progress a task
  LinesKept,   \* 500 log lines of a task that is not over
  LinesInTail, \* ARCHIVE_LOG_TAIL, 50 lines of one that is
  WarmArchive, \* ARCHIVE_MAX, 500 rows of the archive that keep their log
  OverviewTTL, \* ten seconds
  Points,      \* bound: points of a curve
  Steps,       \* bound: points of progress
  LogLines,    \* bound: lines of a log
  Changes,     \* bound: ends of tasks and restarts
  Moments      \* bound: the clock of the overview

ASSUME TelemetryAssumption ==
  /\ IsFiniteSet(Runs) /\ {PointsKept, RingSize, LinesKept, LinesInTail} \subseteq Nat \ {0}
  /\ LinesInTail <= LinesKept
  /\ {WarmArchive, OverviewTTL, Points, Steps, LogLines, Changes, Moments} \subseteq Nat

VARIABLES
  run,      \* the rows of the tasks
  live,     \* MetricsStore.taskMetricsDirect
  ring,     \* MetricsStore.taskMetrics
  cache,    \* overviewCache; history: when it last answered, and when its data was last true
  moment,   \* the clock
  arrived,  \* history: per curve the points that arrived, and whether the row took them
  reported, \* history: per task the steps of progress taken since the server started
  logged,   \* history: per task how many lines were taken
  restarted,\* history: the tasks and curves with points from before the last restart
  changes

teleVars == <<run, live, ring, cache, moment, arrived, reported, logged, restarted, changes>>

Phases == {"none", "warmup", "training", "eval", "checkpoint", "cooldown"}
Words == {"checkpoint", "config", "eval", "export"}

\* step: of progress; said: the fields that reports have set; ended: when it last ended.
Told == [place : {"none", "queue", "stub", "archive"},
         status : {"none", "pending", "assigned", "running", "completed", "failed"},
         log : BoundedSeq(1 .. LogLines, LinesKept),
         stored : [Curves -> BoundedSeq(1 .. Points, PointsKept)],
         step : 0 .. Steps, said : SUBSET Words, phase : Phases, ended : 0 .. Changes]

Unborn == [place |-> "none", status |-> "none", log |-> <<>>, stored |-> [c \in Curves |-> <<>>],
           step |-> 0, said |-> {}, phase |-> "none", ended |-> 0]

\* The last of a sequence, as slice(-n) and splice(0, length - n) leave them.
LastOf(seq, n) == IF Len(seq) <= n THEN seq ELSE SubSeq(seq, Len(seq) - n + 1, Len(seq))

(***************************************************************************)
(* class RingBuffer.                                                       *)
(***************************************************************************)
Emptied == [slots |-> [i \in 0 .. RingSize - 1 |-> 0], head |-> 0, count |-> 0]

Push(buffer, point) ==
  [slots |-> [buffer.slots EXCEPT ![buffer.head] = point],
   head |-> (buffer.head + 1) % RingSize,
   count |-> IF buffer.count < RingSize THEN buffer.count + 1 ELSE buffer.count]

\* Mutant: the slots as they lie, also when the ring has wrapped.
InSlotOrder(buffer) == [i \in 1 .. buffer.count |-> buffer.slots[i - 1]]

GetAll(buffer) ==
  LET start == IF buffer.count < RingSize THEN 0 ELSE buffer.head
  IN  [i \in 1 .. buffer.count |-> buffer.slots[(start + i - 1) % RingSize]]

(***************************************************************************)
(* The tasks move.                                                         *)
(***************************************************************************)
Exists(t) == run[t].place # "none"
AtStub(t) == run[t].place = "stub"

\* The histories and the memory of the server but for the rows.
UnchangedCurves == UNCHANGED <<live, arrived, restarted>>
UnchangedRings == UNCHANGED <<ring, reported>>
UnchangedView == UNCHANGED moment

\* GET /overview counts rows by their status; states it does not name are in the total only.
Counted == {"pending", "running", "completed", "failed"}
Overview(rows) ==
  [total |-> Cardinality({t \in Runs : rows[t].place # "none"}),
   by |-> [s \in Counted |-> Cardinality({t \in Runs : rows[t].status = s})]]

Seen(rows, when) ==
  IF cache.held /\ cache.data = Overview(rows) THEN [cache EXCEPT !.true = when] ELSE cache

SaveRuns(rows) ==
  /\ run' = rows
  /\ cache' = Seen(rows, moment)

\* _pruneArchive: beyond the rows that ended last, an archived row loses its log.
Pruned(rows) ==
  [t \in Runs |->
     IF /\ rows[t].place = "archive"
        /\ Cardinality({s \in Runs : rows[s].place = "archive" /\ rows[s].ended > rows[t].ended})
             >= WarmArchive
     THEN [rows[t] EXCEPT !.log = <<>>] ELSE rows[t]]

Archived(row, how) ==
  [row EXCEPT !.place = "archive", !.status = how, !.log = LastOf(@, LinesInTail),
              !.ended = changes + 1]

Enter(t) ==
  /\ ~Exists(t)
  /\ SaveRuns([run EXCEPT ![t] = [Unborn EXCEPT !.place = "queue", !.status = "pending"]])
  /\ UnchangedCurves /\ UnchangedRings /\ UnchangedView /\ UNCHANGED <<logged, changes>>

Assign(t) ==
  /\ run[t].place = "queue"
  /\ SaveRuns([run EXCEPT ![t].place = "stub", ![t].status = "assigned"])
  /\ UnchangedCurves /\ UnchangedRings /\ UnchangedView /\ UNCHANGED <<logged, changes>>

Close(t, how) ==
  /\ AtStub(t) /\ run[t].status = "running"
  /\ changes < Changes /\ changes' = changes + 1
  /\ SaveRuns(Pruned([run EXCEPT ![t] = Archived(@, how)]))
  /\ UnchangedCurves /\ UnchangedRings /\ UnchangedView /\ UNCHANGED logged

\* unarchiveTask: the daemon still runs a task that had been given up.
TakeBack(t) ==
  /\ run[t].status = "failed"
  /\ SaveRuns([run EXCEPT ![t].place = "stub", ![t].status = "running"])
  /\ UnchangedCurves /\ UnchangedRings /\ UnchangedView /\ UNCHANGED <<logged, changes>>

\* POST /tasks/batch: the same row, with all it had been told.
PutBack(t) ==
  /\ run[t].status \in {"completed", "failed", "assigned"}
  /\ SaveRuns([run EXCEPT ![t].place = "queue", ![t].status = "pending"])
  /\ UnchangedCurves /\ UnchangedRings /\ UnchangedView /\ UNCHANGED <<logged, changes>>

\* The rows stay; the buffers and the cache are gone.
RestartServer ==
  /\ changes < Changes /\ changes' = changes + 1
  /\ live' = [t \in Runs |-> [c \in Curves |-> <<>>]]
  /\ ring' = [t \in Runs |-> Emptied] /\ reported' = [t \in Runs |-> <<>>]
  /\ restarted' = {<<t, c>> \in Runs \X Curves : arrived[t][c] # <<>>}
  /\ cache' = [cache EXCEPT !.held = FALSE]
  /\ UNCHANGED <<run, moment, arrived, logged>>

MovesNext ==
  \/ \E t \in Runs : \/ Enter(t) \/ Assign(t) \/ TakeBack(t) \/ PutBack(t)
                     \/ \E how \in {"completed", "failed"} : Close(t, how)
  \/ RestartServer

(***************************************************************************)
(* Curves.                                                                 *)
(***************************************************************************)
\* promoteIfAssigned.
Promoted(row) == IF row.status = "assigned" THEN [row EXCEPT !.status = "running"] ELSE row

\* pushTaskMetricsDirect: the latest points of a curve.
Collected(curve, point) == LastOf(Append(curve, point), PointsKept)

\* task.metrics: a task that is not at the stub any more has its point in memory all the same.
MetricsEvent(t, c) ==
  /\ Exists(t) /\ run[t].status # "pending" /\ Len(arrived[t][c]) < Points
  /\ LET point == Len(arrived[t][c]) + 1
     IN  /\ live' = [live EXCEPT ![t][c] = Collected(@, point)]
         /\ SaveRuns(IF AtStub(t)
                     THEN [run EXCEPT ![t].stored[c] = Collected(@, point)]
                     ELSE run)
         /\ arrived' = [arrived EXCEPT ![t][c] = Append(@, AtStub(t))]
  /\ UnchangedRings /\ UnchangedView /\ UNCHANGED <<logged, restarted, changes>>

\* GET /tasks/:id/metrics: the memory as soon as it holds any curve of the task.
LiveCurves(t) == {c \in Curves : live[t][c] # <<>>}
CurveAnswer(t) == IF LiveCurves(t) # {} THEN live[t] ELSE run[t].stored

TakeStep(t, promote) ==
  /\ run[t].step < Steps
  /\ LET step == run[t].step + 1
         row == [run[t] EXCEPT !.step = step]
     IN  /\ SaveRuns([run EXCEPT ![t] = IF promote THEN Promoted(row) ELSE row])
         /\ ring' = [ring EXCEPT ![t] = Push(@, step)]
         /\ reported' = [reported EXCEPT ![t] = Append(@, step)]
  /\ UnchangedCurves /\ UnchangedView /\ UNCHANGED <<logged, changes>>

\* task.progress; POST /sdk/report of type progress, which an archived task does not take.
ProgressEvent(t) == AtStub(t) /\ TakeStep(t, TRUE)
ProgressReport(t) == run[t].place \in {"stub", "queue"} /\ TakeStep(t, FALSE)

CurvesNext == \E t \in Runs, c \in Curves : MetricsEvent(t, c)
ProgressNext == \E t \in Runs : ProgressEvent(t) \/ ProgressReport(t)

(***************************************************************************)
(* Log lines, results and phases.                                          *)
(***************************************************************************)
TakeLine(t, promote) ==
  /\ logged[t] < LogLines /\ logged' = [logged EXCEPT ![t] = @ + 1]
  /\ LET row == [run[t] EXCEPT !.log = LastOf(Append(@, logged[t] + 1), LinesKept)]
     IN  SaveRuns([run EXCEPT ![t] = IF promote THEN Promoted(row) ELSE row])
  /\ UnchangedCurves /\ UnchangedRings /\ UnchangedView /\ UNCHANGED changes

LogEvent(t) == AtStub(t) /\ TakeLine(t, TRUE)

\* task.notify adds a line; POST /sdk/report of type notify does so in the queue as well.
NotifyEvent(t) == AtStub(t) /\ TakeLine(t, FALSE)
NotifyReport(t) == run[t].place \in {"stub", "queue"} /\ TakeLine(t, FALSE)

Say(t, row) ==
  /\ SaveRuns([run EXCEPT ![t] = row])
  /\ UnchangedCurves /\ UnchangedRings /\ UnchangedView /\ UNCHANGED <<logged, changes>>

\* POST /sdk/report of the other types, in the words that set a field.
Report(t, word) ==
  /\ run[t].place \in {"stub", "queue"}
  /\ Say(t, [run[t] EXCEPT !.said = @ \cup {word}])

ExportEvent(t) == AtStub(t) /\ Say(t, [run[t] EXCEPT !.said = @ \cup {"export"}])
PhaseEvent(t, phase) == AtStub(t) /\ Say(t, [run[t] EXCEPT !.phase = phase])

LinesNext == \E t \in Runs : LogEvent(t) \/ NotifyEvent(t) \/ NotifyReport(t)

WordsNext ==
  \E t \in Runs : \/ ExportEvent(t) \/ \E word \in Words : Report(t, word)
                  \/ \E phase \in Phases \ {"none"} : PhaseEvent(t, phase)

\* GET /tasks/:id/logs.
LogTail(t, n) == LastOf(run[t].log, n)

(***************************************************************************)
(* The overview, which everybody may read.                                 *)
(***************************************************************************)
\* GET /overview: answered from the cache for ten seconds.
ReadOverview ==
  /\ cache' = IF cache.held /\ moment - cache.at < OverviewTTL
              THEN [cache EXCEPT !.answered = moment]
              ELSE [held |-> TRUE, at |-> moment, data |-> Overview(run), answered |-> moment,
                    true |-> moment]
  /\ UNCHANGED <<run, live, ring, moment, arrived, reported, logged, restarted, changes>>

TimePasses ==
  /\ moment < Moments /\ moment' = moment + 1
  /\ cache' = Seen(run, moment + 1)
  /\ UNCHANGED <<run, live, ring, arrived, reported, logged, restarted, changes>>

OverviewNext == ReadOverview \/ TimePasses

TelemetryInit ==
  /\ run = [t \in Runs |-> Unborn] /\ live = [t \in Runs |-> [c \in Curves |-> <<>>]]
  /\ ring = [t \in Runs |-> Emptied]
  /\ cache = [held |-> FALSE, at |-> 0, data |-> Overview(run), answered |-> 0, true |-> 0]
  /\ moment = 0
  /\ arrived = [t \in Runs |-> [c \in Curves |-> <<>>]] /\ reported = [t \in Runs |-> <<>>]
  /\ logged = [t \in Runs |-> 0] /\ restarted = {} /\ changes = 0

TelemetryTypeOK ==
  /\ run \in [Runs -> Told]
  /\ live \in [Runs -> [Curves -> BoundedSeq(1 .. Points, PointsKept)]]
  /\ restarted \subseteq Runs \X Curves /\ changes \in 0 .. Changes /\ moment \in 0 .. Moments

Taken(t, c) == SelectSeq([i \in DOMAIN arrived[t][c] |-> i], LAMBDA i : arrived[t][c][i])
All(t, c) == [i \in DOMAIN arrived[t][c] |-> i]

(* A curve is read to its newest point and without a gap inside: across the end of the   *)
(* task, its return and a restart of the server.  Only a restart takes anything away: a  *)
(* point that had come too late for the row, and, from the first point after it on, all  *)
(* that came before (metrics.ts:116-134, api/metrics.ts:93-105, stub.ts:519-541).         *)
CurvesTell ==
  \A t \in Runs, c \in Curves :
    LET read == CurveAnswer(t)[c] IN
    /\ run[t].stored[c] = LastOf(Taken(t, c), PointsKept)
    /\ <<t, c>> \notin restarted => read = LastOf(All(t, c), PointsKept)
    /\ LiveCurves(t) = {} => read = LastOf(Taken(t, c), PointsKept)
    /\ live[t][c] # <<>> => IsSuffix(read, All(t, c))

(* The ring gives back the newest points in the order they came in, however often it has *)
(* wrapped, and its newest is the progress that the row shows (metrics.ts:24-55).         *)
RingTells ==
  \A t \in Runs :
    /\ GetAll(ring[t]) = LastOf(reported[t], RingSize)
    /\ reported[t] # <<>> => Last(GetAll(ring[t])) = run[t].step

(* A log is the newest lines in order with none between them missing while the task is   *)
(* not over; its tail stays with it after its end and when it comes back, unless          *)
(* as many tasks as stay warm ended later (store/index.ts:1423-1453, stub.ts:496-511).    *)
LogTells ==
  \A t \in Runs :
    LET tail == LogTail(t, LinesInTail) IN
    \/ tail = LastOf([i \in 1 .. logged[t] |-> i], LinesInTail)
    \/ /\ run[t].ended > 0
       /\ Cardinality({s \in Runs \ {t} : run[s].ended > 0}) >= WarmArchive

(* Whatever the cache answers was true at some moment of the last ten seconds, also after *)
(* a restart (api/metrics.ts:33-82).                                                       *)
OverviewTells == cache.held => cache.answered = cache.true \/ cache.answered < cache.true + OverviewTTL

TelemetrySound == TelemetryTypeOK /\ CurvesTell /\ RingTells /\ LogTells /\ OverviewTells
=============================================================================
