---------------------------- MODULE TaskControls ----------------------------
(***************************************************************************)
(* Cooperative controls of one task: a stop or a checkpoint requested by   *)
(* PATCH /tasks/:id goes from the server to the stub (reliableEmitToStub), *)
(* over the task's Unix socket to the SDK, and what the SDK did with it    *)
(* comes back by acknowledged calls.  Each hop may fail: the link drops, a *)
(* call is answered too late, a connection of the SDK is closed by an      *)
(* error of its handler, the daemon restarts, the task ends or is retried. *)
(*                                                                         *)
(* An unsolicited checkpoint carries no request and is left out.  A path   *)
(* is told apart by the attempt that saved it.                             *)
(***************************************************************************)
EXTENDS Naturals, Sequences

CONSTANTS
  MaxCheckpoints, \* bound: checkpoint requests
  WithStop,       \* whether a stop is requested too
  MaxAttempts,    \* bound: the task and its retries
  LinkDrops,      \* bound: lost connections of the stub, restarts of the daemon
  SlowCalls       \* bound: calls that time out, and saves that fail

ASSUME ControlAssumption ==
  /\ MaxCheckpoints \in Nat /\ WithStop \in BOOLEAN /\ MaxAttempts \in Nat \ {0}
  /\ LinkDrops \in Nat /\ SlowCalls \in Nat

VARIABLES
  task,     \* the task on the server; should_checkpoint and should_stop
  control,  \* control_requests
  emitting, \* the reliableEmitToStub calls under way
  link,     \* the stub's connection with the server, and what is left of LinkDrops
  sock,     \* the TaskSocket of the stub, and _pending_task_controls
  call,     \* the acknowledged call its handler awaits
  late,     \* calls given up by the stub that may still reach the server
  wire,     \* lines to the SDK, and lines to the stub
  sdk,      \* the transport and the main thread of the training process
  saves,    \* history: how often each attempt saved and reported each request
  excused,  \* history: requests withdrawn, carried to a retry, or not saved
  slowLeft  \* what is left of SlowCalls

controlVars == <<task, control, emitting, link, sock, call, late, wire, sdk, saves,
                 excused, slowLeft>>

Stop == 0
Checkpoints == 1..MaxCheckpoints
Controls == {Stop} \cup Checkpoints
Attempts == 1..MaxAttempts
NoCheckpoint == 0

CallKind == {"received", "checkpoint", "completed"}
Line == [kind : {"received", "checkpoint"}, of : Controls]

\* how: the end of an ended attempt.  stop: asked of this attempt.
Task == [at : {"assigned", "running", "ended"}, attempt : Attempts, stop : BOOLEAN,
         checkpoint : BOOLEAN, how : {"none", "completed", "cancelled", "failed"}]
\* made: the attempt that made the request; path: the one whose path it has.
Control == [status : {"none", "pending", "received", "completed"},
            made : {0} \cup Attempts, path : {0} \cup Attempts]
\* held: _controls; finished: _completed_controls; waiting: _pending_task_controls.
Sock == [at : {"none", "open", "lost"}, held : SUBSET Controls,
         finished : SUBSET Checkpoints, waiting : SUBSET Controls]
Call == [at : {"idle", "sent", "ok", "refused"}, kind : CallKind, of : Controls]
\* last: _last_checkpoint_id; saved: _saved_checkpoint_paths.
Sdk == [mode : {"none", "starting", "unix", "http", "over"}, up : BOOLEAN, stop : BOOLEAN,
        asked : [Checkpoints -> {"none", "fresh", "consumed"}],
        last : {NoCheckpoint} \cup Checkpoints, saved : SUBSET Checkpoints, saving : BOOLEAN]

ControlTypeOK ==
  /\ task \in Task
  /\ control \in [Controls -> Control]
  /\ emitting \subseteq Controls
  /\ link \in [up : BOOLEAN, left : 0..LinkDrops]
  /\ sock \in Sock
  /\ call \in Call
  /\ late \subseteq [kind : CallKind, of : Controls]
  /\ wire \in [toSdk : SUBSET Controls, toStub : Seq(Line)]
  /\ sdk \in Sdk
  /\ saves \in [Checkpoints -> [saved : 0..2, counted : 0..2]]
  /\ excused \subseteq Checkpoints /\ slowLeft \in 0..SlowCalls

NoSock == [at |-> "none", held |-> {}, finished |-> {}, waiting |-> {}]
NoCall == [at |-> "idle", kind |-> "received", of |-> Stop]
NoWire == [toSdk |-> {}, toStub |-> <<>>]
NoSdk == [mode |-> "none", up |-> FALSE, stop |-> FALSE, asked |-> [c \in Checkpoints |-> "none"],
          last |-> NoCheckpoint, saved |-> {}, saving |-> FALSE]
NoSaves == [c \in Checkpoints |-> [saved |-> 0, counted |-> 0]]

ControlsUnmade == [i \in Controls |-> [status |-> "none", made |-> 0, path |-> 0]]

ControlInit ==
  /\ task = [at |-> "assigned", attempt |-> 1, stop |-> FALSE, checkpoint |-> FALSE, how |-> "none"]
  /\ control = ControlsUnmade
  /\ emitting = {} /\ link = [up |-> TRUE, left |-> LinkDrops]
  /\ sock = NoSock /\ call = NoCall /\ late = {} /\ wire = NoWire /\ sdk = NoSdk
  /\ saves = NoSaves /\ excused = {} /\ slowLeft = SlowCalls

Unfinished(i) == control[i].status \in {"pending", "received"}
Goes == task.at # "ended"

(***************************************************************************)
(* PATCH /tasks/:id.                                                       *)
(***************************************************************************)
Asked(i) ==
  /\ control' = [control EXCEPT ![i].status = "pending", ![i].made = task.attempt]
  /\ emitting' = IF link.up THEN emitting \cup {i} ELSE emitting

\* Only a change from false to true is a request.
RequestCheckpoint ==
  /\ Goes /\ ~task.checkpoint
  /\ \E c \in Checkpoints :
       /\ control[c].status = "none" /\ \A d \in 1..(c - 1) : control[d].status # "none"
       /\ Asked(c)
  /\ task' = [task EXCEPT !.checkpoint = TRUE]
  /\ UNCHANGED <<link, sock, call, late, wire, sdk, saves, excused, slowLeft>>

Withdraw ==
  /\ task.checkpoint
  /\ task' = [task EXCEPT !.checkpoint = FALSE]
  /\ excused' = excused \cup {c \in Checkpoints : Unfinished(c)}
  /\ UNCHANGED <<control, emitting, link, sock, call, late, wire, sdk, saves, slowLeft>>

RequestStop ==
  /\ WithStop /\ Goes /\ ~task.stop
  /\ task' = [task EXCEPT !.stop = TRUE]
  /\ IF control[Stop].status = "none" THEN Asked(Stop) ELSE UNCHANGED <<control, emitting>>
  /\ UNCHANGED <<link, sock, call, late, wire, sdk, saves, excused, slowLeft>>

(***************************************************************************)
(* The stub receives task.signal: send_control, or kept for the socket.    *)
(***************************************************************************)
SignalArrives(i) ==
  /\ i \in emitting /\ link.up
  /\ IF sock.at = "open"
     THEN /\ emitting' = emitting \ {i}
          /\ IF i \in sock.finished THEN UNCHANGED <<sock, wire>>
             ELSE /\ sock' = [sock EXCEPT !.held = @ \cup {i}]
                  /\ wire' = IF sdk.up THEN [wire EXCEPT !.toSdk = @ \cup {i}] ELSE wire
     ELSE /\ emitting' \in {emitting, emitting \ {i}}   \* refused: repeated, ten times
          /\ sock' = [sock EXCEPT !.waiting = @ \cup {i}]
          /\ UNCHANGED wire
  /\ UNCHANGED <<task, control, link, call, late, sdk, saves, excused, slowLeft>>

(***************************************************************************)
(* The process, its socket and its connection.                             *)
(***************************************************************************)
ProcessStarts ==
  /\ task.at = "assigned" /\ sdk.mode = "none" /\ link.up
  /\ task' = [task EXCEPT !.at = "running"]
  /\ sdk' = [sdk EXCEPT !.mode = "starting"]
  /\ UNCHANGED <<control, emitting, link, sock, call, late, wire, saves, excused, slowLeft>>

\* TaskSocketRegistry.create, after the process has started.
SocketOpens ==
  /\ sdk.mode \in {"starting", "http"} /\ sock.at = "none"
  /\ sock' = [sock EXCEPT !.at = "open", !.held = sock.waiting, !.waiting = {}]
  /\ UNCHANGED <<task, control, emitting, link, call, late, wire, sdk, saves, excused, slowLeft>>

\* make_transport chooses once and for all; _handle_client sends what is held.
SdkConnects ==
  /\ sdk.mode = "starting"
  /\ IF sock.at = "open"
     THEN /\ sdk' = [sdk EXCEPT !.mode = "unix", !.up = TRUE]
          /\ wire' = [toSdk |-> sock.held, toStub |-> <<>>]
     ELSE sdk' = [sdk EXCEPT !.mode = "http"] /\ UNCHANGED wire
  /\ UNCHANGED <<task, control, emitting, link, sock, call, late, saves, excused, slowLeft>>

\* Mutant: a new connection of the SDK hears nothing of what came before.
SdkReconnectsUntold ==
  /\ sdk.mode = "unix" /\ ~sdk.up /\ sock.at = "open" /\ call.at = "idle"
  /\ sdk' = [sdk EXCEPT !.up = TRUE]
  /\ wire' = NoWire
  /\ UNCHANGED <<task, control, emitting, link, sock, call, late, saves, excused, slowLeft>>

SdkReconnects ==
  /\ sdk.mode = "unix" /\ ~sdk.up /\ sock.at = "open" /\ call.at = "idle"
  /\ sdk' = [sdk EXCEPT !.up = TRUE]
  /\ wire' = [toSdk |-> sock.held, toStub |-> <<>>]
  /\ UNCHANGED <<task, control, emitting, link, sock, call, late, saves, excused, slowLeft>>

(***************************************************************************)
(* The SDK: the receiving thread, then the main thread.                    *)
(***************************************************************************)
Sends(line) == [wire EXCEPT !.toStub = IF sdk.up THEN Append(@, line) ELSE @]

\* Mutant: a repeated signal is a new request.
ToldAgain(c, answer) == IF answer = "none" \/ c \in sdk.saved THEN "fresh" ELSE answer

Told(c, answer) == IF answer = "none" THEN "fresh" ELSE answer

SdkReads(i) ==
  /\ i \in wire.toSdk
  /\ sdk' = IF i = Stop THEN [sdk EXCEPT !.stop = TRUE]
            ELSE [sdk EXCEPT !.asked[i] = Told(i, @)]
  /\ wire' = [toSdk |-> wire.toSdk \ {i},
              toStub |-> wire.toStub \o <<[kind |-> "received", of |-> i]>>
                         \o IF i \in sdk.saved THEN <<[kind |-> "checkpoint", of |-> i]>> ELSE <<>>]
  /\ UNCHANGED <<task, control, emitting, link, sock, call, late, saves, excused, slowLeft>>

\* should_checkpoint consumes a request, once; what was consumed before and is
\* still not saved loses its place.
ShouldCheckpoint(c) ==
  /\ sdk.mode = "unix" /\ ~sdk.saving /\ sdk.asked[c] = "fresh"
  /\ sdk' = [sdk EXCEPT !.asked[c] = "consumed", !.last = c, !.saving = TRUE]
  /\ excused' = IF sdk.last = NoCheckpoint THEN excused ELSE excused \cup {sdk.last}
  /\ UNCHANGED <<task, control, emitting, link, sock, call, late, wire, saves, slowLeft>>

\* The checkpoint of the request, or after a failure the next one of any kind.
CheckpointSaved ==
  /\ sdk.mode = "unix" /\ sdk.last # NoCheckpoint
  /\ sdk' = [sdk EXCEPT !.saved = @ \cup {sdk.last}, !.last = NoCheckpoint, !.saving = FALSE]
  /\ saves' = [saves EXCEPT ![sdk.last].saved = @ + 1]
  /\ wire' = Sends([kind |-> "checkpoint", of |-> sdk.last])
  /\ UNCHANGED <<task, control, emitting, link, sock, call, late, excused, slowLeft>>

SaveFails ==
  /\ sdk.mode = "unix" /\ sdk.saving /\ slowLeft > 0
  /\ sdk' = [sdk EXCEPT !.saving = FALSE]
  /\ excused' = excused \cup {sdk.last}
  /\ slowLeft' = slowLeft - 1
  /\ UNCHANGED <<task, control, emitting, link, sock, call, late, wire, saves>>

(***************************************************************************)
(* The stub's handler takes the lines of a connection one by one.          *)
(***************************************************************************)
Calls(kind, i) == [at |-> IF link.up THEN "sent" ELSE "refused", kind |-> kind, of |-> i]

HandleLine ==
  /\ call.at = "idle" /\ wire.toStub # <<>>
  /\ wire' = [wire EXCEPT !.toStub = Tail(@)]
  /\ LET line == Head(wire.toStub)
     IN  call' = IF line.of \in sock.held THEN Calls(line.kind, line.of) ELSE call
  /\ UNCHANGED <<task, control, emitting, link, sock, late, sdk, saves, excused, slowLeft>>

\* updateTaskControl and handleTaskCheckpoint.
Accepted(kind, i) ==
  /\ Goes
  /\ kind = "checkpoint" => control[i].path = task.attempt \/ control[i].status # "completed"
  /\ kind = "completed" => control[i].path = task.attempt

\* Mutant: a receipt counts as the completion.
RecordedOnReceipt(kind, i) ==
  IF kind = "checkpoint" THEN [control EXCEPT ![i].path = task.attempt]
  ELSE [control EXCEPT ![i].status = "completed"]

Recorded(kind, i) ==
  IF kind = "checkpoint" THEN [control EXCEPT ![i].path = task.attempt]
  ELSE [control EXCEPT ![i].status = IF @ = "completed" THEN @ ELSE kind]

Counted(kind, i) ==
  IF kind = "checkpoint" /\ control[i].path # task.attempt
  THEN [saves EXCEPT ![i].counted = @ + 1] ELSE saves

Served(kind, i) ==
  IF Accepted(kind, i) THEN control' = Recorded(kind, i) /\ saves' = Counted(kind, i)
  ELSE UNCHANGED <<control, saves>>

CallLands ==
  /\ call.at = "sent" /\ link.up
  /\ Served(call.kind, call.of)
  /\ call' = [call EXCEPT !.at = IF Accepted(call.kind, call.of) THEN "ok" ELSE "refused"]
  /\ UNCHANGED <<task, emitting, link, sock, late, wire, sdk, excused, slowLeft>>

LateCallLands(c) ==
  /\ c \in late
  /\ Served(c.kind, c.of)
  /\ late' = late \ {c}
  /\ UNCHANGED <<task, emitting, link, sock, call, wire, sdk, excused, slowLeft>>

\* A checkpoint is reported, then its completion, then the control is dropped.
CallAnswered ==
  /\ call.at = "ok"
  /\ call' = IF call.kind = "checkpoint" THEN Calls("completed", call.of) ELSE NoCall
  /\ sock' = IF call.kind = "completed"
             THEN [sock EXCEPT !.held = @ \ {call.of}, !.finished = @ \cup {call.of}] ELSE sock
  /\ UNCHANGED <<task, control, emitting, link, late, wire, sdk, saves, excused, slowLeft>>

\* The exception ends the handler, and with it the connection of the SDK.
ConnectionCloses ==
  /\ call' = NoCall /\ wire' = NoWire
  /\ sdk' = [sdk EXCEPT !.up = FALSE]

CallFails ==
  /\ call.at = "refused" \/ (call.at \in {"sent", "ok"} /\ ~link.up)
  /\ ConnectionCloses
  /\ UNCHANGED <<task, control, emitting, link, sock, late, saves, excused, slowLeft>>

CallTimesOut ==
  /\ call.at \in {"sent", "ok"} /\ link.up /\ slowLeft > 0
  /\ ConnectionCloses
  /\ late' = IF call.at = "sent" THEN late \cup {[kind |-> call.kind, of |-> call.of]} ELSE late
  /\ slowLeft' = slowLeft - 1
  /\ UNCHANGED <<task, control, emitting, link, sock, saves, excused>>

(***************************************************************************)
(* The link, the daemon, the end of the task and its retry.                *)
(***************************************************************************)
LinkDown ==
  /\ link.up /\ link.left > 0
  /\ link' = [up |-> FALSE, left |-> link.left - 1]
  /\ emitting' = {} /\ late' = {}
  /\ UNCHANGED <<task, control, sock, call, wire, sdk, saves, excused, slowLeft>>

\* The daemon's new self adopts the process, not its socket.
DaemonRestarts ==
  /\ link.up /\ link.left > 0
  /\ link' = [up |-> FALSE, left |-> link.left - 1]
  /\ emitting' = {} /\ late' = {}
  /\ sock' = IF task.at = "assigned" THEN NoSock ELSE [NoSock EXCEPT !.at = "lost"]
  /\ ConnectionCloses
  /\ UNCHANGED <<task, control, saves, excused, slowLeft>>

Resent == {i \in Controls : Unfinished(i) /\ (i = Stop \/ task.checkpoint)}

\* handleResume.  The end of a process while the link was down was told to no one.
LinkResumes ==
  /\ ~link.up
  /\ link' = [link EXCEPT !.up = TRUE]
  /\ \/ UNCHANGED task
     \/ sdk.mode = "over" /\ task.at = "running"
        /\ task' = [task EXCEPT !.at = "ended", !.how = "failed"]
  /\ emitting' = IF task'.at = "ended" THEN {} ELSE Resent
  /\ UNCHANGED <<control, sock, call, late, wire, sdk, saves, excused, slowLeft>>

ProcessEnds ==
  /\ sdk.mode \in {"starting", "unix", "http"}
  /\ sdk' = [sdk EXCEPT !.mode = "over", !.up = FALSE, !.saving = FALSE]
  /\ wire' = [wire EXCEPT !.toSdk = {}]
  /\ UNCHANGED <<task, control, emitting, link, sock, call, late, saves, excused, slowLeft>>

\* handleTaskCompleted and handleTaskFailed, as far as controls go.
EndReported ==
  /\ sdk.mode = "over" /\ task.at = "running" /\ link.up /\ call.at # "sent"
  /\ \E how \in {"failed", IF task.stop \/ control[Stop].status # "none" THEN "cancelled" ELSE "completed"} :
       task' = [task EXCEPT !.at = "ended", !.how = how]
  /\ sock' = NoSock /\ wire' = NoWire /\ emitting' = {}
  /\ UNCHANGED <<control, link, call, late, sdk, saves, excused, slowLeft>>

\* createRetryTask: a copy of the task, its control_requests with it.
RetryStarts ==
  /\ task.at = "ended" /\ task.attempt < MaxAttempts
  /\ task' = [at |-> "assigned", attempt |-> task.attempt + 1, stop |-> FALSE,
              checkpoint |-> FALSE, how |-> "none"]
  /\ emitting' = {} /\ sock' = NoSock /\ call' = NoCall /\ late' = {} /\ wire' = NoWire
  /\ sdk' = NoSdk /\ saves' = NoSaves
  /\ excused' = excused \cup {c \in Checkpoints : Unfinished(c)}
  /\ UNCHANGED <<control, link, slowLeft>>

ControlNext ==
  \/ RequestCheckpoint \/ Withdraw \/ RequestStop
  \/ \E i \in Controls : SignalArrives(i) \/ SdkReads(i)
  \/ ProcessStarts \/ SocketOpens \/ SdkConnects \/ SdkReconnects
  \/ \E c \in Checkpoints : ShouldCheckpoint(c)
  \/ CheckpointSaved \/ SaveFails
  \/ HandleLine \/ CallLands \/ CallAnswered \/ CallFails \/ CallTimesOut
  \/ \E c \in late : LateCallLands(c)
  \/ LinkDown \/ DaemonRestarts \/ LinkResumes
  \/ ProcessEnds \/ EndReported \/ RetryStarts

ControlSpec == ControlInit /\ [][ControlNext]_controlVars

\* Messages on a live link arrive, the stub and the SDK reconnect for ever, the
\* training loop polls and saves.
ControlFairness ==
  /\ \A i \in Controls : WF_controlVars(SignalArrives(i)) /\ WF_controlVars(SdkReads(i))
  /\ WF_controlVars(control # ControlsUnmade /\ ProcessStarts)
  /\ WF_controlVars(SocketOpens) /\ WF_controlVars(SdkConnects) /\ WF_controlVars(SdkReconnects)
  /\ \A c \in Checkpoints : WF_controlVars(ShouldCheckpoint(c))
  /\ WF_controlVars(CheckpointSaved) /\ WF_controlVars(HandleLine) /\ WF_controlVars(CallLands)
  /\ WF_controlVars(CallAnswered) /\ WF_controlVars(CallFails) /\ WF_controlVars(LinkResumes)
  /\ WF_controlVars(EndReported)

ControlFairSpec == ControlSpec /\ ControlFairness

(***************************************************************************)
(* Properties.                                                             *)
(***************************************************************************)
\* A request is saved once and counted once by an attempt, whatever is sent
\* again after lost answers, late calls and reconnections ("saved exactly
\* once", docs/operations/icl-control-e2e.md:34; stub.ts:1374, transport.py:206).
\* And one of which the server says completed has been saved by the SDK, not
\* only delivered (icl-control-e2e.md:14; stub.ts:403-410).
SavedOnceAndTrue ==
  \A c \in Checkpoints :
    /\ saves[c].saved <= 1 /\ saves[c].counted <= 1
    /\ control[c].status = "completed" /\ control[c].made = task.attempt => saves[c].saved > 0

\* A checkpoint request is completed in the end, through drops of the link and
\* errors of every call, unless the task ends, the request is withdrawn or not
\* saved, or the process has no socket to hear of it.
RequestsComplete ==
  \A c \in Checkpoints :
    (Unfinished(c) /\ Goes)
      ~> (~Unfinished(c) \/ ~Goes \/ c \in excused \/ sdk.mode = "http" \/ sock.at = "lost")
=============================================================================
