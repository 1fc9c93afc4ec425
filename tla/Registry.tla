------------------------------- MODULE Registry -------------------------------
(***************************************************************************)
(* Which socket is which stub (socket/stub.ts, api/stubs.ts, the stub rows *)
(* of the store) and the acknowledged messages that go over it             *)
(* (reliable.ts).  What a resume does to the tasks is in Orchestrator;     *)
(* here a stub only has running tasks or none.                             *)
(***************************************************************************)
EXTENDS Integers, FiniteSets

CONSTANTS
  Daemons,       \* the daemons of a run
  StubOf,        \* [Daemons -> identities]; daemons that differ in their cwd alone share one
  Allocated,     \* the identities whose row is bound to a SLURM allocation
  MaxSockets,    \* connections in a run
  Calls,         \* messages sent with reliableEmitToStub in a run
  MaxRetries,    \* MAX_RETRIES
  Turns          \* lost links, requests and failures in a run

Ids == {StubOf[d] : d \in Daemons}
Sockets == 1..MaxSockets
NoSocket == 0
Nobody == "nobody"

ASSUME RegistryAssumption ==
  /\ {MaxSockets, MaxRetries, Turns} \subseteq Nat
  /\ Allocated \subseteq Ids /\ Nobody \notin Ids

VARIABLES
  link,     \* [Sockets -> record]: whose it is, whether it is open, socketToStub, how it went astray
  row,      \* [Ids -> record]: the stub row, its fail timer and the socket its sync interval looks at
  reg,      \* [Ids -> record]: stubSockets and stubGeneration
  call,     \* [Calls -> record]: messages that wait for their acknowledgement
  server    \* token, state of the allocation, what is left of Turns

registryVars == <<link, row, reg, call, server>>

NoRow == [here |-> FALSE, online |-> FALSE, sock |-> NoSocket, released |-> FALSE,
          busy |-> FALSE, timer |-> FALSE, sync |-> NoSocket]
NewLink == [of |-> Nobody, st |-> "unborn", map |-> Nobody, deaf |-> FALSE, astray |-> FALSE]
NewCall == [pc |-> "new", to |-> Nobody, gen |-> 0, on |-> NoSocket, began |-> NoSocket, tries |-> 0]

Open(k) == k # NoSocket /\ link[k].st = "open"
Turn == server.turns > 0 /\ server' = [server EXCEPT !.turns = @ - 1]
World == [l |-> link, r |-> row, g |-> reg]
Become3(w) == link' = w.l /\ row' = w.r /\ reg' = w.g

RegistryInit ==
  /\ link = [k \in Sockets |-> NewLink]
  /\ row = [i \in Ids |-> NoRow]
  /\ reg = [i \in Ids |-> [sock |-> NoSocket, gen |-> 0]]
  /\ call = [c \in Calls |-> NewCall]
  /\ server = [token |-> TRUE, alloc |-> "live", turns |-> Turns]

-----------------------------------------------------------------------------
(* What the handlers have in common. *)

Unregistered(w, i, k) == IF w.g[i].sock = k THEN [w EXCEPT !.g[i].sock = NoSocket] ELSE w

(***************************************************************************)
(* The disconnect handler: only the socket that the row names takes the    *)
(* stub offline; running tasks are flagged and the six hours begin.        *)
(***************************************************************************)
Disconnected(w, k) ==
  LET i == w.l[k].map
      gone == [w EXCEPT !.l[k].st = "closed", !.l[k].map = Nobody]
      off == IF i = Nobody THEN gone ELSE Unregistered(gone, i, k)
  IN  IF i = Nobody \/ ~(w.r[i].here /\ w.r[i].sock = k) THEN off
      ELSE [off EXCEPT !.r[i] = [@ EXCEPT !.online = FALSE, !.sock = NoSocket,
                                          !.timer = TRUE, !.sync = NoSocket]]

\* A socket the row still names is forgotten first, so that its disconnect does nothing.
Kicked(w, i, k) ==
  LET old == w.r[i].sock
      freed == Unregistered([w EXCEPT !.l[old].map = Nobody, !.r[i].sock = k], i, old)
  IN  IF ~w.r[i].here \/ old \in {NoSocket, k} \/ w.l[old].st # "open" THEN w
      ELSE Disconnected(freed, old)

Registered(w, i, k) == [w EXCEPT !.g[i] = [sock |-> k, gen |-> @.gen + 1]]

\* The row the handler has built, stored and mapped at its end.
Joined(w, i, k, busy) ==
  [w EXCEPT !.r[i] = [@ EXCEPT !.here = TRUE, !.online = TRUE, !.sock = k, !.busy = busy, !.sync = k],
            !.l[k].map = i]

-----------------------------------------------------------------------------
Connect(d) ==
  \E k \in Sockets :
    /\ link[k].st = "unborn" /\ \A j \in Sockets : j < k => link[j].st # "unborn"
    /\ link' = [link EXCEPT ![k] = [NewLink EXCEPT !.of = d, !.st = "open"]]
    /\ UNCHANGED <<row, reg, call, server>>

\* A resume that is turned away: by its token (or version) at once, as released when the old socket has gone.
ResumeRefused(k) ==
  LET i == StubOf[link[k].of]
      barred == ~server.token \/ (row[i].here /\ row[i].released)
      tried == IF server.token THEN Kicked([World EXCEPT !.r[i].timer = FALSE], i, k) ELSE World
  IN  /\ Open(k) /\ link[k].map = Nobody /\ ~link[k].deaf
      /\ barred
      /\ Become3(Disconnected(tried, k))
      /\ UNCHANGED <<call, server>>

\* The whole of handleResume: busy says whether tasks of the stub go on.
Resume(k) ==
  \E busy \in BOOLEAN :
    LET i == StubOf[link[k].of]
        bound == IF i \in Allocated THEN server.alloc ELSE "live"
        ready == Registered(Kicked([World EXCEPT !.r[i].timer = FALSE], i, k), i, k)
    IN  /\ Open(k) /\ link[k].map = Nobody /\ ~link[k].deaf
        /\ server.token /\ ~(row[i].here /\ row[i].released)
        /\ busy => row[i].busy
        /\ CASE bound = "live" -> Become3(Joined(ready, i, k, busy))
             [] bound = "terminal" ->
                  Become3(Disconnected(
                    [ready EXCEPT !.r[i] = [@ EXCEPT !.here = TRUE, !.online = FALSE, !.sock = k,
                                                     !.busy = busy, !.released = TRUE]], k))
             [] bound = "ambiguous" ->
                  Become3([ready EXCEPT !.l[k].deaf = TRUE, !.r[i].busy = busy])
        /\ UNCHANGED <<call, server>>

LinkLost(k) ==
  /\ Turn
  /\ Open(k)
  /\ Become3(Disconnected(World, k))
  /\ UNCHANGED call

\* A stub that was silent for three minutes.  Its socket stays as it is, and its running
\* tasks too: failDisconnectedTasks only takes those flagged when a link was lost.
HeartbeatTimeout(i) ==
  /\ Turn
  /\ row[i].here /\ row[i].online
  /\ row' = [row EXCEPT ![i].online = FALSE]
  /\ UNCHANGED <<link, reg, call>>

FailTimer(i) ==
  /\ row[i].timer
  /\ row' = [row EXCEPT ![i].timer = FALSE, ![i].busy = @ /\ row[i].online]
  /\ UNCHANGED <<link, reg, call, server>>

\* The sync interval of a row that is not online with that socket ends itself.
SyncInterval(i) ==
  /\ row[i].sync # NoSocket
  /\ row[i].online /\ row[i].sock = row[i].sync => row[i].busy
  /\ row' = IF row[i].online /\ row[i].sock = row[i].sync
            THEN [row EXCEPT ![i].busy = FALSE] ELSE [row EXCEPT ![i].sync = NoSocket]
  /\ UNCHANGED <<link, reg, call, server>>

TaskBegins(i) ==
  /\ row[i].here /\ row[i].online /\ ~row[i].busy /\ Open(row[i].sock) /\ link[row[i].sock].map = i
  /\ row' = [row EXCEPT ![i].busy = TRUE]
  /\ UNCHANGED <<link, reg, call, server>>

-----------------------------------------------------------------------------
(* api/stubs.ts *)

ReleaseStub(i) ==
  LET k == row[i].sock
      cut == IF Open(k) THEN Disconnected(World, k) ELSE World
  IN  /\ Turn
      /\ row[i].here /\ ~row[i].busy
      /\ Become3([cut EXCEPT !.r[i] = [@ EXCEPT !.online = FALSE, !.sock = NoSocket, !.released = TRUE]])
      /\ UNCHANGED call

UnreleaseStub(i) ==
  /\ row[i].here /\ row[i].released
  /\ row' = [row EXCEPT ![i].released = FALSE]
  /\ UNCHANGED <<link, reg, call, server>>

\* DELETE /stubs/:id, and an hour after its last heartbeat pruneStaleStubs.
DeleteStub(i) ==
  /\ Turn
  /\ row[i].here /\ ~row[i].online /\ ~row[i].busy
  /\ row' = [row EXCEPT ![i] = [NoRow EXCEPT !.timer = row[i].timer, !.sync = row[i].sync]]
  /\ link' = [k \in Sockets |-> IF link[k].map = i THEN [link[k] EXCEPT !.astray = TRUE] ELSE link[k]]
  /\ UNCHANGED <<reg, call>>

TokenChanges ==
  /\ server.turns > 0
  /\ server' = [server EXCEPT !.turns = @ - 1, !.token = ~@]
  /\ UNCHANGED <<link, row, reg, call>>

AllocationChanges ==
  \E a \in {"terminal", "ambiguous"} :
    /\ server.turns > 0 /\ Allocated # {}
    /\ server' = [server EXCEPT !.turns = @ - 1, !.alloc = a]
    /\ UNCHANGED <<link, row, reg, call>>

\* Rows come back offline and without their tasks' timers.
ServerRestarts ==
  /\ Turn
  /\ link' = [k \in Sockets |-> [link[k] EXCEPT !.st = IF @ = "open" THEN "closed" ELSE @, !.map = Nobody]]
  /\ row' = [i \in Ids |-> [row[i] EXCEPT !.online = FALSE, !.sock = NoSocket,
                                          !.timer = FALSE, !.sync = NoSocket]]
  /\ reg' = [i \in Ids |-> [sock |-> NoSocket, gen |-> 0]]
  /\ call' = [c \in Calls |-> IF call[c].pc = "new" THEN NewCall ELSE [NewCall EXCEPT !.pc = "end"]]

-----------------------------------------------------------------------------
(* reliableEmitToStub. *)

Finish(c) == call' = [call EXCEPT ![c].pc = "end"]

Emit(c) ==
  \E i \in Ids :
    LET k == reg[i].sock
    IN  /\ call[c].pc = "new" /\ Open(k)
        /\ call' = [call EXCEPT ![c] = [pc |-> "sent", to |-> i, gen |-> reg[i].gen,
                                        on |-> k, began |-> k, tries |-> 0]]
        /\ UNCHANGED <<link, row, reg, server>>

\* The acknowledgement
Acked(c) == call[c].pc = "sent" /\ Open(call[c].on) /\ Finish(c) /\ UNCHANGED <<link, row, reg, server>>

\* Ten seconds without one, or a negative one
AckTimeout(c) ==
  LET i == call[c].to
  IN  /\ call[c].pc = "sent"
      /\ IF reg[i].gen # call[c].gen \/ call[c].tries = MaxRetries THEN Finish(c)
         ELSE call' = [call EXCEPT ![c].pc = "delay"]
      /\ UNCHANGED <<link, row, reg, server>>

\* Mutant: what was begun before a reconnect is sent again after it.
RetryAnyway(c) ==
  LET k == reg[call[c].to].sock
  IN  /\ call[c].pc = "delay"
      /\ IF ~Open(k) THEN Finish(c)
         ELSE call' = [call EXCEPT ![c].pc = "sent", ![c].on = k, ![c].tries = @ + 1]
      /\ UNCHANGED <<link, row, reg, server>>

\* After three seconds the registered socket is looked up again.
Retry(c) ==
  LET i == call[c].to
      k == reg[i].sock
  IN  /\ call[c].pc = "delay"
      /\ IF ~Open(k) \/ reg[i].gen # call[c].gen THEN Finish(c)
         ELSE call' = [call EXCEPT ![c].pc = "sent", ![c].on = k, ![c].tries = @ + 1]
      /\ UNCHANGED <<link, row, reg, server>>

RegistryNext ==
  \/ \E d \in Daemons : Connect(d)
  \/ \E k \in Sockets : Resume(k) \/ ResumeRefused(k) \/ LinkLost(k)
  \/ \E i \in Ids :
       \/ HeartbeatTimeout(i) \/ FailTimer(i) \/ SyncInterval(i) \/ TaskBegins(i)
       \/ ReleaseStub(i) \/ UnreleaseStub(i) \/ DeleteStub(i)
  \/ TokenChanges \/ AllocationChanges \/ ServerRestarts
  \/ \E c \in Calls : Emit(c) \/ Acked(c) \/ AckTimeout(c) \/ Retry(c)

RegistrySpec == RegistryInit /\ [][RegistryNext]_registryVars

RegistryTypeOK ==
  /\ \A k \in Sockets : link[k].map \in Ids \cup {Nobody} /\ link[k].st \in {"unborn", "open", "closed"}
  /\ \A i \in Ids : {row[i].sock, row[i].sync, reg[i].sock} \subseteq Sockets \cup {NoSocket}
  /\ \A c \in Calls : call[c].pc \in {"new", "sent", "delay", "end"} /\ call[c].tries \in 0..MaxRetries
  /\ server.turns \in 0..Turns /\ server.alloc \in {"live", "terminal", "ambiguous"}

(***************************************************************************)
(* Row, map and registry agree, whoever else resumes under the same        *)
(* identity: a stub that is online has one socket, open, registered and    *)
(* mapped to it, and no other socket speaks for it.  The exceptions are a  *)
(* resume that throws on an ambiguous allocation, whose socket nobody      *)
(* hears, not even when it closes, and a row removed while its socket was  *)
(* open.  And no message begun before a reconnect goes out on the socket   *)
(* that came with it.                                                      *)
(***************************************************************************)
LinksAgree ==
  /\ \A i \in Ids : row[i].here /\ row[i].online =>
       LET k == row[i].sock
       IN  link[k].deaf \/ (Open(k) /\ reg[i].sock = k /\ link[k].map = i)
  /\ \A k \in Sockets : Open(k) /\ link[k].map # Nobody /\ ~link[k].astray =>
       LET i == link[k].map IN row[i].here /\ row[i].sock = k
  /\ \A c \in Calls : call[c].pc \in {"sent", "delay"} => call[c].on = call[c].began
=============================================================================
