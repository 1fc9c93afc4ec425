-------------------------------- MODULE Relay --------------------------------
(***************************************************************************)
(* What is asked of a stub while somebody waits: commands and files over   *)
(* HTTP (api/exec.ts, api/stubs.ts, exec.py, file_rpc.py), and the shell   *)
(* of the dashboard (socket/web.ts, daemon.py, RemoteShell.tsx), whose     *)
(* commands go through reliableEmitToStub.  python-socketio acknowledges   *)
(* an event when its handler has returned, and a shell command is such a   *)
(* handler: an ack may come long after the server stopped waiting for it.  *)
(* One stub; what a command prints, and its children, are left out.        *)
(***************************************************************************)
EXTENDS Naturals, FiniteSets

CONSTANTS
  Execs,       \* requests over HTTP
  Commands,    \* commands for the shell
  Tabs,        \* pages that show it
  AskedBy,     \* [Commands -> Tabs \cup {NoTab}]: the page that submits it, or POST /stubs/:id/exec
  NoTab,
  MaxSends,    \* MAX_RETRIES + 1
  ExecAllowed, \* --allow-exec
  Faults       \* lost connections and slow answers in a run

ASSUME RelayAssumption ==
  /\ AskedBy \in [Commands -> Tabs \cup {NoTab}] /\ NoTab \notin Tabs
  /\ MaxSends \in Nat \ {0} /\ Faults \in Nat /\ ExecAllowed \in BOOLEAN

VARIABLES
  line,   \* the connection: "up", "quiet" (gone, and the server has not noticed), "down"
  http,   \* [Execs -> request]
  shells,  \* [Commands -> the loop of reliableEmitToStub and the copies it sent]
  tab     \* [Tabs -> [running, inbox, command]]: the last entry and the shell.done on their way

relayVars == <<line, http, shells, tab>>

Attempts == 1..MaxSends
Connected == line.st = "up"
NoCommand == "no command"
RelayFault == line.faults > 0 /\ line' = [line EXCEPT !.faults = @ - 1]

RelayInit ==
  /\ line = [st |-> "up", gen |-> 1, faults |-> Faults]
  /\ http = [e \in Execs |-> [asks |-> "nothing", res |-> "none", at |-> "none", proc |-> "none",
                              says |-> "none", gen |-> 0]]
  /\ shells = [c \in Commands |-> [pc |-> "none", gen |-> 0, sends |-> 0, ran |-> {},
                                  copy |-> [i \in Attempts |-> "none"]]]
  /\ tab = [t \in Tabs |-> [running |-> FALSE, inbox |-> 0, command |-> NoCommand]]

-----------------------------------------------------------------------------
(* Requests over HTTP: at = where the question and its answer are. *)

PostExec(e, asks) ==
  /\ http[e].res = "none"
  /\ http' = [http EXCEPT ![e] =
       IF line.st = "down" THEN [@ EXCEPT !.asks = asks, !.res = "503"]
       ELSE IF asks = "malformed" THEN [@ EXCEPT !.asks = asks, !.res = "400"]
       ELSE [@ EXCEPT !.asks = asks, !.res = "waiting", !.gen = line.gen,
                      !.at = IF Connected THEN "sent" ELSE "lost"]]
  /\ UNCHANGED <<line, shells, tab>>

\* The handler on the stub refuses, cannot start the command, or starts it.
HandleExecRequest(e) ==
  /\ http[e].asks = "command" /\ http[e].at = "sent"
  /\ \/ ~ExecAllowed /\ http' = [http EXCEPT ![e].at = "over", ![e].says = "disabled"]
     \/ ExecAllowed /\ http' = [http EXCEPT ![e].at = "over", ![e].says = "failed"]
     \/ ExecAllowed /\ http' = [http EXCEPT ![e].at = "started", ![e].proc = "alive"]
  /\ UNCHANGED <<line, shells, tab>>

HandleFileRequest(e, says) ==
  /\ http[e].asks = "file" /\ http[e].at = "sent"
  /\ http' = [http EXCEPT ![e].at = "over", ![e].says = says]
  /\ UNCHANGED <<line, shells, tab>>

ProcessEnds(e) ==
  /\ http[e].proc = "alive"
  /\ http' = [http EXCEPT ![e].proc = "ended"]
  /\ UNCHANGED <<line, shells, tab>>

\* Both pipes are read to their end and the process is reaped ...
WaitAll(e) ==
  /\ http[e].at = "started" /\ http[e].proc = "ended"
  /\ http' = [http EXCEPT ![e].at = "over", ![e].says = "its code"]
  /\ UNCHANGED <<line, shells, tab>>

\* Mutant: the answer does not wait for the kill.
ExecKilledLater(e) == [http[e] EXCEPT !.at = "over", !.says = "failed"]

\* ... or the time is up, which a child that holds a pipe can bring about too.
ExecKilled(e) == [http[e] EXCEPT !.at = "over", !.says = "failed",
                             !.proc = IF @ = "alive" THEN "killed" ELSE @]
ExecTimeout(e) ==
  /\ http[e].at = "started"
  /\ http' = [http EXCEPT ![e] = ExecKilled(e)]
  /\ UNCHANGED <<line, shells, tab>>

\* The ack answers the request, unless it was answered or its connection is gone.
StatusOf(says) == CASE says = "disabled" -> "403" [] says = "not found" -> "404" [] says = "refused" -> "400"
                    [] OTHER -> "200"
ExecAck(e) ==
  /\ http[e].at = "over"
  /\ IF Connected /\ line.gen = http[e].gen
     THEN http' = [http EXCEPT ![e].at = "answered",
                               ![e].res = IF @ = "waiting" THEN StatusOf(http[e].says) ELSE @]
     ELSE http' = [http EXCEPT ![e].at = "lost"]
  /\ UNCHANGED <<line, shells, tab>>

\* The server waits 5 s longer than the stub: its own time is up when the answer is lost, or slow.
ServerTimeout(e) ==
  /\ http[e].res = "waiting"
  /\ IF http[e].at = "lost" THEN UNCHANGED line ELSE RelayFault
  /\ http' = [http EXCEPT ![e].res = "504"]
  /\ UNCHANGED <<shells, tab>>

-----------------------------------------------------------------------------
(* The shell. *)

Sent == IF Connected THEN "sent" ELSE "lost"
Emitted(c) == [shells[c] EXCEPT !.pc = "awaits", !.sends = @ + 1, !.copy[shells[c].sends + 1] = Sent]

\* "shell.exec" of a page, or POST /stubs/:id/exec; of a stub that is offline the page is told at once.
SubmitShell(c) ==
  /\ shells[c].pc = "none"
  /\ AskedBy[c] # NoTab => ~tab[AskedBy[c]].running
  /\ IF line.st = "down"
     THEN /\ shells' = [shells EXCEPT ![c].pc = "settled"]
          /\ tab' = [t \in Tabs |-> IF t # AskedBy[c] THEN tab[t]
                                    ELSE [tab[t] EXCEPT !.running = TRUE, !.command = c, !.inbox = @ + 1]]
     ELSE /\ shells' = [shells EXCEPT ![c] = [Emitted(c) EXCEPT !.gen = line.gen]]
          /\ tab' = [t \in Tabs |-> IF t # AskedBy[c] THEN tab[t]
                                    ELSE [tab[t] EXCEPT !.running = TRUE, !.command = c]]
  /\ UNCHANGED <<line, http>>

\* No ack within ACK_TIMEOUT_MS.
ShellAckTimeout(c) ==
  /\ shells[c].pc = "awaits"
  /\ shells' = [shells EXCEPT ![c].pc =
       IF line.gen # shells[c].gen \/ shells[c].sends = MaxSends THEN "settled" ELSE "delay"]
  /\ UNCHANGED <<line, http, tab>>

\* Mutant: only the socket is looked at, not its generation.
ResentAnyhow(c) == IF line.st = "down" THEN [shells[c] EXCEPT !.pc = "settled"] ELSE Emitted(c)

\* After RETRY_DELAY_MS, on the socket there is by then.
Resent(c) == IF line.st = "down" \/ line.gen # shells[c].gen THEN [shells[c] EXCEPT !.pc = "settled"]
             ELSE Emitted(c)
Resend(c) ==
  /\ shells[c].pc = "delay"
  /\ shells' = [shells EXCEPT ![c] = Resent(c)]
  /\ UNCHANGED <<line, http, tab>>

\* shell.done goes to every page.
Told == [t \in Tabs |-> [tab[t] EXCEPT !.inbox = @ + 1]]

\* Refused by policy, without a start: two words to the pages. Else the command runs.
HandleShellExec(c, i) ==
  /\ shells[c].copy[i] = "sent"
  /\ \/ shells' = [shells EXCEPT ![c].copy[i] = "over"] /\ tab' = Told
     \/ /\ ExecAllowed
        /\ shells' = [shells EXCEPT ![c].copy[i] = "running", ![c].ran = @ \cup {line.gen}]
        /\ UNCHANGED tab
  /\ UNCHANGED <<line, http>>

\* It ends, or its time is up and it is killed; without a connection emit raises and nobody is told.
ShellDone(c, i) ==
  /\ shells[c].copy[i] = "running"
  /\ shells' = [shells EXCEPT ![c].copy[i] = IF Connected THEN "over" ELSE "lost"]
  /\ tab' = IF Connected THEN Told ELSE tab
  /\ UNCHANGED <<line, http>>

\* The handler has returned: the ack of this copy, if it is the one that is waited for.
ShellAck(c, i) ==
  /\ shells[c].copy[i] = "over" /\ Connected
  /\ shells' = [shells EXCEPT ![c].copy[i] = "acked",
       ![c].pc = IF @ = "awaits" /\ shells[c].sends = i /\ line.gen = shells[c].gen THEN "settled" ELSE @]
  /\ UNCHANGED <<line, http, tab>>

\* finishEntry looks at no request_id: the entry that runs is over, whose ever the event was.
FinishEntry(t) ==
  /\ tab[t].inbox > 0
  /\ tab' = [tab EXCEPT ![t].inbox = @ - 1, ![t].running = FALSE]
  /\ UNCHANGED <<line, http, shells>>

-----------------------------------------------------------------------------
\* The connection goes, and with it what was on it.
Lose ==
  /\ Connected /\ line.faults > 0
  /\ line' = [line EXCEPT !.st = "quiet", !.faults = @ - 1]
  /\ http' = [e \in Execs |-> IF http[e].at = "sent" THEN [http[e] EXCEPT !.at = "lost"] ELSE http[e]]
  /\ shells' = [c \in Commands |-> [shells[c] EXCEPT !.copy =
                 [i \in Attempts |-> IF @[i] \in {"sent", "over"} THEN "lost" ELSE @[i]]]]
  /\ UNCHANGED tab

Notice ==
  /\ line.st = "quiet"
  /\ line' = [line EXCEPT !.st = "down"]
  /\ UNCHANGED <<http, shells, tab>>

\* A resume may come before the server has noticed: the socket is replaced and the generation counted up.
RegisterStubSocket ==
  /\ line.st # "up"
  /\ line' = [line EXCEPT !.st = "up", !.gen = @ + 1]
  /\ UNCHANGED <<http, shells, tab>>

\* The requests and the shell share nothing but the connection.
HttpNext ==
  \E e \in Execs : \/ \E asks \in {"command", "file", "malformed"} : PostExec(e, asks)
                   \/ HandleExecRequest(e) \/ ProcessEnds(e) \/ WaitAll(e) \/ ExecTimeout(e)
                   \/ \E says \in {"content", "not found", "refused"} : HandleFileRequest(e, says)
                   \/ ExecAck(e) \/ ServerTimeout(e)
ShellNext ==
  \/ \E c \in Commands : SubmitShell(c) \/ ShellAckTimeout(c) \/ Resend(c)
  \/ \E c \in Commands, i \in Attempts : HandleShellExec(c, i) \/ ShellDone(c, i) \/ ShellAck(c, i)
  \/ \E t \in Tabs : FinishEntry(t)
LineNext == Lose \/ Notice \/ RegisterStubSocket
RelayNext == HttpNext \/ ShellNext \/ LineNext

RelaySpec == RelayInit /\ [][RelayNext]_relayVars

RelayTypeOK ==
  /\ line.st \in {"up", "quiet", "down"} /\ line.gen \in Nat \ {0} /\ line.faults \in Nat
  /\ http \in [Execs -> [asks : {"nothing", "command", "file", "malformed"},
                         res : {"none", "waiting", "200", "400", "403", "404", "503", "504"},
                         at : {"none", "sent", "started", "over", "answered", "lost"},
                         proc : {"none", "alive", "ended", "killed"},
                         says : {"none", "disabled", "failed", "its code", "content", "not found", "refused"},
                         gen : Nat]]
  /\ shells \in [Commands -> [pc : {"none", "awaits", "delay", "settled"}, gen : Nat, sends : 0..MaxSends,
                             ran : SUBSET Nat,
                             copy : [Attempts -> {"none", "sent", "running", "over", "acked", "lost"}]]]
  /\ tab \in [Tabs -> [running : BOOLEAN, inbox : Nat, command : Commands \cup {NoCommand}]]

-----------------------------------------------------------------------------
\* Who is told how a command ended is told of a process that is there no more, and
\* its own exit code only of one that ended by itself (exec.py:125-160, exec.ts:131-160).
AnswersTrue ==
  \A e \in Execs : http[e].res = "200" /\ http[e].asks = "command" =>
    /\ http[e].proc # "alive"
    /\ http[e].says = "its code" => http[e].proc = "ended"

\* A command is not started again once the stub has reconnected, however many
\* times it was repeated before (reliable.ts:83-100, "Bug 2 fix").
NoReplay == \A c \in Commands : shells[c].ran \subseteq {shells[c].gen}

\* A page that shows a command as running has it, or the news of its end, still to
\* come, unless the connection was lost on the way (RemoteShell.tsx:46-56).
Coming(c) ==
  \/ shells[c].pc = "delay"
  \/ \E i \in Attempts : shells[c].copy[i] \in {"sent", "running"}
PagesHear ==
  \A t \in Tabs : tab[t].running =>
    \/ tab[t].inbox > 0
    \/ Coming(tab[t].command)
    \/ \E i \in Attempts : shells[tab[t].command].copy[i] = "lost"

\* What is relayed to a stub is answered truly, not replayed, and not waited for in vain.
RelaySound == AnswersTrue /\ NoReplay /\ PagesHear
=============================================================================
