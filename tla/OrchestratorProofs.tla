------------------------- MODULE OrchestratorProofs -------------------------
(***************************************************************************)
(* Proofs about Orchestrator, for any number of stubs, tasks, slots and    *)
(* retries: it keeps its types, a task object sits where its row says      *)
(* (OneHome), a completed task stays completed (CompletedFinal), no stub   *)
(* holds more tasks than its slots (SlotBound), and the rows implement     *)
(* TaskLifecycle (ImplementsLifecycle).                                    *)
(*                                                                         *)
(* The lemmas are about the operators on worlds, in the order in which the *)
(* actions compose them; each says that an operator leads from a good      *)
(* world (in the second half: from a sound one) to such worlds, and what   *)
(* it keeps of the rows.                                                   *)
(***************************************************************************)
EXTENDS Orchestrator, FiniteSetTheorems, TLAPS

Worlds == [row : [Tasks -> Row], mem : [Stubs -> [Tasks -> Copy]],
           down : [Stubs -> SUBSET DownMsg]]

\* OneHome of a world.
Homed(w) ==
  \A s \in Stubs, t \in Tasks :
    Held(w, s, t) => w.row[t].home = s /\ w.row[t].loc \in {"stub", "archive"}

\* A completed row is archived and no array holds its task: without this a late
\* event or a requeue could reach the task through a left-over object.
Finished(w) ==
  \A t \in Tasks : w.row[t].st = "completed" =>
                     w.row[t].loc = "archive" /\ \A s \in Stubs : ~Held(w, s, t)

Good(w) == w \in Worlds /\ Homed(w) /\ Finished(w)

\* What every helper keeps: a task that left the queue stays with its stub, and
\* the completed tasks are the same before and after.
Keeps(w, v) ==
  /\ \A t \in Tasks : w.row[t].loc \in {"stub", "archive"} =>
                        v.row[t].home = w.row[t].home /\ v.row[t].loc \in {"stub", "archive"}
  /\ \A t \in Tasks : v.row[t].st = "completed" <=> w.row[t].st = "completed"

LEMMA KeepsTransitive ==
  ASSUME NEW u, NEW v, NEW w, Keeps(u, v), Keeps(v, w)
  PROVE  Keeps(u, w)
BY DEF Keeps

(***************************************************************************)
(* Writes to the objects of one array.                                     *)
(***************************************************************************)
\* The statuses, copies and locations a write deals in.
LEMMA StatusFacts ==
  /\ Terminal \subseteq Status /\ Reserving \subseteq Status
  /\ "absent" \notin Status
  /\ Reserving \cap Terminal = {}
  /\ "completed" \notin Reserving
BY DEF Status, Terminal, Reserving

LEMMA RowFacts ==
  /\ \A r \in Row, l \in Locations, h \in Stubs \cup {NoStub}, st \in Status :
       Moved(r, l, h, st) \in Row
  /\ \A r \in Row, s \in Stubs, c \in Copy : c.st \in Status => Written(r, s, c) \in Row
  /\ \A l \in Locations, tries \in Nat, rc \in Nat, root \in Tasks \cup {NoTask} :
       NewRow(l, tries, rc, root) \in Row
  /\ \A r \in Row : NewAttempt(r) \in Row
  /\ Absent \in Copy
BY DEF Row, Locations, Status, Copy, Moved, Written, NewRow, NewAttempt, Absent

LEMMA FieldFacts ==
  /\ \A r, l, h, st : /\ Moved(r, l, h, st).loc = l /\ Moved(r, l, h, st).home = h
                      /\ Moved(r, l, h, st).st = st
  /\ \A r, s, c : /\ Written(r, s, c).home = s /\ Written(r, s, c).st = c.st
                  /\ Written(r, s, c).loc = IF c.st \in Terminal THEN "archive" ELSE "stub"
  /\ \A l, tries, rc, root : /\ NewRow(l, tries, rc, root).loc = l
                             /\ NewRow(l, tries, rc, root).st = "pending"
  /\ \A r : NewAttempt(r).loc = "global" /\ NewAttempt(r).st = "pending"
  /\ Absent.st = "absent"
BY DEF Moved, Written, NewRow, NewAttempt, Absent

LEMMA WorldOf ==
  ASSUME NEW r \in [Tasks -> Row], NEW m \in [Stubs -> [Tasks -> Copy]],
         NEW d \in [Stubs -> SUBSET DownMsg]
  PROVE  [row |-> r, mem |-> m, down |-> d] \in Worlds
BY DEF Worlds

LEMMA WorldParts ==
  ASSUME NEW w \in Worlds
  PROVE  /\ w.row \in [Tasks -> Row] /\ w.mem \in [Stubs -> [Tasks -> Copy]]
         /\ w.down \in [Stubs -> SUBSET DownMsg]
         /\ \A t \in Tasks : w.row[t] \in Row
         /\ \A s \in Stubs, t \in Tasks : w.mem[s][t] \in Copy
BY DEF Worlds

LEMMA PutTyped ==
  ASSUME NEW w \in Worlds, NEW s \in Stubs, NEW c,
         DOMAIN c \subseteq Tasks,
         \A t \in DOMAIN c : c[t] \in Copy /\ c[t].st \in Status
  PROVE  /\ Put(w, s, c) \in Worlds
         /\ \A t \in Tasks : Put(w, s, c).row[t] =
              IF t \in DOMAIN c THEN Written(w.row[t], s, c[t]) ELSE w.row[t]
         /\ \A h \in Stubs, t \in Tasks : Put(w, s, c).mem[h][t] =
              IF h # s \/ t \notin DOMAIN c THEN w.mem[h][t]
              ELSE IF c[t].st \in Terminal THEN Absent ELSE c[t]
<1> DEFINE R == [t \in Tasks |-> IF t \in DOMAIN c THEN Written(w.row[t], s, c[t])
                                 ELSE w.row[t]]
           A == [t \in Tasks |-> IF t \notin DOMAIN c THEN w.mem[s][t]
                                 ELSE IF c[t].st \in Terminal THEN Absent ELSE c[t]]
           M == [w.mem EXCEPT ![s] = A]
<1>1. Put(w, s, c) = [row |-> R, mem |-> M, down |-> w.down]
  BY WorldParts DEF Put
<1> HIDE DEF R, A, M
<1>2. R \in [Tasks -> Row]
  BY WorldParts, RowFacts DEF R
<1>3. A \in [Tasks -> Copy]
  BY WorldParts, RowFacts DEF A
<1>4. M \in [Stubs -> [Tasks -> Copy]]
  BY <1>3, WorldParts DEF M
<1>5. w.down \in [Stubs -> SUBSET DownMsg]
  BY WorldParts
<1>6. [row |-> R, mem |-> M, down |-> w.down] \in Worlds
  BY <1>2, <1>4, <1>5, WorldOf
<1>7. Put(w, s, c).row = R /\ Put(w, s, c).mem = M
  BY <1>1
<1>8. \A h \in Stubs : M[h] = IF h = s THEN A ELSE w.mem[h]
  BY WorldParts DEF M
<1>9. \A t \in Tasks : A[t] = IF t \notin DOMAIN c THEN w.mem[s][t]
                              ELSE IF c[t].st \in Terminal THEN Absent ELSE c[t]
  BY DEF A
<1>10. \A h \in Stubs, t \in Tasks : Put(w, s, c).mem[h][t] =
         IF h # s \/ t \notin DOMAIN c THEN w.mem[h][t]
         ELSE IF c[t].st \in Terminal THEN Absent ELSE c[t]
  BY <1>7, <1>8, <1>9
<1>11. \A t \in Tasks : Put(w, s, c).row[t] =
         IF t \in DOMAIN c THEN Written(w.row[t], s, c[t]) ELSE w.row[t]
  BY <1>7 DEF R
<1>12. QED
  BY <1>1, <1>6, <1>10, <1>11

\* A write is good if the array held what is written.
LEMMA PutGood ==
  ASSUME NEW w, Good(w), NEW s \in Stubs, NEW c,
         \A t \in DOMAIN c : t \in Tasks /\ Held(w, s, t) /\ c[t] \in Copy /\ c[t].st \in Status
  PROVE  /\ Good(Put(w, s, c))
         /\ (\A t \in DOMAIN c : c[t].st # "completed") => Keeps(w, Put(w, s, c))
         /\ \A t \in Tasks : w.row[t].st = "completed" => Put(w, s, c).row[t].st = "completed"
         /\ \A t \in Tasks : w.row[t].loc = "none" => Put(w, s, c).row[t] = w.row[t]
<1> DEFINE v == Put(w, s, c)
<1>1. /\ v \in Worlds
      /\ \A t \in Tasks : v.row[t] =
           IF t \in DOMAIN c THEN Written(w.row[t], s, c[t]) ELSE w.row[t]
      /\ \A h \in Stubs, t \in Tasks : v.mem[h][t] =
           IF h # s \/ t \notin DOMAIN c THEN w.mem[h][t]
           ELSE IF c[t].st \in Terminal THEN Absent ELSE c[t]
  BY PutTyped DEF Good
<1> HIDE DEF v
<1>2. \A t \in DOMAIN c : /\ w.row[t].home = s /\ w.row[t].loc \in {"stub", "archive"}
                          /\ w.row[t].st # "completed"
                          /\ \A h \in Stubs : Held(w, h, t) => h = s
  BY DEF Good, Homed, Finished
<1>3. \A t \in DOMAIN c : /\ t \in Tasks
                          /\ v.row[t].home = s /\ v.row[t].loc \in {"stub", "archive"}
                          /\ v.row[t].st = c[t].st
                          /\ c[t].st \in Terminal => v.row[t].loc = "archive" /\ ~Held(v, s, t)
  BY <1>1, FieldFacts DEF Held
<1>4. \A t \in Tasks, h \in Stubs : t \notin DOMAIN c =>
        v.row[t] = w.row[t] /\ (Held(v, h, t) <=> Held(w, h, t))
  BY <1>1 DEF Held
<1>5. \A t \in DOMAIN c, h \in Stubs : Held(v, h, t) => h = s
  BY <1>1, <1>2 DEF Held
<1>6. Homed(v)
  BY <1>3, <1>4, <1>5 DEF Good, Homed
<1>7. Finished(v)
  <2>1. ASSUME NEW t \in Tasks, v.row[t].st = "completed", t \in DOMAIN c
        PROVE  v.row[t].loc = "archive" /\ \A h \in Stubs : ~Held(v, h, t)
    <3>1. c[t].st \in Terminal
      BY <1>3, <2>1 DEF Terminal
    <3>2. QED
      BY <1>3, <1>5, <2>1, <3>1
  <2>2. ASSUME NEW t \in Tasks, v.row[t].st = "completed", t \notin DOMAIN c
        PROVE  v.row[t].loc = "archive" /\ \A h \in Stubs : ~Held(v, h, t)
    BY <1>4, <2>2 DEF Good, Finished
  <2>3. QED
    BY <2>1, <2>2 DEF Finished
<1>8. (\A t \in DOMAIN c : c[t].st # "completed") => Keeps(w, v)
  BY <1>2, <1>3, <1>4 DEF Keeps
<1>9. \A t \in Tasks : w.row[t].st = "completed" => v.row[t].st = "completed"
  BY <1>2, <1>4
<1>10. \A t \in Tasks : w.row[t].loc = "none" => v.row[t] = w.row[t]
  BY <1>1, <1>2
<1>11. QED
  BY <1>1, <1>6, <1>7, <1>8, <1>9, <1>10 DEF Good, v

LEMMA SetStatusGood ==
  ASSUME NEW w, Good(w), NEW s \in Stubs, NEW T \in SUBSET Tasks, NEW st \in Status
  PROVE  /\ Good(SetStatus(w, s, T, st))
         /\ st # "completed" => Keeps(w, SetStatus(w, s, T, st))
         /\ \A t \in Tasks : w.row[t].st = "completed" =>
                               SetStatus(w, s, T, st).row[t].st = "completed"
         /\ \A t \in Tasks : w.row[t].loc = "none" => SetStatus(w, s, T, st).row[t] = w.row[t]
<1> DEFINE U == {u \in T : Updatable(w, s, u, st)}
           c == [t \in U |-> [w.mem[s][t] EXCEPT !.st = st]]
<1>1. \A t \in U : t \in Tasks /\ Held(w, s, t) /\ w.mem[s][t] \in Copy
  BY WorldParts DEF Updatable, Good
<1>2. \A t \in U : [w.mem[s][t] EXCEPT !.st = st] \in Copy
                   /\ [w.mem[s][t] EXCEPT !.st = st].st = st
  BY <1>1 DEF Copy
<1>3. DOMAIN c = U /\ \A t \in U : c[t] = [w.mem[s][t] EXCEPT !.st = st]
  OBVIOUS
<1>4. SetStatus(w, s, T, st) = Put(w, s, c)
  BY DEF SetStatus
<1> HIDE DEF U, c
<1>5. /\ \A t \in DOMAIN c : t \in Tasks /\ Held(w, s, t) /\ c[t] \in Copy /\ c[t].st \in Status
      /\ st # "completed" => \A t \in DOMAIN c : c[t].st # "completed"
  BY <1>1, <1>2, <1>3
<1>6. QED
  BY <1>4, <1>5, PutGood

(***************************************************************************)
(* Messages, requeueing and scheduling.                                    *)
(***************************************************************************)
\* A world with the rows and arrays of a good one is good.
LEMMA SameTasks ==
  ASSUME NEW w, Good(w), NEW v \in Worlds, v.row = w.row, v.mem = w.mem
  PROVE  Good(v) /\ Keeps(w, v)
BY DEF Good, Homed, Finished, Keeps, Held

LEMMA SendGood ==
  ASSUME NEW w, Good(w), NEW s \in Stubs, NEW live, NEW ms \in SUBSET DownMsg
  PROVE  Good(Send(w, s, live, ms)) /\ Keeps(w, Send(w, s, live, ms))
<1> DEFINE d == [w.down EXCEPT ![s] = IF s \in live THEN @ \cup ms ELSE @]
<1>1. Send(w, s, live, ms) = [row |-> w.row, mem |-> w.mem, down |-> d]
  BY DEF Send
<1>2. w \in Worlds
  BY DEF Good
<1>3. w.row \in [Tasks -> Row] /\ w.mem \in [Stubs -> [Tasks -> Copy]]
  BY <1>2, WorldParts
<1>4. d \in [Stubs -> SUBSET DownMsg]
  BY <1>2, WorldParts
<1> HIDE DEF d
<1>5. [row |-> w.row, mem |-> w.mem, down |-> d] \in Worlds
  BY <1>3, <1>4, WorldOf
<1>6. QED
  BY <1>1, <1>5, SameTasks

LEMMA RequeueGood ==
  ASSUME NEW w, Good(w), NEW s \in Stubs
  PROVE  /\ Good(Requeue(w, s))
         /\ \A t \in Tasks : Requeue(w, s).row[t].st = "completed" <=> w.row[t].st = "completed"
<1> DEFINE T == Requeued(w, s)
           v == Requeue(w, s)
           R == [t \in Tasks |-> IF t \in T THEN Moved(w.row[t], "global", NoStub, "pending")
                                 ELSE w.row[t]]
           A == [t \in Tasks |-> IF t \in T THEN Absent ELSE w.mem[s][t]]
           M == [w.mem EXCEPT ![s] = A]
<1>1. v = [row |-> R, mem |-> M, down |-> w.down]
  BY DEF Requeue, RequeueRows
<1>2. w \in Worlds
  BY DEF Good
<1>3. \A t \in T : t \in Tasks /\ Held(w, s, t)
  BY DEF Requeued, HeldIn, Held
<1> HIDE DEF T, v, R, A, M
<1>4. R \in [Tasks -> Row]
  BY <1>2, WorldParts, RowFacts DEF R, Locations, Status
<1>5. A \in [Tasks -> Copy]
  BY <1>2, WorldParts, RowFacts DEF A
<1>6. M \in [Stubs -> [Tasks -> Copy]] /\ w.down \in [Stubs -> SUBSET DownMsg]
  BY <1>2, <1>5, WorldParts DEF M
<1>7. [row |-> R, mem |-> M, down |-> w.down] \in Worlds
  BY <1>4, <1>6, WorldOf
<1>8. v \in Worlds /\ v.row = R /\ v.mem = M
  BY <1>1, <1>7
<1>9. \A h \in Stubs : M[h] = IF h = s THEN A ELSE w.mem[h]
  BY <1>2, WorldParts DEF M
<1>10. \A h \in Stubs, t \in Tasks :
         Held(v, h, t) <=> Held(w, h, t) /\ ~(h = s /\ t \in T)
  <2>1. \A t \in Tasks : A[t].st = "absent" <=> t \in T \/ w.mem[s][t].st = "absent"
    BY FieldFacts DEF A
  <2>2. QED
    BY <1>8, <1>9, <2>1 DEF Held
<1>11. \A t \in T, h \in Stubs : w.row[t].st # "completed" /\ (Held(w, h, t) => h = s)
  BY <1>3 DEF Good, Homed, Finished
<1>12. \A t \in Tasks : v.row[t] = IF t \in T THEN Moved(w.row[t], "global", NoStub, "pending")
                                   ELSE w.row[t]
  BY <1>8 DEF R
<1>13. \A t \in Tasks : v.row[t].st = "completed" <=> w.row[t].st = "completed"
  BY <1>3, <1>11, <1>12, FieldFacts
<1>14. Homed(v)
  BY <1>10, <1>11, <1>12 DEF Good, Homed
<1>15. Finished(v)
  BY <1>10, <1>12, <1>13, FieldFacts DEF Good, Finished
<1>16. QED
  BY <1>8, <1>13, <1>14, <1>15 DEF Good, v

LEMMA AssignGood ==
  ASSUME NEW w, Good(w), NEW on \in SUBSET Stubs, NEW f \in [Pending(w) -> on \cup {NoStub}]
  PROVE  Good(Assign(w, f)) /\ Keeps(w, Assign(w, f))
<1> DEFINE T == Placed(w, f)
           v == Assign(w, f)
           R == [t \in Tasks |-> IF t \in T THEN Moved(w.row[t], "stub", f[t], "assigned")
                                 ELSE w.row[t]]
           M == [s \in Stubs |-> [t \in Tasks |->
                   IF t \in T /\ f[t] = s
                   THEN [st |-> "assigned", off |-> w.row[t].off, kill |-> w.row[t].kill]
                   ELSE w.mem[s][t]]]
<1>1. v = [row |-> R, mem |-> M, down |-> w.down]
  BY DEF Assign
<1>2. w \in Worlds
  BY DEF Good
<1>3. \A t \in T : t \in Tasks /\ f[t] \in Stubs /\ w.row[t].loc = "global"
                   /\ w.row[t].st = "pending"
  BY DEF Placed, Pending
<1> HIDE DEF T, v, R, M
<1>4. R \in [Tasks -> Row]
  BY <1>2, <1>3, WorldParts, RowFacts DEF R, Locations, Status
<1>5. \A t \in Tasks : [st |-> "assigned", off |-> w.row[t].off, kill |-> w.row[t].kill] \in Copy
  BY <1>2, WorldParts DEF Row, Copy, Status
<1>6. M \in [Stubs -> [Tasks -> Copy]]
  BY <1>2, <1>5, WorldParts DEF M
<1>7. w.down \in [Stubs -> SUBSET DownMsg]
  BY <1>2, WorldParts
<1>8. [row |-> R, mem |-> M, down |-> w.down] \in Worlds
  BY <1>4, <1>6, <1>7, WorldOf
<1>9. v \in Worlds /\ v.row = R /\ v.mem = M
  BY <1>1, <1>8
<1>10. \A t \in Tasks, s \in Stubs :
         /\ t \notin T => (Held(v, s, t) <=> Held(w, s, t)) /\ v.row[t] = w.row[t]
         /\ t \in T => /\ Held(v, s, t) => Held(w, s, t) \/ f[t] = s
                       /\ v.row[t] = Moved(w.row[t], "stub", f[t], "assigned")
  BY <1>9 DEF R, M, Held
<1>11. \A t \in T, s \in Stubs : ~Held(w, s, t)
  BY <1>3 DEF Good, Homed
<1>12. \A t \in T : v.row[t].loc = "stub" /\ v.row[t].home = f[t] /\ v.row[t].st = "assigned"
  BY <1>3, <1>9, FieldFacts DEF R
<1>13. Homed(v)
  BY <1>10, <1>11, <1>12 DEF Good, Homed
<1>14. Finished(v)
  <2>1. ASSUME NEW t \in Tasks, v.row[t].st = "completed"
        PROVE  v.row[t].loc = "archive" /\ \A s \in Stubs : ~Held(v, s, t)
    <3>1. t \notin T
      BY <1>12, <2>1
    <3>2. v.row[t] = w.row[t]
      BY <1>9, <3>1 DEF R
    <3>3. QED
      BY <1>10, <2>1, <3>1, <3>2 DEF Good, Finished
  <2>2. QED
    BY <2>1 DEF Finished
<1>15. \A t \in Tasks : v.row[t] = w.row[t] \/ (t \in T /\ v.row[t].st = "assigned")
  BY <1>9, <1>12 DEF R
<1>16. Keeps(w, v)
  BY <1>3, <1>15 DEF Keeps
<1>17. QED
  BY <1>9, <1>13, <1>14, <1>16 DEF Good, v

LEMMA DispatchGood ==
  ASSUME NEW w, Good(w), NEW on, NEW live
  PROVE  Good(Dispatch(w, on, live)) /\ Keeps(w, Dispatch(w, on, live))
<1> DEFINE Runs(s) == {Msg("run", t) : t \in HeldIn(w, s, {"assigned"})}
           d == [s \in Stubs |-> IF s \in on \cap live THEN w.down[s] \cup Runs(s) ELSE w.down[s]]
<1>1. Dispatch(w, on, live) = [row |-> w.row, mem |-> w.mem, down |-> d]
  BY DEF Dispatch
<1>2. w \in Worlds
  BY DEF Good
<1>3. w.row \in [Tasks -> Row] /\ w.mem \in [Stubs -> [Tasks -> Copy]]
      /\ \A s \in Stubs : w.down[s] \in SUBSET DownMsg
  BY <1>2, WorldParts
<1>4. \A s \in Stubs : Runs(s) \subseteq DownMsg
  BY DEF HeldIn, Msg, DownMsg
<1> HIDE DEF Runs
<1>5. d \in [Stubs -> SUBSET DownMsg]
  BY <1>3, <1>4
<1> HIDE DEF d
<1>6. [row |-> w.row, mem |-> w.mem, down |-> d] \in Worlds
  BY <1>3, <1>5, WorldOf
<1>7. QED
  BY <1>1, <1>6, SameTasks

\* Whatever schedule() places, every world it can leave is good.
LEMMA ScheduleGood ==
  ASSUME NEW w, Good(w), NEW on \in SUBSET Stubs, NEW live, NEW v \in Schedule(w, on, live)
  PROVE  Good(v) /\ Keeps(w, v)
<1>1. PICK f \in Placements(w, on) : v = Dispatch(Assign(w, f), on, live)
  BY DEF Schedule
<1>2. f \in [Pending(w) -> on \cup {NoStub}]
  BY DEF Placements
<1>3. Good(Assign(w, f)) /\ Keeps(w, Assign(w, f))
  BY <1>2, AssignGood
<1>4. Good(v) /\ Keeps(Assign(w, f), v)
  BY <1>1, <1>3, DispatchGood
<1>5. QED
  BY <1>3, <1>4, KeepsTransitive

(***************************************************************************)
(* New tasks: submitted ones and retries.                                  *)
(***************************************************************************)
\* Rows given to fresh ids leave a good world good.
LEMMA FreshRows ==
  ASSUME NEW w, Good(w), NEW N \in SUBSET {t \in Tasks : w.row[t].loc = "none"},
         NEW r, \A t \in N : r[t] \in Row /\ r[t].loc = "global" /\ r[t].st = "pending",
         NEW v, v = [row |-> [t \in Tasks |-> IF t \in N THEN r[t] ELSE w.row[t]],
                     mem |-> w.mem, down |-> w.down]
  PROVE  Good(v) /\ Keeps(w, v)
<1> DEFINE R == [t \in Tasks |-> IF t \in N THEN r[t] ELSE w.row[t]]
<1>1. w \in Worlds
  BY DEF Good
<1>2. R \in [Tasks -> Row]
  BY <1>1, WorldParts
<1>3. w.mem \in [Stubs -> [Tasks -> Copy]] /\ w.down \in [Stubs -> SUBSET DownMsg]
  BY <1>1, WorldParts
<1>4. \A t \in Tasks : R[t] = IF t \in N THEN r[t] ELSE w.row[t]
  OBVIOUS
<1>5. v = [row |-> R, mem |-> w.mem, down |-> w.down]
  OBVIOUS
<1> HIDE DEF R
<1>6. v \in Worlds /\ v.row = R /\ v.mem = w.mem
  BY <1>2, <1>3, <1>5, WorldOf
<1>7. \A t \in N : /\ v.row[t].st # "completed" /\ w.row[t].st # "completed"
                   /\ w.row[t].loc = "none"
                   /\ \A s \in Stubs : ~Held(w, s, t)
  BY <1>4, <1>6 DEF Good, Homed, Finished
<1>8. \A t \in Tasks, s \in Stubs : Held(v, s, t) <=> Held(w, s, t)
  BY <1>6 DEF Held
<1>9. \A t \in Tasks : t \notin N => v.row[t] = w.row[t]
  BY <1>4, <1>6
<1>10. Homed(v)
  BY <1>7, <1>8, <1>9 DEF Good, Homed
<1>11. Finished(v)
  BY <1>7, <1>8, <1>9 DEF Good, Finished
<1>12. Keeps(w, v)
  BY <1>7, <1>9 DEF Keeps
<1>13. QED
  BY <1>6, <1>10, <1>11, <1>12 DEF Good

LEMMA SubmittedGood ==
  ASSUME NEW w, Good(w), NEW N \in NextIds(w)
  PROVE  Good(Submitted(w, N)) /\ Keeps(w, Submitted(w, N))
<1> DEFINE r == [t \in Tasks |-> NewRow("global", 0, 0, t)]
<1>1. N \in SUBSET {t \in Tasks : w.row[t].loc = "none"}
  BY DEF NextIds
<1>2. \A t \in N : r[t] = NewRow("global", 0, 0, t)
  BY <1>1
<1>3. \A t \in N : r[t] \in Row /\ r[t].loc = "global" /\ r[t].st = "pending"
  BY <1>1, <1>2, RowFacts, FieldFacts DEF Locations
<1>4. Submitted(w, N) = [row |-> [t \in Tasks |-> IF t \in N THEN r[t] ELSE w.row[t]],
                         mem |-> w.mem, down |-> w.down]
  BY <1>2 DEF Submitted
<1> HIDE DEF r
<1>5. QED
  BY <1>1, <1>3, <1>4, FreshRows

LEMMA AddRetriesGood ==
  ASSUME NEW w, Good(w), NEW N \in SUBSET {t \in Tasks : w.row[t].loc = "none"},
         NEW h \in [N -> Tasks]
  PROVE  Good(AddRetries(w, h)) /\ Keeps(w, AddRetries(w, h))
<1> DEFINE r == [t \in Tasks |-> NewRow("global", w.row[h[t]].tries, w.row[h[t]].rc + 1,
                                        w.row[h[t]].root)]
<1>1. \A t \in N : w.row[h[t]] \in Row
  BY WorldParts DEF Good
<1>2. \A t \in N : /\ w.row[h[t]].tries \in Nat /\ w.row[h[t]].rc + 1 \in Nat
                   /\ w.row[h[t]].root \in Tasks \cup {NoTask}
  BY <1>1 DEF Row
<1>3. \A t \in N : r[t] = NewRow("global", w.row[h[t]].tries, w.row[h[t]].rc + 1,
                                 w.row[h[t]].root)
  OBVIOUS
<1>4. \A t \in N : r[t] \in Row /\ r[t].loc = "global" /\ r[t].st = "pending"
  <2>1. "global" \in Locations
    BY DEF Locations
  <2>2. ASSUME NEW t \in N
        PROVE  NewRow("global", w.row[h[t]].tries, w.row[h[t]].rc + 1, w.row[h[t]].root) \in Row
    BY <1>2, <2>1, RowFacts
  <2>3. QED
    BY <1>3, <2>2, FieldFacts
<1>5. DOMAIN h = N
  OBVIOUS
<1>6. AddRetries(w, h) = [row |-> [t \in Tasks |-> IF t \in N THEN r[t] ELSE w.row[t]],
                          mem |-> w.mem, down |-> w.down]
  BY <1>3, <1>5 DEF AddRetries
<1> HIDE DEF r
<1>7. QED
  BY <1>4, <1>6, FreshRows

LEMMA RetryMapsShape ==
  ASSUME NEW w, NEW F \in SUBSET Tasks, NEW h \in RetryMaps(w, F)
  PROVE  \E N \in SUBSET {t \in Tasks : w.row[t].loc = "none"} : h \in [N -> Tasks]
<1>1. PICK N \in NextIds(w) : h \in [N -> {t \in F : Retryable(w, t)}]
  BY DEF RetryMaps
<1>2. N \in SUBSET {t \in Tasks : w.row[t].loc = "none"} /\ h \in [N -> Tasks]
  BY <1>1 DEF NextIds
<1>3. QED
  BY <1>2

LEMMA RetryAllGood ==
  ASSUME NEW w, Good(w), NEW F \in SUBSET Tasks, NEW on \in SUBSET Stubs, NEW live,
         NEW v \in RetryAll(w, F, on, live)
  PROVE  Good(v) /\ Keeps(w, v)
<1>1. PICK h \in RetryMaps(w, F) :
        v \in IF DOMAIN h = {} THEN {w} ELSE Schedule(AddRetries(w, h), on, live)
  BY DEF RetryAll
<1>2. CASE DOMAIN h = {}
  BY <1>1, <1>2 DEF Keeps
<1>3. CASE DOMAIN h # {}
  <2>1. Good(AddRetries(w, h)) /\ Keeps(w, AddRetries(w, h))
    BY AddRetriesGood, RetryMapsShape
  <2>2. Good(v) /\ Keeps(AddRetries(w, h), v)
    BY <1>1, <1>3, <2>1, ScheduleGood
  <2>3. QED
    BY <2>1, <2>2, KeepsTransitive
<1>4. QED
  BY <1>2, <1>3

LEMMA FailAndRetryGood ==
  ASSUME NEW w, Good(w), NEW s \in Stubs, NEW F \in SUBSET Tasks, NEW on \in SUBSET Stubs,
         NEW live, NEW v \in FailAndRetry(w, s, F, on, live)
  PROVE  Good(v) /\ Keeps(w, v)
<1> DEFINE u == SetStatus(w, s, F, "failed")
<1>1. Good(u) /\ Keeps(w, u)
  BY SetStatusGood DEF Status
<1>2. {t \in F : Updatable(w, s, t, "failed")} \in SUBSET Tasks
  OBVIOUS
<1>3. v \in RetryAll(u, {t \in F : Updatable(w, s, t, "failed")}, on, live)
  BY DEF FailAndRetry
<1> HIDE DEF u
<1>4. Good(v) /\ Keeps(u, v)
  BY <1>1, <1>2, <1>3, RetryAllGood
<1>5. QED
  BY <1>1, <1>4, KeepsTransitive

LEMMA FailDisconnectedGood ==
  ASSUME NEW w, Good(w), NEW s \in Stubs, NEW on \in SUBSET Stubs, NEW live,
         NEW v \in FailDisconnected(w, s, on, live)
  PROVE  Good(v) /\ Keeps(w, v)
<1> DEFINE F == {t \in HeldIn(w, s, {"running", "paused"}) : w.mem[s][t].off}
           K == {t \in F : w.mem[s][t].kill}
           u == SetStatus(w, s, K, "cancelled")
<1>1. F \in SUBSET Tasks /\ K \in SUBSET Tasks
  BY DEF HeldIn
<1>2. v \in FailAndRetry(u, s, F \ K, on, live)
  BY DEF FailDisconnected
<1> HIDE DEF F, K
<1>3. Good(u) /\ Keeps(w, u)
  BY <1>1, SetStatusGood DEF Status
<1> HIDE DEF u
<1>4. Good(v) /\ Keeps(u, v)
  BY <1>1, <1>2, <1>3, FailAndRetryGood
<1>5. QED
  BY <1>3, <1>4, KeepsTransitive

(***************************************************************************)
(* handleResume.                                                           *)
(***************************************************************************)
\* Flags written to live objects of an array.
LEMMA FlagGood ==
  ASSUME NEW w, Good(w), NEW s \in Stubs, NEW T \in SUBSET Tasks, NEW c,
         DOMAIN c = T,
         \A t \in T : /\ w.mem[s][t].st \in {"running", "paused"}
                      /\ \E off, kill \in BOOLEAN : c[t] = Flag(w.mem[s][t], off, kill)
  PROVE  Good(Put(w, s, c)) /\ Keeps(w, Put(w, s, c))
<1>1. \A t \in T : Held(w, s, t)
  BY DEF Held
<1>2. ASSUME NEW t \in T
      PROVE  c[t] \in Copy /\ c[t].st \in Status /\ c[t].st # "completed"
  <2>1. PICK off \in BOOLEAN, kill \in BOOLEAN : c[t] = Flag(w.mem[s][t], off, kill)
    OBVIOUS
  <2>2. c[t].st = w.mem[s][t].st
    BY <2>1 DEF Flag
  <2>3. c[t] \in Copy
    BY <2>1 DEF Flag, Copy, Status
  <2>4. QED
    BY <2>2, <2>3 DEF Status
<1>3. \A t \in DOMAIN c : t \in Tasks /\ Held(w, s, t) /\ c[t] \in Copy /\ c[t].st \in Status
  BY <1>1, <1>2
<1>4. \A t \in DOMAIN c : c[t].st # "completed"
  BY <1>2
<1>5. QED
  BY <1>3, <1>4, PutGood

LEMMA DeadElsewhereGood ==
  ASSUME NEW w, Good(w), NEW s \in Stubs, NEW m
  PROVE  Good(DeadElsewhere(w, s, m)) /\ Keeps(w, DeadElsewhere(w, s, m))
<1> DEFINE v == DeadElsewhere(w, s, m)
           Hit(h, t) == /\ h # s /\ t \in m.gone /\ ~Held(w, s, t)
                        /\ w.row[t].home = h /\ w.row[t].st \in Reserving
                        /\ Updatable(w, h, t, "failed")
           R == [t \in Tasks |-> IF \E h \in Stubs : Hit(h, t)
                                 THEN Moved(w.row[t], "archive", w.row[t].home, "failed")
                                 ELSE w.row[t]]
           M == [h \in Stubs |-> [t \in Tasks |-> IF Hit(h, t) THEN Absent ELSE w.mem[h][t]]]
<1>1. v = [row |-> R, mem |-> M, down |-> w.down]
  BY DEF DeadElsewhere
<1>2. w \in Worlds
  BY DEF Good
<1>3. \A h \in Stubs, t \in Tasks :
        Hit(h, t) => /\ Held(w, h, t) /\ w.row[t].home = h /\ w.row[t].st # "completed"
                     /\ w.row[t].loc \in {"stub", "archive"}
  BY DEF Good, Homed, Updatable, Reserving
<1> HIDE DEF v, Hit, R, M
<1>4. R \in [Tasks -> Row]
  <2>1. \A t \in Tasks : w.row[t] \in Row /\ w.row[t].home \in Stubs \cup {NoStub}
    BY <1>2, WorldParts DEF Row
  <2>2. "archive" \in Locations /\ "failed" \in Status
    BY DEF Locations, Status
  <2>3. QED
    BY <2>1, <2>2, RowFacts DEF R
<1>5. M \in [Stubs -> [Tasks -> Copy]] /\ w.down \in [Stubs -> SUBSET DownMsg]
  BY <1>2, WorldParts, RowFacts DEF M
<1>6. v \in Worlds /\ v.row = R /\ v.mem = M
  BY <1>1, <1>4, <1>5, WorldOf
<1>7. \A h \in Stubs, t \in Tasks : Held(v, h, t) <=> Held(w, h, t) /\ ~Hit(h, t)
  BY <1>6, FieldFacts DEF M, Held
<1>8. ASSUME NEW t \in Tasks, NEW g \in Stubs, Hit(g, t)
      PROVE  /\ v.row[t].st # "completed" /\ w.row[t].st # "completed"
             /\ v.row[t].home = w.row[t].home /\ v.row[t].loc = "archive"
             /\ \A h \in Stubs : ~Held(v, h, t)
  <2>1. v.row[t] = Moved(w.row[t], "archive", w.row[t].home, "failed")
    BY <1>6, <1>8 DEF R
  <2>2. \A h \in Stubs : Held(w, h, t) => h = g
    BY <1>3, <1>8 DEF Good, Homed
  <2>3. QED
    BY <1>3, <1>7, <1>8, <2>1, <2>2, FieldFacts
<1>9. \A t \in Tasks : (\A g \in Stubs : ~Hit(g, t)) => v.row[t] = w.row[t]
  BY <1>6 DEF R
<1>10. Homed(v)
  BY <1>7, <1>8, <1>9 DEF Good, Homed
<1>11. Finished(v)
  BY <1>7, <1>8, <1>9 DEF Good, Finished
<1>12. Keeps(w, v)
  BY <1>8, <1>9 DEF Keeps
<1>13. QED
  BY <1>6, <1>10, <1>11, <1>12 DEF Good, v

\* An array brought back is good if its tasks belong to the stub and are not
\* completed.
LEMMA SetStubGood ==
  ASSUME NEW w, Good(w), NEW s \in Stubs, NEW a \in [Tasks -> Copy],
         \A t \in Tasks : a[t].st # "absent" =>
            /\ w.row[t].home = s /\ w.row[t].loc \in {"stub", "archive"}
            /\ w.row[t].st # "completed"
  PROVE  Good(SetStub(w, s, a)) /\ Keeps(w, SetStub(w, s, a))
<1> DEFINE v == SetStub(w, s, a)
           M == [w.mem EXCEPT ![s] = a]
<1>1. v = [row |-> w.row, mem |-> M, down |-> w.down]
  BY DEF SetStub
<1>2. w \in Worlds
  BY DEF Good
<1>3. M \in [Stubs -> [Tasks -> Copy]] /\ \A h \in Stubs : M[h] = IF h = s THEN a ELSE w.mem[h]
  BY <1>2, WorldParts
<1>4. w.row \in [Tasks -> Row] /\ w.down \in [Stubs -> SUBSET DownMsg]
  BY <1>2, WorldParts
<1> HIDE DEF v, M
<1>5. v \in Worlds /\ v.row = w.row /\ v.mem = M
  BY <1>1, <1>3, <1>4, WorldOf
<1>6. \A h \in Stubs, t \in Tasks :
        Held(v, h, t) => (h = s /\ a[t].st # "absent") \/ (h # s /\ Held(w, h, t))
  BY <1>3, <1>5 DEF Held
<1>7. Homed(v)
  BY <1>5, <1>6 DEF Good, Homed
<1>8. Finished(v)
  BY <1>5, <1>6 DEF Good, Finished
<1>9. QED
  BY <1>5, <1>7, <1>8 DEF Good, Keeps, v

LEMMA ReportedTasks ==
  ASSUME NEW m \in UpMsg
  PROVE  m.run \in SUBSET Tasks /\ m.gone \in SUBSET Tasks
BY DEF UpMsg

LEMMA CaseAGood ==
  ASSUME Good(World), online \in SUBSET Stubs, NEW s \in Stubs, NEW m, NEW live,
         NEW w \in CaseA(s, m, live)
  PROVE  Good(w) /\ Keeps(World, w)
<1> DEFINE T == Flagged(s, m)
           c == Cleared(s, T)
           u == Put(World, s, c)
<1>1. T \in SUBSET Tasks /\ Missing(s, m) \in SUBSET Tasks
  BY DEF Flagged, Missing, HeldIn
<1>2. World.mem = mem /\ World \in Worlds
  BY DEF World, Good
<1>3. ASSUME NEW t \in T
      PROVE  /\ World.mem[s][t].st \in {"running", "paused"}
             /\ \E off, kill \in BOOLEAN : c[t] = Flag(World.mem[s][t], off, kill)
  <2>1. World.mem[s][t].st \in {"running", "paused"}
    BY DEF Flagged, HeldIn
  <2>2. mem[s][t].kill \in BOOLEAN
    BY <1>1, <1>2, WorldParts DEF Copy
  <2>3. c[t] = Flag(mem[s][t], FALSE, mem[s][t].kill)
    BY DEF Cleared
  <2>4. QED
    BY <1>2, <2>1, <2>2, <2>3
<1>4. DOMAIN c = T
  BY DEF Cleared
<1>5. w \in FailAndRetry(u, s, Missing(s, m), online, live)
  BY DEF CaseA
<1> HIDE DEF T, c
<1>6. Good(u) /\ Keeps(World, u)
  BY <1>1, <1>3, <1>4, FlagGood
<1> HIDE DEF u
<1>7. Good(w) /\ Keeps(u, w)
  BY <1>1, <1>5, <1>6, FailAndRetryGood
<1>8. QED
  BY <1>6, <1>7, KeepsTransitive

\* The array the copy of the stub brings back holds tasks of this stub only, and
\* none that is completed, because resuming completes nothing.
LEMMA RestoredGood ==
  ASSUME Good(World), NEW w, Good(w), Keeps(World, w), NEW s \in Stubs, NEW m,
         NEW a \in RestoredArrays(w, s, m)
  PROVE  Good(SetStub(w, s, a)) /\ Keeps(w, SetStub(w, s, a))
<1> DEFINE Gone == {t \in Tasks : Held(World, s, t) /\ ~Held(w, s, t)}
           ByA == {t \in Missing(s, m) : Updatable(World, s, t, "failed")}
           First == IF ByA # {} THEN ByA ELSE Gone
           Before == IF ByA # {} THEN SUBSET Flagged(s, m) ELSE {Flagged(s, m)}
           Array(f, C) == [t \in Tasks |-> IF t = f THEN [mem[s][t] EXCEPT !.st = "failed"]
                                           ELSE IF t \in C THEN Cleared(s, C)[t] ELSE mem[s][t]]
<1>1. World \in Worlds /\ World.mem = mem
  BY DEF Good, World
<1>2. mem \in [Stubs -> [Tasks -> Copy]] /\ \A t \in Tasks : mem[s][t] \in Copy
  BY <1>1, WorldParts
<1>3. \A t \in Tasks : mem[s][t].st # "absent" =>
        /\ w.row[t].home = s /\ w.row[t].loc \in {"stub", "archive"}
        /\ w.row[t].st # "completed"
  <2>1. \A t \in Tasks : mem[s][t].st # "absent" =>
          /\ World.row[t].home = s /\ World.row[t].loc \in {"stub", "archive"}
          /\ World.row[t].st # "completed"
    BY <1>1 DEF Good, Homed, Finished, Held
  <2>2. QED
    BY <2>1 DEF Keeps
<1>4. CASE Gone = {}
  <2>1. a = w.mem[s]
    BY <1>4 DEF RestoredArrays
  <2>2. a \in [Tasks -> Copy]
    BY <2>1, WorldParts DEF Good
  <2>3. \A t \in Tasks : a[t].st # "absent" =>
          /\ w.row[t].home = s /\ w.row[t].loc \in {"stub", "archive"}
          /\ w.row[t].st # "completed"
    BY <2>1 DEF Good, Homed, Finished, Held
  <2>4. QED
    BY <2>2, <2>3, SetStubGood
<1>5. CASE Gone # {}
  <2>1. a \in {Array(f, C) : f \in First, C \in Before}
    BY <1>5 DEF RestoredArrays
  <2>2. PICK f \in First, C \in Before : a = Array(f, C)
    BY <2>1
  <2>3. f \in Tasks /\ mem[s][f].st # "absent"
    BY <1>1 DEF Missing, HeldIn, Held
  <2>4. \A t \in C : t \in Tasks /\ mem[s][t].st # "absent"
    BY <1>1 DEF Flagged, HeldIn
  <2>5. \A t \in C : Cleared(s, C)[t] = Flag(mem[s][t], FALSE, mem[s][t].kill)
    BY DEF Cleared
  <2>6. \A t \in C : Flag(mem[s][t], FALSE, mem[s][t].kill) \in Copy
    BY <1>2, <2>4 DEF Flag, Copy
  <2>7. [mem[s][f] EXCEPT !.st = "failed"] \in Copy
    BY <1>2, <2>3 DEF Copy, Status
  <2>8. \A t \in Tasks : a[t] = IF t = f THEN [mem[s][f] EXCEPT !.st = "failed"]
                                ELSE IF t \in C THEN Cleared(s, C)[t] ELSE mem[s][t]
    BY <2>2
  <2>9. a = [t \in Tasks |-> a[t]]
    BY <2>2
  <2>10. a \in [Tasks -> Copy]
    BY <1>2, <2>5, <2>6, <2>7, <2>8, <2>9
  <2>11. \A t \in Tasks : a[t].st # "absent" => mem[s][t].st # "absent"
    BY <2>3, <2>4, <2>8
  <2>12. QED
    BY <1>3, <2>10, <2>11, SetStubGood
<1>6. QED
  BY <1>4, <1>5

(***************************************************************************)
(* The inductive invariant.  OneHome alone is not inductive: a resumed     *)
(* stub brings an old array back, and the proof that its tasks are still   *)
(* the stub's needs the types and, for CompletedFinal, that no completed   *)
(* task is left in an array.                                               *)
(***************************************************************************)
RestTypeOK ==
  /\ online \subseteq Stubs
  /\ conn \in [Stubs -> {"none", "up", "broken"}]
  /\ failTimers \subseteq Stubs
  /\ killTimers \subseteq Stubs \X Tasks
  /\ link \subseteq Stubs
  /\ up \in [Stubs -> Seq(UpMsg)]
  /\ procs \in [Stubs -> [Tasks -> ProcState]]
  /\ dead \in [Stubs -> SUBSET Tasks]
  /\ left \in [EventKinds -> Nat]

IndInv == TypeOK /\ OneHome /\ CompletedGone

CompletedStays == \A t \in Tasks : row[t].st = "completed" => row'[t].st = "completed"

LEMMA InvOfWorld == IndInv <=> Good(World) /\ RestTypeOK
<1>1. World.row = row /\ World.mem = mem /\ World.down = down
  BY DEF World
<1>2. Homed(World) <=> OneHome
  BY <1>1 DEF Homed, OneHome, Held
<1>3. Finished(World) <=> CompletedGone
  BY <1>1 DEF Finished, CompletedGone, Held
<1>4. World \in Worlds <=> /\ row \in [Tasks -> Row] /\ mem \in [Stubs -> [Tasks -> Copy]]
                           /\ down \in [Stubs -> SUBSET DownMsg]
  BY DEF World, Worlds
<1>5. QED
  BY <1>2, <1>3, <1>4 DEF IndInv, TypeOK, RestTypeOK, Good

\* An action that commits a good world keeps the invariant.
LEMMA Committed ==
  ASSUME NEW w, Good(w), Commit(w), RestTypeOK',
         \A t \in Tasks : row[t].st = "completed" => w.row[t].st = "completed"
  PROVE  IndInv' /\ CompletedStays
<1>1. w.row = row' /\ w.mem = mem' /\ w.down = down'
  BY DEF Commit
<1>2. row' \in [Tasks -> Row] /\ mem' \in [Stubs -> [Tasks -> Copy]]
      /\ down' \in [Stubs -> SUBSET DownMsg]
  BY <1>1, WorldParts DEF Good
<1>3. OneHome'
  BY <1>1 DEF Good, Homed, OneHome, Held
<1>4. CompletedGone'
  BY <1>1 DEF Good, Finished, CompletedGone, Held
<1>5. TypeOK'
  BY <1>2 DEF TypeOK, RestTypeOK
<1>6. QED
  BY <1>1, <1>3, <1>4, <1>5 DEF IndInv, CompletedStays

LEMMA CommittedKeeping ==
  ASSUME NEW w, Good(w), Keeps(World, w), Commit(w), RestTypeOK'
  PROVE  IndInv' /\ CompletedStays
<1>1. World.row = row
  BY DEF World
<1>2. \A t \in Tasks : row[t].st = "completed" => w.row[t].st = "completed"
  BY <1>1 DEF Keeps
<1>3. QED
  BY <1>2, Committed

\* An action of the daemon or the link writes no task.
LEMMA TasksUnchanged ==
  ASSUME IndInv, UNCHANGED <<row, mem>>, down' \in [Stubs -> SUBSET DownMsg], RestTypeOK'
  PROVE  IndInv' /\ CompletedStays
BY DEF IndInv, TypeOK, RestTypeOK, OneHome, CompletedGone, CompletedStays

LEMMA MsgFacts ==
  /\ \A k \in {"run", "kill"}, t \in Tasks : Msg(k, t) \in DownMsg
  /\ \A k \in {"clear", "sync"} : Msg(k, NoTask) \in DownMsg
  /\ \A k \in {"started", "log", "completed", "failed", "resumable", "pfail"}, t \in Tasks :
       Event(k, t) \in UpMsg
  /\ \A k \in {"resume", "synced"}, run \in SUBSET Tasks, gone \in SUBSET Tasks :
       Report(k, run, gone) \in UpMsg
BY DEF Msg, DownMsg, Event, Report, UpMsg

LEMMA SpendTyped ==
  ASSUME RestTypeOK, NEW k \in EventKinds, Spend(k)
  PROVE  left' \in [EventKinds -> Nat]
BY DEF RestTypeOK, Spend

(***************************************************************************)
(* The API actions.                                                        *)
(***************************************************************************)
LEMMA SubmitStep == IndInv /\ Submit => IndInv' /\ CompletedStays
<1> SUFFICES ASSUME IndInv, Submit PROVE IndInv' /\ CompletedStays
  OBVIOUS
<1>1. Good(World) /\ RestTypeOK
  BY InvOfWorld
<1>2. PICK N \in NextIds(World) :
        \E v \in Schedule(Submitted(World, N), online, Live) : Commit(v)
  BY DEF Submit
<1>3. PICK v \in Schedule(Submitted(World, N), online, Live) : Commit(v)
  BY <1>2
<1>4. Good(v) /\ Keeps(World, v)
  <2>1. Good(Submitted(World, N)) /\ Keeps(World, Submitted(World, N))
    BY <1>1, SubmittedGood
  <2>2. online \in SUBSET Stubs
    BY <1>1 DEF RestTypeOK
  <2>3. Good(v) /\ Keeps(Submitted(World, N), v)
    BY <1>3, <2>1, <2>2, ScheduleGood
  <2>4. QED
    BY <2>1, <2>3, KeepsTransitive
<1>5. left' \in [EventKinds -> Nat]
  BY <1>1, SpendTyped DEF Submit, EventKinds
<1>6. RestTypeOK'
  BY <1>1, <1>5 DEF Submit, KeepServer, stub, RestTypeOK
<1>7. QED
  BY <1>3, <1>4, <1>6, CommittedKeeping

\* A task that no stub holds and no row ties to one may be archived.
LEMMA ArchiveGood ==
  ASSUME NEW w, Good(w), NEW t \in Tasks, w.row[t].home = NoStub, w.row[t].st # "completed",
         NEW v, v = [row |-> [w.row EXCEPT ![t] = Moved(@, "archive", NoStub, "cancelled")],
                     mem |-> w.mem, down |-> w.down]
  PROVE  /\ Good(v)
         /\ \A u \in Tasks : w.row[u].st = "completed" => v.row[u].st = "completed"
<1> DEFINE R == [w.row EXCEPT ![t] = Moved(@, "archive", NoStub, "cancelled")]
<1>1. w \in Worlds
  BY DEF Good
<1>2. w.row \in [Tasks -> Row] /\ w.mem \in [Stubs -> [Tasks -> Copy]]
      /\ w.down \in [Stubs -> SUBSET DownMsg]
  BY <1>1, WorldParts
<1>3. Moved(w.row[t], "archive", NoStub, "cancelled") \in Row
  BY <1>2, RowFacts DEF Locations, Status
<1>4. R \in [Tasks -> Row]
  BY <1>2, <1>3
<1>5. \A u \in Tasks : R[u] = IF u = t THEN Moved(w.row[t], "archive", NoStub, "cancelled")
                              ELSE w.row[u]
  BY <1>2
<1> HIDE DEF R
<1>6. v = [row |-> R, mem |-> w.mem, down |-> w.down]
  BY DEF R
<1>7. v \in Worlds /\ v.row = R /\ v.mem = w.mem
  BY <1>2, <1>4, <1>6, WorldOf
<1>8. \A s \in Stubs : ~Held(w, s, t)
  BY ConstantsAssumption DEF Good, Homed
<1>9. \A s \in Stubs, u \in Tasks : Held(v, s, u) <=> Held(w, s, u)
  BY <1>7 DEF Held
<1>10. \A u \in Tasks : u # t => v.row[u] = w.row[u]
  BY <1>5, <1>7
<1>11. v.row[t].st # "completed"
  BY <1>5, <1>7, FieldFacts
<1>12. Homed(v)
  BY <1>8, <1>9, <1>10 DEF Good, Homed
<1>13. Finished(v)
  BY <1>9, <1>10, <1>11 DEF Good, Finished
<1>14. \A u \in Tasks : w.row[u].st = "completed" => v.row[u].st = "completed"
  BY <1>10
<1>15. QED
  BY <1>7, <1>12, <1>13, <1>14 DEF Good

LEMMA KillStep ==
  ASSUME IndInv, NEW t \in Tasks, Kill(t)
  PROVE  IndInv' /\ CompletedStays
<1> DEFINE s == row[t].home
           c == [u \in {u \in {t} : Held(World, s, u)} |-> Flag(mem[s][u], mem[s][u].off, TRUE)]
<1>1. Good(World) /\ RestTypeOK
  BY InvOfWorld
<1>2. World.row = row /\ World.mem = mem /\ World.down = down /\ World \in Worlds
  BY <1>1 DEF World, Good
<1>3. left' \in [EventKinds -> Nat]
  BY <1>1, SpendTyped DEF Kill, EventKinds
<1>4. killTimers' \subseteq Stubs \X Tasks => RestTypeOK'
  BY <1>1, <1>3 DEF Kill, stub, RestTypeOK
<1>5. row[t].st # "completed" /\ s \in Stubs \cup {NoStub}
  <2>1. row[t] \in Row
    BY <1>2, WorldParts
  <2>2. QED
    BY <2>1 DEF Kill, Terminal, Row
<1>6. CASE /\ s \in online
           /\ Commit(Send(Put(World, s, c), s, Live, {Msg("kill", t)}))
           /\ killTimers' = killTimers \cup {<<s, t>>}
  <2>1. s \in Stubs
    BY <1>1, <1>6 DEF RestTypeOK
  <2>2. \A u \in DOMAIN c : /\ u \in Tasks /\ Held(World, s, u)
                            /\ c[u] = Flag(mem[s][u], mem[s][u].off, TRUE)
    OBVIOUS
  <2>3. \A u \in DOMAIN c : c[u] \in Copy /\ c[u].st \in Status
    <3>1. ASSUME NEW u \in DOMAIN c
          PROVE  mem[s][u] \in Copy /\ mem[s][u].st # "absent"
      BY <1>2, <2>1, <2>2, WorldParts DEF Held
    <3>2. QED
      BY <2>2, <3>1 DEF Copy, Flag
  <2> HIDE DEF s, c
  <2>4. /\ Good(Put(World, s, c))
        /\ \A u \in Tasks : row[u].st = "completed" => Put(World, s, c).row[u].st = "completed"
    <3>1. \A u \in DOMAIN c : /\ u \in Tasks /\ Held(World, s, u)
                              /\ c[u] \in Copy /\ c[u].st \in Status
      BY <2>2, <2>3
    <3>2. /\ Good(Put(World, s, c))
          /\ \A u \in Tasks : World.row[u].st = "completed" =>
                               Put(World, s, c).row[u].st = "completed"
      BY <1>1, <2>1, <3>1, PutGood
    <3>3. QED
      BY <1>2, <3>2
  <2>5. {Msg("kill", t)} \in SUBSET DownMsg
    BY MsgFacts
  <2>6. LET w == Send(Put(World, s, c), s, Live, {Msg("kill", t)})
        IN  Good(w) /\ Keeps(Put(World, s, c), w)
    BY <2>1, <2>4, <2>5, SendGood
  <2>7. killTimers' \subseteq Stubs \X Tasks
    BY <1>1, <1>6, <2>1 DEF RestTypeOK
  <2>8. \A u \in Tasks : row[u].st = "completed" =>
          Send(Put(World, s, c), s, Live, {Msg("kill", t)}).row[u].st = "completed"
    BY <2>4, <2>6 DEF Keeps
  <2>9. QED
    BY <1>4, <1>6, <2>6, <2>7, <2>8, Committed
<1>7. CASE s # NoStub /\ Commit(SetStatus(World, s, {t}, "cancelled")) /\ UNCHANGED killTimers
  <2>1. s \in Stubs
    BY <1>5, <1>7
  <2>2. {t} \in SUBSET Tasks /\ "cancelled" \in Status
    BY DEF Status
  <2>3. Good(SetStatus(World, s, {t}, "cancelled"))
        /\ Keeps(World, SetStatus(World, s, {t}, "cancelled"))
    BY <1>1, <2>1, <2>2, SetStatusGood
  <2>4. RestTypeOK'
    BY <1>1, <1>4, <1>7 DEF RestTypeOK
  <2>5. QED
    BY <1>7, <2>3, <2>4, CommittedKeeping
<1>8. CASE /\ s = NoStub
           /\ Commit([row |-> [row EXCEPT ![t] = Moved(@, "archive", NoStub, "cancelled")],
                      mem |-> mem, down |-> down])
           /\ UNCHANGED killTimers
  <2> DEFINE v == [row |-> [World.row EXCEPT ![t] = Moved(@, "archive", NoStub, "cancelled")],
                   mem |-> World.mem, down |-> World.down]
  <2>1. Commit(v)
    BY <1>2, <1>8
  <2>2. World.row[t].home = NoStub /\ World.row[t].st # "completed"
    BY <1>2, <1>5, <1>8
  <2>3. Good(v) /\ \A u \in Tasks : World.row[u].st = "completed" => v.row[u].st = "completed"
    BY <1>1, <2>2, ArchiveGood
  <2>4. RestTypeOK'
    BY <1>1, <1>4, <1>8 DEF RestTypeOK
  <2> HIDE DEF v
  <2>5. QED
    BY <1>2, <2>1, <2>3, <2>4, Committed
<1>9. QED
  BY <1>6, <1>7, <1>8 DEF Kill

\* A step that only writes a status other than completed through one array.
LEMMA StatusStep ==
  ASSUME IndInv, NEW s \in Stubs, NEW T \in SUBSET Tasks, NEW st \in Status \ {"completed"},
         Commit(SetStatus(World, s, T, st)), RestTypeOK'
  PROVE  IndInv' /\ CompletedStays
BY InvOfWorld, SetStatusGood, CommittedKeeping

\* A step that only places and dispatches.
LEMMA ScheduleStep ==
  ASSUME NEW w, Good(w), Keeps(World, w), NEW on \in SUBSET Stubs, NEW live,
         NEW v \in Schedule(w, on, live), Commit(v), RestTypeOK'
  PROVE  IndInv' /\ CompletedStays
BY ScheduleGood, KeepsTransitive, CommittedKeeping

LEMMA HomeOfRow ==
  ASSUME IndInv, NEW t \in Tasks
  PROVE  row[t].home \in Stubs \cup {NoStub}
BY DEF IndInv, TypeOK, Row

LEMMA CancelAssignedStep ==
  ASSUME IndInv, NEW t \in Tasks, CancelAssigned(t)
  PROVE  IndInv' /\ CompletedStays
<1>1. row[t].home \in Stubs
  BY HomeOfRow DEF CancelAssigned
<1>2. RestTypeOK
  BY InvOfWorld
<1>3. RestTypeOK'
  BY <1>2, SpendTyped DEF CancelAssigned, KeepServer, stub, RestTypeOK, EventKinds
<1>4. {t} \in SUBSET Tasks /\ "cancelled" \in Status \ {"completed"}
  BY DEF Status
<1>5. QED
  BY <1>1, <1>3, <1>4, StatusStep DEF CancelAssigned

LEMMA PauseStep ==
  ASSUME IndInv, NEW t \in Tasks, Pause(t)
  PROVE  IndInv' /\ CompletedStays
<1>1. row[t].home \in Stubs
  BY HomeOfRow DEF Pause
<1>2. RestTypeOK
  BY InvOfWorld
<1>3. RestTypeOK'
  BY <1>2, SpendTyped DEF Pause, KeepServer, stub, RestTypeOK, EventKinds
<1>4. {t} \in SUBSET Tasks /\ {"paused", "running"} \subseteq Status \ {"completed"}
  BY DEF Status
<1>5. PICK st \in {"paused", "running"} : Commit(SetStatus(World, row[t].home, {t}, st))
  BY DEF Pause
<1>6. QED
  BY <1>1, <1>3, <1>4, <1>5, StatusStep

(***************************************************************************)
(* The timers.                                                             *)
(***************************************************************************)
LEMMA ScheduleTickStep == IndInv /\ ScheduleTick => IndInv' /\ CompletedStays
<1> SUFFICES ASSUME IndInv, ScheduleTick PROVE IndInv' /\ CompletedStays
  OBVIOUS
<1>1. Good(World) /\ RestTypeOK
  BY InvOfWorld
<1>2. RestTypeOK'
  BY <1>1, SpendTyped DEF ScheduleTick, KeepServer, stub, RestTypeOK, EventKinds
<1>3. PICK v \in Schedule(World, online, Live) : Commit(v)
  BY DEF ScheduleTick
<1>4. Keeps(World, World) /\ online \in SUBSET Stubs
  BY <1>1 DEF Keeps, RestTypeOK
<1>5. QED
  BY <1>1, <1>2, <1>3, <1>4, ScheduleStep

LEMMA KillAgainStep ==
  ASSUME IndInv, NEW s \in Stubs, NEW t \in Tasks, KillAgain(s, t)
  PROVE  IndInv' /\ CompletedStays
<1>1. Good(World) /\ RestTypeOK
  BY InvOfWorld
<1>2. RestTypeOK'
  BY <1>1 DEF KillAgain, stub, RestTypeOK
<1>3. {Msg("kill", t)} \in SUBSET DownMsg
  BY MsgFacts
<1>4. LET w == Send(World, s, Live, {Msg("kill", t)}) IN Good(w) /\ Keeps(World, w)
  BY <1>1, <1>3, SendGood
<1>5. Keeps(World, World)
  BY DEF Keeps
<1>6. Commit(Send(World, s, Live, {Msg("kill", t)})) \/ Commit(World)
  BY DEF KillAgain
<1>7. QED
  BY <1>1, <1>2, <1>4, <1>5, <1>6, CommittedKeeping

\* An assigned task may leave its array for the queue.
LEMMA UndoneGood ==
  ASSUME Good(World), NEW s \in Stubs, NEW t \in Tasks, mem[s][t].st = "assigned",
         NEW w, w = [row |-> [row EXCEPT ![t] = NewAttempt(@)],
                     mem |-> [mem EXCEPT ![s] = [u \in Tasks |-> IF u = t THEN Absent ELSE @[u]]],
                     down |-> down]
  PROVE  /\ Good(w)
         /\ \A u \in Tasks : row[u].st = "completed" => w.row[u].st = "completed"
<1> DEFINE R == [row EXCEPT ![t] = NewAttempt(@)]
           A == [u \in Tasks |-> IF u = t THEN Absent ELSE mem[s][u]]
           M == [mem EXCEPT ![s] = A]
<1>1. World.row = row /\ World.mem = mem /\ World.down = down
  BY DEF World
<1>2. row \in [Tasks -> Row] /\ mem \in [Stubs -> [Tasks -> Copy]]
      /\ down \in [Stubs -> SUBSET DownMsg]
  BY <1>1, WorldParts DEF Good
<1>3. R \in [Tasks -> Row] /\ \A u \in Tasks : R[u] = IF u = t THEN NewAttempt(row[t]) ELSE row[u]
  <2>1. NewAttempt(row[t]) \in Row
    BY <1>2, RowFacts
  <2>2. QED
    BY <1>2, <2>1
<1>4. A \in [Tasks -> Copy] /\ \A u \in Tasks : A[u] = IF u = t THEN Absent ELSE mem[s][u]
  BY <1>2, RowFacts
<1>5. w = [row |-> R, mem |-> M, down |-> down]
  OBVIOUS
<1> HIDE DEF R, A
<1>6. M \in [Stubs -> [Tasks -> Copy]] /\ \A h \in Stubs : M[h] = IF h = s THEN A ELSE mem[h]
  BY <1>2, <1>4
<1> HIDE DEF M
<1>7. w \in Worlds /\ w.row = R /\ w.mem = M
  <2>1. [row |-> R, mem |-> M, down |-> down] \in Worlds
    BY <1>2, <1>3, <1>6, WorldOf
  <2>2. QED
    BY <1>5, <2>1
<1>8. /\ row[t].st # "completed"
      /\ \A h \in Stubs : Held(World, h, t) => h = s
  BY <1>1 DEF Good, Homed, Finished, Held
<1>9. \A h \in Stubs, u \in Tasks :
        Held(w, h, u) <=> Held(World, h, u) /\ u # t
  <2>1. \A h \in Stubs : ~Held(w, h, t)
    <3>1. w.mem[s][t].st = "absent"
      BY <1>4, <1>6, <1>7, FieldFacts
    <3>2. \A h \in Stubs : h # s => w.mem[h][t].st = "absent"
      BY <1>1, <1>6, <1>7, <1>8 DEF Held
    <3>3. QED
      BY <3>1, <3>2 DEF Held
  <2>2. \A h \in Stubs, u \in Tasks : u # t => (Held(w, h, u) <=> Held(World, h, u))
    BY <1>1, <1>4, <1>6, <1>7 DEF Held
  <2>3. QED
    BY <2>1, <2>2
<1>10. w.row[t].st = "pending" /\ \A u \in Tasks : u # t => w.row[u] = World.row[u]
  BY <1>1, <1>3, <1>7, FieldFacts
<1>11. Homed(w)
  BY <1>9, <1>10 DEF Good, Homed
<1>12. Finished(w)
  BY <1>9, <1>10 DEF Good, Finished
<1>13. \A u \in Tasks : row[u].st = "completed" => w.row[u].st = "completed"
  BY <1>1, <1>8, <1>10
<1>14. QED
  BY <1>7, <1>11, <1>12, <1>13 DEF Good

LEMMA DispatchTimeoutStep ==
  ASSUME IndInv, NEW s \in Stubs, NEW t \in Tasks, DispatchTimeout(s, t)
  PROVE  IndInv' /\ CompletedStays
<1> DEFINE w == [row |-> [row EXCEPT ![t] = NewAttempt(@)],
                 mem |-> [mem EXCEPT ![s] = [u \in Tasks |-> IF u = t THEN Absent ELSE @[u]]],
                 down |-> down]
<1>1. Good(World) /\ RestTypeOK
  BY InvOfWorld
<1>2. RestTypeOK'
  BY <1>1, SpendTyped DEF DispatchTimeout, KeepServer, stub, RestTypeOK, EventKinds
<1>3. mem[s][t].st = "assigned"
  BY DEF DispatchTimeout
<1>4. CASE Commit(SetStatus(World, s, {t}, "failed"))
  <2>1. {t} \in SUBSET Tasks /\ "failed" \in Status \ {"completed"}
    BY DEF Status
  <2>2. QED
    BY <1>2, <1>4, <2>1, StatusStep
<1>5. CASE \E v \in Schedule(w, online, Live) : Commit(v)
  <2>1. Good(w) /\ \A u \in Tasks : row[u].st = "completed" => w.row[u].st = "completed"
    BY <1>1, <1>3, UndoneGood
  <2> HIDE DEF w
  <2>2. PICK v \in Schedule(w, online, Live) : Commit(v)
    BY <1>5
  <2>3. Good(v) /\ Keeps(w, v)
    BY <1>1, <2>1, <2>2, ScheduleGood DEF RestTypeOK
  <2>4. \A u \in Tasks : row[u].st = "completed" => v.row[u].st = "completed"
    BY <2>1, <2>3 DEF Keeps
  <2>5. QED
    BY <1>2, <2>2, <2>3, <2>4, Committed
<1>6. QED
  BY <1>4, <1>5 DEF DispatchTimeout

LEMMA HeartbeatTimeoutStep ==
  ASSUME IndInv, NEW s \in Stubs, HeartbeatTimeout(s)
  PROVE  IndInv' /\ CompletedStays
<1>1. Good(World) /\ RestTypeOK
  BY InvOfWorld
<1>2. left' \in [EventKinds -> Nat]
  <2>1. CASE conn[s] = "up"
    BY <1>1, <2>1, SpendTyped DEF HeartbeatTimeout, EventKinds
  <2>2. CASE conn[s] # "up"
    BY <1>1, <2>2 DEF HeartbeatTimeout, RestTypeOK
  <2>3. QED
    BY <2>1, <2>2
<1>3. RestTypeOK' /\ online' \in SUBSET Stubs
  BY <1>1, <1>2 DEF HeartbeatTimeout, stub, RestTypeOK
<1>4. PICK w \in FailDisconnected(Requeue(World, s), s, online', Live) : Commit(w)
  BY DEF HeartbeatTimeout
<1>5. /\ Good(Requeue(World, s))
      /\ \A t \in Tasks : Requeue(World, s).row[t].st = "completed"
                          <=> World.row[t].st = "completed"
  BY <1>1, RequeueGood
<1>6. Good(w) /\ Keeps(Requeue(World, s), w)
  BY <1>3, <1>4, <1>5, FailDisconnectedGood
<1>7. \A t \in Tasks : row[t].st = "completed" => w.row[t].st = "completed"
  BY <1>5, <1>6 DEF Keeps, World
<1>8. QED
  BY <1>3, <1>4, <1>6, <1>7, Committed

LEMMA DisconnectStep ==
  ASSUME IndInv, NEW s \in Stubs, Disconnect(s)
  PROVE  IndInv' /\ CompletedStays
<1> DEFINE w == Requeue(World, s)
           R == {t \in HeldIn(w, s, {"running", "paused"}) : w.row[t].st \in {"running", "paused"}}
           c == [t \in R |-> Flag(w.mem[s][t], TRUE, w.mem[s][t].kill)]
           v == Put(w, s, c)
<1>1. Good(World) /\ RestTypeOK
  BY InvOfWorld
<1>2. RestTypeOK' /\ online' \in SUBSET Stubs
  BY <1>1 DEF Disconnect, stub, RestTypeOK
<1>3. PICK x \in Schedule(v, online', Live) : Commit(x)
  BY DEF Disconnect
<1>4. Good(w) /\ \A t \in Tasks : w.row[t].st = "completed" <=> World.row[t].st = "completed"
  BY <1>1, RequeueGood
<1>5. R \in SUBSET Tasks
  BY DEF HeldIn
<1>6. \A t \in R : w.mem[s][t].st \in {"running", "paused"}
  BY DEF HeldIn
<1>7. DOMAIN c = R /\ \A t \in R : c[t] = Flag(w.mem[s][t], TRUE, w.mem[s][t].kill)
  OBVIOUS
<1> HIDE DEF w, R, c
<1>8. \A t \in R : w.mem[s][t].kill \in BOOLEAN
  BY <1>4, <1>5, WorldParts DEF Good, Copy
<1>9. \A t \in R : \E off, kill \in BOOLEAN : c[t] = Flag(w.mem[s][t], off, kill)
  BY <1>7, <1>8
<1>10. Good(v) /\ Keeps(w, v)
  BY <1>4, <1>5, <1>6, <1>7, <1>9, FlagGood
<1> HIDE DEF v
<1>11. Good(x) /\ Keeps(v, x)
  BY <1>2, <1>3, <1>10, ScheduleGood
<1>12. \A t \in Tasks : row[t].st = "completed" => x.row[t].st = "completed"
  BY <1>4, <1>10, <1>11 DEF Keeps, World
<1>13. QED
  BY <1>2, <1>3, <1>11, <1>12, Committed

LEMMA DisconnectFailStep ==
  ASSUME IndInv, NEW s \in Stubs, DisconnectFail(s)
  PROVE  IndInv' /\ CompletedStays
<1>1. Good(World) /\ RestTypeOK
  BY InvOfWorld
<1>2. RestTypeOK'
  BY <1>1 DEF DisconnectFail, stub, RestTypeOK
<1>3. CASE s \in online
  <2>1. Commit(World) /\ Keeps(World, World)
    BY <1>3 DEF DisconnectFail, Keeps
  <2>2. QED
    BY <1>1, <1>2, <2>1, CommittedKeeping
<1>4. CASE s \notin online
  <2>1. PICK w \in FailDisconnected(World, s, online, Live) : Commit(w)
    BY <1>4 DEF DisconnectFail
  <2>2. Good(w) /\ Keeps(World, w)
    BY <1>1, <2>1, FailDisconnectedGood DEF RestTypeOK
  <2>3. QED
    BY <1>2, <2>1, <2>2, CommittedKeeping
<1>5. QED
  BY <1>3, <1>4

LEMMA SyncRequestStep ==
  ASSUME IndInv, NEW s \in Stubs, SyncRequest(s)
  PROVE  IndInv' /\ CompletedStays
<1>1. RestTypeOK
  BY InvOfWorld
<1>2. RestTypeOK'
  BY <1>1, SpendTyped DEF SyncRequest, KeepServer, stub, RestTypeOK, EventKinds
<1>3. down' \in [Stubs -> SUBSET DownMsg]
  BY MsgFacts DEF SyncRequest, IndInv, TypeOK
<1>4. QED
  BY <1>2, <1>3, TasksUnchanged DEF SyncRequest

LEMMA ServerRestartStep == IndInv /\ ServerRestart => IndInv' /\ CompletedStays
<1> SUFFICES ASSUME IndInv, ServerRestart PROVE IndInv' /\ CompletedStays
  OBVIOUS
<1> DEFINE Kept(s, t) == row[t].loc = "stub" /\ row[t].home = s /\ row[t].st # "assigned"
           C(t) == [st |-> row[t].st, off |-> row[t].off, kill |-> row[t].kill]
<1>1. TypeOK /\ RestTypeOK /\ OneHome /\ CompletedGone
  BY InvOfWorld DEF IndInv
<1>2. /\ mem' = [s \in Stubs |-> [t \in Tasks |-> IF Kept(s, t) THEN C(t) ELSE Absent]]
      /\ row' = [t \in Tasks |-> IF row[t].loc = "stub" /\ row[t].st = "assigned"
                                 THEN Moved(row[t], "global", NoStub, "pending") ELSE row[t]]
  BY DEF ServerRestart
<1>3. \A t \in Tasks : C(t) \in Copy
  BY <1>1 DEF TypeOK, Row, Copy
<1> HIDE DEF C
<1>4. mem' \in [Stubs -> [Tasks -> Copy]]
  BY <1>2, <1>3, RowFacts
<1>5. row' \in [Tasks -> Row]
  <2>1. \A t \in Tasks : row[t] \in Row /\ Moved(row[t], "global", NoStub, "pending") \in Row
    BY <1>1, RowFacts DEF TypeOK, Locations, Status
  <2>2. QED
    BY <1>2, <2>1
<1>6. down' \in [Stubs -> SUBSET DownMsg]
  BY DEF ServerRestart, DownMsg
<1>7. RestTypeOK'
  <2>1. up' \in [Stubs -> Seq(UpMsg)]
    BY DEF ServerRestart
  <2>2. left' \in [EventKinds -> Nat]
    BY <1>1, SpendTyped DEF ServerRestart, EventKinds
  <2>3. QED
    BY <1>1, <2>1, <2>2 DEF ServerRestart, RestTypeOK
<1>8. \A s \in Stubs, t \in Tasks :
        mem'[s][t].st # "absent" => /\ row[t].home = s /\ row[t].loc = "stub"
                                    /\ row'[t] = row[t]
  BY <1>2, FieldFacts
<1>9. \A t \in Tasks : /\ row'[t].st = "completed" => row'[t] = row[t]
                       /\ row[t].st = "completed" => row'[t] = row[t]
  BY <1>2, FieldFacts
<1>10. OneHome'
  BY <1>8 DEF OneHome
<1>11. CompletedGone'
  BY <1>1, <1>8, <1>9 DEF CompletedGone
<1>12. TypeOK'
  BY <1>4, <1>5, <1>6, <1>7 DEF TypeOK, RestTypeOK
<1>13. QED
  BY <1>9, <1>10, <1>11, <1>12 DEF IndInv, CompletedStays

(***************************************************************************)
(* The events of a stub.                                                   *)
(***************************************************************************)
LEMMA QueueFacts ==
  ASSUME RestTypeOK, NEW s \in Stubs, up[s] # <<>>
  PROVE  /\ Head(up[s]) \in UpMsg
         /\ [up EXCEPT ![s] = Tail(@)] \in [Stubs -> Seq(UpMsg)]
<1>1. up[s] \in Seq(UpMsg)
  BY DEF RestTypeOK
<1>2. Head(up[s]) \in UpMsg /\ Tail(up[s]) \in Seq(UpMsg)
  BY <1>1
<1>3. QED
  BY <1>2 DEF RestTypeOK

LEMMA ReceiveTyped ==
  ASSUME RestTypeOK, NEW s \in Stubs, NEW m, Receive(s, m),
         killTimers' \in SUBSET killTimers
  PROVE  RestTypeOK'
<1>1. up' \in [Stubs -> Seq(UpMsg)]
  BY QueueFacts DEF Receive
<1>2. QED
  BY <1>1 DEF Receive, RestTypeOK

LEMMA ResumeStep ==
  ASSUME IndInv, NEW s \in Stubs, Resume(s)
  PROVE  IndInv' /\ CompletedStays
<1> DEFINE m == Head(up[s])
           live == Live \cup {s}
<1>1. Good(World) /\ RestTypeOK
  BY InvOfWorld
<1>2. m \in UpMsg /\ up' \in [Stubs -> Seq(UpMsg)]
  BY <1>1, QueueFacts DEF Resume
<1>3. RestTypeOK'
  BY <1>1, <1>2 DEF Resume, RestTypeOK
<1>4. PICK w \in CaseA(s, m, live) :
        LET v == DeadElsewhere(DeadHere(w, s, m), s, m)
        IN  \E a \in RestoredArrays(v, s, m) :
              \E x \in Schedule(Send(SetStub(v, s, a), s, live,
                                     {Msg("clear", NoTask)}
                                     \cup {Msg("kill", t) : t \in ToKill(w, s, m)}),
                                online \cup {s}, live) : Commit(x)
  BY DEF Resume
<1> DEFINE u == DeadHere(w, s, m)
           v == DeadElsewhere(u, s, m)
           ms == {Msg("clear", NoTask)} \cup {Msg("kill", t) : t \in ToKill(w, s, m)}
<1>5. PICK a \in RestoredArrays(v, s, m) :
        \E x \in Schedule(Send(SetStub(v, s, a), s, live, ms), online \cup {s}, live) : Commit(x)
  BY <1>4
<1> DEFINE y == SetStub(v, s, a)
           z == Send(y, s, live, ms)
<1>6. PICK x \in Schedule(z, online \cup {s}, live) : Commit(x)
  BY <1>5
<1>7. m.run \in SUBSET Tasks /\ m.gone \in SUBSET Tasks
  BY <1>2, ReportedTasks
<1>8. ms \in SUBSET DownMsg
  BY <1>7, MsgFacts DEF ToKill
<1>9. u = SetStatus(w, s, {t \in m.gone : w.mem[s][t].st \in Reserving}, "failed")
  BY DEF DeadHere
<1> HIDE DEF m, live, ms, u
<1>10. Good(w) /\ Keeps(World, w)
  BY <1>1, CaseAGood DEF RestTypeOK
<1>11. Good(u) /\ Keeps(w, u)
  <2>1. {t \in m.gone : w.mem[s][t].st \in Reserving} \in SUBSET Tasks
    BY <1>7
  <2>2. "failed" \in Status /\ "failed" # "completed"
    BY DEF Status
  <2>3. QED
    BY <1>9, <1>10, <2>1, <2>2, SetStatusGood
<1>12. Good(v) /\ Keeps(u, v)
  BY <1>11, DeadElsewhereGood
<1> HIDE DEF v
<1>13. Keeps(World, v)
  BY <1>10, <1>11, <1>12, KeepsTransitive
<1>14. Good(y) /\ Keeps(v, y)
  BY <1>1, <1>5, <1>12, <1>13, RestoredGood
<1> HIDE DEF y
<1>15. Good(z) /\ Keeps(y, z)
  BY <1>8, <1>14, SendGood
<1> HIDE DEF z
<1>16. Good(x) /\ Keeps(z, x)
  <2>1. online \cup {s} \in SUBSET Stubs
    BY <1>1 DEF RestTypeOK
  <2>2. QED
    BY <1>6, <1>15, <2>1, ScheduleGood
<1>17. Keeps(World, x)
  BY <1>13, <1>14, <1>15, <1>16, KeepsTransitive
<1>18. QED
  BY <1>3, <1>6, <1>16, <1>17, CommittedKeeping

LEMMA HandleTaskStartedStep ==
  ASSUME IndInv, NEW s \in Stubs, NEW t \in Tasks, HandleTaskStarted(s, t)
  PROVE  IndInv' /\ CompletedStays
<1>1. RestTypeOK
  BY InvOfWorld
<1>2. RestTypeOK'
  BY <1>1, ReceiveTyped DEF HandleTaskStarted
<1>3. {t} \in SUBSET Tasks /\ "running" \in Status \ {"completed"}
  BY DEF Status
<1>4. QED
  BY <1>2, <1>3, StatusStep DEF HandleTaskStarted

LEMMA HandleTaskLogStep ==
  ASSUME IndInv, NEW s \in Stubs, NEW t \in Tasks, HandleTaskLog(s, t)
  PROVE  IndInv' /\ CompletedStays
<1>1. Good(World) /\ RestTypeOK
  BY InvOfWorld
<1>2. RestTypeOK'
  BY <1>1, ReceiveTyped DEF HandleTaskLog
<1>3. CASE ~Held(World, s, t)
  <2>1. Commit(World) /\ Keeps(World, World)
    BY <1>3 DEF HandleTaskLog, Keeps
  <2>2. QED
    BY <1>1, <1>2, <2>1, CommittedKeeping
<1>4. CASE Held(World, s, t)
  <2> DEFINE st == IF mem[s][t].st = "assigned" THEN "running" ELSE mem[s][t].st
  <2>1. st \in Status
    <3>1. mem[s][t] \in Copy /\ mem[s][t].st # "absent"
      BY <1>1, <1>4, WorldParts DEF World, Good, Held
    <3>2. QED
      BY <3>1 DEF Copy, Status
  <2>2. Commit(SetStatus(World, s, {t}, st))
    BY <1>4 DEF HandleTaskLog
  <2> HIDE DEF st
  <2>3. /\ Good(SetStatus(World, s, {t}, st))
        /\ \A u \in Tasks : World.row[u].st = "completed" =>
                              SetStatus(World, s, {t}, st).row[u].st = "completed"
    BY <1>1, <2>1, SetStatusGood
  <2>4. World.row = row
    BY DEF World
  <2>5. QED
    BY <1>2, <2>2, <2>3, <2>4, Committed
<1>5. QED
  BY <1>3, <1>4

\* A step that writes a status, then schedules.
LEMMA StatusThenSchedule ==
  ASSUME IndInv, NEW s \in Stubs, NEW T \in SUBSET Tasks, NEW st \in Status,
         NEW on \in SUBSET Stubs, NEW live,
         NEW v \in Schedule(SetStatus(World, s, T, st), on, live), Commit(v), RestTypeOK'
  PROVE  IndInv' /\ CompletedStays
<1> DEFINE w == SetStatus(World, s, T, st)
<1>1. Good(w) /\ \A t \in Tasks : World.row[t].st = "completed" => w.row[t].st = "completed"
  BY InvOfWorld, SetStatusGood
<1> HIDE DEF w
<1>2. v \in Schedule(w, on, live)
  BY DEF w
<1>3. Good(v) /\ Keeps(w, v)
  BY <1>1, <1>2, ScheduleGood
<1>4. World.row = row
  BY DEF World
<1>5. \A t \in Tasks : row[t].st = "completed" => v.row[t].st = "completed"
  BY <1>1, <1>3, <1>4 DEF Keeps
<1>6. QED
  BY <1>3, <1>5, Committed

LEMMA NothingCommitted ==
  ASSUME IndInv, Commit(World), RestTypeOK'
  PROVE  IndInv' /\ CompletedStays
<1>1. Good(World) /\ Keeps(World, World)
  BY InvOfWorld DEF Keeps
<1>2. QED
  BY <1>1, CommittedKeeping

LEMMA HandleTaskCompletedStep ==
  ASSUME IndInv, NEW s \in Stubs, NEW t \in Tasks, HandleTaskCompleted(s, t)
  PROVE  IndInv' /\ CompletedStays
<1> DEFINE target == IF mem[s][t].kill THEN "cancelled" ELSE "completed"
<1>1. RestTypeOK
  BY InvOfWorld
<1>2. killTimers' \in SUBSET killTimers
  BY DEF HandleTaskCompleted
<1>3. RestTypeOK'
  BY <1>1, <1>2, ReceiveTyped DEF HandleTaskCompleted
<1>4. \/ Commit(World)
      \/ \E v \in Schedule(SetStatus(World, s, {t}, target), online, Live) : Commit(v)
  BY DEF HandleTaskCompleted
<1>5. target \in Status /\ {t} \in SUBSET Tasks /\ online \in SUBSET Stubs
  BY <1>1 DEF Status, RestTypeOK
<1> HIDE DEF target
<1>6. QED
  BY <1>3, <1>4, <1>5, StatusThenSchedule, NothingCommitted

LEMMA HandlePreflightFailStep ==
  ASSUME IndInv, NEW s \in Stubs, NEW t \in Tasks, HandlePreflightFail(s, t)
  PROVE  IndInv' /\ CompletedStays
<1>1. RestTypeOK
  BY InvOfWorld
<1>2. RestTypeOK'
  BY <1>1, ReceiveTyped DEF HandlePreflightFail
<1>3. \/ Commit(World)
      \/ \E v \in Schedule(SetStatus(World, s, {t}, "failed"), online, Live) : Commit(v)
  BY DEF HandlePreflightFail
<1>4. "failed" \in Status /\ {t} \in SUBSET Tasks /\ online \in SUBSET Stubs
  BY <1>1 DEF Status, RestTypeOK
<1>5. QED
  BY <1>2, <1>3, <1>4, StatusThenSchedule, NothingCommitted

LEMMA HandleTaskFailedStep ==
  ASSUME IndInv, NEW s \in Stubs, NEW t \in Tasks, NEW k \in {"failed", "resumable"},
         HandleTaskFailed(s, t, k)
  PROVE  IndInv' /\ CompletedStays
<1> DEFINE target == IF mem[s][t].kill THEN "cancelled" ELSE "failed"
           w == SetStatus(World, s, {t}, target)
<1>1. Good(World) /\ RestTypeOK
  BY InvOfWorld
<1>2. killTimers' \in SUBSET killTimers
  BY DEF HandleTaskFailed
<1>3. RestTypeOK'
  BY <1>1, <1>2, ReceiveTyped DEF HandleTaskFailed
<1>4. \/ Commit(World)
      \/ \E v \in Schedule(w, online, Live) : Commit(v)
      \/ \E h \in RetryMaps(World, {t}) :
           \E v \in Schedule(AddRetries(w, h), online, Live) : Commit(v)
  BY DEF HandleTaskFailed
<1>5. target \in Status \ {"completed"} /\ {t} \in SUBSET Tasks /\ online \in SUBSET Stubs
  BY <1>1 DEF Status, RestTypeOK
<1> HIDE DEF target
<1>6. CASE Commit(World)
  BY <1>3, <1>6, NothingCommitted
<1>7. CASE \E v \in Schedule(w, online, Live) : Commit(v)
  BY <1>3, <1>5, <1>7, StatusThenSchedule
<1>8. CASE \E h \in RetryMaps(World, {t}) :
             \E v \in Schedule(AddRetries(w, h), online, Live) : Commit(v)
  <2>1. PICK h \in RetryMaps(World, {t}) :
          \E v \in Schedule(AddRetries(w, h), online, Live) : Commit(v)
    BY <1>8
  <2>2. PICK v \in Schedule(AddRetries(w, h), online, Live) : Commit(v)
    BY <2>1
  <2>3. PICK N \in SUBSET {u \in Tasks : World.row[u].loc = "none"} : h \in [N -> Tasks]
    BY <1>5, RetryMapsShape
  <2>4. /\ Good(w) /\ Keeps(World, w)
        /\ \A u \in Tasks : World.row[u].loc = "none" => w.row[u] = World.row[u]
    BY <1>1, <1>5, SetStatusGood
  <2> HIDE DEF w
  <2>5. N \in SUBSET {u \in Tasks : w.row[u].loc = "none"}
    BY <2>3, <2>4
  <2>6. Good(AddRetries(w, h)) /\ Keeps(w, AddRetries(w, h))
    BY <2>3, <2>4, <2>5, AddRetriesGood
  <2>7. Keeps(World, AddRetries(w, h)) /\ online \in SUBSET Stubs
    BY <1>5, <2>4, <2>6, KeepsTransitive
  <2>8. QED
    BY <1>3, <2>2, <2>6, <2>7, ScheduleStep
<1>9. QED
  BY <1>4, <1>6, <1>7, <1>8

LEMMA HandleSyncedStep ==
  ASSUME IndInv, NEW s \in Stubs, HandleSynced(s)
  PROVE  IndInv' /\ CompletedStays
<1> DEFINE m == Head(up[s])
           F == HeldIn(World, s, {"running", "assigned"}) \cap m.gone
           G(w) == HeldIn(w, s, {"running", "assigned"}) \ (m.run \cup m.gone)
<1>1. Good(World) /\ RestTypeOK
  BY InvOfWorld
<1>2. RestTypeOK'
  BY <1>1, ReceiveTyped DEF HandleSynced
<1>3. F \in SUBSET Tasks /\ \A w : G(w) \in SUBSET Tasks
  BY DEF HeldIn
<1>4. PICK w \in FailAndRetry(World, s, F, online, Live) :
        \E v \in FailAndRetry(w, s, G(w), online, Live) : Commit(v)
  BY DEF HandleSynced
<1> HIDE DEF m, F, G
<1>5. Good(w) /\ Keeps(World, w)
  BY <1>1, <1>3, <1>4, FailAndRetryGood DEF RestTypeOK
<1>6. PICK v \in FailAndRetry(w, s, G(w), online, Live) : Commit(v)
  BY <1>4
<1>7. Good(v) /\ Keeps(w, v)
  BY <1>1, <1>3, <1>5, <1>6, FailAndRetryGood DEF RestTypeOK
<1>8. Keeps(World, v)
  BY <1>5, <1>7, KeepsTransitive
<1>9. QED
  BY <1>2, <1>6, <1>7, <1>8, CommittedKeeping

(***************************************************************************)
(* The daemon and the link: they write no task.                            *)
(***************************************************************************)
LEMMA EmitTyped ==
  ASSUME RestTypeOK, NEW s \in Stubs, NEW ms \in Seq(UpMsg), Emit(s, ms)
  PROVE  up' \in [Stubs -> Seq(UpMsg)]
<1>1. up[s] \in Seq(UpMsg)
  BY DEF RestTypeOK
<1>2. up[s] \o ms \in Seq(UpMsg)
  BY <1>1
<1>3. QED
  BY <1>2 DEF Emit, RestTypeOK

LEMMA TakeTyped ==
  ASSUME IndInv, NEW s \in Stubs, NEW m, Take(s, m)
  PROVE  down' \in [Stubs -> SUBSET DownMsg]
BY DEF Take, IndInv, TypeOK

\* Start changes up and procs only, and keeps the type of both.
LEMMA StartTyped ==
  ASSUME IndInv, NEW s \in Stubs, NEW t \in Tasks, Start(s, t)
  PROVE  /\ up' \in [Stubs -> Seq(UpMsg)]
         /\ procs' \in [Stubs -> [Tasks -> ProcState]]
<1>1. RestTypeOK
  BY InvOfWorld
<1>2. up' \in [Stubs -> Seq(UpMsg)]
  <2>1. <<Event("started", t)>> \in Seq(UpMsg)
    BY MsgFacts
  <2>2. CASE procs[s][t] = "none"
    BY <1>1, <2>1, <2>2, EmitTyped DEF Start
  <2>3. CASE procs[s][t] # "none"
    BY <1>1, <2>3 DEF Start, RestTypeOK
  <2>4. QED
    BY <2>2, <2>3
<1>3. procs' \in [Stubs -> [Tasks -> ProcState]]
  <2>1. procs' = procs \/ procs' = [procs EXCEPT ![s][t] = "running"]
    BY DEF Start
  <2>2. "running" \in ProcState
    BY DEF ProcState, Alive
  <2>3. procs \in [Stubs -> [Tasks -> ProcState]]
    BY <1>1 DEF RestTypeOK
  <2>4. [procs EXCEPT ![s][t] = "running"] \in [Stubs -> [Tasks -> ProcState]]
    BY <2>2, <2>3
  <2>5. QED
    BY <2>1, <2>3, <2>4
<1>4. QED
  BY <1>2, <1>3

LEMMA RunTaskStep ==
  ASSUME IndInv, NEW s \in Stubs, NEW t \in Tasks, RunTask(s, t)
  PROVE  IndInv' /\ CompletedStays
<1>1. RestTypeOK
  BY InvOfWorld
<1>2. down' \in [Stubs -> SUBSET DownMsg]
  BY TakeTyped DEF RunTask
<1>3. RestTypeOK'
  BY <1>1, StartTyped DEF RunTask, Start, server, RestTypeOK
<1>4. QED
  BY <1>2, <1>3, TasksUnchanged DEF RunTask, Start, server

LEMMA RunRepeatedStep ==
  ASSUME IndInv, NEW s \in Stubs, NEW t \in Tasks, RunRepeated(s, t)
  PROVE  IndInv' /\ CompletedStays
<1>1. RestTypeOK
  BY InvOfWorld
<1>2. down' \in [Stubs -> SUBSET DownMsg]
  BY DEF RunRepeated, IndInv, TypeOK
<1>3. left' \in [EventKinds -> Nat]
  BY <1>1, SpendTyped DEF RunRepeated, EventKinds
<1>4. RestTypeOK'
  BY <1>1, <1>3, StartTyped DEF RunRepeated, Start, server, RestTypeOK
<1>5. QED
  BY <1>2, <1>4, TasksUnchanged DEF RunRepeated, Start, server

LEMMA FailPreflightStep ==
  ASSUME IndInv, NEW s \in Stubs, NEW t \in Tasks, FailPreflight(s, t)
  PROVE  IndInv' /\ CompletedStays
<1>1. RestTypeOK
  BY InvOfWorld
<1>2. down' \in [Stubs -> SUBSET DownMsg]
  BY TakeTyped DEF FailPreflight
<1>3. up' \in [Stubs -> Seq(UpMsg)]
  <2>1. <<Event("log", t), Event("pfail", t), Event("failed", t)>> \in Seq(UpMsg)
    BY MsgFacts
  <2>2. QED
    BY <1>1, <2>1, EmitTyped DEF FailPreflight
<1>4. left' \in [EventKinds -> Nat]
  BY <1>1, SpendTyped DEF FailPreflight, EventKinds
<1>5. RestTypeOK'
  BY <1>1, <1>3, <1>4 DEF FailPreflight, server, RestTypeOK
<1>6. QED
  BY <1>2, <1>5, TasksUnchanged DEF FailPreflight, server

LEMMA KillProcessStep ==
  ASSUME IndInv, NEW s \in Stubs, NEW t \in Tasks, KillProcess(s, t)
  PROVE  IndInv' /\ CompletedStays
<1>1. RestTypeOK
  BY InvOfWorld
<1>2. down' \in [Stubs -> SUBSET DownMsg]
  BY TakeTyped DEF KillProcess
<1>3. procs' \in [Stubs -> [Tasks -> ProcState]]
  BY <1>1 DEF KillProcess, RestTypeOK, ProcState, Alive
<1>4. RestTypeOK'
  BY <1>1, <1>3 DEF KillProcess, server, RestTypeOK
<1>5. QED
  BY <1>2, <1>4, TasksUnchanged DEF KillProcess, server

LEMMA ClearDeadStep ==
  ASSUME IndInv, NEW s \in Stubs, ClearDead(s)
  PROVE  IndInv' /\ CompletedStays
<1>1. RestTypeOK
  BY InvOfWorld
<1>2. down' \in [Stubs -> SUBSET DownMsg]
  BY TakeTyped DEF ClearDead
<1>3. RestTypeOK'
  BY <1>1 DEF ClearDead, server, RestTypeOK
<1>4. QED
  BY <1>2, <1>3, TasksUnchanged DEF ClearDead, server

LEMMA AnswerSyncStep ==
  ASSUME IndInv, NEW s \in Stubs, AnswerSync(s)
  PROVE  IndInv' /\ CompletedStays
<1>1. RestTypeOK
  BY InvOfWorld
<1>2. down' \in [Stubs -> SUBSET DownMsg]
  BY TakeTyped DEF AnswerSync
<1> DEFINE run == {t \in Tasks : procs[s][t] \in Alive}
           gone == {t \in Tasks : procs[s][t] \in Exited}
<1>3. <<Report("synced", run, gone)>> \in Seq(UpMsg)
  <2>1. run \in SUBSET Tasks /\ gone \in SUBSET Tasks
    OBVIOUS
  <2> HIDE DEF run, gone
  <2>2. QED
    BY <2>1, MsgFacts
<1>4. up' \in [Stubs -> Seq(UpMsg)]
  BY <1>1, <1>3, EmitTyped DEF AnswerSync
<1>5. RestTypeOK'
  BY <1>1, <1>4 DEF AnswerSync, server, RestTypeOK
<1>6. QED
  BY <1>2, <1>5, TasksUnchanged DEF AnswerSync, server

LEMMA ExitStep ==
  ASSUME IndInv, NEW s \in Stubs, NEW t \in Tasks, Exit(s, t)
  PROVE  IndInv' /\ CompletedStays
<1>1. RestTypeOK
  BY InvOfWorld
<1>2. PICK p \in ProcState : procs' = [procs EXCEPT ![s][t] = p]
  BY ConstantsAssumption DEF Exit, ProcState, Exited, Alive
<1>3. procs' \in [Stubs -> [Tasks -> ProcState]]
  BY <1>1, <1>2 DEF RestTypeOK
<1>4. RestTypeOK'
  BY <1>1, <1>3 DEF Exit, server, RestTypeOK
<1>5. down' \in [Stubs -> SUBSET DownMsg]
  BY DEF Exit, IndInv, TypeOK
<1>6. QED
  BY <1>4, <1>5, TasksUnchanged DEF Exit, server

LEMMA EmitLogStep ==
  ASSUME IndInv, NEW s \in Stubs, NEW t \in Tasks, EmitLog(s, t)
  PROVE  IndInv' /\ CompletedStays
<1>1. RestTypeOK
  BY InvOfWorld
<1>2. <<Event("log", t)>> \in Seq(UpMsg)
  BY MsgFacts
<1>3. up' \in [Stubs -> Seq(UpMsg)]
  BY <1>1, <1>2, EmitTyped DEF EmitLog
<1>4. left' \in [EventKinds -> Nat]
  BY <1>1, SpendTyped DEF EmitLog, EventKinds
<1>5. RestTypeOK'
  BY <1>1, <1>3, <1>4 DEF EmitLog, server, RestTypeOK
<1>6. down' \in [Stubs -> SUBSET DownMsg]
  BY DEF EmitLog, IndInv, TypeOK
<1>7. QED
  BY <1>5, <1>6, TasksUnchanged DEF EmitLog, server

LEMMA ReapStep ==
  ASSUME IndInv, NEW s \in Stubs, NEW t \in Tasks, Reap(s, t)
  PROVE  IndInv' /\ CompletedStays
<1>1. RestTypeOK
  BY InvOfWorld
<1>2. /\ <<Event("completed", t)>> \in Seq(UpMsg)
      /\ <<Event("log", t), Event("failed", t)>> \in Seq(UpMsg)
      /\ <<Event("log", t), Event("resumable", t)>> \in Seq(UpMsg)
  BY MsgFacts
<1>3. \E ms \in Seq(UpMsg) : Emit(s, ms)
  <2>1. CASE procs[s][t] = "exit_ok"
    BY <1>2, <2>1 DEF Reap
  <2>2. CASE procs[s][t] = "exit_bad"
    BY <1>2, <2>2 DEF Reap
  <2>3. CASE procs[s][t] = "exit_resumable"
    BY <1>2, <2>3 DEF Reap
  <2>4. QED
    BY <2>1, <2>2, <2>3 DEF Reap, Exited
<1>4. up' \in [Stubs -> Seq(UpMsg)]
  BY <1>1, <1>3, EmitTyped
<1>5. procs' \in [Stubs -> [Tasks -> ProcState]]
  BY <1>1 DEF Reap, RestTypeOK, ProcState
<1>6. RestTypeOK'
  BY <1>1, <1>4, <1>5 DEF Reap, server, RestTypeOK
<1>7. down' \in [Stubs -> SUBSET DownMsg]
  BY DEF Reap, IndInv, TypeOK
<1>8. QED
  BY <1>6, <1>7, TasksUnchanged DEF Reap, server

\* Losing a link types what it touches; procs, dead and left are the caller's.
LEMMA LoseLinkTyped ==
  ASSUME IndInv, NEW s \in Stubs, NEW keep, LoseLink(s, keep)
  PROVE  /\ down' \in [Stubs -> SUBSET DownMsg]
         /\ link' \subseteq Stubs
         /\ up' \in [Stubs -> Seq(UpMsg)]
         /\ conn' \in [Stubs -> {"none", "up", "broken"}]
<1>1. RestTypeOK /\ down \in [Stubs -> SUBSET DownMsg]
  BY InvOfWorld DEF IndInv, TypeOK
<1>2. keep \in SUBSET DownMsg
  BY <1>1 DEF LoseLink
<1>3. down' \in [Stubs -> SUBSET DownMsg]
  BY <1>1, <1>2 DEF LoseLink
<1>4. up' \in [Stubs -> Seq(UpMsg)]
  <2>1. <<>> \in Seq(UpMsg)
    OBVIOUS
  <2>2. QED
    BY <1>1, <2>1 DEF LoseLink, RestTypeOK
<1>5. QED
  BY <1>1, <1>3, <1>4 DEF LoseLink, RestTypeOK

LEMMA LinkDropStep ==
  ASSUME IndInv, NEW s \in Stubs, LinkDrop(s)
  PROVE  IndInv' /\ CompletedStays
<1>1. RestTypeOK
  BY InvOfWorld
<1>2. PICK keep : LoseLink(s, keep)
  BY DEF LinkDrop
<1>3. left' \in [EventKinds -> Nat]
  BY <1>1, SpendTyped DEF LinkDrop, EventKinds
<1>4. RestTypeOK'
  BY <1>1, <1>2, <1>3, LoseLinkTyped DEF LinkDrop, LoseLink, RestTypeOK
<1>5. QED
  BY <1>2, <1>4, LoseLinkTyped, TasksUnchanged DEF LoseLink

LEMMA StubCrashStep ==
  ASSUME IndInv, NEW s \in Stubs, StubCrash(s)
  PROVE  IndInv' /\ CompletedStays
<1>1. RestTypeOK
  BY InvOfWorld
<1>2. LoseLink(s, {})
  BY DEF StubCrash
<1>3. left' \in [EventKinds -> Nat]
  BY <1>1, SpendTyped DEF StubCrash, EventKinds
<1>4. PICK survivors \in SUBSET {t \in Tasks : procs[s][t] \in Alive} :
        /\ procs' = [procs EXCEPT ![s] =
                       [t \in Tasks |-> IF t \in survivors THEN "adopted" ELSE "none"]]
        /\ dead' = [dead EXCEPT ![s] = {t \in Tasks : procs[s][t] # "none"} \ survivors]
  BY DEF StubCrash
<1>5. procs' \in [Stubs -> [Tasks -> ProcState]]
  <2>1. [t \in Tasks |-> IF t \in survivors THEN "adopted" ELSE "none"] \in [Tasks -> ProcState]
    BY DEF ProcState, Alive
  <2>2. QED
    BY <1>1, <1>4, <2>1 DEF RestTypeOK
<1>6. dead' \in [Stubs -> SUBSET Tasks]
  BY <1>1, <1>4 DEF RestTypeOK
<1>7. RestTypeOK'
  BY <1>1, <1>2, <1>3, <1>5, <1>6, LoseLinkTyped DEF LoseLink, RestTypeOK
<1>8. QED
  BY <1>2, <1>7, LoseLinkTyped, TasksUnchanged DEF LoseLink

LEMMA ConnectStep ==
  ASSUME IndInv, NEW s \in Stubs, Connect(s)
  PROVE  IndInv' /\ CompletedStays
<1>1. RestTypeOK
  BY InvOfWorld
<1> DEFINE run == {t \in Tasks : procs[s][t] # "none"}
<1>2. Report("resume", run, dead[s]) \in UpMsg
  <2>1. run \in SUBSET Tasks /\ dead[s] \in SUBSET Tasks
    BY <1>1 DEF RestTypeOK
  <2> HIDE DEF run
  <2>2. QED
    BY <2>1, MsgFacts
<1>3. <<Report("resume", run, dead[s])>> \in Seq(UpMsg)
  BY <1>2
<1>4. up' \in [Stubs -> Seq(UpMsg)]
  BY <1>1, <1>3 DEF Connect, RestTypeOK
<1>5. left' \in [EventKinds -> Nat]
  <2>1. CASE conn[s] = "broken"
    BY <1>1, <2>1, SpendTyped DEF Connect, EventKinds
  <2>2. CASE conn[s] # "broken"
    BY <1>1, <2>2 DEF Connect, RestTypeOK
  <2>3. QED
    BY <2>1, <2>2
<1>6. RestTypeOK'
  BY <1>1, <1>4, <1>5 DEF Connect, server, RestTypeOK
<1>7. down' \in [Stubs -> SUBSET DownMsg]
  BY DEF Connect, IndInv, TypeOK
<1>8. QED
  BY <1>6, <1>7, TasksUnchanged DEF Connect, server

(***************************************************************************)
(* The theorems.                                                           *)
(***************************************************************************)
LEMMA InitInv == Init => IndInv
<1> SUFFICES ASSUME Init PROVE IndInv
  OBVIOUS
<1>1. NoRow \in Row
  <2>1. "none" \in Locations
    BY DEF Locations
  <2>2. QED
    BY <2>1, RowFacts DEF NoRow
<1>2. NoRow.st = "pending" /\ Absent.st = "absent"
  BY FieldFacts DEF NoRow
<1>3. <<>> \in Seq(UpMsg)
  OBVIOUS
<1>4. TypeOK
  BY <1>1, <1>3, RowFacts, ConstantsAssumption DEF Init, TypeOK, ProcState
<1>5. OneHome /\ CompletedGone
  BY <1>2 DEF Init, OneHome, CompletedGone
<1>6. QED
  BY <1>4, <1>5 DEF IndInv

LEMMA ServerInv == IndInv /\ Server => IndInv' /\ CompletedStays
<1> SUFFICES ASSUME IndInv, Server PROVE IndInv' /\ CompletedStays
  OBVIOUS
<1>1. CASE Submit \/ ScheduleTick \/ ServerRestart
  BY <1>1, SubmitStep, ScheduleTickStep, ServerRestartStep
<1>2. CASE \E t \in Tasks : Kill(t) \/ CancelAssigned(t) \/ Pause(t)
  BY <1>2, KillStep, CancelAssignedStep, PauseStep
<1>3. CASE \E s \in Stubs : \/ HeartbeatTimeout(s) \/ Disconnect(s) \/ DisconnectFail(s)
                            \/ SyncRequest(s) \/ Resume(s) \/ HandleSynced(s)
  BY <1>3, HeartbeatTimeoutStep, DisconnectStep, DisconnectFailStep, SyncRequestStep,
     ResumeStep, HandleSyncedStep
<1>4. CASE \E s \in Stubs, t \in Tasks :
             \/ KillAgain(s, t) \/ DispatchTimeout(s, t)
             \/ HandleTaskStarted(s, t) \/ HandleTaskLog(s, t) \/ HandleTaskCompleted(s, t)
             \/ \E k \in {"failed", "resumable"} : HandleTaskFailed(s, t, k)
             \/ HandlePreflightFail(s, t)
  BY <1>4, KillAgainStep, DispatchTimeoutStep, HandleTaskStartedStep, HandleTaskLogStep,
     HandleTaskCompletedStep, HandleTaskFailedStep, HandlePreflightFailStep
<1>5. QED
  BY <1>1, <1>2, <1>3, <1>4 DEF Server

LEMMA DaemonInv == IndInv /\ Daemon => IndInv' /\ CompletedStays
<1> SUFFICES ASSUME IndInv, Daemon PROVE IndInv' /\ CompletedStays
  OBVIOUS
<1>1. CASE \E s \in Stubs : \/ ClearDead(s) \/ AnswerSync(s)
                            \/ LinkDrop(s) \/ StubCrash(s) \/ Connect(s)
  BY <1>1, ClearDeadStep, AnswerSyncStep, LinkDropStep, StubCrashStep, ConnectStep
<1>2. CASE \E s \in Stubs, t \in Tasks :
             \/ RunTask(s, t) \/ RunRepeated(s, t) \/ FailPreflight(s, t) \/ KillProcess(s, t)
             \/ Exit(s, t) \/ EmitLog(s, t) \/ Reap(s, t)
  BY <1>2, RunTaskStep, RunRepeatedStep, FailPreflightStep, KillProcessStep, ExitStep, EmitLogStep, ReapStep
<1>3. QED
  BY <1>1, <1>2 DEF Daemon

LEMMA NextInv == IndInv /\ [Next]_vars => IndInv' /\ (CompletedStays \/ UNCHANGED vars)
<1>1. IndInv /\ UNCHANGED vars => IndInv'
  BY DEF IndInv, TypeOK, OneHome, CompletedGone, vars
<1>2. QED
  BY <1>1, ServerInv, DaemonInv DEF Next

\* In every reachable state of every system of stubs, tasks and slots the server's
\* rows, arrays, timers and messages have their types, each object is in the array
\* of the stub its row names, and no completed task is left in an array.
THEOREM Invariance == Spec => []IndInv
BY InitInv, NextInv, PTL DEF Spec

\* Every write of the handlers, and every message, keeps its type.
THEOREM TypeCorrect == Spec => []TypeOK
<1>1. IndInv => TypeOK
  BY DEF IndInv
<1>2. QED
  BY <1>1, Invariance, PTL

\* A task object sits in the array of the stub its row names and in no other,
\* through every reconnect, restored array, requeue and restart.
THEOREM ObjectsHaveOneHome == Spec => []OneHome
<1>1. IndInv => OneHome
  BY DEF IndInv
<1>2. QED
  BY <1>1, Invariance, PTL

\* A completed task is archived and no array holds it.
THEOREM CompletedTasksAreGone == Spec => []CompletedGone
<1>1. IndInv => CompletedGone
  BY DEF IndInv
<1>2. QED
  BY <1>1, Invariance, PTL

\* A completed task is never assigned, failed, cancelled or queued again.
THEOREM CompletedIsFinal == Spec => CompletedFinal
<1>1. IndInv /\ [Next]_vars => [CompletedStays]_vars
  BY NextInv
<1>2. CompletedFinal <=> [][CompletedStays]_vars
  <2>1. CompletedStays <=> \A t \in Tasks : row[t].st = "completed" => row'[t].st = "completed"
    BY DEF CompletedStays
  <2>2. QED
    BY <2>1, PTL DEF CompletedFinal
<1>3. QED
  BY <1>1, <1>2, Invariance, PTL DEF Spec

(***************************************************************************)
(* The slots and the abstract life of a task.                              *)
(*                                                                         *)
(* What a world needs beyond Good for its slots to stay within bounds and  *)
(* its rows to move lawfully.                                              *)
(***************************************************************************)
\* A row lies where its status says.
Filed(w) ==
  \A t \in Tasks :
    /\ w.row[t].loc = "stub" => w.row[t].st \in Reserving /\ w.row[t].home \in Stubs
    /\ w.row[t].loc = "archive" => w.row[t].st \in Terminal
    /\ w.row[t].loc \in {"none", "global"} => w.row[t].st = "pending"

\* An object says what its row says, unless the row has failed behind its back.
Agrees(w) ==
  \A s \in Stubs, t \in Tasks :
    Held(w, s, t) => /\ w.mem[s][t].st \in Reserving \cup {"failed"}
                     /\ w.row[t].st \in {w.mem[s][t].st, "failed"}

\* A row that runs is backed by an object: a restart, which makes objects of
\* rows, brings back none that did not hold a slot.
Backed(w) ==
  \A s \in Stubs, t \in Tasks :
    /\ w.row[t].loc = "stub" /\ w.row[t].home = s
    /\ w.row[t].st \in {"running", "paused"}
    => w.mem[s][t].st \in {"running", "paused"}

\* SlotBound of a world.
Active(w, s) == HeldIn(w, s, Reserving)
Fits(w) == \A s \in Stubs : Cardinality(Active(w, s)) <= MaxConcurrent

Ordered(w) == Filed(w) /\ Agrees(w) /\ Backed(w)
Sound(w) == Good(w) /\ Ordered(w) /\ Fits(w)

\* A task no handler can reach any more: it has ended and no array holds it.
Dead(w, t) == w.row[t].st \in Terminal /\ \A s \in Stubs : ~Held(w, s, t)

SameLineage(w, v, t) == v.row[t].rc = w.row[t].rc /\ v.row[t].root = w.row[t].root

\* How a task goes on within one callback.  Only an object whose row has failed
\* behind its back goes on from a terminal status.
GoesOn(w, v, t) ==
  \/ Dead(w, t) /\ Dead(v, t) /\ v.row[t].st = w.row[t].st
  \/ w.row[t].st = "failed" /\ ~Dead(w, t)
  \/ /\ w.row[t].st \in {"pending", "assigned"}
     /\ \/ v.row[t].st \in {"pending", "assigned"}
        \/ Dead(v, t) /\ v.row[t].st \in {"failed", "cancelled"}
  \/ /\ w.row[t].st \in {"running", "paused"}
     /\ v.row[t].st \in {"running", "paused"} \/ Dead(v, t)

Unborn(w, t) == w.row[t].loc = "none"

\* A task is submitted, or it retries one that has ended failed.
FirstOf(v, t) == v.row[t].root = t /\ v.row[t].rc = 0
RetryOf(v, t, p) ==
  /\ v.row[t].root = v.row[p].root
  /\ v.row[t].rc = v.row[p].rc + 1 /\ v.row[t].rc <= MaxRetries

IsNew(v, t) ==
  /\ ~Unborn(v, t)
  /\ \/ v.row[t].st \in {"pending", "assigned"}
     \/ Dead(v, t) /\ v.row[t].st \in {"failed", "cancelled"}
  /\ \/ FirstOf(v, t)
     \/ \E p \in Tasks \ {t} : /\ ~Unborn(v, p) /\ Dead(v, p) /\ v.row[p].st = "failed"
                               /\ RetryOf(v, t, p)

\* What the helpers of one callback do to the tasks, one after the other.
Onward(w, v) ==
  \A t \in Tasks :
    IF Unborn(w, t) THEN Unborn(v, t) \/ IsNew(v, t)
    ELSE ~Unborn(v, t) /\ SameLineage(w, v, t) /\ GoesOn(w, v, t)

\* What a whole callback may do to the rows: a step of TaskLifecycle.
Lawful(w, v) ==
  \A t \in Tasks :
    IF Unborn(w, t)
    THEN \/ Unborn(v, t)
         \/ /\ v.row[t].st \in Lifecycle!Moves["pending"]
            /\ \/ FirstOf(v, t)
               \/ \E p \in Tasks \ {t} : /\ ~Unborn(v, p) /\ v.row[p].st \in {"failed", "paused"}
                                         /\ RetryOf(v, t, p)
    ELSE /\ ~Unborn(v, t) /\ SameLineage(w, v, t)
         /\ v.row[t].st \in Lifecycle!Moves[w.row[t].st]

LEMMA MovesFacts ==
  /\ Lifecycle!Moves["pending"] = {"pending", "assigned", "running", "failed", "cancelled"}
  /\ Lifecycle!Moves["assigned"] = Status \ {"blocked"}
  /\ Lifecycle!Moves["running"] = {"running", "paused"} \cup Terminal
  /\ Lifecycle!Moves["paused"] = {"running", "paused"} \cup Terminal
  /\ Lifecycle!Moves["failed"] = Status \ {"blocked"}
  /\ Lifecycle!Moves["completed"] = {"completed"}
  /\ Lifecycle!Moves["cancelled"] = {"cancelled"}
<1>1. /\ Lifecycle!LegalTargets["pending"] = {"assigned", "cancelled"}
      /\ Lifecycle!LegalTargets["assigned"] = {"running", "failed", "pending", "cancelled"}
      /\ Lifecycle!LegalTargets["running"] = {"completed", "failed", "paused", "cancelled"}
      /\ Lifecycle!LegalTargets["paused"] = {"running", "cancelled"}
  BY DEF Lifecycle!LegalTargets, Lifecycle!Status
<1>2. /\ Lifecycle!Steps("pending") = {"pending", "assigned", "cancelled"}
      /\ Lifecycle!Steps("assigned") = {"assigned", "running", "failed", "pending", "cancelled"}
      /\ Lifecycle!Steps("running") = {"running", "completed", "failed", "paused", "cancelled"}
      /\ Lifecycle!Steps("paused") = {"paused", "running", "cancelled"}
  BY <1>1 DEF Lifecycle!Steps
<1>3. Lifecycle!TwoSteps("pending") = {"pending", "assigned", "running", "failed", "cancelled"}
  <2>1. {Lifecycle!Steps(s) : s \in Lifecycle!Steps("pending") \ Lifecycle!Terminal}
          = {Lifecycle!Steps("pending"), Lifecycle!Steps("assigned")}
    BY <1>2 DEF Lifecycle!Terminal
  <2>2. QED
    BY <1>2, <2>1 DEF Lifecycle!TwoSteps
<1>4. Lifecycle!TwoSteps("assigned") = Status \ {"blocked"}
  <2>1. {Lifecycle!Steps(s) : s \in Lifecycle!Steps("assigned") \ Lifecycle!Terminal}
          = {Lifecycle!Steps("assigned"), Lifecycle!Steps("running"), Lifecycle!Steps("pending")}
    BY <1>2 DEF Lifecycle!Terminal
  <2>2. QED
    BY <1>2, <2>1 DEF Lifecycle!TwoSteps, Status
<1>5. /\ Lifecycle!TwoSteps("running") = {"running", "paused"} \cup Terminal
      /\ Lifecycle!TwoSteps("paused") = {"running", "paused"} \cup Terminal
  <2>1. /\ {Lifecycle!Steps(s) : s \in Lifecycle!Steps("running") \ Lifecycle!Terminal}
            = {Lifecycle!Steps("running"), Lifecycle!Steps("paused")}
        /\ {Lifecycle!Steps(s) : s \in Lifecycle!Steps("paused") \ Lifecycle!Terminal}
            = {Lifecycle!Steps("running"), Lifecycle!Steps("paused")}
    BY <1>2 DEF Lifecycle!Terminal
  <2>2. QED
    BY <1>2, <2>1 DEF Lifecycle!TwoSteps, Terminal
<1>6. {Lifecycle!TwoSteps(s) : s \in Reserving}
        = {Lifecycle!TwoSteps("assigned"), Lifecycle!TwoSteps("running"), Lifecycle!TwoSteps("paused")}
  BY DEF Reserving
<1>7. Lifecycle!Moves["failed"] = {"failed"} \cup UNION {Lifecycle!TwoSteps(s) : s \in Reserving}
  BY DEF Lifecycle!Moves, Lifecycle!Status, Reserving, Lifecycle!Reserving
<1>8. Lifecycle!Moves["failed"] = Status \ {"blocked"}
  BY <1>4, <1>5, <1>6, <1>7 DEF Status, Terminal
<1>9. /\ Lifecycle!Moves["completed"] = {"completed"}
      /\ Lifecycle!Moves["cancelled"] = {"cancelled"}
      /\ \A st \in {"pending", "assigned", "running", "paused"} :
           Lifecycle!Moves[st] = Lifecycle!TwoSteps(st)
  BY DEF Lifecycle!Moves, Lifecycle!Status, Reserving, Lifecycle!Reserving
<1>10. QED
  BY <1>3, <1>4, <1>5, <1>8, <1>9

LEMMA OnwardTransitive ==
  ASSUME NEW u, NEW v, NEW w, Onward(u, v), Onward(v, w)
  PROVE  Onward(u, w)
<1> SUFFICES ASSUME NEW t \in Tasks
             PROVE  IF Unborn(u, t) THEN Unborn(w, t) \/ IsNew(w, t)
                    ELSE ~Unborn(w, t) /\ SameLineage(u, w, t) /\ GoesOn(u, w, t)
  BY DEF Onward
<1>1. CASE Unborn(u, t) /\ Unborn(v, t)
  BY <1>1 DEF Onward
<1>2. CASE Unborn(u, t) /\ ~Unborn(v, t)
  <2>1. IsNew(v, t) /\ ~Unborn(w, t) /\ SameLineage(v, w, t) /\ GoesOn(v, w, t)
    BY <1>2 DEF Onward
  <2>2. \/ w.row[t].st \in {"pending", "assigned"}
        \/ Dead(w, t) /\ w.row[t].st \in {"failed", "cancelled"}
    BY <2>1 DEF IsNew, GoesOn
  <2>3. CASE FirstOf(v, t)
    BY <1>2, <2>1, <2>2, <2>3 DEF IsNew, FirstOf, SameLineage
  <2>4. CASE ~FirstOf(v, t)
    <3>1. PICK p \in Tasks \ {t} : /\ ~Unborn(v, p) /\ Dead(v, p) /\ v.row[p].st = "failed"
                                  /\ RetryOf(v, t, p)
      BY <2>1, <2>4 DEF IsNew
    <3>2. ~Unborn(w, p) /\ SameLineage(v, w, p) /\ GoesOn(v, w, p)
      BY <3>1 DEF Onward
    <3>3. Dead(w, p) /\ w.row[p].st = "failed"
      BY <3>1, <3>2 DEF GoesOn
    <3>4. RetryOf(w, t, p)
      BY <2>1, <3>1, <3>2 DEF RetryOf, SameLineage
    <3>5. QED
      BY <1>2, <2>1, <2>2, <3>2, <3>3, <3>4 DEF IsNew
  <2>5. QED
    BY <2>3, <2>4
<1>3. CASE ~Unborn(u, t)
  <2>1. /\ ~Unborn(v, t) /\ SameLineage(u, v, t) /\ GoesOn(u, v, t)
        /\ ~Unborn(w, t) /\ SameLineage(v, w, t) /\ GoesOn(v, w, t)
    BY <1>3 DEF Onward
  <2>2. SameLineage(u, w, t)
    BY <2>1 DEF SameLineage
  <2>3. GoesOn(u, w, t)
    BY <2>1 DEF GoesOn, Dead, Terminal
  <2>4. QED
    BY <1>3, <2>1, <2>2, <2>3
<1>4. QED
  BY <1>1, <1>2, <1>3

LEMMA RowStatuses ==
  ASSUME NEW w, Good(w), Ordered(w), NEW t \in Tasks
  PROVE  w.row[t].st \in {"pending", "assigned", "running", "paused"} \cup Terminal
<1>1. w.row[t].loc \in Locations
  BY WorldParts DEF Good, Row
<1>2. QED
  BY <1>1 DEF Ordered, Filed, Locations, Reserving, Terminal

LEMMA OnwardIsLawful ==
  ASSUME NEW w, NEW v, Good(v), Ordered(v), Onward(w, v)
  PROVE  Lawful(w, v)
<1> SUFFICES ASSUME NEW t \in Tasks
             PROVE  IF Unborn(w, t)
                    THEN \/ Unborn(v, t)
                         \/ /\ v.row[t].st \in Lifecycle!Moves["pending"]
                            /\ \/ FirstOf(v, t)
                               \/ \E p \in Tasks \ {t} :
                                    /\ ~Unborn(v, p) /\ v.row[p].st \in {"failed", "paused"}
                                    /\ RetryOf(v, t, p)
                    ELSE /\ ~Unborn(v, t) /\ SameLineage(w, v, t)
                         /\ v.row[t].st \in Lifecycle!Moves[w.row[t].st]
  BY DEF Lawful
<1>1. CASE Unborn(w, t)
  <2>1. Unborn(v, t) \/ IsNew(v, t)
    BY <1>1 DEF Onward
  <2>2. IsNew(v, t) => v.row[t].st \in Lifecycle!Moves["pending"]
    BY MovesFacts DEF IsNew
  <2>3. QED
    BY <1>1, <2>1, <2>2 DEF IsNew
<1>2. CASE ~Unborn(w, t)
  <2>1. ~Unborn(v, t) /\ SameLineage(w, v, t) /\ GoesOn(w, v, t)
    BY <1>2 DEF Onward
  <2>2. v.row[t].st \in {"pending", "assigned", "running", "paused"} \cup Terminal
    BY RowStatuses
  <2>3. v.row[t].st \in Lifecycle!Moves[w.row[t].st]
    BY <2>1, <2>2, MovesFacts DEF GoesOn, Dead, Terminal, Status
  <2>4. QED
    BY <1>2, <2>1, <2>3
<1>3. QED
  BY <1>1, <1>2

\* A task whose row is left alone and that no array gains goes on.
LEMMA LeftAlone ==
  ASSUME NEW w, Good(w), Ordered(w), NEW v, NEW t \in Tasks, v.row[t] = w.row[t],
         \A s \in Stubs : Held(v, s, t) => Held(w, s, t)
  PROVE  /\ Unborn(w, t) <=> Unborn(v, t)
         /\ SameLineage(w, v, t) /\ GoesOn(w, v, t)
<1>1. w.row[t].st \in {"pending", "assigned", "running", "paused"} \cup Terminal
  BY RowStatuses
<1>2. w.row[t].st \in Terminal => Dead(w, t) \/ w.row[t].st = "failed"
  BY DEF Ordered, Agrees, Dead, Terminal, Reserving
<1>3. Dead(w, t) => Dead(v, t)
  BY DEF Dead
<1>4. GoesOn(w, v, t)
  BY <1>1, <1>2, <1>3 DEF GoesOn
<1>5. QED
  BY <1>4 DEF Unborn, SameLineage

LEMMA TasksFinite == IsFiniteSet(Tasks)
BY ConstantsAssumption, FS_Interval DEF Tasks

LEMMA ActiveFinite ==
  ASSUME NEW w, NEW s
  PROVE  IsFiniteSet(Active(w, s)) /\ Cardinality(Active(w, s)) \in Nat
<1>1. Active(w, s) \in SUBSET Tasks
  BY DEF Active, HeldIn
<1>2. IsFiniteSet(Active(w, s))
  BY <1>1, TasksFinite, FS_Subset
<1>3. QED
  BY <1>2, FS_CardinalityType

\* Slots are only taken by schedule(): any other write leaves them within bounds.
LEMMA FitsStill ==
  ASSUME NEW w, Fits(w), NEW v,
         \A s \in Stubs, t \in Tasks :
           v.mem[s][t].st \in Reserving => w.mem[s][t].st \in Reserving
  PROVE  Fits(v)
<1> SUFFICES ASSUME NEW s \in Stubs PROVE Cardinality(Active(v, s)) <= MaxConcurrent
  BY DEF Fits
<1>1. Active(v, s) \subseteq Active(w, s)
  BY DEF Active, HeldIn
<1>2. Cardinality(Active(v, s)) <= Cardinality(Active(w, s))
  BY <1>1, ActiveFinite, FS_Subset
<1>3. Cardinality(Active(w, s)) <= MaxConcurrent
  BY DEF Fits
<1>4. QED
  BY <1>2, <1>3, ActiveFinite, ConstantsAssumption

\* No write to a row touches its lineage, but the creation of a retry.
LEMMA LineageFacts ==
  /\ \A r, l, h, st : Moved(r, l, h, st).rc = r.rc /\ Moved(r, l, h, st).root = r.root
  /\ \A r, s, c : Written(r, s, c).rc = r.rc /\ Written(r, s, c).root = r.root
  /\ \A r : NewAttempt(r).rc = r.rc /\ NewAttempt(r).root = r.root
  /\ \A l, tries, rc, root : /\ NewRow(l, tries, rc, root).rc = rc
                             /\ NewRow(l, tries, rc, root).root = root
BY DEF Moved, Written, NewRow, NewAttempt

LEMMA LegalFacts ==
  /\ LegalTargets["assigned"] = {"running", "failed", "pending", "cancelled"}
  /\ LegalTargets["running"] = {"completed", "failed", "paused", "cancelled"}
  /\ LegalTargets["paused"] = {"running", "cancelled"}
  /\ LegalTargets["failed"] = {"pending"}
BY DEF LegalTargets, Status

\* A write that the status machine allows keeps slots and rows in order; one that
\* ends a task, or repeats its status, leads onward.
LEMMA PutSound ==
  ASSUME NEW w, Sound(w), NEW s \in Stubs, NEW c,
         \A t \in DOMAIN c : /\ t \in Tasks /\ Held(w, s, t) /\ c[t] \in Copy
                             /\ CanWrite(w.mem[s][t].st, c[t].st)
                             /\ c[t].st \in Reserving \cup Terminal
  PROVE  /\ Sound(Put(w, s, c)) /\ Lawful(w, Put(w, s, c))
         /\ (\A t \in DOMAIN c : c[t].st \in Terminal \cup {w.mem[s][t].st})
              => Onward(w, Put(w, s, c))
<1> DEFINE v == Put(w, s, c)
<1>1. \A t \in DOMAIN c : c[t].st \in Status
  BY StatusFacts
<1>2. Good(w) /\ Ordered(w) /\ Fits(w)
  BY DEF Sound
<1>3. Good(v)
  BY <1>1, <1>2, PutGood
<1>4. /\ \A t \in Tasks : v.row[t] =
           IF t \in DOMAIN c THEN Written(w.row[t], s, c[t]) ELSE w.row[t]
      /\ \A h \in Stubs, t \in Tasks : v.mem[h][t] =
           IF h # s \/ t \notin DOMAIN c THEN w.mem[h][t]
           ELSE IF c[t].st \in Terminal THEN Absent ELSE c[t]
  BY <1>1, <1>2, PutTyped DEF Good
<1> HIDE DEF v
<1>5. \A t \in DOMAIN c : /\ w.mem[s][t].st \in Reserving \cup {"failed"}
                          /\ w.row[t].st \in {w.mem[s][t].st, "failed"}
                          /\ w.row[t].home = s /\ ~Unborn(w, t)
                          /\ \A h \in Stubs : Held(w, h, t) => h = s
  BY <1>2 DEF Ordered, Agrees, Good, Homed, Unborn
<1>6. \A t \in DOMAIN c :
        \/ w.mem[s][t].st = "assigned" /\ c[t].st \in {"assigned", "running", "failed", "cancelled"}
        \/ w.mem[s][t].st \in {"running", "paused"} /\ c[t].st \in {"running", "paused"} \cup Terminal
        \/ w.mem[s][t].st = "failed" /\ c[t].st = "failed"
  BY <1>5, LegalFacts DEF CanWrite, Reserving, Terminal
<1>7. \A t \in DOMAIN c :
        /\ v.row[t].st = c[t].st /\ v.row[t].home = s /\ SameLineage(w, v, t)
        /\ v.row[t].loc = IF c[t].st \in Terminal THEN "archive" ELSE "stub"
  <2>1. \A t \in DOMAIN c : v.row[t] = Written(w.row[t], s, c[t])
    BY <1>4
  <2>2. QED
    BY <2>1, FieldFacts, LineageFacts DEF SameLineage
<1>8. \A t \in DOMAIN c : /\ c[t].st \in Terminal => v.mem[s][t].st = "absent"
                          /\ c[t].st \notin Terminal => v.mem[s][t].st = c[t].st
  BY <1>4, FieldFacts
<1>9. \A t \in Tasks, h \in Stubs : h # s \/ t \notin DOMAIN c => v.mem[h][t] = w.mem[h][t]
  BY <1>4
<1>10. \A t \in Tasks : t \notin DOMAIN c => v.row[t] = w.row[t]
  BY <1>4
<1>11. Filed(v)
  <2>1. ASSUME NEW t \in Tasks, t \in DOMAIN c
        PROVE  /\ v.row[t].loc = "stub" => v.row[t].st \in Reserving /\ v.row[t].home \in Stubs
               /\ v.row[t].loc = "archive" => v.row[t].st \in Terminal
               /\ v.row[t].loc \in {"none", "global"} => v.row[t].st = "pending"
    BY <1>7, <2>1
  <2>2. QED
    BY <1>2, <1>10, <2>1 DEF Ordered, Filed
<1>12. Agrees(v)
  <2>1. ASSUME NEW h \in Stubs, NEW t \in Tasks, Held(v, h, t)
        PROVE  /\ v.mem[h][t].st \in Reserving \cup {"failed"}
               /\ v.row[t].st \in {v.mem[h][t].st, "failed"}
    <3>1. CASE t \in DOMAIN c
      <4>1. h = s /\ c[t].st \notin Terminal
        BY <1>5, <1>8, <1>9, <2>1, <3>1 DEF Held
      <4>2. QED
        BY <1>7, <1>8, <3>1, <4>1
    <3>2. CASE t \notin DOMAIN c
      BY <1>2, <1>9, <1>10, <2>1, <3>2 DEF Ordered, Agrees, Held
    <3>3. QED
      BY <3>1, <3>2
  <2>2. QED
    BY <2>1 DEF Agrees
<1>13. Backed(v)
  <2>1. ASSUME NEW h \in Stubs, NEW t \in Tasks, v.row[t].loc = "stub", v.row[t].home = h,
               v.row[t].st \in {"running", "paused"}
        PROVE  v.mem[h][t].st \in {"running", "paused"}
    <3>1. CASE t \in DOMAIN c
      BY <1>7, <1>8, <2>1, <3>1 DEF Terminal
    <3>2. CASE t \notin DOMAIN c
      BY <1>2, <1>9, <1>10, <2>1, <3>2 DEF Ordered, Backed
    <3>3. QED
      BY <3>1, <3>2
  <2>2. QED
    BY <2>1 DEF Backed
<1>14. Fits(v)
  <2>1. ASSUME NEW h \in Stubs, NEW t \in Tasks, v.mem[h][t].st \in Reserving
        PROVE  w.mem[h][t].st \in Reserving
    <3>1. CASE h = s /\ t \in DOMAIN c
      BY <1>6, <1>8, <2>1, <3>1 DEF Reserving, Terminal
    <3>2. CASE ~(h = s /\ t \in DOMAIN c)
      BY <1>9, <2>1, <3>2
    <3>3. QED
      BY <3>1, <3>2
  <2>2. QED
    BY <1>2, <2>1, FitsStill
<1>15. Sound(v)
  BY <1>3, <1>11, <1>12, <1>13, <1>14 DEF Sound, Ordered
<1>16. \A t \in Tasks : t \notin DOMAIN c => /\ Unborn(w, t) <=> Unborn(v, t)
                                             /\ SameLineage(w, v, t) /\ GoesOn(w, v, t)
  BY <1>2, <1>9, <1>10, LeftAlone DEF Held
<1>17. Lawful(w, v)
  <2>1. ASSUME NEW t \in Tasks, t \in DOMAIN c
        PROVE  /\ ~Unborn(w, t) /\ ~Unborn(v, t) /\ SameLineage(w, v, t)
               /\ v.row[t].st \in Lifecycle!Moves[w.row[t].st]
    <3>1. ~Unborn(v, t)
      BY <1>7, <2>1 DEF Unborn
    <3>2. v.row[t].st \in Lifecycle!Moves[w.row[t].st]
      BY <1>5, <1>6, <1>7, <2>1, MovesFacts DEF Status, Terminal, Reserving
    <3>3. QED
      BY <1>5, <1>7, <2>1, <3>1, <3>2
  <2>2. ASSUME NEW t \in Tasks, t \notin DOMAIN c
        PROVE  v.row[t].st \in Lifecycle!Moves[w.row[t].st]
    <3>1. w.row[t].st \in {"pending", "assigned", "running", "paused"} \cup Terminal
      BY <1>2, RowStatuses
    <3>2. v.row[t].st = w.row[t].st
      BY <1>10, <2>2
    <3>3. QED
      BY <3>1, <3>2, MovesFacts DEF Terminal, Status
  <2>3. QED
    BY <1>16, <2>1, <2>2 DEF Lawful
<1>18. ASSUME \A t \in DOMAIN c : c[t].st \in Terminal \cup {w.mem[s][t].st}
       PROVE  Onward(w, v)
  <2>1. ASSUME NEW t \in Tasks, t \in DOMAIN c
        PROVE  ~Unborn(w, t) /\ ~Unborn(v, t) /\ SameLineage(w, v, t) /\ GoesOn(w, v, t)
    <3>1. ~Unborn(v, t)
      BY <1>7, <2>1 DEF Unborn
    <3>2. c[t].st \in Terminal => Dead(v, t)
      BY <1>5, <1>7, <1>8, <1>9, <2>1 DEF Dead, Held
    <3>3. ~Dead(w, t)
      BY <2>1 DEF Dead
    <3>4. GoesOn(w, v, t)
      <4>1. CASE w.row[t].st = "failed"
        BY <3>3, <4>1 DEF GoesOn
      <4>2. CASE w.row[t].st # "failed"
        <5>1. w.row[t].st = w.mem[s][t].st
          BY <1>5, <2>1, <4>2
        <5>2. CASE c[t].st \in Terminal
          BY <1>6, <1>7, <2>1, <3>2, <5>1, <5>2 DEF GoesOn, Terminal
        <5>3. CASE c[t].st \notin Terminal
          <6>1. v.row[t].st = w.row[t].st
            BY <1>7, <1>18, <2>1, <5>1, <5>3
          <6>2. w.row[t].st \in {"assigned", "running", "paused"}
            BY <1>6, <2>1, <4>2, <5>1
          <6>3. QED
            BY <6>1, <6>2 DEF GoesOn
        <5>4. QED
          BY <5>2, <5>3
      <4>3. QED
        BY <4>1, <4>2
    <3>5. QED
      BY <1>5, <1>7, <2>1, <3>1, <3>4
  <2>2. QED
    BY <1>16, <2>1 DEF Onward
<1>19. QED
  BY <1>15, <1>17, <1>18 DEF v

\* Setting the status of some objects of an array.
LEMMA SetStatusSound ==
  ASSUME NEW w, Sound(w), NEW s \in Stubs, NEW T \in SUBSET Tasks,
         NEW st \in Reserving \cup Terminal
  PROVE  /\ Sound(SetStatus(w, s, T, st)) /\ Lawful(w, SetStatus(w, s, T, st))
         /\ st \in Terminal => Onward(w, SetStatus(w, s, T, st))
<1> DEFINE U == {u \in T : Updatable(w, s, u, st)}
           c == [t \in U |-> [w.mem[s][t] EXCEPT !.st = st]]
<1>1. w \in Worlds
  BY DEF Sound, Good
<1>2. \A t \in U : /\ t \in Tasks /\ Held(w, s, t) /\ w.mem[s][t] \in Copy
                   /\ CanWrite(w.mem[s][t].st, st)
  BY <1>1, WorldParts DEF Updatable
<1>3. \A t \in U : [w.mem[s][t] EXCEPT !.st = st] \in Copy
                   /\ [w.mem[s][t] EXCEPT !.st = st].st = st
  BY <1>2, StatusFacts DEF Copy
<1>4. DOMAIN c = U /\ \A t \in U : c[t] = [w.mem[s][t] EXCEPT !.st = st]
  OBVIOUS
<1>5. SetStatus(w, s, T, st) = Put(w, s, c)
  BY DEF SetStatus
<1> HIDE DEF U, c
<1>6. \A t \in DOMAIN c : /\ t \in Tasks /\ Held(w, s, t) /\ c[t] \in Copy
                          /\ CanWrite(w.mem[s][t].st, c[t].st)
                          /\ c[t].st \in Reserving \cup Terminal
  BY <1>2, <1>3, <1>4
<1>7. st \in Terminal => \A t \in DOMAIN c : c[t].st \in Terminal \cup {w.mem[s][t].st}
  BY <1>3, <1>4
<1>8. QED
  BY <1>5, <1>6, <1>7, PutSound

\* A world with the rows and arrays of a sound one is sound, and nothing happened.
LEMMA SameTasksSound ==
  ASSUME NEW w, Sound(w), NEW v, Good(v), v.row = w.row, v.mem = w.mem
  PROVE  Sound(v) /\ Onward(w, v)
<1>1. Sound(v)
  BY DEF Sound, Ordered, Filed, Agrees, Backed, Fits, Active, HeldIn, Held
<1>2. \A s \in Stubs, t \in Tasks : Held(v, s, t) <=> Held(w, s, t)
  BY DEF Held
<1>3. ASSUME NEW t \in Tasks
      PROVE  /\ Unborn(w, t) <=> Unborn(v, t)
             /\ SameLineage(w, v, t) /\ GoesOn(w, v, t)
  BY <1>2, LeftAlone DEF Sound
<1>4. QED
  BY <1>1, <1>3 DEF Onward

LEMMA SendSound ==
  ASSUME NEW w, Sound(w), NEW s \in Stubs, NEW live, NEW ms \in SUBSET DownMsg
  PROVE  Sound(Send(w, s, live, ms)) /\ Onward(w, Send(w, s, live, ms))
<1>1. Send(w, s, live, ms).row = w.row /\ Send(w, s, live, ms).mem = w.mem
  BY DEF Send
<1>2. Good(Send(w, s, live, ms))
  BY SendGood DEF Sound
<1>3. QED
  BY <1>1, <1>2, SameTasksSound

\* What schedule() does to the tasks: it leaves one alone or takes it from the
\* queue to one array.
Places(w, v) ==
  \A t \in Tasks :
    \/ v.row[t] = w.row[t] /\ \A s \in Stubs : v.mem[s][t] = w.mem[s][t]
    \/ /\ w.row[t].loc = "global" /\ w.row[t].st = "pending"
       /\ v.row[t].loc = "stub" /\ v.row[t].st = "assigned" /\ v.row[t].home \in Stubs
       /\ SameLineage(w, v, t)
       /\ \A s \in Stubs : v.mem[s][t].st \in {"absent", "assigned"}

LEMMA AssignPlaces ==
  ASSUME NEW w, Good(w), NEW on \in SUBSET Stubs, NEW f \in [Pending(w) -> on \cup {NoStub}]
  PROVE  /\ Places(w, Assign(w, f))
         /\ \A s \in Stubs, t \in Tasks :
              Assign(w, f).mem[s][t].st \in Reserving =>
                \/ w.mem[s][t].st \in Reserving
                \/ t \in Pending(w) /\ f[t] = s
<1> DEFINE T == Placed(w, f)
           v == Assign(w, f)
           R == [t \in Tasks |-> IF t \in T THEN Moved(w.row[t], "stub", f[t], "assigned")
                                 ELSE w.row[t]]
           New(t) == [st |-> "assigned", off |-> w.row[t].off, kill |-> w.row[t].kill]
           M == [s \in Stubs |-> [t \in Tasks |->
                   IF t \in T /\ f[t] = s THEN New(t) ELSE w.mem[s][t]]]
<1>1. v.row = R /\ v.mem = M
  BY DEF Assign
<1>2. \A t \in T : /\ t \in Tasks /\ f[t] \in Stubs /\ t \in Pending(w)
                   /\ w.row[t].loc = "global" /\ w.row[t].st = "pending"
  BY DEF Placed, Pending
<1>3. \A t : New(t).st = "assigned"
  OBVIOUS
<1> HIDE DEF T, v, New
<1>4. \A t \in Tasks : R[t] = IF t \in T THEN Moved(w.row[t], "stub", f[t], "assigned")
                              ELSE w.row[t]
  OBVIOUS
<1>5. \A s \in Stubs, t \in Tasks : M[s][t] = IF t \in T /\ f[t] = s THEN New(t) ELSE w.mem[s][t]
  OBVIOUS
<1> HIDE DEF R, M
<1>6. \A t \in T, s \in Stubs : w.mem[s][t].st = "absent"
  BY <1>2 DEF Good, Homed, Held
<1>7. ASSUME NEW t \in Tasks, t \in T
      PROVE  /\ w.row[t].loc = "global" /\ w.row[t].st = "pending"
             /\ v.row[t].loc = "stub" /\ v.row[t].st = "assigned" /\ v.row[t].home \in Stubs
             /\ SameLineage(w, v, t)
             /\ \A s \in Stubs : v.mem[s][t].st \in {"absent", "assigned"}
  <2>1. v.row[t] = Moved(w.row[t], "stub", f[t], "assigned")
    BY <1>1, <1>4, <1>7
  <2>2. \A s \in Stubs : v.mem[s][t].st \in {"absent", "assigned"}
    BY <1>1, <1>3, <1>5, <1>6, <1>7
  <2>3. QED
    BY <1>2, <1>7, <2>1, <2>2, FieldFacts, LineageFacts DEF SameLineage
<1>8. \A t \in Tasks : t \notin T => /\ v.row[t] = w.row[t]
                                     /\ \A s \in Stubs : v.mem[s][t] = w.mem[s][t]
  BY <1>1, <1>4, <1>5
<1>9. Places(w, v)
  BY <1>7, <1>8 DEF Places
<1>10. \A s \in Stubs, t \in Tasks :
         v.mem[s][t].st \in Reserving =>
           w.mem[s][t].st \in Reserving \/ (t \in Pending(w) /\ f[t] = s)
  BY <1>1, <1>2, <1>5
<1>11. QED
  BY <1>9, <1>10 DEF v

\* schedule() fills free slots only.
LEMMA AssignFits ==
  ASSUME NEW w, Good(w), Fits(w), NEW on \in SUBSET Stubs, NEW f \in Placements(w, on)
  PROVE  Fits(Assign(w, f))
<1> DEFINE v == Assign(w, f)
<1>1. f \in [Pending(w) -> on \cup {NoStub}]
  BY DEF Placements
<1>2. \A s \in Stubs, t \in Tasks :
        v.mem[s][t].st \in Reserving =>
          w.mem[s][t].st \in Reserving \/ (t \in Pending(w) /\ f[t] = s)
  BY <1>1, AssignPlaces
<1> HIDE DEF v
<1> SUFFICES ASSUME NEW s \in Stubs PROVE Cardinality(Active(v, s)) <= MaxConcurrent
  BY DEF Fits, v
<1> DEFINE A == {t \in Pending(w) : f[t] = s}
<1>3. A \in SUBSET Tasks
  BY DEF Pending
<1>4. IsFiniteSet(A) /\ Cardinality(A) \in Nat
  BY <1>3, TasksFinite, FS_Subset, FS_CardinalityType
<1>5. Active(v, s) \subseteq Active(w, s) \cup A
  BY <1>2 DEF Active, HeldIn, Pending
<1>6. A = {} \/ (s \in on /\ (Cardinality(A) = 0 \/ Cardinality(A) <= Room(w, s)))
  <2>1. CASE s \in on
    BY <2>1 DEF Placements
  <2>2. CASE s \notin on
    BY <1>1, <2>2, ConstantsAssumption
  <2>3. QED
    BY <2>1, <2>2
<1>7. Cardinality(Active(w, s)) <= MaxConcurrent /\ Cardinality(Active(w, s)) \in Nat
  BY ActiveFinite DEF Fits
<1>8. Room(w, s) = MaxConcurrent - Cardinality(Active(w, s))
  BY DEF Room, Active
<1> HIDE DEF A
<1>9. CASE A = {}
  <2>1. Active(v, s) \in SUBSET Active(w, s)
    BY <1>5, <1>9
  <2>2. Cardinality(Active(v, s)) <= Cardinality(Active(w, s))
    BY <2>1, ActiveFinite, FS_Subset
  <2>3. QED
    BY <1>7, <2>2, ActiveFinite, ConstantsAssumption
<1>10. CASE A # {}
  <2>1. Cardinality(A) <= MaxConcurrent - Cardinality(Active(w, s))
    BY <1>4, <1>6, <1>8, <1>10, FS_EmptySet
  <2>2. /\ IsFiniteSet(Active(w, s) \cup A)
        /\ Cardinality(Active(w, s) \cup A) =
             Cardinality(Active(w, s)) + Cardinality(A) - Cardinality(Active(w, s) \cap A)
    BY <1>4, ActiveFinite, FS_Union
  <2>3. Cardinality(Active(w, s) \cap A) \in Nat
    <3>1. Active(w, s) \cap A \in SUBSET A
      OBVIOUS
    <3>2. QED
      BY <1>4, <3>1, FS_Subset, FS_CardinalityType
  <2>4. Cardinality(Active(v, s)) <= Cardinality(Active(w, s) \cup A)
    BY <1>5, <2>2, FS_Subset
  <2>5. QED
    BY <1>4, <1>7, <2>1, <2>2, <2>3, <2>4, ActiveFinite, ConstantsAssumption
<1>11. QED
  BY <1>9, <1>10

LEMMA PlacesSound ==
  ASSUME NEW w, Sound(w), NEW v, Good(v), Fits(v), Places(w, v)
  PROVE  Sound(v) /\ Onward(w, v)
<1>1. Good(w) /\ Ordered(w)
  BY DEF Sound
<1> DEFINE Left(t) == v.row[t] = w.row[t] /\ \A s \in Stubs : v.mem[s][t] = w.mem[s][t]
<1>2. \A t \in Tasks :
        ~Left(t) => /\ w.row[t].loc = "global" /\ w.row[t].st = "pending"
                    /\ v.row[t].loc = "stub" /\ v.row[t].st = "assigned"
                    /\ v.row[t].home \in Stubs /\ SameLineage(w, v, t)
                    /\ \A s \in Stubs : v.mem[s][t].st \in {"absent", "assigned"}
  BY DEF Places
<1>3. \A t \in Tasks : Left(t) => /\ v.row[t] = w.row[t]
                                  /\ \A s \in Stubs : v.mem[s][t] = w.mem[s][t]
  OBVIOUS
<1> HIDE DEF Left
<1>4. Filed(v)
  BY <1>1, <1>2, <1>3 DEF Ordered, Filed, Reserving
<1>5. Agrees(v)
  <2>1. ASSUME NEW s \in Stubs, NEW t \in Tasks, Held(v, s, t)
        PROVE  /\ v.mem[s][t].st \in Reserving \cup {"failed"}
               /\ v.row[t].st \in {v.mem[s][t].st, "failed"}
    <3>1. CASE Left(t)
      BY <1>1, <1>3, <2>1, <3>1 DEF Ordered, Agrees, Held
    <3>2. CASE ~Left(t)
      BY <1>2, <2>1, <3>2 DEF Held, Reserving
    <3>3. QED
      BY <3>1, <3>2
  <2>2. QED
    BY <2>1 DEF Agrees
<1>6. Backed(v)
  BY <1>1, <1>2, <1>3 DEF Ordered, Backed
<1>7. Onward(w, v)
  <2>1. ASSUME NEW t \in Tasks, Left(t)
        PROVE  /\ Unborn(w, t) <=> Unborn(v, t)
               /\ SameLineage(w, v, t) /\ GoesOn(w, v, t)
    <3>1. \A s \in Stubs : Held(v, s, t) => Held(w, s, t)
      BY <1>3, <2>1 DEF Held
    <3>2. v.row[t] = w.row[t]
      BY <1>3, <2>1
    <3>3. QED
      BY <1>1, <3>1, <3>2, LeftAlone
  <2>2. ASSUME NEW t \in Tasks, ~Left(t)
        PROVE  ~Unborn(w, t) /\ ~Unborn(v, t) /\ SameLineage(w, v, t) /\ GoesOn(w, v, t)
    BY <1>2, <2>2 DEF Unborn, GoesOn
  <2>3. QED
    BY <2>1, <2>2 DEF Onward
<1>8. QED
  BY <1>4, <1>5, <1>6, <1>7 DEF Sound, Ordered

LEMMA ScheduleSound ==
  ASSUME NEW w, Sound(w), NEW on \in SUBSET Stubs, NEW live, NEW v \in Schedule(w, on, live)
  PROVE  Sound(v) /\ Onward(w, v) /\ Places(w, v)
<1>1. PICK f \in Placements(w, on) : v = Dispatch(Assign(w, f), on, live)
  BY DEF Schedule
<1> DEFINE u == Assign(w, f)
<1>2. f \in [Pending(w) -> on \cup {NoStub}]
  BY DEF Placements
<1>3. Good(w) /\ Fits(w)
  BY DEF Sound
<1>4. Good(u) /\ Fits(u) /\ Places(w, u)
  BY <1>2, <1>3, AssignGood, AssignFits, AssignPlaces
<1> HIDE DEF u
<1>5. v = Dispatch(u, on, live)
  BY <1>1 DEF u
<1>6. v.row = u.row /\ v.mem = u.mem
  BY <1>5 DEF Dispatch
<1>7. Good(v)
  BY <1>4, <1>5, DispatchGood
<1>8. Places(w, v)
  BY <1>4, <1>6 DEF Places, SameLineage
<1>9. Fits(v)
  BY <1>4, <1>6 DEF Fits, Active, HeldIn
<1>10. QED
  BY <1>7, <1>8, <1>9, PlacesSound

\* Whatever was lawful stays so when schedule() runs last.
LEMMA ScheduleLawful ==
  ASSUME NEW u, NEW w, Lawful(u, w), Good(u), Ordered(u), Good(w), Ordered(w), NEW v, Places(w, v)
  PROVE  Lawful(u, v)
<1>1. ASSUME NEW t \in Tasks
      PROVE  /\ Unborn(v, t) <=> Unborn(w, t)
             /\ SameLineage(w, v, t)
             /\ v.row[t].st = w.row[t].st \/ (w.row[t].st = "pending" /\ v.row[t].st = "assigned")
  BY DEF Places, Unborn, SameLineage
<1>2. \A t \in Tasks :
        LET from == IF Unborn(u, t) THEN "pending" ELSE u.row[t].st
        IN  w.row[t].st \in Lifecycle!Moves[from] => v.row[t].st \in Lifecycle!Moves[from]
  <2>1. ASSUME NEW t \in Tasks, NEW from, from \in {"pending", "assigned", "running", "paused"} \cup Terminal,
               w.row[t].st \in Lifecycle!Moves[from]
        PROVE  v.row[t].st \in Lifecycle!Moves[from]
    BY <1>1, <2>1, MovesFacts DEF Terminal, Status
  <2>2. \A t \in Tasks : u.row[t].st \in {"pending", "assigned", "running", "paused"} \cup Terminal
    BY RowStatuses
  <2>3. QED
    BY <2>1, <2>2
<1>3. ASSUME NEW t \in Tasks, Unborn(u, t)
      PROVE  \/ Unborn(v, t)
             \/ /\ v.row[t].st \in Lifecycle!Moves["pending"]
                /\ \/ FirstOf(v, t)
                   \/ \E p \in Tasks \ {t} :
                        /\ ~Unborn(v, p) /\ v.row[p].st \in {"failed", "paused"}
                        /\ RetryOf(v, t, p)
  <2>1. CASE Unborn(w, t)
    BY <1>1, <2>1
  <2>2. CASE ~Unborn(w, t)
    <3>1. v.row[t].st \in Lifecycle!Moves["pending"]
      BY <1>2, <1>3, <2>2 DEF Lawful
    <3>2. CASE FirstOf(w, t)
      BY <1>1, <3>1, <3>2 DEF FirstOf, SameLineage
    <3>3. CASE ~FirstOf(w, t)
      <4>1. PICK p \in Tasks \ {t} : /\ ~Unborn(w, p) /\ w.row[p].st \in {"failed", "paused"}
                                    /\ RetryOf(w, t, p)
        BY <1>3, <2>2, <3>3 DEF Lawful
      <4>2. ~Unborn(v, p) /\ v.row[p].st \in {"failed", "paused"}
        BY <1>1, <4>1
      <4>3. RetryOf(v, t, p)
        BY <1>1, <4>1 DEF RetryOf, SameLineage
      <4>4. QED
        BY <3>1, <4>2, <4>3
    <3>4. QED
      BY <3>2, <3>3
  <2>3. QED
    BY <2>1, <2>2
<1>4. ASSUME NEW t \in Tasks, ~Unborn(u, t)
      PROVE  /\ ~Unborn(v, t) /\ SameLineage(u, v, t)
             /\ v.row[t].st \in Lifecycle!Moves[u.row[t].st]
  BY <1>1, <1>2, <1>4 DEF Lawful, SameLineage
<1>5. QED
  BY <1>3, <1>4 DEF Lawful

\* What schedule() and a message add to a lawful change leaves it lawful.
LEMMA ThenScheduled ==
  ASSUME NEW u, Sound(u), NEW w, Sound(w), Lawful(u, w),
         NEW on \in SUBSET Stubs, NEW live, NEW v \in Schedule(w, on, live)
  PROVE  Sound(v) /\ Lawful(u, v)
<1>1. Sound(v) /\ Places(w, v)
  BY ScheduleSound
<1>2. QED
  BY <1>1, ScheduleLawful DEF Sound

(***************************************************************************)
(* Failing and retrying.                                                   *)
(***************************************************************************)
\* What a resume must know of the changes before it brings an array back: tasks
\* that left the queue only fail, and nothing new runs.
Subsides(w, v) ==
  \A t \in Tasks :
    /\ \A s \in Stubs : v.mem[s][t].st \in {"running", "paused"} => v.mem[s][t].st = w.mem[s][t].st
    /\ w.row[t].loc \in {"stub", "archive"} =>
         /\ v.row[t].loc \in {"stub", "archive"} /\ v.row[t].st \in {w.row[t].st, "failed"}
         /\ \A s \in Stubs : \/ v.mem[s][t].st = w.mem[s][t].st
                             \/ v.mem[s][t].st = "absent" /\ v.row[t].st = "failed"

LEMMA SubsidesTransitive ==
  ASSUME NEW u, NEW v, NEW w, Subsides(u, v), Subsides(v, w)
  PROVE  Subsides(u, w)
<1> SUFFICES ASSUME NEW t \in Tasks
             PROVE  /\ \A s \in Stubs : w.mem[s][t].st \in {"running", "paused"} =>
                                          w.mem[s][t].st = u.mem[s][t].st
                    /\ u.row[t].loc \in {"stub", "archive"} =>
                         /\ w.row[t].loc \in {"stub", "archive"}
                         /\ w.row[t].st \in {u.row[t].st, "failed"}
                         /\ \A s \in Stubs : \/ w.mem[s][t].st = u.mem[s][t].st
                                             \/ w.mem[s][t].st = "absent" /\ w.row[t].st = "failed"
  BY DEF Subsides
<1>1. \A s \in Stubs : w.mem[s][t].st \in {"running", "paused"} => w.mem[s][t].st = u.mem[s][t].st
  BY DEF Subsides
<1>2. ASSUME u.row[t].loc \in {"stub", "archive"}
      PROVE  /\ w.row[t].loc \in {"stub", "archive"}
             /\ w.row[t].st \in {u.row[t].st, "failed"}
             /\ \A s \in Stubs : \/ w.mem[s][t].st = u.mem[s][t].st
                                 \/ w.mem[s][t].st = "absent" /\ w.row[t].st = "failed"
  <2>1. /\ v.row[t].loc \in {"stub", "archive"} /\ v.row[t].st \in {u.row[t].st, "failed"}
        /\ \A s \in Stubs : \/ v.mem[s][t].st = u.mem[s][t].st
                            \/ v.mem[s][t].st = "absent" /\ v.row[t].st = "failed"
    BY <1>2 DEF Subsides
  <2>2. /\ w.row[t].loc \in {"stub", "archive"} /\ w.row[t].st \in {v.row[t].st, "failed"}
        /\ \A s \in Stubs : \/ w.mem[s][t].st = v.mem[s][t].st
                            \/ w.mem[s][t].st = "absent" /\ w.row[t].st = "failed"
    BY <2>1 DEF Subsides
  <2>3. QED
    BY <2>1, <2>2
<1>3. QED
  BY <1>1, <1>2

LEMMA PlacesSubsides ==
  ASSUME NEW w, NEW v, Places(w, v)
  PROVE  Subsides(w, v)
BY DEF Places, Subsides

LEMMA SetStatusShape ==
  ASSUME NEW w, Good(w), NEW s \in Stubs, NEW T \in SUBSET Tasks, NEW st \in Terminal,
         NEW v, v = SetStatus(w, s, T, st)
  PROVE  \A t \in Tasks :
           IF t \in T /\ Updatable(w, s, t, st)
           THEN /\ v.row[t].st = st /\ v.row[t].loc = "archive" /\ w.row[t].loc # "none"
                /\ \A h \in Stubs : v.mem[h][t].st = "absent"
           ELSE v.row[t] = w.row[t] /\ \A h \in Stubs : v.mem[h][t] = w.mem[h][t]
<1> DEFINE U == {u \in T : Updatable(w, s, u, st)}
           c == [t \in U |-> [w.mem[s][t] EXCEPT !.st = st]]
<1>1. \A t \in U : t \in Tasks /\ Held(w, s, t) /\ w.mem[s][t] \in Copy
  BY WorldParts DEF Updatable, Good
<1>2. \A t \in U : [w.mem[s][t] EXCEPT !.st = st] \in Copy
                   /\ [w.mem[s][t] EXCEPT !.st = st].st = st
  BY <1>1, StatusFacts DEF Copy
<1>3. DOMAIN c = U /\ \A t \in U : c[t] = [w.mem[s][t] EXCEPT !.st = st]
  OBVIOUS
<1>4. v = Put(w, s, c)
  BY DEF SetStatus
<1>5. \A t : t \in U <=> t \in T /\ Updatable(w, s, t, st)
  OBVIOUS
<1> HIDE DEF U, c
<1>6. \A t \in DOMAIN c : c[t] \in Copy /\ c[t].st = st /\ c[t].st \in Status
  BY <1>2, <1>3, StatusFacts
<1>7. DOMAIN c \subseteq Tasks
  BY <1>1, <1>3
<1>8. /\ \A t \in Tasks : v.row[t] =
           IF t \in DOMAIN c THEN Written(w.row[t], s, c[t]) ELSE w.row[t]
      /\ \A h \in Stubs, t \in Tasks : v.mem[h][t] =
           IF h # s \/ t \notin DOMAIN c THEN w.mem[h][t]
           ELSE IF c[t].st \in Terminal THEN Absent ELSE c[t]
  BY <1>4, <1>6, <1>7, PutTyped DEF Good
<1>9. \A t \in U : w.row[t].loc # "none" /\ \A h \in Stubs : h # s => w.mem[h][t].st = "absent"
  BY <1>1 DEF Good, Homed, Held
<1>10. ASSUME NEW t \in Tasks, t \in U
       PROVE  /\ v.row[t].st = st /\ v.row[t].loc = "archive" /\ w.row[t].loc # "none"
              /\ \A h \in Stubs : v.mem[h][t].st = "absent"
  BY <1>3, <1>6, <1>8, <1>9, <1>10, FieldFacts
<1>11. QED
  BY <1>3, <1>5, <1>8, <1>10

\* Tasks that a handler fails are out of reach, and the rest is as before.
LEMMA FailedSubsides ==
  ASSUME NEW w, Good(w), NEW s \in Stubs, NEW T \in SUBSET Tasks,
         NEW v, v = SetStatus(w, s, T, "failed")
  PROVE  /\ Subsides(w, v)
         /\ \A t \in T : Updatable(w, s, t, "failed") =>
                           ~Unborn(v, t) /\ Dead(v, t) /\ v.row[t].st = "failed"
         /\ \A t \in Tasks : (t \in T /\ Updatable(w, s, t, "failed")) \/ v.row[t] = w.row[t]
<1>1. \A t \in Tasks :
        IF t \in T /\ Updatable(w, s, t, "failed")
        THEN /\ v.row[t].st = "failed" /\ v.row[t].loc = "archive" /\ w.row[t].loc # "none"
             /\ \A h \in Stubs : v.mem[h][t].st = "absent"
        ELSE v.row[t] = w.row[t] /\ \A h \in Stubs : v.mem[h][t] = w.mem[h][t]
  BY SetStatusShape DEF Terminal
<1>2. Subsides(w, v)
  BY <1>1 DEF Subsides
<1>3. \A t \in T : Updatable(w, s, t, "failed") =>
                     ~Unborn(v, t) /\ Dead(v, t) /\ v.row[t].st = "failed"
  BY <1>1 DEF Unborn, Dead, Held, Terminal
<1>4. \A t \in Tasks : (t \in T /\ Updatable(w, s, t, "failed")) \/ v.row[t] = w.row[t]
  BY <1>1
<1>5. QED
  BY <1>2, <1>3, <1>4

\* Rows given to fresh ids.
LEMMA FreshSound ==
  ASSUME NEW w, Sound(w), NEW v, Good(v), v.mem = w.mem,
         NEW N \in SUBSET {t \in Tasks : w.row[t].loc = "none"},
         \A t \in Tasks : t \notin N => v.row[t] = w.row[t],
         \A t \in N : v.row[t].loc = "global" /\ v.row[t].st = "pending"
  PROVE  /\ Sound(v) /\ Subsides(w, v)
         /\ (\A t \in N : \/ FirstOf(v, t)
                          \/ \E p \in Tasks \ {t} : /\ ~Unborn(v, p) /\ Dead(v, p)
                                                    /\ v.row[p].st = "failed"
                                                    /\ RetryOf(v, t, p))
              => Onward(w, v)
<1>1. Good(w) /\ Ordered(w) /\ Fits(w)
  BY DEF Sound
<1>2. \A s \in Stubs, t \in Tasks : Held(v, s, t) <=> Held(w, s, t)
  BY DEF Held
<1>3. \A t \in N, s \in Stubs : ~Held(w, s, t)
  BY <1>1 DEF Good, Homed
<1>4. Filed(v)
  BY <1>1 DEF Ordered, Filed
<1>5. Agrees(v)
  BY <1>1, <1>2, <1>3 DEF Ordered, Agrees
<1>6. Backed(v)
  BY <1>1 DEF Ordered, Backed
<1>7. Fits(v)
  BY <1>1 DEF Fits, Active, HeldIn
<1>8. Subsides(w, v)
  BY DEF Subsides
<1>9. ASSUME \A t \in N : \/ FirstOf(v, t)
                          \/ \E p \in Tasks \ {t} : /\ ~Unborn(v, p) /\ Dead(v, p)
                                                    /\ v.row[p].st = "failed"
                                                    /\ RetryOf(v, t, p)
      PROVE  Onward(w, v)
  <2>1. ASSUME NEW t \in N PROVE t \in Tasks /\ Unborn(w, t) /\ IsNew(v, t)
    BY <1>9, <2>1 DEF Unborn, IsNew
  <2>2. ASSUME NEW t \in Tasks, t \notin N
        PROVE  /\ Unborn(w, t) <=> Unborn(v, t)
               /\ SameLineage(w, v, t) /\ GoesOn(w, v, t)
    BY <1>1, <1>2, <2>2, LeftAlone
  <2>3. QED
    BY <2>1, <2>2 DEF Onward
<1>10. QED
  BY <1>4, <1>5, <1>6, <1>7, <1>8, <1>9 DEF Sound, Ordered

LEMMA SubmittedSound ==
  ASSUME NEW w, Sound(w), NEW N \in NextIds(w)
  PROVE  Sound(Submitted(w, N)) /\ Onward(w, Submitted(w, N))
<1> DEFINE v == Submitted(w, N)
<1>1. N \in SUBSET {t \in Tasks : w.row[t].loc = "none"}
  BY DEF NextIds
<1>2. Good(v)
  BY SubmittedGood DEF Sound
<1>3. v.mem = w.mem /\ \A t \in Tasks : v.row[t] = IF t \in N THEN NewRow("global", 0, 0, t)
                                                   ELSE w.row[t]
  BY DEF Submitted
<1> HIDE DEF v
<1>4. \A t \in N : /\ t \in Tasks /\ v.row[t].loc = "global" /\ v.row[t].st = "pending"
                   /\ FirstOf(v, t)
  BY <1>1, <1>3, FieldFacts, LineageFacts DEF FirstOf
<1>5. \A t \in Tasks : t \notin N => v.row[t] = w.row[t]
  BY <1>3
<1>6. Sound(v) /\ Onward(w, v)
  BY <1>1, <1>2, <1>3, <1>4, <1>5, FreshSound
<1>7. QED
  BY <1>6 DEF v

\* The retries of h are made of tasks with retries left.
Retries(w, h) ==
  /\ \E N \in SUBSET {t \in Tasks : w.row[t].loc = "none"} : h \in [N -> Tasks]
  /\ \A n \in DOMAIN h : ~Unborn(w, h[n]) /\ w.row[h[n]].rc < MaxRetries

LEMMA AddRetriesSound ==
  ASSUME NEW w, Sound(w), NEW h, Retries(w, h), NEW v, v = AddRetries(w, h)
  PROVE  /\ Sound(v) /\ Subsides(w, v)
         /\ \A t \in Tasks : IF t \in DOMAIN h
                             THEN /\ v.row[t].loc = "global" /\ v.row[t].st = "pending"
                                  /\ h[t] \in Tasks \ {t} /\ RetryOf(v, t, h[t])
                             ELSE v.row[t] = w.row[t]
         /\ (\A n \in DOMAIN h : Dead(w, h[n]) /\ w.row[h[n]].st = "failed") => Onward(w, v)
<1>1. PICK N \in SUBSET {t \in Tasks : w.row[t].loc = "none"} : h \in [N -> Tasks]
  BY DEF Retries
<1>2. Good(v)
  BY <1>1, AddRetriesGood DEF Sound
<1>3. DOMAIN h = N
  BY <1>1
<1>4. v.mem = w.mem /\ \A t \in Tasks : v.row[t] =
        IF t \in N THEN NewRow("global", w.row[h[t]].tries, w.row[h[t]].rc + 1, w.row[h[t]].root)
        ELSE w.row[t]
  BY <1>3 DEF AddRetries
<1>5. \A t \in Tasks : t \notin N => v.row[t] = w.row[t]
  BY <1>4
<1>6. ASSUME NEW t \in N
      PROVE  /\ t \in Tasks /\ v.row[t].loc = "global" /\ v.row[t].st = "pending"
             /\ h[t] \in Tasks \ {t} /\ v.row[h[t]] = w.row[h[t]]
             /\ RetryOf(v, t, h[t])
  <2>1. t \in Tasks /\ w.row[t].loc = "none" /\ h[t] \in Tasks
    BY <1>1
  <2>2. w.row[h[t]].loc # "none" /\ w.row[h[t]].rc < MaxRetries
    BY <1>3 DEF Retries, Unborn
  <2>3. h[t] # t /\ v.row[h[t]] = w.row[h[t]]
    BY <1>1, <1>5, <2>1, <2>2
  <2>4. w.row[h[t]].rc \in Nat
    BY <2>1, WorldParts DEF Sound, Good, Row
  <2>5. v.row[t] = NewRow("global", w.row[h[t]].tries, w.row[h[t]].rc + 1, w.row[h[t]].root)
    BY <1>4, <2>1
  <2>6. RetryOf(v, t, h[t])
    <3>1. v.row[t].rc = w.row[h[t]].rc + 1 /\ v.row[t].root = w.row[h[t]].root
      BY <2>5, LineageFacts
    <3>2. w.row[h[t]].rc + 1 <= MaxRetries
      BY <2>2, <2>4, ConstantsAssumption
    <3>3. QED
      BY <2>3, <3>1, <3>2 DEF RetryOf
  <2>7. QED
    BY <2>1, <2>3, <2>5, <2>6, FieldFacts
<1>7. \A t \in N : v.row[t].loc = "global" /\ v.row[t].st = "pending"
  BY <1>6
<1>8. Sound(v) /\ Subsides(w, v)
  BY <1>1, <1>2, <1>4, <1>5, <1>7, FreshSound
<1>9. ASSUME \A n \in DOMAIN h : Dead(w, h[n]) /\ w.row[h[n]].st = "failed"
      PROVE  Onward(w, v)
  <2>1. ASSUME NEW t \in N
        PROVE  \E p \in Tasks \ {t} : /\ ~Unborn(v, p) /\ Dead(v, p) /\ v.row[p].st = "failed"
                                      /\ RetryOf(v, t, p)
    <3>1. Dead(w, h[t]) /\ w.row[h[t]].st = "failed" /\ ~Unborn(w, h[t])
      BY <1>3, <1>9 DEF Retries
    <3>2. Dead(v, h[t]) /\ v.row[h[t]].st = "failed" /\ ~Unborn(v, h[t])
      BY <1>4, <1>6, <3>1 DEF Dead, Held, Unborn
    <3>3. QED
      BY <1>6, <3>2
  <2>2. QED
    BY <1>1, <1>2, <1>4, <1>5, <1>7, <2>1, FreshSound
<1>10. QED
  BY <1>3, <1>5, <1>6, <1>8, <1>9

LEMMA RetryMapsRetry ==
  ASSUME NEW w, NEW F \in SUBSET Tasks, \A t \in F : ~Unborn(w, t), NEW h \in RetryMaps(w, F)
  PROVE  Retries(w, h) /\ \A n \in DOMAIN h : h[n] \in F
<1>1. PICK N \in NextIds(w) : h \in [N -> {t \in F : Retryable(w, t)}]
  BY DEF RetryMaps
<1>2. N \in SUBSET {t \in Tasks : w.row[t].loc = "none"} /\ h \in [N -> Tasks]
  BY <1>1 DEF NextIds
<1>3. \A n \in DOMAIN h : h[n] \in F /\ w.row[h[n]].rc < MaxRetries
  BY <1>1 DEF Retryable
<1>4. QED
  BY <1>2, <1>3 DEF Retries

LEMMA FailAndRetrySound ==
  ASSUME NEW w, Sound(w), NEW s \in Stubs, NEW F \in SUBSET Tasks, NEW on \in SUBSET Stubs,
         NEW live, NEW v \in FailAndRetry(w, s, F, on, live)
  PROVE  /\ Sound(v) /\ Onward(w, v) /\ Subsides(w, v)
         /\ \A t \in F : Updatable(w, s, t, "failed") => ~Held(v, s, t)
<1> DEFINE u == SetStatus(w, s, F, "failed")
           D == {t \in F : Updatable(w, s, t, "failed")}
<1>1. Sound(u) /\ Onward(w, u)
  BY SetStatusSound DEF Terminal
<1>2. /\ Subsides(w, u)
      /\ \A t \in F : Updatable(w, s, t, "failed") =>
                        ~Unborn(u, t) /\ Dead(u, t) /\ u.row[t].st = "failed"
  BY FailedSubsides DEF Sound
<1>3. v \in RetryAll(u, D, on, live)
  BY DEF FailAndRetry
<1>4. D \in SUBSET Tasks /\ \A t \in D : ~Unborn(u, t) /\ Dead(u, t) /\ u.row[t].st = "failed"
  BY <1>2
<1>5. \A t \in F : Updatable(w, s, t, "failed") => t \in D
  OBVIOUS
<1> HIDE DEF u, D
<1>6. PICK h \in RetryMaps(u, D) :
        v \in IF DOMAIN h = {} THEN {u} ELSE Schedule(AddRetries(u, h), on, live)
  BY <1>3 DEF RetryAll
<1>7. Sound(v) /\ Onward(u, v) /\ Subsides(u, v)
  <2>1. CASE DOMAIN h = {}
    <3>1. v = u
      BY <1>6, <2>1
    <3>2. Good(u)
      BY <1>1 DEF Sound
    <3>3. Sound(v) /\ Onward(u, v)
      BY <1>1, <3>1, <3>2, SameTasksSound
    <3>4. Subsides(u, v)
      BY <3>1 DEF Subsides
    <3>5. QED
      BY <3>3, <3>4
  <2>2. CASE DOMAIN h # {}
    <3> DEFINE x == AddRetries(u, h)
    <3>1. Retries(u, h) /\ \A n \in DOMAIN h : h[n] \in D
      BY <1>4, RetryMapsRetry
    <3>2. Sound(x) /\ Subsides(u, x) /\ Onward(u, x)
      BY <1>1, <1>4, <3>1, AddRetriesSound
    <3> HIDE DEF x
    <3>3. v \in Schedule(x, on, live)
      BY <1>6, <2>2 DEF x
    <3>4. Sound(v) /\ Onward(x, v) /\ Subsides(x, v)
      BY <3>2, <3>3, ScheduleSound, PlacesSubsides
    <3>5. QED
      BY <3>2, <3>4, OnwardTransitive, SubsidesTransitive
  <2>3. QED
    BY <2>1, <2>2
<1>8. \A t \in F : Updatable(w, s, t, "failed") => ~Held(v, s, t)
  <2>1. ASSUME NEW t \in F, Updatable(w, s, t, "failed")
        PROVE  ~Held(v, s, t)
    <3>1. t \in Tasks /\ u.mem[s][t].st = "absent"
      BY <1>2, <2>1 DEF Dead, Held
    <3>2. u.row[t].loc \in {"stub", "archive"}
      <4>1. w.row[t].loc \in {"stub", "archive"}
        BY <2>1, <3>1 DEF Updatable, Sound, Good, Homed
      <4>2. QED
        BY <1>2, <3>1, <4>1 DEF Subsides
    <3>3. QED
      BY <1>7, <3>1, <3>2 DEF Subsides, Held
  <2>2. QED
    BY <2>1
<1>9. QED
  BY <1>1, <1>2, <1>7, <1>8, OnwardTransitive, SubsidesTransitive

LEMMA FailDisconnectedSound ==
  ASSUME NEW w, Sound(w), NEW s \in Stubs, NEW on \in SUBSET Stubs, NEW live,
         NEW v \in FailDisconnected(w, s, on, live)
  PROVE  Sound(v) /\ Onward(w, v)
<1> DEFINE F == {t \in HeldIn(w, s, {"running", "paused"}) : w.mem[s][t].off}
           K == {t \in F : w.mem[s][t].kill}
           u == SetStatus(w, s, K, "cancelled")
<1>1. F \in SUBSET Tasks /\ K \in SUBSET Tasks
  BY DEF HeldIn
<1>2. v \in FailAndRetry(u, s, F \ K, on, live)
  BY DEF FailDisconnected
<1> HIDE DEF F, K
<1>3. Sound(u) /\ Onward(w, u)
  BY <1>1, SetStatusSound DEF Terminal
<1> HIDE DEF u
<1>4. Sound(v) /\ Onward(u, v)
  BY <1>1, <1>2, <1>3, FailAndRetrySound
<1>5. QED
  BY <1>3, <1>4, OnwardTransitive

(***************************************************************************)
(* Tasks taken out of every array: requeued, or archived.                  *)
(***************************************************************************)
\* The tasks of T are in no array of v, and queued or archived there.
TakesOut(w, v, T) ==
  /\ \A t \in Tasks : t \notin T =>
       v.row[t] = w.row[t] /\ \A h \in Stubs : v.mem[h][t] = w.mem[h][t]
  /\ \A t \in T :
       /\ ~Unborn(w, t) /\ SameLineage(w, v, t)
       /\ \A h \in Stubs : v.mem[h][t].st = "absent"
       /\ w.row[t].st \in Terminal => w.row[t].st = "failed" /\ ~Dead(w, t)
       /\ \/ /\ v.row[t].loc = "global" /\ v.row[t].st = "pending"
             /\ w.row[t].st \notin {"running", "paused"}
          \/ v.row[t].loc = "archive" /\ v.row[t].st \in {"failed", "cancelled"}

LEMMA TakenOut ==
  ASSUME NEW w, Sound(w), NEW v, Good(v), NEW T \in SUBSET Tasks, TakesOut(w, v, T)
  PROVE  Sound(v) /\ Onward(w, v)
<1> USE DEF TakesOut
<1>1. Good(w) /\ Ordered(w) /\ Fits(w)
  BY DEF Sound
<1>2. \A t \in T, h \in Stubs : ~Held(v, h, t)
  BY DEF Held
<1>3. \A t \in Tasks : t \notin T => \A h \in Stubs : Held(v, h, t) <=> Held(w, h, t)
  BY DEF Held
<1>4. Filed(v)
  BY <1>1 DEF Ordered, Filed, Terminal
<1>5. Agrees(v)
  BY <1>1, <1>2, <1>3 DEF Ordered, Agrees
<1>6. Backed(v)
  BY <1>1 DEF Ordered, Backed
<1>7. Fits(v)
  <2>1. \A h \in Stubs, t \in Tasks : v.mem[h][t].st \in Reserving => w.mem[h][t].st \in Reserving
    BY DEF Reserving
  <2>2. QED
    BY <1>1, <2>1, FitsStill
<1>8. ASSUME NEW t \in T
      PROVE  ~Unborn(v, t) /\ GoesOn(w, v, t)
  <2>1. ~Unborn(v, t)
    BY DEF Unborn
  <2>2. v.row[t].st \in {"failed", "cancelled"} => Dead(v, t)
    BY <1>2 DEF Dead, Terminal
  <2>3. w.row[t].st \in {"pending", "assigned", "running", "paused"} \cup Terminal
    BY <1>1, RowStatuses
  <2>4. GoesOn(w, v, t)
    BY <2>2, <2>3 DEF GoesOn
  <2>5. QED
    BY <2>1, <2>4
<1>9. \A t \in Tasks : t \notin T => /\ Unborn(w, t) <=> Unborn(v, t)
                                     /\ SameLineage(w, v, t) /\ GoesOn(w, v, t)
  BY <1>1, <1>3, LeftAlone
<1>10. Onward(w, v)
  BY <1>8, <1>9 DEF Onward
<1>11. QED
  BY <1>4, <1>5, <1>6, <1>7, <1>10 DEF Sound, Ordered

\* What the arrays hold is not out of reach, and sits in one of them only.
LEMMA HeldFacts ==
  ASSUME NEW w, Sound(w), NEW s \in Stubs, NEW t \in Tasks, Held(w, s, t)
  PROVE  /\ ~Unborn(w, t) /\ ~Dead(w, t)
         /\ w.row[t].st \in Terminal => w.row[t].st = "failed"
         /\ w.row[t].st \in {w.mem[s][t].st, "failed"}
         /\ w.mem[s][t].st \in Reserving \cup {"failed"}
         /\ \A h \in Stubs : h # s => w.mem[h][t].st = "absent"
BY StatusFacts DEF Sound, Good, Homed, Ordered, Agrees, Unborn, Dead, Held, Reserving, Terminal

LEMMA RequeueSound ==
  ASSUME NEW w, Sound(w), NEW s \in Stubs
  PROVE  Sound(Requeue(w, s)) /\ Onward(w, Requeue(w, s))
<1> DEFINE T == Requeued(w, s)
           v == Requeue(w, s)
           R == [t \in Tasks |-> IF t \in T THEN Moved(w.row[t], "global", NoStub, "pending")
                                 ELSE w.row[t]]
           A == [t \in Tasks |-> IF t \in T THEN Absent ELSE w.mem[s][t]]
           M == [w.mem EXCEPT ![s] = A]
<1>1. v.row = R /\ v.mem = M
  BY DEF Requeue, RequeueRows
<1>2. w \in Worlds /\ Good(v)
  BY RequeueGood DEF Sound, Good
<1>3. \A t \in T : t \in Tasks /\ Held(w, s, t) /\ w.mem[s][t].st = "assigned"
  BY DEF Requeued, HeldIn, Held
<1> HIDE DEF T, v
<1>4. /\ \A h \in Stubs : M[h] = IF h = s THEN A ELSE w.mem[h]
      /\ \A t \in Tasks : A[t] = IF t \in T THEN Absent ELSE w.mem[s][t]
      /\ \A t \in Tasks : R[t] = IF t \in T THEN Moved(w.row[t], "global", NoStub, "pending")
                                ELSE w.row[t]
  BY <1>2, WorldParts
<1> HIDE DEF M, A, R
<1>5. \A t \in Tasks : t \notin T =>
        v.row[t] = w.row[t] /\ \A h \in Stubs : v.mem[h][t] = w.mem[h][t]
  BY <1>1, <1>4
<1>6. ASSUME NEW t \in T
      PROVE  /\ ~Unborn(w, t) /\ SameLineage(w, v, t)
             /\ \A h \in Stubs : v.mem[h][t].st = "absent"
             /\ w.row[t].st \in Terminal => w.row[t].st = "failed" /\ ~Dead(w, t)
             /\ v.row[t].loc = "global" /\ v.row[t].st = "pending"
             /\ w.row[t].st \notin {"running", "paused"}
  <2>1. /\ ~Unborn(w, t) /\ ~Dead(w, t)
        /\ w.row[t].st \in Terminal => w.row[t].st = "failed"
        /\ w.row[t].st \in {"assigned", "failed"}
        /\ \A h \in Stubs : h # s => w.mem[h][t].st = "absent"
    BY <1>3, HeldFacts
  <2>2. v.row[t] = Moved(w.row[t], "global", NoStub, "pending")
    BY <1>1, <1>3, <1>4
  <2>3. \A h \in Stubs : v.mem[h][t].st = "absent"
    BY <1>1, <1>3, <1>4, <2>1, FieldFacts
  <2>4. QED
    BY <2>1, <2>2, <2>3, FieldFacts, LineageFacts DEF SameLineage
<1>7. T \in SUBSET Tasks
  BY <1>3
<1>8. Sound(v) /\ Onward(w, v)
  BY <1>2, <1>5, <1>6, <1>7, TakenOut DEF TakesOut
<1>9. QED
  BY <1>8 DEF v

LEMMA ArchiveSound ==
  ASSUME NEW w, Sound(w), NEW t \in Tasks, w.row[t].home = NoStub,
         w.row[t].loc # "none", w.row[t].st \notin Terminal,
         NEW v, v = [row |-> [w.row EXCEPT ![t] = Moved(@, "archive", NoStub, "cancelled")],
                     mem |-> w.mem, down |-> w.down]
  PROVE  Sound(v) /\ Onward(w, v)
<1>1. w.row \in [Tasks -> Row]
  BY WorldParts DEF Sound, Good
<1>2. Good(v)
  BY ArchiveGood DEF Sound, Terminal
<1>3. \A u \in Tasks : v.row[u] = IF u = t THEN Moved(w.row[t], "archive", NoStub, "cancelled")
                                  ELSE w.row[u]
  BY <1>1
<1>4. v.mem = w.mem
  OBVIOUS
<1>5. \A h \in Stubs : v.mem[h][t].st = "absent"
  BY <1>4, ConstantsAssumption DEF Sound, Good, Homed, Held
<1>6. /\ ~Unborn(w, t) /\ SameLineage(w, v, t)
      /\ v.row[t].loc = "archive" /\ v.row[t].st = "cancelled"
  <2>1. v.row[t] = Moved(w.row[t], "archive", NoStub, "cancelled")
    BY <1>3
  <2>2. QED
    BY <2>1, FieldFacts, LineageFacts DEF Unborn, SameLineage
<1>7. \A u \in Tasks : u \notin {t} =>
        v.row[u] = w.row[u] /\ \A h \in Stubs : v.mem[h][u] = w.mem[h][u]
  BY <1>3, <1>4
<1>8. {t} \in SUBSET Tasks
  OBVIOUS
<1>9. \A u \in {t} : /\ ~Unborn(w, u) /\ SameLineage(w, v, u)
                     /\ \A h \in Stubs : v.mem[h][u].st = "absent"
                     /\ w.row[u].st \notin Terminal
                     /\ v.row[u].loc = "archive" /\ v.row[u].st \in {"failed", "cancelled"}
  BY <1>5, <1>6
<1>10. TakesOut(w, v, {t})
  BY <1>7, <1>8, <1>9 DEF TakesOut
<1>11. QED
  BY <1>2, <1>10, TakenOut

LEMMA UndoneSound ==
  ASSUME NEW w, Sound(w), w = World, NEW s \in Stubs, NEW t \in Tasks, mem[s][t].st = "assigned",
         NEW v, v = [row |-> [row EXCEPT ![t] = NewAttempt(@)],
                     mem |-> [mem EXCEPT ![s] = [u \in Tasks |-> IF u = t THEN Absent ELSE @[u]]],
                     down |-> down]
  PROVE  Sound(v) /\ Onward(w, v)
<1> DEFINE A == [u \in Tasks |-> IF u = t THEN Absent ELSE mem[s][u]]
           M == [mem EXCEPT ![s] = A]
<1>1. w.row = row /\ w.mem = mem /\ w \in Worlds
  BY DEF World, Sound, Good
<1>2. Good(v)
  BY UndoneGood DEF Sound
<1>3. row \in [Tasks -> Row] /\ mem \in [Stubs -> [Tasks -> Copy]]
  BY <1>1, WorldParts
<1>4. \A u \in Tasks : v.row[u] = IF u = t THEN NewAttempt(row[t]) ELSE row[u]
  BY <1>3
<1>5. v.mem = M /\ \A h \in Stubs : M[h] = IF h = s THEN A ELSE mem[h]
  BY <1>3
<1>6. \A u \in Tasks : A[u] = IF u = t THEN Absent ELSE mem[s][u]
  OBVIOUS
<1> HIDE DEF A, M
<1>7. Held(w, s, t) /\ w.mem[s][t].st = "assigned"
  BY <1>1 DEF Held
<1>8. /\ ~Unborn(w, t) /\ ~Dead(w, t)
      /\ w.row[t].st \in Terminal => w.row[t].st = "failed"
      /\ w.row[t].st \in {"assigned", "failed"}
      /\ \A h \in Stubs : h # s => w.mem[h][t].st = "absent"
  BY <1>7, HeldFacts
<1>9. \A h \in Stubs : v.mem[h][t].st = "absent"
  <2>1. v.mem[s][t] = Absent
    BY <1>5, <1>6
  <2>2. \A h \in Stubs : h # s => v.mem[h][t] = w.mem[h][t]
    BY <1>1, <1>5
  <2>3. QED
    BY <1>8, <2>1, <2>2, FieldFacts
<1>10. SameLineage(w, v, t) /\ v.row[t].loc = "global" /\ v.row[t].st = "pending"
  <2>1. v.row[t] = NewAttempt(w.row[t])
    BY <1>1, <1>4
  <2>2. QED
    BY <2>1, FieldFacts, LineageFacts DEF SameLineage
<1>11. \A u \in Tasks : u \notin {t} =>
         v.row[u] = w.row[u] /\ \A h \in Stubs : v.mem[h][u] = w.mem[h][u]
  BY <1>1, <1>4, <1>5, <1>6
<1>12. {t} \in SUBSET Tasks
  OBVIOUS
<1>13. \A u \in {t} : /\ ~Unborn(w, u) /\ SameLineage(w, v, u)
                      /\ \A h \in Stubs : v.mem[h][u].st = "absent"
                      /\ w.row[u].st \in Terminal => w.row[u].st = "failed" /\ ~Dead(w, u)
                      /\ v.row[u].loc = "global" /\ v.row[u].st = "pending"
                      /\ w.row[u].st \notin {"running", "paused"}
  BY <1>8, <1>9, <1>10
<1>14. TakesOut(w, v, {t})
  BY <1>11, <1>12, <1>13 DEF TakesOut
<1>15. QED
  BY <1>2, <1>14, TakenOut

(***************************************************************************)
(* A resume.                                                               *)
(***************************************************************************)
LEMMA DeadElsewhereSound ==
  ASSUME NEW w, Sound(w), NEW s \in Stubs, NEW m
  PROVE  LET v == DeadElsewhere(w, s, m) IN Sound(v) /\ Onward(w, v) /\ Subsides(w, v)
<1> DEFINE v == DeadElsewhere(w, s, m)
           Hit(h, t) == /\ h # s /\ t \in m.gone /\ ~Held(w, s, t)
                        /\ w.row[t].home = h /\ w.row[t].st \in Reserving
                        /\ Updatable(w, h, t, "failed")
           T == {t \in Tasks : \E h \in Stubs : Hit(h, t)}
           R == [t \in Tasks |-> IF \E h \in Stubs : Hit(h, t)
                                 THEN Moved(w.row[t], "archive", w.row[t].home, "failed")
                                 ELSE w.row[t]]
           M == [h \in Stubs |-> [t \in Tasks |-> IF Hit(h, t) THEN Absent ELSE w.mem[h][t]]]
<1>1. v.row = R /\ v.mem = M
  BY DEF DeadElsewhere
<1>2. Good(v)
  BY DeadElsewhereGood DEF Sound
<1>3. \A t \in Tasks, h \in Stubs : Hit(h, t) => Held(w, h, t) /\ w.row[t].st \in Reserving
  BY DEF Updatable
<1> HIDE DEF v, Hit
<1>4. \A t \in Tasks : R[t] = IF t \in T
                              THEN Moved(w.row[t], "archive", w.row[t].home, "failed") ELSE w.row[t]
  OBVIOUS
<1>5. \A t \in Tasks, h \in Stubs : M[h][t] = IF Hit(h, t) THEN Absent ELSE w.mem[h][t]
  OBVIOUS
<1>6. \A t \in Tasks : t \in T <=> \E h \in Stubs : Hit(h, t)
  OBVIOUS
<1>7. T \in SUBSET Tasks
  OBVIOUS
<1> HIDE DEF T, R, M
<1>8. \A t \in Tasks : t \notin T =>
        v.row[t] = w.row[t] /\ \A h \in Stubs : v.mem[h][t] = w.mem[h][t]
  BY <1>1, <1>4, <1>5, <1>6
<1>9. ASSUME NEW t \in T
      PROVE  /\ ~Unborn(w, t) /\ SameLineage(w, v, t)
             /\ w.row[t].st \notin Terminal
             /\ v.row[t].loc = "archive" /\ v.row[t].st = "failed"
             /\ \A h \in Stubs : v.mem[h][t].st = "absent"
  <2>1. PICK g \in Stubs : Hit(g, t)
    BY <1>6, <1>7
  <2>2. Held(w, g, t) /\ w.row[t].st \in Reserving /\ t \in Tasks
    BY <1>3, <1>7, <2>1
  <2>3. /\ ~Unborn(w, t)
        /\ \A h \in Stubs : h # g => w.mem[h][t].st = "absent"
    BY <2>2, HeldFacts
  <2>4. v.row[t] = Moved(w.row[t], "archive", w.row[t].home, "failed")
    BY <1>1, <1>4, <2>2
  <2>5. \A h \in Stubs : v.mem[h][t].st = "absent"
    BY <1>1, <1>5, <2>1, <2>2, <2>3, FieldFacts
  <2>6. QED
    BY <2>2, <2>3, <2>4, <2>5, FieldFacts, LineageFacts, StatusFacts DEF SameLineage
<1>10. TakesOut(w, v, T)
  BY <1>8, <1>9 DEF TakesOut
<1>11. Sound(v) /\ Onward(w, v)
  BY <1>2, <1>7, <1>10, TakenOut
<1>12. Subsides(w, v)
  BY <1>8, <1>9 DEF Subsides
<1>13. QED
  BY <1>11, <1>12 DEF v

\* World w knows the array a that a resume began with: its tasks are as they
\* were, or have failed, and no other task runs.
Recalls(w, s, a) ==
  \A t \in Tasks :
    /\ w.mem[s][t].st \in {"running", "paused"} => w.mem[s][t].st = a[t].st
    /\ a[t].st # "absent" =>
         /\ w.row[t].loc \in {"stub", "archive"} /\ w.row[t].st \in {a[t].st, "failed"}
         /\ \/ w.mem[s][t].st = a[t].st
            \/ w.mem[s][t].st = "absent" /\ w.row[t].st = "failed"

LEMMA RecallsStill ==
  ASSUME NEW w, NEW s \in Stubs, NEW a, Recalls(w, s, a), NEW v, Subsides(w, v)
  PROVE  Recalls(v, s, a)
<1> SUFFICES ASSUME NEW t \in Tasks
             PROVE  /\ v.mem[s][t].st \in {"running", "paused"} => v.mem[s][t].st = a[t].st
                    /\ a[t].st # "absent" =>
                         /\ v.row[t].loc \in {"stub", "archive"}
                         /\ v.row[t].st \in {a[t].st, "failed"}
                         /\ \/ v.mem[s][t].st = a[t].st
                            \/ v.mem[s][t].st = "absent" /\ v.row[t].st = "failed"
  BY DEF Recalls
<1>1. v.mem[s][t].st \in {"running", "paused"} => v.mem[s][t].st = a[t].st
  BY DEF Recalls, Subsides
<1>2. ASSUME a[t].st # "absent"
      PROVE  /\ v.row[t].loc \in {"stub", "archive"}
             /\ v.row[t].st \in {a[t].st, "failed"}
             /\ \/ v.mem[s][t].st = a[t].st
                \/ v.mem[s][t].st = "absent" /\ v.row[t].st = "failed"
  <2>1. /\ w.row[t].loc \in {"stub", "archive"} /\ w.row[t].st \in {a[t].st, "failed"}
        /\ \/ w.mem[s][t].st = a[t].st
           \/ w.mem[s][t].st = "absent" /\ w.row[t].st = "failed"
    BY <1>2 DEF Recalls
  <2>2. /\ v.row[t].loc \in {"stub", "archive"} /\ v.row[t].st \in {w.row[t].st, "failed"}
        /\ \/ v.mem[s][t].st = w.mem[s][t].st
           \/ v.mem[s][t].st = "absent" /\ v.row[t].st = "failed"
    BY <2>1 DEF Subsides
  <2>3. QED
    BY <2>1, <2>2
<1>3. QED
  BY <1>1, <1>2

LEMMA CaseASound ==
  ASSUME Sound(World), online \in SUBSET Stubs, NEW s \in Stubs, NEW m, NEW live,
         NEW w \in CaseA(s, m, live)
  PROVE  /\ Sound(w) /\ Onward(World, w) /\ Recalls(w, s, mem[s])
         /\ \A t \in Missing(s, m) : Updatable(World, s, t, "failed") => ~Held(w, s, t)
<1> DEFINE T == Flagged(s, m)
           c == Cleared(s, T)
           u == Put(World, s, c)
<1>1. T \in SUBSET Tasks /\ Missing(s, m) \in SUBSET Tasks
  BY DEF Flagged, Missing, HeldIn
<1>2. World.mem = mem /\ World \in Worlds /\ mem \in [Stubs -> [Tasks -> Copy]]
  BY WorldParts DEF World, Sound, Good
<1>3. ASSUME NEW t \in T
      PROVE  /\ World.mem[s][t].st \in {"running", "paused"} /\ Held(World, s, t)
             /\ c[t] \in Copy /\ c[t].st = mem[s][t].st
  <2>1. World.mem[s][t].st \in {"running", "paused"}
    BY DEF Flagged, HeldIn
  <2>2. mem[s][t] \in Copy
    BY <1>1, <1>2
  <2>3. c[t] = Flag(mem[s][t], FALSE, mem[s][t].kill)
    BY DEF Cleared
  <2>4. QED
    BY <1>2, <2>1, <2>2, <2>3 DEF Flag, Copy, Held
<1>4. DOMAIN c = T
  BY DEF Cleared
<1>5. w \in FailAndRetry(u, s, Missing(s, m), online, live)
  BY DEF CaseA
<1> HIDE DEF T, c
<1>6. \A t \in DOMAIN c : /\ t \in Tasks /\ Held(World, s, t) /\ c[t] \in Copy
                          /\ CanWrite(World.mem[s][t].st, c[t].st)
                          /\ c[t].st \in Reserving \cup Terminal
                          /\ c[t].st = World.mem[s][t].st
  BY <1>1, <1>2, <1>3, <1>4 DEF CanWrite, Reserving
<1>7. Sound(u) /\ Onward(World, u)
  BY <1>6, PutSound
<1>8. /\ \A t \in Tasks : u.row[t] =
           IF t \in DOMAIN c THEN Written(World.row[t], s, c[t]) ELSE World.row[t]
      /\ \A h \in Stubs, t \in Tasks : u.mem[h][t] =
           IF h # s \/ t \notin DOMAIN c THEN World.mem[h][t]
           ELSE IF c[t].st \in Terminal THEN Absent ELSE c[t]
  <2>1. \A t \in DOMAIN c : c[t].st \in Status
    BY <1>6, StatusFacts
  <2>2. DOMAIN c \subseteq Tasks
    BY <1>6
  <2>3. QED
    BY <1>2, <1>6, <2>1, <2>2, PutTyped
<1> HIDE DEF u
<1>9. \A t \in Tasks : u.mem[s][t].st = mem[s][t].st
  BY <1>2, <1>3, <1>4, <1>8 DEF Terminal
<1>10. Recalls(u, s, mem[s])
  <2>1. ASSUME NEW t \in Tasks, mem[s][t].st # "absent"
        PROVE  u.row[t].loc \in {"stub", "archive"} /\ u.row[t].st \in {mem[s][t].st, "failed"}
    <3>1. Held(World, s, t)
      BY <1>2, <2>1 DEF Held
    <3>2. /\ World.row[t].loc \in {"stub", "archive"}
          /\ World.row[t].st \in {mem[s][t].st, "failed"}
      BY <1>2, <3>1 DEF Sound, Good, Homed, Ordered, Agrees
    <3>3. CASE t \in DOMAIN c
      BY <1>3, <1>4, <1>8, <3>3, FieldFacts
    <3>4. CASE t \notin DOMAIN c
      BY <1>8, <3>2, <3>4
    <3>5. QED
      BY <3>3, <3>4
  <2>2. QED
    BY <1>9, <2>1 DEF Recalls
<1>11. /\ Sound(w) /\ Onward(u, w) /\ Subsides(u, w)
       /\ \A t \in Missing(s, m) : Updatable(u, s, t, "failed") => ~Held(w, s, t)
  BY <1>1, <1>5, <1>7, FailAndRetrySound
<1>12. \A t \in Missing(s, m) : Updatable(World, s, t, "failed") => Updatable(u, s, t, "failed")
  BY <1>1, <1>2, <1>9 DEF Updatable, Held
<1>13. QED
  BY <1>7, <1>10, <1>11, <1>12, OnwardTransitive, RecallsStill

\* The array a resume brings back takes no more slots than it did before, and
\* says what the rows say, unless they have failed meanwhile.
LEMMA RestoredSound ==
  ASSUME Sound(World), NEW w, Sound(w), Keeps(World, w), NEW s \in Stubs, NEW m,
         Recalls(w, s, mem[s]),
         \A t \in Missing(s, m) : Updatable(World, s, t, "failed") => ~Held(w, s, t),
         NEW a \in RestoredArrays(w, s, m)
  PROVE  Sound(SetStub(w, s, a))
<1> DEFINE Gone == {t \in Tasks : Held(World, s, t) /\ ~Held(w, s, t)}
           ByA == {t \in Missing(s, m) : Updatable(World, s, t, "failed")}
           First == IF ByA # {} THEN ByA ELSE Gone
           Before == IF ByA # {} THEN SUBSET Flagged(s, m) ELSE {Flagged(s, m)}
           Array(f, C) == [t \in Tasks |-> IF t = f THEN [mem[s][t] EXCEPT !.st = "failed"]
                                           ELSE IF t \in C THEN Cleared(s, C)[t] ELSE mem[s][t]]
           v == SetStub(w, s, a)
<1>1. World \in Worlds /\ World.mem = mem /\ w \in Worlds
  BY DEF Sound, Good, World
<1>2. w.mem \in [Stubs -> [Tasks -> Copy]] /\ mem \in [Stubs -> [Tasks -> Copy]]
  BY <1>1, WorldParts
<1>3. Good(v)
  BY RestoredGood DEF Sound
<1>4. v.row = w.row /\ \A h \in Stubs : v.mem[h] = IF h = s THEN a ELSE w.mem[h]
  BY <1>2 DEF SetStub
<1>5. Ordered(w) /\ Fits(w) /\ Ordered(World) /\ Fits(World)
  BY DEF Sound
<1>6. CASE Gone = {}
  <2>1. a = w.mem[s]
    BY <1>6 DEF RestoredArrays
  <2>2. v.mem = w.mem
    BY <1>2, <2>1 DEF SetStub
  <2>3. v.row = w.row
    BY <1>4
  <2> HIDE DEF v
  <2>4. Sound(v)
    BY <1>3, <2>2, <2>3, SameTasksSound
  <2>5. QED
    BY <2>4 DEF v
<1>7. CASE Gone # {}
  <2>1. a \in {Array(f, C) : f \in First, C \in Before}
    BY <1>7 DEF RestoredArrays
  <2>2. PICK f \in First, C \in Before : a = Array(f, C)
    BY <2>1
  <2>3. f \in Tasks /\ mem[s][f].st # "absent" /\ w.mem[s][f].st = "absent"
    BY <1>1 DEF Missing, HeldIn, Held
  <2>4. \A t \in C : Cleared(s, C)[t] = Flag(mem[s][t], FALSE, mem[s][t].kill)
    BY DEF Cleared
  <2>5. \A t \in C : Cleared(s, C)[t].st = mem[s][t].st
    <3>1. \A t : Flag(mem[s][t], FALSE, mem[s][t].kill).st = mem[s][t].st
      BY DEF Flag
    <3>2. QED
      BY <2>4, <3>1
  <2>6. \A t \in Tasks : a[t] = IF t = f THEN [mem[s][t] EXCEPT !.st = "failed"]
                                ELSE IF t \in C THEN Cleared(s, C)[t] ELSE mem[s][t]
    BY <2>2
  <2>7. mem[s][f] \in Copy
    BY <1>2, <2>3
  <2>8. [mem[s][f] EXCEPT !.st = "failed"].st = "failed"
    BY <2>7 DEF Copy
  <2> HIDE DEF v
  <2>9. \A t \in Tasks : a[t].st = IF t = f THEN "failed" ELSE mem[s][t].st
    BY <2>5, <2>6, <2>8
  <2>10. \A t \in Tasks : mem[s][t].st # "absent" =>
           /\ mem[s][t].st \in Reserving \cup {"failed"}
           /\ w.row[t].st \in {mem[s][t].st, "failed"}
           /\ w.mem[s][t].st = "absent" => w.row[t].st = "failed"
    BY <1>1, <1>5 DEF Ordered, Agrees, Held, Recalls
  <2>11. Filed(v)
    BY <1>4, <1>5 DEF Ordered, Filed
  <2>12. Agrees(v)
    <3>1. ASSUME NEW h \in Stubs, NEW t \in Tasks, Held(v, h, t)
          PROVE  /\ v.mem[h][t].st \in Reserving \cup {"failed"}
                 /\ v.row[t].st \in {v.mem[h][t].st, "failed"}
      <4>1. CASE h # s
        BY <1>4, <1>5, <3>1, <4>1 DEF Ordered, Agrees, Held
      <4>2. CASE h = s /\ t = f
        BY <1>4, <2>3, <2>9, <2>10, <4>2
      <4>3. CASE h = s /\ t # f
        BY <1>4, <2>9, <2>10, <3>1, <4>3 DEF Held
      <4>4. QED
        BY <4>1, <4>2, <4>3
    <3>2. QED
      BY <3>1 DEF Agrees
  <2>13. Backed(v)
    <3>1. ASSUME NEW h \in Stubs, NEW t \in Tasks, v.row[t].loc = "stub", v.row[t].home = h,
                 v.row[t].st \in {"running", "paused"}
          PROVE  v.mem[h][t].st \in {"running", "paused"}
      <4>1. w.mem[h][t].st \in {"running", "paused"}
        BY <1>4, <1>5, <3>1 DEF Ordered, Backed
      <4>2. CASE h # s
        BY <1>4, <4>1, <4>2
      <4>3. CASE h = s
        <5>1. mem[s][t].st = w.mem[s][t].st /\ t # f
          BY <2>3, <4>1, <4>3 DEF Recalls
        <5>2. QED
          BY <1>4, <2>9, <4>1, <4>3, <5>1
      <4>4. QED
        BY <4>2, <4>3
    <3>2. QED
      BY <3>1 DEF Backed
  <2>14. Fits(v)
    <3>1. ASSUME NEW h \in Stubs PROVE Cardinality(Active(v, h)) <= MaxConcurrent
      <4>1. CASE h # s
        <5>1. Active(v, h) = Active(w, h)
          BY <1>4, <4>1 DEF Active, HeldIn
        <5>2. QED
          BY <1>5, <5>1 DEF Fits
      <4>2. CASE h = s
        <5>1. Active(v, s) \in SUBSET Active(World, s)
          BY <1>1, <1>4, <2>9 DEF Active, HeldIn, Reserving
        <5>2. Cardinality(Active(v, s)) <= Cardinality(Active(World, s))
          BY <5>1, ActiveFinite, FS_Subset
        <5>3. Cardinality(Active(World, s)) <= MaxConcurrent
          BY <1>5 DEF Fits
        <5>4. QED
          BY <4>2, <5>2, <5>3, ActiveFinite, ConstantsAssumption
      <4>3. QED
        BY <4>1, <4>2
    <3>2. QED
      BY <3>1 DEF Fits
  <2>15. Sound(v)
    BY <1>3, <2>11, <2>12, <2>13, <2>14 DEF Sound, Ordered, v
  <2>16. QED
    BY <2>15 DEF v
<1>8. QED
  BY <1>6, <1>7

(***************************************************************************)
(* The actions: each commits a sound world that its rows may lawfully move *)
(* to.                                                                     *)
(***************************************************************************)
SlotInv == IndInv /\ Sound(World)

RowsLawful == Lawful([row |-> row], [row |-> row'])

\* Lawful is about the rows only.
LEMMA LawfulRows ==
  ASSUME NEW w, NEW v, Lawful(w, v), NEW x, x.row = v.row, NEW u, u.row = w.row
  PROVE  Lawful(u, x)
BY DEF Lawful, Unborn, SameLineage, FirstOf, RetryOf

LEMMA CommittedLawfully ==
  ASSUME NEW w, Sound(w), Lawful(World, w), Commit(w)
  PROVE  Sound(World)' /\ RowsLawful
<1>1. w.row = row' /\ w.mem = mem' /\ w.down = down'
  BY DEF Commit
<1>2. w \in Worlds
  BY DEF Sound, Good
<1>3. World' = [row |-> row', mem |-> mem', down |-> down']
  BY DEF World
<1>4. w = [row |-> w.row, mem |-> w.mem, down |-> w.down]
  BY <1>2 DEF Worlds
<1>5. World' = w
  BY <1>1, <1>3, <1>4
<1>6. Sound(World)'
  BY <1>5
<1>7. RowsLawful
  BY <1>1, LawfulRows DEF RowsLawful, World
<1>8. QED
  BY <1>6, <1>7

LEMMA CommittedOnward ==
  ASSUME NEW w, Sound(w), Onward(World, w), Commit(w)
  PROVE  Sound(World)' /\ RowsLawful
BY OnwardIsLawful, CommittedLawfully DEF Sound

LEMMA CommittedNothing ==
  ASSUME Sound(World), UNCHANGED <<row, mem>>, Good(World)'
  PROVE  Sound(World)' /\ RowsLawful
<1>1. World.row = row /\ World.mem = mem /\ World'.row = row /\ World'.mem = mem
  BY DEF World
<1> DEFINE v == World'
<1>2. Good(v)
  OBVIOUS
<1> HIDE DEF v
<1>3. v.row = World.row /\ v.mem = World.mem
  BY <1>1 DEF v
<1>4. Sound(v) /\ Onward(World, v)
  BY <1>2, <1>3, SameTasksSound
<1>5. Lawful(World, v)
  BY <1>4, OnwardIsLawful DEF Sound
<1>6. QED
  BY <1>1, <1>4, <1>5, LawfulRows DEF v, RowsLawful, World

LEMMA SlotFacts ==
  ASSUME SlotInv
  PROVE  /\ Sound(World) /\ Good(World) /\ RestTypeOK /\ online \in SUBSET Stubs
         /\ World.row = row /\ World.mem = mem /\ World.down = down
         /\ row \in [Tasks -> Row] /\ mem \in [Stubs -> [Tasks -> Copy]]
<1>1. Sound(World) /\ Good(World) /\ RestTypeOK
  BY InvOfWorld DEF SlotInv
<1>2. World.row = row /\ World.mem = mem /\ World.down = down
  BY DEF World
<1>3. row \in [Tasks -> Row] /\ mem \in [Stubs -> [Tasks -> Copy]]
  BY <1>1, <1>2, WorldParts DEF Good
<1>4. QED
  BY <1>1, <1>2, <1>3 DEF RestTypeOK

LEMMA GoodNext ==
  ASSUME IndInv'
  PROVE  Good(World)'
<1>1. /\ row' \in [Tasks -> Row] /\ mem' \in [Stubs -> [Tasks -> Copy]]
      /\ down' \in [Stubs -> SUBSET DownMsg]
  BY DEF IndInv, TypeOK
<1>2. World' = [row |-> row', mem |-> mem', down |-> down']
  BY DEF World
<1>3. World' \in Worlds /\ (World').row = row' /\ (World').mem = mem'
  BY <1>1, <1>2 DEF Worlds
<1>4. Homed(World)'
  BY <1>3 DEF IndInv, OneHome, Homed, Held
<1>5. Finished(World)'
  BY <1>3 DEF IndInv, CompletedGone, Finished, Held
<1>6. QED
  BY <1>3, <1>4, <1>5 DEF Good

LEMMA QuietStep ==
  ASSUME SlotInv, UNCHANGED <<row, mem>>, IndInv'
  PROVE  Sound(World)' /\ RowsLawful
BY GoodNext, CommittedNothing, SlotFacts

LEMMA ScheduledStep ==
  ASSUME SlotInv, NEW w, Sound(w), Lawful(World, w), NEW on \in SUBSET Stubs, NEW live,
         NEW v \in Schedule(w, on, live), Commit(v)
  PROVE  Sound(World)' /\ RowsLawful
BY SlotFacts, ThenScheduled, CommittedLawfully

LEMMA StatusSlots ==
  ASSUME SlotInv, NEW s \in Stubs, NEW T \in SUBSET Tasks, NEW st \in Reserving \cup Terminal,
         Commit(SetStatus(World, s, T, st))
  PROVE  Sound(World)' /\ RowsLawful
BY SlotFacts, SetStatusSound, CommittedLawfully

LEMMA StatusScheduledSlots ==
  ASSUME SlotInv, NEW s \in Stubs, NEW T \in SUBSET Tasks, NEW st \in Reserving \cup Terminal,
         NEW on \in SUBSET Stubs, NEW live,
         NEW v \in Schedule(SetStatus(World, s, T, st), on, live), Commit(v)
  PROVE  Sound(World)' /\ RowsLawful
<1> DEFINE w == SetStatus(World, s, T, st)
<1>1. Sound(w) /\ Lawful(World, w)
  BY SlotFacts, SetStatusSound
<1> HIDE DEF w
<1>2. v \in Schedule(w, on, live)
  BY DEF w
<1>3. QED
  BY <1>1, <1>2, ScheduledStep

LEMMA SubmitSlots ==
  ASSUME SlotInv, Submit
  PROVE  Sound(World)' /\ RowsLawful
<1>1. PICK N \in NextIds(World) :
        \E v \in Schedule(Submitted(World, N), online, Live) : Commit(v)
  BY DEF Submit
<1>2. PICK v \in Schedule(Submitted(World, N), online, Live) : Commit(v)
  BY <1>1
<1>3. Sound(Submitted(World, N)) /\ Onward(World, Submitted(World, N))
  BY SlotFacts, SubmittedSound
<1>4. Lawful(World, Submitted(World, N))
  BY <1>3, OnwardIsLawful DEF Sound
<1>5. QED
  BY <1>2, <1>3, <1>4, SlotFacts, ScheduledStep

LEMMA KillSlots ==
  ASSUME SlotInv, NEW t \in Tasks, Kill(t)
  PROVE  Sound(World)' /\ RowsLawful
<1> DEFINE s == row[t].home
           c == [u \in {u \in {t} : Held(World, s, u)} |-> Flag(mem[s][u], mem[s][u].off, TRUE)]
<1>1. /\ Sound(World) /\ online \in SUBSET Stubs /\ World.row = row /\ World.mem = mem
      /\ World.down = down
      /\ row \in [Tasks -> Row] /\ mem \in [Stubs -> [Tasks -> Copy]]
  BY SlotFacts
<1>2. s \in Stubs \cup {NoStub}
  <2>1. row[t] \in Row
    BY <1>1
  <2>2. QED
    BY <2>1 DEF Row
<1>3. CASE s \in online /\ Commit(Send(Put(World, s, c), s, Live, {Msg("kill", t)}))
  <2>1. s \in Stubs
    BY <1>1, <1>3
  <2>2. \A u \in DOMAIN c : /\ u \in Tasks /\ Held(World, s, u)
                            /\ c[u] = Flag(mem[s][u], mem[s][u].off, TRUE)
    OBVIOUS
  <2> HIDE DEF s, c
  <2>3. \A u \in DOMAIN c : /\ c[u] \in Copy /\ c[u].st = mem[s][u].st
                            /\ mem[s][u].st \in Reserving \cup Terminal
    <3>1. ASSUME NEW u \in DOMAIN c
          PROVE  mem[s][u] \in Copy /\ mem[s][u].st \in Reserving \cup {"failed"}
      BY <1>1, <2>1, <2>2 DEF Sound, Ordered, Agrees
    <3>2. ASSUME NEW u \in DOMAIN c
          PROVE  Flag(mem[s][u], mem[s][u].off, TRUE) \in Copy
                 /\ Flag(mem[s][u], mem[s][u].off, TRUE).st = mem[s][u].st
      BY <3>1 DEF Copy, Flag
    <3>3. QED
      BY <2>2, <3>1, <3>2 DEF Terminal
  <2>4. \A u \in DOMAIN c : /\ u \in Tasks /\ Held(World, s, u) /\ c[u] \in Copy
                            /\ CanWrite(World.mem[s][u].st, c[u].st)
                            /\ c[u].st \in Reserving \cup Terminal
    BY <1>1, <2>2, <2>3 DEF CanWrite
  <2>5. \A u \in DOMAIN c : c[u].st \in Terminal \cup {World.mem[s][u].st}
    BY <1>1, <2>3
  <2> DEFINE v == Put(World, s, c)
  <2>6. Sound(v) /\ Onward(World, v)
    BY <1>1, <2>1, <2>4, <2>5, PutSound
  <2> HIDE DEF v
  <2>7. {Msg("kill", t)} \in SUBSET DownMsg
    BY MsgFacts
  <2> DEFINE x == Send(v, s, Live, {Msg("kill", t)})
  <2>8. Sound(x) /\ Onward(v, x)
    BY <2>1, <2>6, <2>7, SendSound
  <2>9. Commit(x)
    BY <1>3 DEF v
  <2> HIDE DEF x
  <2>10. Onward(World, x)
    BY <2>6, <2>8, OnwardTransitive
  <2>11. QED
    BY <2>8, <2>9, <2>10, CommittedOnward, <1>1
<1>4. CASE s # NoStub /\ Commit(SetStatus(World, s, {t}, "cancelled"))
  <2>1. s \in Stubs /\ {t} \in SUBSET Tasks /\ "cancelled" \in Reserving \cup Terminal
    BY <1>2, <1>4 DEF Terminal
  <2>2. QED
    BY <1>4, <2>1, StatusSlots
<1>5. CASE /\ s = NoStub
           /\ Commit([row |-> [row EXCEPT ![t] = Moved(@, "archive", NoStub, "cancelled")],
                      mem |-> mem, down |-> down])
  <2> DEFINE v == [row |-> [World.row EXCEPT ![t] = Moved(@, "archive", NoStub, "cancelled")],
                   mem |-> World.mem, down |-> World.down]
  <2>1. Commit(v)
    BY <1>1, <1>5
  <2>2. World.row[t].home = NoStub /\ World.row[t].loc # "none" /\ World.row[t].st \notin Terminal
    BY <1>1, <1>5 DEF Kill
  <2>3. Sound(v) /\ Onward(World, v)
    BY <1>1, <2>2, ArchiveSound
  <2> HIDE DEF v
  <2>4. QED
    BY <1>1, <2>1, <2>3, CommittedOnward
<1>6. QED
  BY <1>3, <1>4, <1>5 DEF Kill

LEMMA CancelAssignedSlots ==
  ASSUME SlotInv, NEW t \in Tasks, CancelAssigned(t)
  PROVE  Sound(World)' /\ RowsLawful
<1>1. row[t].home \in Stubs
  BY HomeOfRow DEF CancelAssigned, SlotInv
<1>2. {t} \in SUBSET Tasks /\ "cancelled" \in Reserving \cup Terminal
  BY DEF Terminal
<1>3. QED
  BY <1>1, <1>2, StatusSlots DEF CancelAssigned

LEMMA PauseSlots ==
  ASSUME SlotInv, NEW t \in Tasks, Pause(t)
  PROVE  Sound(World)' /\ RowsLawful
<1>1. row[t].home \in Stubs
  BY HomeOfRow DEF Pause, SlotInv
<1>2. {t} \in SUBSET Tasks /\ {"paused", "running"} \subseteq Reserving \cup Terminal
  BY DEF Reserving
<1>3. PICK st \in {"paused", "running"} : Commit(SetStatus(World, row[t].home, {t}, st))
  BY DEF Pause
<1>4. QED
  BY <1>1, <1>2, <1>3, StatusSlots

LEMMA ScheduleTickSlots ==
  ASSUME SlotInv, ScheduleTick
  PROVE  Sound(World)' /\ RowsLawful
<1>1. PICK v \in Schedule(World, online, Live) : Commit(v)
  BY DEF ScheduleTick
<1>2. Sound(v) /\ Onward(World, v)
  BY <1>1, SlotFacts, ScheduleSound
<1>3. QED
  BY <1>1, <1>2, SlotFacts, CommittedOnward

LEMMA KillAgainSlots ==
  ASSUME SlotInv, NEW s \in Stubs, NEW t \in Tasks, KillAgain(s, t), IndInv'
  PROVE  Sound(World)' /\ RowsLawful
<1>1. UNCHANGED <<row, mem>>
  BY SlotFacts DEF KillAgain, Commit, Send
<1>2. QED
  BY <1>1, QuietStep

LEMMA DispatchTimeoutSlots ==
  ASSUME SlotInv, NEW s \in Stubs, NEW t \in Tasks, DispatchTimeout(s, t)
  PROVE  Sound(World)' /\ RowsLawful
<1> DEFINE w == [row |-> [row EXCEPT ![t] = NewAttempt(@)],
                 mem |-> [mem EXCEPT ![s] = [u \in Tasks |-> IF u = t THEN Absent ELSE @[u]]],
                 down |-> down]
<1>1. CASE Commit(SetStatus(World, s, {t}, "failed"))
  <2>1. {t} \in SUBSET Tasks /\ "failed" \in Reserving \cup Terminal
    BY DEF Terminal
  <2>2. QED
    BY <1>1, <2>1, StatusSlots
<1>2. CASE \E v \in Schedule(w, online, Live) : Commit(v)
  <2>1. mem[s][t].st = "assigned"
    BY DEF DispatchTimeout
  <2>2. Sound(w) /\ Onward(World, w)
    BY <2>1, SlotFacts, UndoneSound
  <2> HIDE DEF w
  <2>3. Lawful(World, w)
    BY <2>2, OnwardIsLawful DEF Sound
  <2>4. QED
    BY <1>2, <2>2, <2>3, SlotFacts, ScheduledStep
<1>3. QED
  BY <1>1, <1>2 DEF DispatchTimeout

LEMMA HeartbeatTimeoutSlots ==
  ASSUME SlotInv, NEW s \in Stubs, HeartbeatTimeout(s)
  PROVE  Sound(World)' /\ RowsLawful
<1>1. Sound(World) /\ online' \in SUBSET Stubs
  BY SlotFacts DEF HeartbeatTimeout
<1>2. PICK w \in FailDisconnected(Requeue(World, s), s, online', Live) : Commit(w)
  BY DEF HeartbeatTimeout
<1>3. Sound(Requeue(World, s)) /\ Onward(World, Requeue(World, s))
  BY <1>1, RequeueSound
<1>4. Sound(w) /\ Onward(Requeue(World, s), w)
  BY <1>1, <1>2, <1>3, FailDisconnectedSound
<1>5. Onward(World, w)
  BY <1>3, <1>4, OnwardTransitive
<1>6. QED
  BY <1>1, <1>2, <1>4, <1>5, CommittedOnward

LEMMA DisconnectFailSlots ==
  ASSUME SlotInv, NEW s \in Stubs, DisconnectFail(s), IndInv'
  PROVE  Sound(World)' /\ RowsLawful
<1>1. CASE s \in online
  <2>1. UNCHANGED <<row, mem>>
    BY <1>1, SlotFacts DEF DisconnectFail, Commit
  <2>2. QED
    BY <2>1, QuietStep
<1>2. CASE s \notin online
  <2>1. PICK w \in FailDisconnected(World, s, online, Live) : Commit(w)
    BY <1>2 DEF DisconnectFail
  <2>2. Sound(w) /\ Onward(World, w)
    BY <2>1, SlotFacts, FailDisconnectedSound
  <2>3. QED
    BY <2>1, <2>2, SlotFacts, CommittedOnward
<1>3. QED
  BY <1>1, <1>2

LEMMA DisconnectSlots ==
  ASSUME SlotInv, NEW s \in Stubs, Disconnect(s)
  PROVE  Sound(World)' /\ RowsLawful
<1> DEFINE w == Requeue(World, s)
           R == {t \in HeldIn(w, s, {"running", "paused"}) : w.row[t].st \in {"running", "paused"}}
           c == [t \in R |-> Flag(w.mem[s][t], TRUE, w.mem[s][t].kill)]
           v == Put(w, s, c)
<1>1. Sound(World) /\ online' \in SUBSET Stubs
  BY SlotFacts DEF Disconnect
<1>2. PICK x \in Schedule(v, online', Live) : Commit(x)
  BY DEF Disconnect
<1>3. Sound(w) /\ Onward(World, w)
  BY <1>1, RequeueSound
<1>4. R \in SUBSET Tasks
  BY DEF HeldIn
<1>5. \A t \in R : w.mem[s][t].st \in {"running", "paused"}
  BY DEF HeldIn
<1>6. DOMAIN c = R /\ \A t \in R : c[t] = Flag(w.mem[s][t], TRUE, w.mem[s][t].kill)
  OBVIOUS
<1> HIDE DEF w, R, c
<1>7. \A t \in R : c[t] \in Copy /\ c[t].st = w.mem[s][t].st
  <2>1. ASSUME NEW t \in R PROVE w.mem[s][t] \in Copy
    BY <1>3, <1>4, WorldParts DEF Sound, Good
  <2>2. ASSUME NEW t \in R
        PROVE  /\ Flag(w.mem[s][t], TRUE, w.mem[s][t].kill) \in Copy
               /\ Flag(w.mem[s][t], TRUE, w.mem[s][t].kill).st = w.mem[s][t].st
    BY <2>1 DEF Copy, Flag
  <2>3. QED
    BY <1>6, <2>2
<1>8. \A t \in DOMAIN c : /\ t \in Tasks /\ Held(w, s, t) /\ c[t] \in Copy
                          /\ CanWrite(w.mem[s][t].st, c[t].st)
                          /\ c[t].st \in Reserving \cup Terminal
  BY <1>4, <1>5, <1>6, <1>7 DEF CanWrite, Held, Reserving
<1>9. \A t \in DOMAIN c : c[t].st \in Terminal \cup {w.mem[s][t].st}
  BY <1>6, <1>7
<1>10. Sound(v) /\ Onward(w, v)
  BY <1>3, <1>8, <1>9, PutSound
<1> HIDE DEF v
<1>11. Sound(x) /\ Onward(v, x)
  BY <1>1, <1>2, <1>10, ScheduleSound
<1>12. Onward(World, x)
  BY <1>3, <1>10, <1>11, OnwardTransitive
<1>13. QED
  BY <1>1, <1>2, <1>11, <1>12, CommittedOnward

LEMMA SyncRequestSlots ==
  ASSUME SlotInv, NEW s \in Stubs, SyncRequest(s), IndInv'
  PROVE  Sound(World)' /\ RowsLawful
BY QuietStep DEF SyncRequest

\* A restart makes the arrays from the rows: what was backed holds its slot again.
LEMMA ServerRestartSlots ==
  ASSUME SlotInv, ServerRestart, IndInv'
  PROVE  Sound(World)' /\ RowsLawful
<1> DEFINE Kept(s, t) == row[t].loc = "stub" /\ row[t].home = s /\ row[t].st # "assigned"
           C(t) == [st |-> row[t].st, off |-> row[t].off, kill |-> row[t].kill]
           Lost(t) == row[t].loc = "stub" /\ row[t].st = "assigned"
<1>1. /\ Sound(World) /\ World.row = row /\ World.mem = mem
      /\ row \in [Tasks -> Row] /\ mem \in [Stubs -> [Tasks -> Copy]]
  BY SlotFacts
<1>2. /\ mem' = [s \in Stubs |-> [t \in Tasks |-> IF Kept(s, t) THEN C(t) ELSE Absent]]
      /\ row' = [t \in Tasks |-> IF Lost(t) THEN Moved(row[t], "global", NoStub, "pending")
                                 ELSE row[t]]
  BY DEF ServerRestart
<1>3. \A t \in Tasks : C(t).st = row[t].st
  OBVIOUS
<1> HIDE DEF C
<1> DEFINE v == World'
<1>4. Good(v)
  BY GoodNext
<1>5. v.row = row' /\ v.mem = mem'
  BY DEF World
<1> HIDE DEF v
<1>6. \A s \in Stubs, t \in Tasks : v.mem[s][t].st = IF Kept(s, t) THEN row[t].st ELSE "absent"
  BY <1>2, <1>3, <1>5, FieldFacts
<1>7. \A t \in Tasks : IF Lost(t)
                       THEN /\ v.row[t].loc = "global" /\ v.row[t].st = "pending"
                            /\ v.row[t].rc = row[t].rc /\ v.row[t].root = row[t].root
                       ELSE v.row[t] = row[t]
  BY <1>2, <1>5, FieldFacts, LineageFacts
<1>8. /\ Filed(World) /\ Agrees(World) /\ Backed(World) /\ Fits(World)
      /\ \A t \in Tasks : /\ row[t].loc = "stub" => row[t].st \in Reserving /\ row[t].home \in Stubs
                          /\ row[t].loc = "archive" => row[t].st \in Terminal
                          /\ row[t].loc \in {"none", "global"} => row[t].st = "pending"
  BY <1>1 DEF Sound, Ordered, Filed
<1>9. \A s \in Stubs, t \in Tasks :
        Kept(s, t) => /\ row[t].st \in {"running", "paused"} /\ ~Lost(t)
                      /\ mem[s][t].st \in {"running", "paused"}
  BY <1>1, <1>8 DEF Backed, Reserving
<1>10. Filed(v)
  BY <1>7, <1>8 DEF Filed
<1>11. Agrees(v)
  <2>1. ASSUME NEW s \in Stubs, NEW t \in Tasks, Held(v, s, t)
        PROVE  /\ v.mem[s][t].st \in Reserving \cup {"failed"}
               /\ v.row[t].st \in {v.mem[s][t].st, "failed"}
    <3>1. Kept(s, t)
      BY <1>6, <2>1 DEF Held
    <3>2. QED
      BY <1>6, <1>7, <1>9, <3>1 DEF Reserving
  <2>2. QED
    BY <2>1 DEF Agrees
<1>12. Backed(v)
  <2>1. ASSUME NEW s \in Stubs, NEW t \in Tasks, v.row[t].loc = "stub", v.row[t].home = s,
               v.row[t].st \in {"running", "paused"}
        PROVE  v.mem[s][t].st \in {"running", "paused"}
    <3>1. ~Lost(t) /\ v.row[t] = row[t]
      BY <1>7, <2>1
    <3>2. Kept(s, t)
      BY <2>1, <3>1
    <3>3. QED
      BY <1>6, <2>1, <3>1, <3>2
  <2>2. QED
    BY <2>1 DEF Backed
<1>13. Fits(v)
  <2>1. ASSUME NEW s \in Stubs, NEW t \in Tasks, v.mem[s][t].st \in Reserving
        PROVE  World.mem[s][t].st \in Reserving
    <3>1. Kept(s, t)
      BY <1>6, <2>1 DEF Reserving
    <3>2. QED
      BY <1>1, <1>9, <3>1 DEF Reserving
  <2>2. QED
    BY <1>8, <2>1, FitsStill
<1>14. Sound(v)
  BY <1>4, <1>10, <1>11, <1>12, <1>13 DEF Sound, Ordered
<1>15. Onward(World, v)
  <2>1. ASSUME NEW t \in Tasks, Lost(t)
        PROVE  ~Unborn(World, t) /\ ~Unborn(v, t) /\ SameLineage(World, v, t) /\ GoesOn(World, v, t)
    BY <1>1, <1>7, <2>1 DEF Unborn, SameLineage, GoesOn
  <2>2. ASSUME NEW t \in Tasks, ~Lost(t)
        PROVE  /\ Unborn(World, t) <=> Unborn(v, t)
               /\ SameLineage(World, v, t) /\ GoesOn(World, v, t)
    <3>1. v.row[t] = World.row[t]
      BY <1>1, <1>7, <2>2
    <3>2. \A s \in Stubs : Held(v, s, t) => Held(World, s, t)
      BY <1>1, <1>6, <1>9 DEF Held
    <3>3. Good(World) /\ Ordered(World)
      BY <1>1 DEF Sound
    <3>4. QED
      BY <3>1, <3>2, <3>3, LeftAlone
  <2>3. QED
    BY <2>1, <2>2 DEF Onward
<1>16. Lawful(World, v)
  BY <1>14, <1>15, OnwardIsLawful DEF Sound
<1>17. QED
  BY <1>1, <1>5, <1>14, <1>16, LawfulRows DEF v, RowsLawful

LEMMA HandleTaskStartedSlots ==
  ASSUME SlotInv, NEW s \in Stubs, NEW t \in Tasks, HandleTaskStarted(s, t)
  PROVE  Sound(World)' /\ RowsLawful
<1>1. {t} \in SUBSET Tasks /\ "running" \in Reserving \cup Terminal
  BY DEF Reserving
<1>2. QED
  BY <1>1, StatusSlots DEF HandleTaskStarted

LEMMA HandleTaskLogSlots ==
  ASSUME SlotInv, NEW s \in Stubs, NEW t \in Tasks, HandleTaskLog(s, t), IndInv'
  PROVE  Sound(World)' /\ RowsLawful
<1>1. CASE ~Held(World, s, t)
  <2>1. UNCHANGED <<row, mem>>
    BY <1>1, SlotFacts DEF HandleTaskLog, Commit
  <2>2. QED
    BY <2>1, QuietStep
<1>2. CASE Held(World, s, t)
  <2> DEFINE st == IF mem[s][t].st = "assigned" THEN "running" ELSE mem[s][t].st
  <2>1. st \in Reserving \cup Terminal /\ {t} \in SUBSET Tasks
    <3>1. mem[s][t].st \in Reserving \cup {"failed"}
      BY <1>2, SlotFacts DEF Sound, Ordered, Agrees
    <3>2. QED
      BY <3>1 DEF Reserving, Terminal
  <2>2. Commit(SetStatus(World, s, {t}, st))
    BY <1>2 DEF HandleTaskLog
  <2> HIDE DEF st
  <2>3. QED
    BY <2>1, <2>2, StatusSlots
<1>3. QED
  BY <1>1, <1>2

LEMMA HandleTaskCompletedSlots ==
  ASSUME SlotInv, NEW s \in Stubs, NEW t \in Tasks, HandleTaskCompleted(s, t), IndInv'
  PROVE  Sound(World)' /\ RowsLawful
<1> DEFINE target == IF mem[s][t].kill THEN "cancelled" ELSE "completed"
<1>1. \/ Commit(World)
      \/ \E v \in Schedule(SetStatus(World, s, {t}, target), online, Live) : Commit(v)
  BY DEF HandleTaskCompleted
<1>2. target \in Reserving \cup Terminal /\ {t} \in SUBSET Tasks
  BY DEF Terminal
<1> HIDE DEF target
<1>3. CASE Commit(World)
  BY <1>3, QuietStep, SlotFacts DEF Commit
<1>4. CASE \E v \in Schedule(SetStatus(World, s, {t}, target), online, Live) : Commit(v)
  BY <1>2, <1>4, SlotFacts, StatusScheduledSlots
<1>5. QED
  BY <1>1, <1>3, <1>4

LEMMA HandlePreflightFailSlots ==
  ASSUME SlotInv, NEW s \in Stubs, NEW t \in Tasks, HandlePreflightFail(s, t), IndInv'
  PROVE  Sound(World)' /\ RowsLawful
<1>1. \/ Commit(World)
      \/ \E v \in Schedule(SetStatus(World, s, {t}, "failed"), online, Live) : Commit(v)
  BY DEF HandlePreflightFail
<1>2. "failed" \in Reserving \cup Terminal /\ {t} \in SUBSET Tasks
  BY DEF Terminal
<1>3. CASE Commit(World)
  BY <1>3, QuietStep, SlotFacts DEF Commit
<1>4. CASE \E v \in Schedule(SetStatus(World, s, {t}, "failed"), online, Live) : Commit(v)
  BY <1>2, <1>4, SlotFacts, StatusScheduledSlots
<1>5. QED
  BY <1>1, <1>3, <1>4

\* The retry of a failed task; of a paused one, which cannot be failed, too.
LEMMA RetriedSlots ==
  ASSUME SlotInv, NEW s \in Stubs, NEW t \in Tasks, Held(World, s, t),
         NEW h \in RetryMaps(World, {t}),
         NEW v, v = AddRetries(SetStatus(World, s, {t}, "failed"), h)
  PROVE  Sound(v) /\ Lawful(World, v)
<1> DEFINE w == SetStatus(World, s, {t}, "failed")
<1>1. Sound(World) /\ Good(World)
  BY SlotFacts
<1>2. {t} \in SUBSET Tasks /\ "failed" \in Terminal /\ "failed" \in Reserving \cup Terminal
  BY DEF Terminal
<1>3. Sound(w) /\ Onward(World, w) /\ Lawful(World, w)
  BY <1>1, <1>2, SetStatusSound
<1>4. \A u \in Tasks : IF u = t /\ Updatable(World, s, t, "failed")
                       THEN w.row[u].st = "failed"
                       ELSE w.row[u] = World.row[u]
  <2> DEFINE T == {t}
  <2>1. T \in SUBSET Tasks /\ w = SetStatus(World, s, T, "failed") /\ \A u : u \in T <=> u = t
    BY <1>2
  <2> HIDE DEF w, T
  <2>2. /\ \A u \in T : Updatable(World, s, u, "failed") => w.row[u].st = "failed"
        /\ \A u \in Tasks : (u \in T /\ Updatable(World, s, u, "failed")) \/ w.row[u] = World.row[u]
    BY <1>1, <2>1, FailedSubsides
  <2>3. QED
    BY <2>1, <2>2
<1> HIDE DEF w
<1>5. ~Unborn(World, t) /\ World.mem[s][t].st \in Reserving \cup {"failed"}
      /\ World.row[t].st \in {World.mem[s][t].st, "failed"}
  BY <1>1 DEF Sound, Ordered, Agrees, Good, Homed, Unborn
<1>6. w.row[t].st \in {"failed", "paused"}
  BY <1>4, <1>5, LegalFacts DEF Updatable, CanWrite, Reserving
<1>7. ~Unborn(w, t) /\ SameLineage(World, w, t)
  BY <1>3, <1>5 DEF Onward
<1>8. Retries(World, h) /\ \A n \in DOMAIN h : h[n] = t
  <2>1. \A u \in {t} : ~Unborn(World, u)
    BY <1>5
  <2>2. Retries(World, h) /\ \A n \in DOMAIN h : h[n] \in {t}
    BY <1>2, <2>1, RetryMapsRetry
  <2>3. QED
    BY <2>2
<1>9. PICK N \in SUBSET {u \in Tasks : World.row[u].loc = "none"} : h \in [N -> Tasks]
  BY <1>8 DEF Retries
<1>10. \A u \in N : u \in Tasks /\ u # t /\ Unborn(World, u) /\ w.row[u] = World.row[u]
  BY <1>4, <1>5, <1>9 DEF Unborn
<1>11. N \in SUBSET {u \in Tasks : w.row[u].loc = "none"} /\ DOMAIN h = N
  BY <1>9, <1>10 DEF Unborn
<1>12. Retries(w, h)
  <2>1. \A n \in DOMAIN h : w.row[h[n]].rc < MaxRetries /\ ~Unborn(w, h[n])
    BY <1>7, <1>8 DEF Retries, SameLineage
  <2>2. QED
    BY <1>9, <1>11, <2>1 DEF Retries
<1>13. v = AddRetries(w, h)
  BY DEF w
<1>14. /\ Sound(v)
       /\ \A u \in Tasks : IF u \in DOMAIN h
                           THEN /\ v.row[u].loc = "global" /\ v.row[u].st = "pending"
                                /\ h[u] \in Tasks \ {u} /\ RetryOf(v, u, h[u])
                           ELSE v.row[u] = w.row[u]
  BY <1>3, <1>12, <1>13, AddRetriesSound
<1>15. v.row[t] = w.row[t] /\ ~Unborn(v, t) /\ v.row[t].st \in {"failed", "paused"}
  BY <1>6, <1>7, <1>10, <1>11, <1>14 DEF Unborn
<1>16. ASSUME NEW u \in Tasks, u \in DOMAIN h
       PROVE  /\ Unborn(World, u) /\ v.row[u].st \in Lifecycle!Moves["pending"]
              /\ \E p \in Tasks \ {u} : /\ ~Unborn(v, p) /\ v.row[p].st \in {"failed", "paused"}
                                        /\ RetryOf(v, u, p)
  <2>1. v.row[u].st \in Lifecycle!Moves["pending"]
    BY <1>14, <1>16, MovesFacts
  <2>2. t \in Tasks \ {u} /\ RetryOf(v, u, t)
    BY <1>8, <1>14, <1>16
  <2>3. Unborn(World, u)
    BY <1>10, <1>11, <1>16
  <2>4. QED
    BY <1>15, <2>1, <2>2, <2>3
<1>17. ASSUME NEW u \in Tasks, u \notin DOMAIN h
       PROVE  IF Unborn(World, u) THEN Unborn(v, u)
              ELSE /\ ~Unborn(v, u) /\ SameLineage(World, v, u)
                   /\ v.row[u].st \in Lifecycle!Moves[World.row[u].st]
  <2>1. v.row[u] = w.row[u]
    BY <1>14, <1>17
  <2>2. CASE Unborn(World, u)
    BY <1>4, <1>5, <2>1, <2>2 DEF Unborn
  <2>3. CASE ~Unborn(World, u)
    <3>1. /\ ~Unborn(w, u) /\ SameLineage(World, w, u)
          /\ w.row[u].st \in Lifecycle!Moves[World.row[u].st]
      BY <1>3, <2>3 DEF Lawful
    <3>2. QED
      BY <2>1, <2>3, <3>1 DEF Unborn, SameLineage
  <2>4. QED
    BY <2>2, <2>3
<1>18. Lawful(World, v)
  BY <1>16, <1>17 DEF Lawful
<1>19. QED
  BY <1>14, <1>18

LEMMA HandleTaskFailedSlots ==
  ASSUME SlotInv, NEW s \in Stubs, NEW t \in Tasks, NEW k \in {"failed", "resumable"},
         HandleTaskFailed(s, t, k), IndInv'
  PROVE  Sound(World)' /\ RowsLawful
<1> DEFINE target == IF mem[s][t].kill THEN "cancelled" ELSE "failed"
           w == SetStatus(World, s, {t}, target)
<1>1. \/ Commit(World)
      \/ \E v \in Schedule(w, online, Live) : Commit(v)
      \/ /\ Held(World, s, t) /\ ~mem[s][t].kill
         /\ \E h \in RetryMaps(World, {t}) :
              \E v \in Schedule(AddRetries(w, h), online, Live) : Commit(v)
  BY DEF HandleTaskFailed
<1>2. target \in Reserving \cup Terminal /\ {t} \in SUBSET Tasks /\ (~mem[s][t].kill => target = "failed")
  BY DEF Terminal
<1> HIDE DEF target
<1>3. CASE Commit(World)
  BY <1>3, QuietStep, SlotFacts DEF Commit
<1>4. CASE \E v \in Schedule(w, online, Live) : Commit(v)
  BY <1>2, <1>4, SlotFacts, StatusScheduledSlots
<1>5. CASE /\ Held(World, s, t) /\ ~mem[s][t].kill
           /\ \E h \in RetryMaps(World, {t}) :
                \E v \in Schedule(AddRetries(w, h), online, Live) : Commit(v)
  <2>1. PICK h \in RetryMaps(World, {t}) :
          \E v \in Schedule(AddRetries(w, h), online, Live) : Commit(v)
    BY <1>5
  <2> DEFINE x == AddRetries(w, h)
  <2>2. Sound(x) /\ Lawful(World, x)
    BY <1>2, <1>5, <2>1, RetriedSlots
  <2> HIDE DEF w, x
  <2>3. PICK v \in Schedule(x, online, Live) : Commit(v)
    BY <2>1 DEF x
  <2>4. QED
    BY <2>2, <2>3, SlotFacts, ScheduledStep
<1>6. QED
  BY <1>1, <1>3, <1>4, <1>5

LEMMA HandleSyncedSlots ==
  ASSUME SlotInv, NEW s \in Stubs, HandleSynced(s)
  PROVE  Sound(World)' /\ RowsLawful
<1> DEFINE m == Head(up[s])
           F == HeldIn(World, s, {"running", "assigned"}) \cap m.gone
           G(w) == HeldIn(w, s, {"running", "assigned"}) \ (m.run \cup m.gone)
<1>1. Sound(World) /\ online \in SUBSET Stubs
  BY SlotFacts
<1>2. F \in SUBSET Tasks /\ \A w : G(w) \in SUBSET Tasks
  BY DEF HeldIn
<1>3. PICK w \in FailAndRetry(World, s, F, online, Live) :
        \E v \in FailAndRetry(w, s, G(w), online, Live) : Commit(v)
  BY DEF HandleSynced
<1> HIDE DEF m, F, G
<1>4. Sound(w) /\ Onward(World, w)
  BY <1>1, <1>2, <1>3, FailAndRetrySound
<1>5. PICK v \in FailAndRetry(w, s, G(w), online, Live) : Commit(v)
  BY <1>3
<1>6. Sound(v) /\ Onward(w, v)
  BY <1>1, <1>2, <1>4, <1>5, FailAndRetrySound
<1>7. Onward(World, v)
  BY <1>4, <1>6, OnwardTransitive
<1>8. QED
  BY <1>1, <1>5, <1>6, <1>7, CommittedOnward

LEMMA ResumeSlots ==
  ASSUME SlotInv, NEW s \in Stubs, Resume(s)
  PROVE  Sound(World)' /\ RowsLawful
<1> DEFINE m == Head(up[s])
           live == Live \cup {s}
<1>1. Sound(World) /\ Good(World) /\ RestTypeOK /\ online \in SUBSET Stubs /\ World.mem = mem
  BY SlotFacts
<1>2. m \in UpMsg
  BY <1>1, QueueFacts DEF Resume
<1>3. PICK w \in CaseA(s, m, live) :
        LET v == DeadElsewhere(DeadHere(w, s, m), s, m)
        IN  \E a \in RestoredArrays(v, s, m) :
              \E x \in Schedule(Send(SetStub(v, s, a), s, live,
                                     {Msg("clear", NoTask)}
                                     \cup {Msg("kill", t) : t \in ToKill(w, s, m)}),
                                online \cup {s}, live) : Commit(x)
  BY DEF Resume
<1> DEFINE u == DeadHere(w, s, m)
           v == DeadElsewhere(u, s, m)
           ms == {Msg("clear", NoTask)} \cup {Msg("kill", t) : t \in ToKill(w, s, m)}
<1>4. PICK a \in RestoredArrays(v, s, m) :
        \E x \in Schedule(Send(SetStub(v, s, a), s, live, ms), online \cup {s}, live) : Commit(x)
  BY <1>3
<1> DEFINE y == SetStub(v, s, a)
           z == Send(y, s, live, ms)
<1>5. PICK x \in Schedule(z, online \cup {s}, live) : Commit(x)
  BY <1>4
<1>6. m.run \in SUBSET Tasks /\ m.gone \in SUBSET Tasks
  BY <1>2, ReportedTasks
<1>7. ms \in SUBSET DownMsg
  BY <1>6, MsgFacts DEF ToKill
<1> DEFINE T == {t \in m.gone : w.mem[s][t].st \in Reserving}
<1>8. u = SetStatus(w, s, T, "failed") /\ T \in SUBSET Tasks
  BY <1>6 DEF DeadHere
<1> HIDE DEF m, live, ms, u, T
<1>9. /\ Sound(w) /\ Onward(World, w) /\ Recalls(w, s, mem[s])
      /\ \A t \in Missing(s, m) : Updatable(World, s, t, "failed") => ~Held(w, s, t)
  BY <1>1, CaseASound
<1>10. Good(w) /\ Keeps(World, w)
  BY <1>1, CaseAGood
<1>11. Sound(u) /\ Onward(w, u) /\ Subsides(w, u) /\ Good(u) /\ Keeps(w, u)
  <2>1. "failed" \in Terminal /\ "failed" \in Status /\ "failed" # "completed"
        /\ "failed" \in Reserving \cup Terminal
    BY DEF Terminal, Status
  <2>2. Sound(u) /\ Onward(w, u)
    BY <1>8, <1>9, <2>1, SetStatusSound
  <2>3. Subsides(w, u)
    BY <1>8, <1>10, FailedSubsides
  <2>4. Good(u) /\ Keeps(w, u)
    BY <1>8, <1>10, <2>1, SetStatusGood
  <2>5. QED
    BY <2>2, <2>3, <2>4
<1>12. Sound(v) /\ Onward(u, v) /\ Subsides(u, v) /\ Good(v) /\ Keeps(u, v)
  BY <1>11, DeadElsewhereSound, DeadElsewhereGood
<1> HIDE DEF v
<1>13. Keeps(World, v) /\ Onward(World, v) /\ Subsides(w, v)
  <2>1. Keeps(World, v)
    BY <1>10, <1>11, <1>12, KeepsTransitive
  <2>2. Onward(World, v)
    BY <1>9, <1>11, <1>12, OnwardTransitive
  <2>3. Subsides(w, v)
    BY <1>11, <1>12, SubsidesTransitive
  <2>4. QED
    BY <2>1, <2>2, <2>3
<1>14. Recalls(v, s, mem[s])
  BY <1>9, <1>13, RecallsStill
<1>15. \A t \in Missing(s, m) : Updatable(World, s, t, "failed") => ~Held(v, s, t)
  <2>1. ASSUME NEW t \in Missing(s, m), Updatable(World, s, t, "failed")
        PROVE  ~Held(v, s, t)
    <3>1. t \in Tasks /\ w.mem[s][t].st = "absent"
      BY <1>9, <2>1 DEF Missing, HeldIn, Held
    <3>2. Held(World, s, t) /\ mem[s][t].st # "absent"
      BY <1>1, <2>1 DEF Updatable, Held
    <3>3. w.row[t].loc \in {"stub", "archive"}
      BY <1>9, <3>1, <3>2 DEF Recalls
    <3>4. QED
      BY <1>13, <3>1, <3>3 DEF Subsides, Held
  <2>2. QED
    BY <2>1
<1>16. Sound(y)
  BY <1>1, <1>4, <1>12, <1>13, <1>14, <1>15, RestoredSound
<1>17. y.row = v.row
  BY DEF SetStub
<1> HIDE DEF y
<1>18. Sound(z) /\ z.row = y.row
  BY <1>7, <1>16, SendSound DEF Send
<1> HIDE DEF z
<1>19. Lawful(World, z)
  <2>1. Lawful(World, v)
    BY <1>12, <1>13, OnwardIsLawful DEF Sound
  <2>2. QED
    BY <1>17, <1>18, <2>1, LawfulRows
<1>20. online \cup {s} \in SUBSET Stubs
  BY <1>1
<1>21. QED
  BY <1>5, <1>18, <1>19, <1>20, ScheduledStep

(***************************************************************************)
(* The theorems about slots and rows.                                      *)
(***************************************************************************)
LEMMA InitSlots == Init => SlotInv
<1> SUFFICES ASSUME Init PROVE SlotInv
  OBVIOUS
<1>1. IndInv
  BY InitInv
<1>2. World.row = row /\ World.mem = mem /\ Good(World)
  BY <1>1, InvOfWorld DEF World
<1>3. \A t \in Tasks : World.row[t].loc = "none" /\ World.row[t].st = "pending"
  BY <1>2, FieldFacts DEF Init, NoRow
<1>4. \A s \in Stubs, t \in Tasks : World.mem[s][t].st = "absent"
  BY <1>2, FieldFacts DEF Init
<1>5. Ordered(World)
  BY <1>3, <1>4 DEF Ordered, Filed, Agrees, Backed, Held
<1>6. Fits(World)
  <2>1. \A s \in Stubs : Active(World, s) = {}
    BY <1>4 DEF Active, HeldIn, Reserving
  <2>2. \A s \in Stubs : Cardinality(Active(World, s)) = 0
    BY <2>1, FS_EmptySet
  <2>3. QED
    BY <2>2, ConstantsAssumption DEF Fits
<1>7. QED
  BY <1>1, <1>2, <1>5, <1>6 DEF SlotInv, Sound

LEMMA ServerSlots == SlotInv /\ Server => SlotInv' /\ RowsLawful
<1> SUFFICES ASSUME SlotInv, Server PROVE SlotInv' /\ RowsLawful
  OBVIOUS
<1>1. IndInv'
  BY ServerInv DEF SlotInv
<1>2. Sound(World)' /\ RowsLawful
  <2>1. CASE Submit \/ ScheduleTick \/ ServerRestart
    BY <1>1, <2>1, SubmitSlots, ScheduleTickSlots, ServerRestartSlots
  <2>2. CASE \E t \in Tasks : Kill(t) \/ CancelAssigned(t) \/ Pause(t)
    BY <2>2, KillSlots, CancelAssignedSlots, PauseSlots
  <2>3. CASE \E s \in Stubs : \/ HeartbeatTimeout(s) \/ Disconnect(s) \/ DisconnectFail(s)
                              \/ SyncRequest(s) \/ Resume(s) \/ HandleSynced(s)
    BY <1>1, <2>3, HeartbeatTimeoutSlots, DisconnectSlots, DisconnectFailSlots, SyncRequestSlots,
       ResumeSlots, HandleSyncedSlots
  <2>4. CASE \E s \in Stubs, t \in Tasks :
               \/ KillAgain(s, t) \/ DispatchTimeout(s, t)
               \/ HandleTaskStarted(s, t) \/ HandleTaskLog(s, t) \/ HandleTaskCompleted(s, t)
               \/ \E k \in {"failed", "resumable"} : HandleTaskFailed(s, t, k)
               \/ HandlePreflightFail(s, t)
    BY <1>1, <2>4, KillAgainSlots, DispatchTimeoutSlots, HandleTaskStartedSlots,
       HandleTaskLogSlots, HandleTaskCompletedSlots, HandleTaskFailedSlots,
       HandlePreflightFailSlots
  <2>5. QED
    BY <2>1, <2>2, <2>3, <2>4 DEF Server
<1>3. QED
  BY <1>1, <1>2 DEF SlotInv

\* The daemon and the link write no task.
LEMMA DaemonSlots == SlotInv /\ Daemon => SlotInv' /\ RowsLawful
<1> SUFFICES ASSUME SlotInv, Daemon PROVE SlotInv' /\ RowsLawful
  OBVIOUS
<1>1. IndInv'
  BY DaemonInv DEF SlotInv
<1>2. UNCHANGED <<row, mem>>
  <2>1. CASE \E s \in Stubs : \/ ClearDead(s) \/ AnswerSync(s)
                              \/ LinkDrop(s) \/ StubCrash(s) \/ Connect(s)
    BY <2>1 DEF ClearDead, AnswerSync, LinkDrop, StubCrash, Connect, LoseLink, server
  <2>2. CASE \E s \in Stubs, t \in Tasks :
               \/ RunTask(s, t) \/ RunRepeated(s, t) \/ FailPreflight(s, t) \/ KillProcess(s, t)
               \/ Exit(s, t) \/ EmitLog(s, t) \/ Reap(s, t)
    BY <2>2 DEF RunTask, RunRepeated, Start, FailPreflight, KillProcess, Exit, EmitLog, Reap, server
  <2>3. QED
    BY <2>1, <2>2 DEF Daemon
<1>3. Sound(World)' /\ RowsLawful
  BY <1>1, <1>2, QuietStep
<1>4. QED
  BY <1>1, <1>3 DEF SlotInv

LEMMA NextSlots == SlotInv /\ [Next]_vars => SlotInv' /\ (RowsLawful \/ UNCHANGED vars)
<1>1. ASSUME SlotInv, UNCHANGED vars PROVE SlotInv'
  <2>1. IndInv'
    BY <1>1, NextInv DEF SlotInv
  <2>2. UNCHANGED <<row, mem>>
    BY <1>1 DEF vars
  <2>3. Sound(World)'
    BY <1>1, <2>1, <2>2, QuietStep
  <2>4. QED
    BY <2>1, <2>3 DEF SlotInv
<1>2. QED
  BY <1>1, ServerSlots, DaemonSlots DEF Next

\* What every reachable state satisfies beyond IndInv: rows lie where their status
\* says, objects agree with their rows, what runs is backed, and arrays fit.
THEOREM SlotInvariance == Spec => []SlotInv
BY InitSlots, NextSlots, PTL DEF Spec

\* However stubs drop, crash, resume and are restored, and however often the server
\* restarts, no stub's array holds more than max_concurrent reserving tasks.
THEOREM SlotsBounded == Spec => []SlotBound
<1>1. SlotInv => SlotBound
  <2>1. \A s \in Stubs : Active(World, s) = {t \in Tasks : mem[s][t].st \in Reserving}
    BY DEF Active, HeldIn, World
  <2>2. QED
    BY <2>1 DEF SlotInv, Sound, Fits, SlotBound
<1>2. QED
  BY <1>1, SlotInvariance, PTL

\* A lawful change of the rows is a step of the abstract life of the tasks.
LEMMA LawfulIsNext ==
  ASSUME TypeOK, RowsLawful
  PROVE  Lifecycle!Next
<1> DEFINE Of(r) == [t \in Tasks |-> IF r[t].loc = "none" THEN "none" ELSE r[t].st]
           status == Of(row)
           statusN == Of(row')
<1>1. \A t \in Tasks : row[t].st # "none" /\ row[t].st \in Status
  BY DEF TypeOK, Row, Status
<1>2. \A t \in Tasks :
        IF row[t].loc = "none"
        THEN \/ row'[t].loc = "none"
             \/ /\ row'[t].loc # "none" /\ row'[t].st \in Lifecycle!Moves["pending"]
                /\ \/ row'[t].root = t /\ row'[t].rc = 0
                   \/ \E p \in Tasks \ {t} :
                        /\ row'[p].loc # "none" /\ row'[p].st \in {"failed", "paused"}
                        /\ row'[t].root = row'[p].root
                        /\ row'[t].rc = row'[p].rc + 1 /\ row'[t].rc <= MaxRetries
        ELSE /\ row'[t].loc # "none" /\ row'[t].rc = row[t].rc /\ row'[t].root = row[t].root
             /\ row'[t].st \in Lifecycle!Moves[row[t].st]
  BY DEF RowsLawful, Lawful, Unborn, SameLineage, FirstOf, RetryOf
<1>3. ASSUME NEW t \in Tasks, row[t].loc = "none"
      PROVE  ~Lifecycle!Born(t) /\ (~(Lifecycle!Born(t))' \/ Lifecycle!IsBorn(t))
  <2>1. ~Lifecycle!Born(t)
    BY <1>3 DEF Lifecycle!Born
  <2>2. row'[t].loc = "none" => ~(Lifecycle!Born(t))'
    BY DEF Lifecycle!Born
  <2>3. row'[t].loc # "none" => Lifecycle!IsBorn(t)
    <3> SUFFICES ASSUME row'[t].loc # "none" PROVE Lifecycle!IsBorn(t)
      OBVIOUS
    <3>1. row'[t].root = t /\ row'[t].rc = 0 => Lifecycle!IsSubmitted(t)
      BY DEF Lifecycle!IsSubmitted
    <3>2. (\E p \in Tasks \ {t} :
             /\ row'[p].loc # "none" /\ row'[p].st \in {"failed", "paused"}
             /\ row'[t].root = row'[p].root
             /\ row'[t].rc = row'[p].rc + 1 /\ row'[t].rc <= MaxRetries) => Lifecycle!IsRetry(t)
      BY DEF Lifecycle!IsRetry
    <3>3. QED
      BY <1>2, <1>3, <3>1, <3>2 DEF Lifecycle!IsBorn
  <2>4. QED
    BY <2>1, <2>2, <2>3
<1>4. ASSUME NEW t \in Tasks, row[t].loc # "none"
      PROVE  Lifecycle!Born(t) /\ Lifecycle!Lives(t)
  <2>1. Lifecycle!Born(t)
    BY <1>1, <1>4 DEF Lifecycle!Born
  <2>2. Lifecycle!Lives(t)
    BY <1>2, <1>4 DEF Lifecycle!Lives
  <2>3. QED
    BY <2>1, <2>2
<1>5. QED
  BY <1>3, <1>4 DEF Lifecycle!Next

\* Hidden from stubs, links, queues and copies, the rows of the tasks table behave
\* as TaskLifecycle says, whatever drops, crashes, resumes and restarts do.
THEOREM RowsImplementLifecycle == Spec => ImplementsLifecycle
<1>1. Init => Lifecycle!Init
  BY FieldFacts DEF Init, NoRow, Lifecycle!Init, Lifecycle!Born
<1>2. SlotInv /\ [Next]_vars => [Lifecycle!Next]_(Lifecycle!lifecycleVars)
  <2>1. SlotInv /\ RowsLawful => Lifecycle!Next
    BY LawfulIsNext DEF SlotInv, IndInv
  <2>2. UNCHANGED vars => UNCHANGED Lifecycle!lifecycleVars
    BY DEF vars, Lifecycle!lifecycleVars
  <2>3. QED
    BY <2>1, <2>2, NextSlots
<1>3. QED
  BY <1>1, <1>2, SlotInvariance, PTL DEF Spec, ImplementsLifecycle, Lifecycle!Spec
=============================================================================
