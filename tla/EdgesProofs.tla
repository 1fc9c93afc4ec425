----------------------------- MODULE EdgesProofs -----------------------------
(***************************************************************************)
(* Proofs about what lies around the queue, for any number of processes,   *)
(* of authors and posts, of requests and lost lines, of reconciliations    *)
(* and crashes: what a task has saved survives its processes               *)
(* (CheckpointsSound), what is asked has one effect and one answer         *)
(* (RequestsKept), the capacity policy stays within its caps and its       *)
(* cooldown (PolicyKept), no task is cut off by the walltime unwarned      *)
(* (CutTasksWarned), and what is kept outlives restarts and restores       *)
(* (StorageSound).                                                         *)
(***************************************************************************)
EXTENDS MCEdges, FiniteSetTheorems, WellFoundedInduction, TLAPS

\* A set of numbers up to n that is not empty has a highest one, and Max chooses it.
LEMMA HighestUpTo ==
  ASSUME NEW n \in Nat, NEW S, S \subseteq 0..n, S # {}
  PROVE  Max(S) \in S /\ \A s \in S : Max(S) >= s
<1> DEFINE Less == {pair \in Nat \X Nat : pair[1] < pair[2]}
           T == {n - s : s \in S}
<1>1. IsWellFoundedOn(Less, Nat)
  BY NatLessThanWellFounded DEF OpToRel
<1>2. T \subseteq Nat /\ T # {}
  <2>1. \A s \in S : n - s \in Nat
    OBVIOUS
  <2> QED BY <2>1
<1>3. PICK low \in T : \A t \in T : ~(<<t, low>> \in Less)
  <2> HIDE DEF T, Less
  <2> QED BY <1>1, <1>2, WFMin
<1>4. PICK high \in S : low = n - high
  OBVIOUS
<1>5. ASSUME NEW s \in S PROVE high >= s
  <2>1. n - s \in T /\ n - s \in Nat /\ low \in Nat
    BY <1>2
  <2>2. ~(n - s < low)
    BY <1>3, <2>1
  <2> QED BY <1>4, <2>1, <2>2
<1> QED BY <1>4, <1>5 DEF Max

-----------------------------------------------------------------------------
(* A task and what it has saved. *)

Proc == [pc : LivePc \cup Ended \cup {"new"}, step : Steps, start : Steps, found : SUBSET Steps,
         own : BOOLEAN, usr1 : BOOLEAN, signalled : Steps \cup {-1}, ask : BOOLEAN,
         stop : BOOLEAN, then : {"loop", "stopped", "done"}]

FilesOK ==
  /\ disk \in [Dirs -> [Steps -> {"none", "whole"}]]
  /\ temp \in [Processes -> {"none", "torn", "whole"}]
  /\ proc \in [Processes -> Proc]

\* What a process relies on: the file it is about to place is whole, the one it has
\* placed stays; a signal is of a step it has reached, and is answered or still set.
Relies(p) ==
  /\ At(p, "written") => temp[p] = "whole"
  /\ At(p, "new") => proc[p].signalled = -1
  /\ proc[p].signalled <= proc[p].step
  /\ ~At(p, "new") /\ proc[p].own => \A s \in proc[p].found : proc[p].start >= s
  /\ proc[p].pc \in {"placed", "done", "stopped"} => disk[DirOf(p)][proc[p].step] = "whole"
  /\ proc[p].pc \in {"loop", "stepped", "due"} /\ ~proc[p].usr1 /\ proc[p].signalled >= 0
       => \E s \in Steps : disk[DirOf(p)][s] = "whole" /\ s >= proc[p].signalled

CheckpointInv == FilesOK /\ \A p \in Processes : Relies(p)

LEMMA StepNumbers == Steps \subseteq Nat /\ 0 \in Steps /\ -1 \notin Steps
BY CheckpointingAssumption DEF Steps

LEMMA DirsOfAll == \A p \in Processes : DirOf(p) \in Dirs
BY DEF Dirs, DirOf

LEMMA CheckpointInitial == CheckpointInit => CheckpointInv
BY StepNumbers DEF CheckpointInit, CheckpointInv, FilesOK, Relies, Proc, LivePc, Ended, At

DiskGrows == \A d \in Dirs, s \in Steps : disk[d][s] = "whole" => disk'[d][s] = "whole"

\* A step of one process leaves what the others rely on, if no file is lost.
LEMMA OneAtATime ==
  ASSUME CheckpointInv, NEW p \in Processes, FilesOK', DiskGrows, Relies(p)',
         \A q \in Processes \ {p} : proc'[q] = proc[q] /\ temp'[q] = temp[q]
  PROVE  CheckpointInv'
<1> SUFFICES ASSUME NEW q \in Processes, q # p PROVE Relies(q)'
  BY DEF CheckpointInv
<1>1. Relies(q) /\ proc'[q] = proc[q] /\ temp'[q] = temp[q] /\ DirOf(q) \in Dirs /\ proc[q] \in Proc
  BY DirsOfAll DEF CheckpointInv, FilesOK
<1> QED BY <1>1 DEF Relies, DiskGrows, At, Proc, DirOf

\* A process begins with the highest checkpoint it finds, or with one it was given.
LEMMA LaunchKeeps ==
  ASSUME CheckpointInv, NEW p \in Processes,
         Launch(p) \/ \E d \in Dirs, s \in Steps : LaunchFrom(p, d, s)
  PROVE  CheckpointInv'
<1>1. At(p, "new") /\ proc[p].signalled = -1 /\ proc[p] \in Proc
  BY DEF Launch, LaunchFrom, Free, CheckpointInv, Relies, FilesOK
<1>2. PICK step \in Steps, own \in BOOLEAN :
        BeginsAt(p, step, own) /\ (own => \A s \in Saved(DirOf(p)) : step >= s)
  <2>1. CASE Launch(p)
    <3> DEFINE S == Saved(DirOf(p)) \cup {0}
    <3>1. S \subseteq Steps /\ S # {}
      BY StepNumbers DEF Saved
    <3>2. Max(S) \in Steps /\ \A s \in S : Max(S) >= s
      <4> HIDE DEF S
      <4> QED BY <3>1, HighestUpTo, CheckpointingAssumption DEF Steps
    <3> QED BY <2>1, <3>2 DEF Launch
  <2>2. CASE \E d \in Dirs, s \in Steps : LaunchFrom(p, d, s)
    BY <2>2 DEF LaunchFrom
  <2> QED BY <2>1, <2>2
<1>3. FilesOK' /\ DiskGrows
  BY <1>1, <1>2 DEF BeginsAt, FilesOK, CheckpointInv, DiskGrows, Proc, LivePc, Saved
<1>4. Relies(p)'
  BY <1>1, <1>2, StepNumbers DEF BeginsAt, Relies, At, CheckpointInv, FilesOK, Proc
<1> QED BY <1>2, <1>3, <1>4, OneAtATime DEF BeginsAt, CheckpointInv, FilesOK

\* Steps, flags and ends leave the files alone.
LEMMA LoopKeeps ==
  ASSUME CheckpointInv, NEW p \in Processes,
         \/ TakeStep(p) \/ ShouldCheckpoint(p) \/ BeginSave(p) \/ LeaveLoop(p)
         \/ ReportSave(p) \/ Killed(p) \/ Usr1(p) \/ ServerAsks(p)
  PROVE  CheckpointInv'
<1>1. disk' = disk /\ temp' = temp /\ DiskGrows
  BY DEF TakeStep, ShouldCheckpoint, BeginSave, LeaveLoop, ReportSave, Killed, Usr1, ServerAsks, DiskGrows
<1>2. proc[p] \in Proc /\ Relies(p) /\ DirOf(p) \in Dirs
  BY DirsOfAll DEF CheckpointInv, FilesOK
<1>3. proc'[p] \in Proc /\ Relies(p)' /\ proc' = [proc EXCEPT ![p] = proc'[p]]
  <2> USE <1>1, <1>2, StepNumbers
  <2>1. CASE TakeStep(p)
    <3>1. proc[p].step + 1 \in Steps
      BY <2>1, CheckpointingAssumption DEF TakeStep, Steps, Proc
    <3> QED BY <2>1, <3>1 DEF TakeStep, Proc, Relies, At, LivePc, CheckpointInv, FilesOK, DirOf
  <2>2. CASE ShouldCheckpoint(p)
    <3>1. PICK pc \in {"due", "loop"}, ask \in BOOLEAN :
            proc' = [proc EXCEPT ![p] = [proc[p] EXCEPT !.pc = pc, !.ask = ask]]
      <4>1. PICK late \in BOOLEAN :
              proc' = [proc EXCEPT
                ![p].pc = IF proc[p].usr1 \/ proc[p].step % EverySteps = 0 \/ late \/ proc[p].ask
                          THEN "due" ELSE "loop",
                ![p].ask = proc[p].ask /\ (proc[p].usr1 \/ proc[p].step % EverySteps = 0 \/ late)]
        BY <2>2 DEF ShouldCheckpoint
      <4> DEFINE sure == proc[p].usr1 \/ proc[p].step % EverySteps = 0 \/ late
      <4>2. (proc[p].ask /\ sure) \in BOOLEAN
        BY Zenon
      <4> QED BY <4>1, <4>2 DEF CheckpointInv, FilesOK
    <3>2. At(p, "stepped")
      BY <2>2 DEF ShouldCheckpoint
    <3> QED BY <3>1, <3>2 DEF Proc, Relies, At, LivePc, CheckpointInv, FilesOK, DirOf
  <2>3. CASE BeginSave(p)
    BY <2>3 DEF BeginSave, Proc, Relies, At, LivePc, CheckpointInv, FilesOK, DirOf
  <2>4. CASE LeaveLoop(p)
    <3>1. PICK end \in {"stopped", "done"} :
            proc' = [proc EXCEPT ![p] = [proc[p] EXCEPT !.pc = "saving", !.then = end]]
      BY <2>4 DEF LeaveLoop, CheckpointInv, FilesOK
    <3>2. At(p, "loop")
      BY <2>4 DEF LeaveLoop
    <3> QED BY <3>1, <3>2 DEF Proc, Relies, At, LivePc, CheckpointInv, FilesOK, DirOf
  <2>5. CASE ReportSave(p)
    BY <2>5 DEF ReportSave, Go, Proc, Relies, At, LivePc, Ended, CheckpointInv, FilesOK, DirOf
  <2>6. CASE Killed(p)
    BY <2>6 DEF Killed, Go, Proc, Relies, At, LivePc, Ended, CheckpointInv, FilesOK, DirOf
  <2>7. CASE Usr1(p)
    <3>1. proc' = [proc EXCEPT ![p] = [proc[p] EXCEPT !.usr1 = TRUE, !.signalled = proc[p].step]]
      BY <2>7 DEF Usr1, CheckpointInv, FilesOK
    <3>2. proc[p].pc \in LivePc
      BY <2>7 DEF Usr1
    <3>3. proc'[p] = [proc[p] EXCEPT !.usr1 = TRUE, !.signalled = proc[p].step] /\ proc'[p] \in Proc
      BY <3>1 DEF CheckpointInv, FilesOK, Proc
    <3>4. Relies(p)'
      BY <3>2, <3>3 DEF Relies, At, LivePc, Proc, DirOf
    <3>5. proc' = [proc EXCEPT ![p] = proc'[p]]
      BY <3>1, <3>3
    <3> QED BY <3>3, <3>4, <3>5
  <2>8. CASE ServerAsks(p)
    <3>1. PICK b \in BOOLEAN :
            proc' = [proc EXCEPT ![p].stop = proc[p].stop \/ b, ![p].ask = proc[p].ask \/ ~b]
      BY <2>8 DEF ServerAsks
    <3> DEFINE stop == proc[p].stop \/ b
               ask == proc[p].ask \/ ~b
    <3>3. stop \in BOOLEAN /\ ask \in BOOLEAN
      BY Zenon
    <3>4. proc' = [proc EXCEPT ![p] = [proc[p] EXCEPT !.stop = stop, !.ask = ask]]
      BY <3>1 DEF CheckpointInv, FilesOK
    <3> HIDE DEF stop, ask
    <3>2. proc[p].pc \in LivePc
      BY <2>8 DEF ServerAsks
    <3> QED BY <3>2, <3>3, <3>4 DEF Proc, Relies, At, LivePc, CheckpointInv, FilesOK, DirOf
  <2> QED BY <2>1, <2>2, <2>3, <2>4, <2>5, <2>6, <2>7, <2>8
<1>4. FilesOK' /\ \A q \in Processes \ {p} : proc'[q] = proc[q]
  BY <1>1, <1>3 DEF FilesOK, CheckpointInv
<1> QED BY <1>1, <1>3, <1>4, OneAtATime

\* A file is written beside, made whole, and then put in its place.
LEMMA SaveKeeps ==
  ASSUME CheckpointInv, NEW p \in Processes, WriteTemp(p) \/ PlaceFile(p) \/ SaveFails(p)
  PROVE  CheckpointInv'
<1>1. proc[p] \in Proc /\ Relies(p) /\ DirOf(p) \in Dirs
  BY DirsOfAll DEF CheckpointInv, FilesOK
<1>2. FilesOK' /\ DiskGrows
  <2>1. CASE WriteTemp(p)
    BY <1>1, <2>1 DEF WriteTemp, Go, FilesOK, CheckpointInv, DiskGrows, Proc, LivePc
  <2>2. CASE PlaceFile(p)
    BY <1>1, <2>2 DEF PlaceFile, Go, FilesOK, CheckpointInv, DiskGrows, Proc, LivePc, Relies
  <2>3. CASE SaveFails(p)
    BY <1>1, <2>3 DEF SaveFails, Go, FilesOK, CheckpointInv, DiskGrows, Proc, Ended
  <2> QED BY <2>1, <2>2, <2>3
<1>3. Relies(p)'
  <2>1. CASE WriteTemp(p)
    BY <1>1, <2>1 DEF WriteTemp, Go, Relies, At, Proc, CheckpointInv, FilesOK
  <2>2. CASE PlaceFile(p)
    BY <1>1, <2>2 DEF PlaceFile, Go, Relies, At, Proc, CheckpointInv, FilesOK, DirOf
  <2>3. CASE SaveFails(p)
    BY <1>1, <2>3 DEF SaveFails, Go, Relies, At, Proc, CheckpointInv, FilesOK
  <2> QED BY <2>1, <2>2, <2>3
<1>4. \A q \in Processes \ {p} : proc'[q] = proc[q] /\ temp'[q] = temp[q]
  BY DEF WriteTemp, PlaceFile, SaveFails, Go, CheckpointInv, FilesOK
<1> QED BY <1>2, <1>3, <1>4, OneAtATime

LEMMA CheckpointStep == CheckpointInv /\ [CheckpointNext]_checkpointVars => CheckpointInv'
<1> SUFFICES ASSUME CheckpointInv, [CheckpointNext]_checkpointVars PROVE CheckpointInv'
  OBVIOUS
<1>1. CASE UNCHANGED checkpointVars
  BY <1>1 DEF checkpointVars, CheckpointInv, FilesOK, Relies, At
<1>2. CASE CheckpointNext
  BY <1>2, LaunchKeeps, LoopKeeps, SaveKeeps DEF CheckpointNext
<1> QED BY <1>1, <1>2

LEMMA CheckpointInvMeans == CheckpointInv => CheckpointsSound
<1> SUFFICES ASSUME CheckpointInv PROVE CheckpointsSound
  OBVIOUS
<1>1. \A d \in Dirs, s \in Steps : disk[d][s] # "torn"
  BY DEF CheckpointInv, FilesOK
<1>2. ASSUME NEW p \in Processes
      PROVE  /\ proc[p].pc # "new" /\ proc[p].own => \A s \in proc[p].found : proc[p].start >= s
             /\ proc[p].pc \in {"done", "stopped"} => disk[DirOf(p)][proc[p].step] = "whole"
             /\ At(p, "loop") /\ ~proc[p].usr1 /\ proc[p].signalled >= 0
                  => \E s \in Steps : disk[DirOf(p)][s] = "whole" /\ s >= proc[p].signalled
             /\ proc[p].step \in Steps
  BY DEF CheckpointInv, FilesOK, Relies, At, Proc
<1> QED BY <1>1, <1>2 DEF CheckpointsSound

-----------------------------------------------------------------------------
(* Submissions that are sent again. *)

AtMostOne(S) == \A x, y \in S : x = y

LEMMA AtMostOneCounts ==
  ASSUME NEW S, AtMostOne(S)
  PROVE  Cardinality(S) <= 1
<1>1. CASE S = {}
  BY <1>1, FS_EmptySet
<1>2. CASE S # {}
  <2>1. PICK x : x \in S
    BY <1>2
  <2>2. S = {x}
    BY <2>1 DEF AtMostOne
  <2>3. Cardinality({x}) = 1
    BY FS_Singleton
  <2> QED BY <2>2, <2>3
<1> QED BY <1>1, <1>2

LEMMA SubmissionBounds == MaxPosts \in Nat /\ MaxTasks \in Nat /\ Mischances \in Nat
BY SubmissionAssumption

PostStates == {"unused", "sent", "answered", "over"}
Answers == {None, "created", "exists", "invalid", "conflict", "partial", "error"}
Outcomes == {None, "created", "exists", "rejected", "unknown", "not_submitted"}

TaskKeys == {TaskKey(k) : k \in Keys}
SingleRow == [key : TaskKeys, stored : BOOLEAN, print : Scripts, active : BOOLEAN, cached : BOOLEAN]

AuthorRow == [content : Contents, key : Keys \cup {None}, waits : 0..MaxPosts, outcome : Outcomes]
PostRow == [st : PostStates, by : Authors \cup {None}, key : Keys \cup {None}, given : BOOLEAN,
            content : Contents \cup {None}, answer : Answers]
KeyRow == [experiment : Contents \cup {None}, grid : BOOLEAN, tasks : Contents \cup {None}, made : Nat]

SubmissionRows ==
  /\ author \in [Authors -> AuthorRow]
  /\ post \in [Posts -> PostRow]
  /\ db \in [Keys -> KeyRow]
  /\ single \in Seq(SingleRow)
  /\ chances \in 0..Mischances

\* A entry of the database, and what a post says of it.
RowWhole(k) ==
  /\ db[k].grid = (db[k].tasks # None)
  /\ db[k].made = IF db[k].grid THEN 1 ELSE 0
  /\ db[k].experiment # None => db[k].grid /\ db[k].tasks = db[k].experiment

PostTrue(n) ==
  /\ post[n].st \in {"unused", "sent"} => post[n].answer = None
  /\ post[n].st # "unused" => post[n].by \in Authors /\ post[n].key \in Keys /\ post[n].content \in Contents
  /\ post[n].st # "unused" /\ ~post[n].given => post[n].key = post[n].by
  /\ post[n].answer \in {"created", "exists"} => db[post[n].key].tasks = post[n].content

OneCreator ==
  \A n, m \in Posts :
    post[n].answer = "created" /\ post[m].answer = "created" /\ post[n].key = post[m].key => n = m

OneStored ==
  \A i, j \in DOMAIN single :
    single[i].stored /\ single[j].stored /\ single[i].key = single[j].key => i = j

SubmissionInv ==
  /\ SubmissionRows
  /\ \A k \in Keys : RowWhole(k)
  /\ \A n \in Posts : PostTrue(n)
  /\ OneCreator
  /\ OneStored

LEMMA SubmissionInvMeans == SubmissionInv => OneExperimentPerKey
<1> SUFFICES ASSUME SubmissionInv PROVE OneExperimentPerKey
  OBVIOUS
<1>1. \A k \in Keys :
       /\ db[k].made <= 1
       /\ db[k].experiment # None => db[k].grid /\ db[k].tasks = db[k].experiment
       /\ db[k].grid = (db[k].tasks # None)
  BY DEF SubmissionInv, RowWhole
<1>2. ASSUME NEW a \in Authors
      PROVE  Cardinality({n \in Posts : post[n].by = a /\ ~post[n].given /\ post[n].answer = "created"}) <= 1
  <2> DEFINE Mine == {n \in Posts : post[n].by = a /\ ~post[n].given /\ post[n].answer = "created"}
  <2>1. \A n \in Mine : post[n].st # "unused" /\ post[n].key = a
    BY DEF SubmissionInv, PostTrue, None
  <2>2. AtMostOne(Mine)
    BY <2>1 DEF SubmissionInv, OneCreator, AtMostOne
  <2> HIDE DEF Mine
  <2>3. Cardinality(Mine) <= 1
    BY <2>2, AtMostOneCounts
  <2> QED BY <2>3 DEF Mine
<1>3. \A n \in Posts : post[n].answer \in {"created", "exists"} => db[post[n].key].tasks = post[n].content
  BY DEF SubmissionInv, PostTrue
<1> QED BY <1>1, <1>2, <1>3 DEF SubmissionInv, OneStored, OneExperimentPerKey

LEMMA SubmissionInvInit == SubmissionInit => SubmissionInv
<1> SUFFICES ASSUME SubmissionInit PROVE SubmissionInv
  OBVIOUS
<1>1. SubmissionRows
  BY SubmissionBounds DEF SubmissionInit, SubmissionRows, Posts, PostStates, Answers, Outcomes,
                              AuthorRow, PostRow, KeyRow
<1>2. \A k \in Keys : RowWhole(k)
  BY DEF SubmissionInit, RowWhole
<1>3. (\A n \in Posts : PostTrue(n)) /\ OneCreator
  BY DEF SubmissionInit, PostTrue, OneCreator, None
<1>4. OneStored
  BY DEF SubmissionInit, OneStored
<1> QED BY <1>1, <1>2, <1>3, <1>4 DEF SubmissionInv

\* A step that leaves the posts, the rows and the tasks alone changes only an object.
LEMMA SubmissionInvNext == SubmissionInv /\ [SubmissionNext]_submissionVars => SubmissionInv'
<1> SUFFICES ASSUME SubmissionInv, [SubmissionNext]_submissionVars PROVE SubmissionInv'
  OBVIOUS
<1>m. Mischance => chances' \in 0..Mischances
  BY SubmissionBounds DEF Mischance, SubmissionInv, SubmissionRows
<1>c. None \notin Contents
  BY SubmissionAssumption DEF None
<1>z. 0 \in 0..MaxPosts
  BY SubmissionBounds
<1>a. author \in [Authors -> AuthorRow]
  BY DEF SubmissionInv, SubmissionRows
<1>p. post \in [Posts -> PostRow]
  BY DEF SubmissionInv, SubmissionRows
<1>s. single \in Seq(SingleRow)
  BY DEF SubmissionInv, SubmissionRows
<1>h. \A n \in Posts : post[n].st # "unused" => post[n].by \in Authors
  BY DEF SubmissionInv, PostTrue
<1>d. db \in [Keys -> KeyRow]
  BY DEF SubmissionInv, SubmissionRows
<1>1. ASSUME NEW a \in Authors, NEW c \in Contents, Edit(a, c) PROVE SubmissionInv'
  <2>1. author' \in [Authors -> AuthorRow]
    BY <1>a, <1>1 DEF Edit, AuthorRow
  <2>2. SubmissionRows'
    BY <1>1, <1>m, <2>1 DEF Edit, SubmissionInv, SubmissionRows
  <2> QED BY <1>1, <2>2 DEF Edit, SubmissionInv, RowWhole, PostTrue, OneCreator, OneStored
<1>2. ASSUME NEW a \in Authors, NEW g \in GivenKeys \cup {None}, Submit(a, g) PROVE SubmissionInv'
  <2> DEFINE k == SubmitKey(a, g)
             c == ToSpec(a)
  <2>1. k \in Keys /\ c \in Contents
    BY <1>a DEF AuthorRow, SubmitKey, ToSpec, Keys
  <2>2. CASE Malformed(c)
    <3>1. author' = [author EXCEPT ![a].outcome = "not_submitted"] /\ UNCHANGED <<post, db, single, chances>>
      BY <1>2, <2>2 DEF Submit
    <3>2. author' \in [Authors -> AuthorRow]
      BY <1>a, <3>1 DEF AuthorRow, Outcomes
    <3>3. SubmissionRows'
      BY <3>1, <3>2 DEF SubmissionInv, SubmissionRows
    <3> QED BY <3>1, <3>3 DEF SubmissionInv, RowWhole, PostTrue, OneCreator, OneStored
  <2>3. CASE ~Malformed(c)
    <3> DEFINE mine == g # None \/ author[a].key \notin {None, a}
    <3>1. PICK n \in Posts :
            /\ post[n].st = "unused"
            /\ post' = [post EXCEPT ![n] =
                 [@ EXCEPT !.st = "sent", !.by = a, !.key = k, !.content = c, !.given = mine]]
            /\ author' = [author EXCEPT ![a] = [@ EXCEPT !.key = k, !.waits = n, !.outcome = None]]
            /\ UNCHANGED <<db, single, chances>>
      BY <1>2, <2>3 DEF Submit
    <3>2. ~mine => k = a
      BY DEF SubmitKey
    <3> HIDE DEF k, c, mine
    <3>3. mine \in BOOLEAN
      BY DEF mine
    <3>4. SubmissionRows'
      <4>1. post' \in [Posts -> PostRow]
        BY <1>p, <2>1, <3>1, <3>3 DEF PostRow, PostStates
      <4>2. author' \in [Authors -> AuthorRow]
        <5>1. n \in 0..MaxPosts
          BY SubmissionBounds DEF Posts
        <5>2. [author[a] EXCEPT !.key = k, !.waits = n, !.outcome = None] \in AuthorRow
          BY <1>a, <2>1, <5>1 DEF AuthorRow, Outcomes
        <5> QED BY <1>a, <3>1, <5>2
      <4> QED BY <3>1, <4>1, <4>2 DEF SubmissionInv, SubmissionRows
    <3>5. /\ post'[n].st = "sent" /\ post'[n].by = a /\ post'[n].key = k /\ post'[n].content = c
          /\ post'[n].given = mine /\ post'[n].answer = None
          /\ \A m \in Posts \ {n} : post'[m] = post[m]
      <4>1. post[n].answer = None
        BY <3>1 DEF SubmissionInv, PostTrue
      <4> QED BY <1>p, <3>1, <3>3, <4>1 DEF PostRow
    <3>6. \A m \in Posts : PostTrue(m)'
      BY <2>1, <3>1, <3>2, <3>5 DEF SubmissionInv, PostTrue, None
    <3>7. OneCreator'
      BY <3>5 DEF SubmissionInv, OneCreator, None
    <3> QED BY <3>1, <3>4, <3>6, <3>7 DEF SubmissionInv, RowWhole, OneStored
  <2> QED BY <2>2, <2>3
<1>3. ASSUME NEW a \in Authors, GiveUp(a) PROVE SubmissionInv'
  <2>1. author' \in [Authors -> AuthorRow]
    <3>1. author' = [author EXCEPT ![a].waits = 0, ![a].outcome = "unknown"]
      BY <1>3 DEF GiveUp
    <3> QED BY <1>a, <1>z, <3>1 DEF AuthorRow, Outcomes
  <2>2. SubmissionRows'
    BY <1>3, <1>m, <2>1 DEF GiveUp, SubmissionInv, SubmissionRows
  <2> QED BY <1>3, <2>2 DEF GiveUp, SubmissionInv, RowWhole, PostTrue, OneCreator, OneStored
<1>4. ASSUME NEW n \in Posts, Hear(n) \/ NeverArrives(n) PROVE SubmissionInv'
  <2>1. /\ post' = [post EXCEPT ![n].st = "over"] /\ post[n].st \in {"sent", "answered"}
        /\ UNCHANGED <<db, single, chances>>
    BY <1>4 DEF Hear, NeverArrives
  <2>2. author' \in [Authors -> AuthorRow]
    <3>1. CASE NeverArrives(n)
      BY <3>1 DEF NeverArrives, SubmissionInv, SubmissionRows
    <3>2. CASE Hear(n)
      <4>0. post[n].by \in Authors
        BY <2>1, <1>h
      <4>1. PICK o \in Outcomes : author' = [author EXCEPT ![post[n].by].waits = 0, ![post[n].by].outcome = o]
        BY <3>2 DEF Hear, Outcomes
      <4>2. [author[post[n].by] EXCEPT !.waits = 0, !.outcome = o] \in AuthorRow
        BY <1>a, <1>z, <4>0 DEF AuthorRow
      <4>3. author' = [author EXCEPT ![post[n].by] = [author[post[n].by] EXCEPT !.waits = 0, !.outcome = o]]
        BY <1>a, <4>0, <4>1 DEF AuthorRow
      <4> QED BY <1>a, <4>0, <4>2, <4>3
    <3> QED BY <1>4, <3>1, <3>2
  <2>3. SubmissionRows'
    <3>1. post' \in [Posts -> PostRow]
      BY <1>p, <2>1 DEF PostRow, PostStates
    <3> QED BY <2>1, <2>2, <3>1 DEF SubmissionInv, SubmissionRows
  <2>4. /\ post'[n].st = "over" /\ post'[n].by = post[n].by /\ post'[n].key = post[n].key
        /\ post'[n].content = post[n].content /\ post'[n].given = post[n].given /\ post'[n].answer = post[n].answer
        /\ \A m \in Posts \ {n} : post'[m] = post[m]
    BY <1>p, <2>1 DEF PostRow
  <2>5. \A m \in Posts : PostTrue(m)'
    BY <2>1, <2>4 DEF SubmissionInv, PostTrue
  <2>6. OneCreator'
    BY <2>4 DEF SubmissionInv, OneCreator
  <2> QED BY <2>1, <2>3, <2>5, <2>6 DEF SubmissionInv, RowWhole, OneStored
<1>5. ASSUME NEW n \in Posts, PostExperiment(n) PROVE SubmissionInv'
  <2> DEFINE k == post[n].key
             c == post[n].content
  <2>1. /\ post[n].st = "sent" /\ k \in Keys /\ c \in Contents /\ c # None /\ post[n].answer = None
    BY <1>5, <1>c DEF PostExperiment, SubmissionInv, PostTrue
  <2>2. PICK what \in Answers \ {None} :
          /\ post' = [post EXCEPT ![n].st = "answered", ![n].answer = what]
          /\ what = "created" =>
               /\ ~db[k].grid
               /\ db' = [db EXCEPT ![k] = [experiment |-> c, grid |-> TRUE, tasks |-> c, made |-> @.made + 1]]
          /\ what # "created" => db' = db
          /\ what = "exists" => db[k].experiment = c
          /\ UNCHANGED <<author, single>> /\ chances' \in 0..Mischances
    <3>1. chances' \in 0..Mischances /\ UNCHANGED <<author, single>>
      BY <1>5, <1>m DEF PostExperiment, SubmissionInv, SubmissionRows
    <3> DEFINE Refuses == db' = db /\ \E what \in {"conflict", "exists", "invalid", "partial", "error"} :
                              Answered(n, what) /\ (what = "exists" => db[k].experiment = c)
               Makes == /\ ~db[k].grid /\ Answered(n, "created")
                        /\ db' = [db EXCEPT ![k] = [experiment |-> c, grid |-> TRUE, tasks |-> c, made |-> @.made + 1]]
    <3>2. Refuses \/ Makes
      BY <1>5, <2>1 DEF PostExperiment, None
    <3>3. CASE Refuses
      BY <3>1, <3>3 DEF Answered, Answers, None
    <3>4. CASE Makes
      BY <3>1, <3>4 DEF Answered, Answers, None
    <3> QED BY <3>2, <3>3, <3>4
  <2> HIDE DEF k, c
  <2>3. /\ post'[n].st = "answered" /\ post'[n].by = post[n].by /\ post'[n].key = k
        /\ post'[n].content = c /\ post'[n].given = post[n].given /\ post'[n].answer = what
        /\ \A m \in Posts \ {n} : post'[m] = post[m]
    BY <1>p, <2>2 DEF PostRow, k, c
  <2>4. \A j \in Keys : j # k \/ what # "created" => db'[j] = db[j]
    BY <2>2 DEF SubmissionInv, SubmissionRows
  <2>5. what = "created" => /\ ~db[k].grid /\ db[k].made = 0 /\ db[k].tasks = None
                            /\ db'[k] = [experiment |-> c, grid |-> TRUE, tasks |-> c, made |-> 1]
    <3>1. RowWhole(k)
      BY <2>1 DEF SubmissionInv
    <3> QED BY <1>d, <2>1, <2>2, <3>1 DEF KeyRow, RowWhole
  <2>6. SubmissionRows'
    <3>1. post' \in [Posts -> PostRow]
      <4>1. [post[n] EXCEPT !.st = "answered", !.answer = what] \in PostRow
        BY <1>p DEF PostRow, PostStates
      <4>2. post' = [post EXCEPT ![n] = [post[n] EXCEPT !.st = "answered", !.answer = what]]
        BY <1>p, <2>2 DEF PostRow
      <4> QED BY <1>p, <4>1, <4>2
    <3>2. db' \in [Keys -> KeyRow]
      <4>1. CASE what # "created"
        BY <1>d, <2>2, <4>1
      <4>2. CASE what = "created"
        <5>1. [experiment |-> c, grid |-> TRUE, tasks |-> c, made |-> db[k].made + 1] \in KeyRow
          BY <2>1, <2>5, <4>2 DEF KeyRow
        <5>2. db' = [db EXCEPT ![k] = [experiment |-> c, grid |-> TRUE, tasks |-> c, made |-> db[k].made + 1]]
          BY <2>2, <4>2
        <5> QED BY <1>d, <5>1, <5>2
      <4> QED BY <4>1, <4>2
    <3> QED BY <2>2, <3>1, <3>2 DEF SubmissionInv, SubmissionRows
  <2>7. \A j \in Keys : RowWhole(j)'
    <3> SUFFICES ASSUME NEW j \in Keys PROVE RowWhole(j)'
      OBVIOUS
    <3>1. CASE j # k \/ what # "created"
      BY <2>4, <3>1 DEF SubmissionInv, RowWhole
    <3>2. CASE j = k /\ what = "created"
      <4>1. db'[k].grid /\ db'[k].tasks = c /\ db'[k].experiment = c /\ db'[k].made = 1
        BY <2>5, <3>2
      <4> QED BY <2>1, <3>2, <4>1, Zenon DEF RowWhole
    <3> QED BY <3>1, <3>2
  <2>8. \A m \in Posts : PostTrue(m)'
    <3> SUFFICES ASSUME NEW m \in Posts PROVE PostTrue(m)'
      OBVIOUS
    <3>1. CASE m = n
      <4>1. what \in {"created", "exists"} => db'[k].tasks = c
        BY <2>1, <2>4, <2>5, <2>2 DEF SubmissionInv, RowWhole
      <4> QED BY <2>1, <2>3, <3>1, <4>1 DEF SubmissionInv, PostTrue, k, c
    <3>2. CASE m # n
      <4>1. post[m].answer \in {"created", "exists"} =>
              /\ db[post[m].key].tasks = post[m].content /\ post[m].content # None /\ post[m].key \in Keys
        BY <1>c DEF SubmissionInv, PostTrue, None
      <4>2. post[m].answer \in {"created", "exists"} => db'[post[m].key].tasks = post[m].content
        BY <2>4, <2>5, <4>1
      <4> QED BY <2>3, <3>2, <4>2 DEF SubmissionInv, PostTrue
    <3> QED BY <3>1, <3>2
  <2>9. OneCreator'
    <3>1. \A m \in Posts : post[m].answer = "created" /\ post[m].key = k => db[k].tasks # None
      BY <1>c DEF SubmissionInv, PostTrue, None
    <3> QED BY <2>3, <2>5, <3>1 DEF SubmissionInv, OneCreator
  <2> QED BY <2>2, <2>6, <2>7, <2>8, <2>9 DEF SubmissionInv, OneStored
<1>6. ASSUME NEW k \in Keys, DeleteExperimentRow(k) PROVE SubmissionInv'
  <2>1. /\ db' = [db EXCEPT ![k].experiment = None] /\ UNCHANGED <<author, post, single>>
        /\ chances' \in 0..Mischances
    BY <1>6, <1>m DEF DeleteExperimentRow, SubmissionInv, SubmissionRows
  <2>2. SubmissionRows'
    <3>1. db' \in [Keys -> KeyRow]
      BY <1>d, <2>1 DEF KeyRow
    <3> QED BY <2>1, <3>1 DEF SubmissionInv, SubmissionRows
  <2>3. \A j \in Keys : db'[j].grid = db[j].grid /\ db'[j].tasks = db[j].tasks /\ db'[j].made = db[j].made
                        /\ db'[j].experiment \in {None, db[j].experiment}
    BY <1>d, <2>1 DEF KeyRow
  <2>4. \A j \in Keys : RowWhole(j)'
    BY <2>3 DEF SubmissionInv, RowWhole
  <2>5. \A m \in Posts : PostTrue(m)'
    <3>1. \A m \in Posts : post[m].answer \in {"created", "exists"} => post[m].key \in Keys
      BY DEF SubmissionInv, PostTrue, None
    <3> QED BY <2>1, <2>3, <3>1 DEF SubmissionInv, PostTrue
  <2> QED BY <2>1, <2>2, <2>4, <2>5 DEF SubmissionInv, OneCreator, OneStored
<1>7. ASSUME NEW k \in {TaskKey(j) : j \in Keys}, NEW p \in Scripts, PostTask(k, p) \/ PostTaskToStub(k, p)
      PROVE  SubmissionInv'
  <2>1. PICK direct \in BOOLEAN :
          /\ single' = Append(single, NewSingle(k, p, direct))
          /\ ~direct => ~\E i \in DOMAIN single : single[i].key = k /\ single[i].stored
          /\ UNCHANGED <<author, post, db, chances>>
    BY <1>7 DEF PostTask, PostTaskToStub
  <2>2. NewSingle(k, p, direct) \in SingleRow
    BY DEF NewSingle, SingleRow, TaskKeys
  <2>3. SubmissionRows'
    BY <2>1, <2>2 DEF SubmissionInv, SubmissionRows
  <2>4. OneStored'
    <3> DEFINE new == Len(single) + 1
               entry == NewSingle(k, p, direct)
    <3>1. DOMAIN single = 1..(new - 1) /\ DOMAIN single' = 1..new /\ new \in Nat
      BY <1>s, <2>1, <2>2
    <3>2. single'[new] = entry /\ \A i \in DOMAIN single : single'[i] = single[i] /\ i # new
      BY <1>s, <2>1, <2>2
    <3>3. entry.key = k /\ entry.stored = ~direct
      BY DEF NewSingle
    <3> HIDE DEF new, entry
    <3>4. \A i \in DOMAIN single : single[i].stored /\ ~direct => single[i].key # k
      BY <2>1
    <3>5. DOMAIN single' = DOMAIN single \cup {new}
      <4>1. new >= 1
        BY <1>s DEF new
      <4> QED BY <3>1, <4>1
    <3> SUFFICES ASSUME NEW i \in DOMAIN single', NEW j \in DOMAIN single',
                        single'[i].stored, single'[j].stored, single'[i].key = single'[j].key
                 PROVE  i = j
      BY DEF OneStored
    <3>7. CASE i = new /\ j # new
      BY <3>2, <3>3, <3>4, <3>5, <3>7
    <3>8. CASE i # new /\ j = new
      BY <3>2, <3>3, <3>4, <3>5, <3>8
    <3>6. CASE i # new /\ j # new
      BY <3>2, <3>5, <3>6 DEF SubmissionInv, OneStored
    <3> QED BY <3>6, <3>7, <3>8
  <2> QED BY <2>1, <2>3, <2>4 DEF SubmissionInv, RowWhole, PostTrue, OneCreator
<1>8. ASSUME NEW i \in DOMAIN single, SingleEnds(i) \/ CacheExpires(i) PROVE SubmissionInv'
  <2>1. /\ UNCHANGED <<author, post, db, chances>>
        /\ single' = [single EXCEPT ![i].active = FALSE] \/ single' = [single EXCEPT ![i].cached = FALSE]
    BY <1>8 DEF SingleEnds, CacheExpires
  <2>2. PICK entry \in SingleRow :
          /\ single' = [single EXCEPT ![i] = entry] /\ entry.key = single[i].key /\ entry.stored = single[i].stored
    <3>1. single[i] \in SingleRow
      BY <1>s, <1>8
    <3>2. CASE single' = [single EXCEPT ![i].active = FALSE]
      <4>1. [single[i] EXCEPT !.active = FALSE] \in SingleRow
        BY <3>1 DEF SingleRow
      <4> QED BY <3>1, <3>2, <4>1 DEF SingleRow
    <3>3. CASE single' = [single EXCEPT ![i].cached = FALSE]
      <4>1. [single[i] EXCEPT !.cached = FALSE] \in SingleRow
        BY <3>1 DEF SingleRow
      <4> QED BY <3>1, <3>3, <4>1 DEF SingleRow
    <3> QED BY <2>1, <3>2, <3>3
  <2>3. single' \in Seq(SingleRow) /\ DOMAIN single' = DOMAIN single
    BY <1>s, <1>8, <2>2
  <2>4. SubmissionRows'
    BY <2>1, <2>3 DEF SubmissionInv, SubmissionRows
  <2>5. \A j \in DOMAIN single : single'[j].key = single[j].key /\ single'[j].stored = single[j].stored
    BY <1>s, <2>2
  <2> QED BY <2>1, <2>3, <2>4, <2>5 DEF SubmissionInv, RowWhole, PostTrue, OneCreator, OneStored
<1>9. CASE UNCHANGED submissionVars
  BY <1>9 DEF submissionVars, SubmissionInv, SubmissionRows, RowWhole, PostTrue, OneCreator, OneStored
<1> QED BY <1>1, <1>2, <1>3, <1>4, <1>5, <1>6, <1>7, <1>8, <1>9 DEF SubmissionNext

-----------------------------------------------------------------------------
(* Requests relayed to a stub. *)

LineRow == [st : {"up", "quiet", "down"}, gen : Nat \ {0}, faults : Nat]
HttpRow == [asks : {"nothing", "command", "file", "malformed"},
            res : {"none", "waiting", "200", "400", "403", "404", "503", "504"},
            at : {"none", "sent", "started", "over", "answered", "lost"},
            proc : {"none", "alive", "ended", "killed"},
            says : {"none", "disabled", "failed", "its code", "content", "not found", "refused"},
            gen : Nat]
Places == {"none", "sent", "running", "over", "acked", "lost"}
ShellRow == [pc : {"none", "awaits", "delay", "settled"}, gen : Nat, sends : 0..MaxSends,
             ran : SUBSET Nat, copy : [Attempts -> Places]]
TabRow == [running : BOOLEAN, inbox : Nat, command : Commands \cup {NoCommand}]

RelayRows ==
  /\ line \in LineRow
  /\ http \in [Execs -> HttpRow]
  /\ shells \in [Commands -> ShellRow]
  /\ tab \in [Tabs -> TabRow]

\* An answer on its way is as true as the one that has arrived.
RequestTrue(x) ==
  /\ x.res = "none" => x.at = "none"
  /\ x.proc = "alive" => x.at = "started"
  /\ x.res = "200" => x.at = "answered"
  /\ x.at \in {"over", "answered"} /\ x.asks = "command" /\ x.says = "its code" => x.proc = "ended"

\* A copy that may still be handled is on the connection its command was sent on.
CommandSound(c) ==
  /\ shells[c].ran \subseteq {shells[c].gen}
  /\ \A i \in Attempts : shells[c].copy[i] = "sent" => Connected /\ line.gen = shells[c].gen
  /\ shells[c].pc = "none" => shells[c].ran = {} /\ shells[c].sends = 0 /\ \A i \in Attempts : shells[c].copy[i] = "none"
  /\ shells[c].pc \in {"awaits", "delay"} => shells[c].sends >= 1
  /\ shells[c].pc = "delay" => shells[c].sends < MaxSends

\* Of the command of a page that waits and has no news, the first copy has not ended.
PageSound(t) ==
  tab[t].running /\ tab[t].inbox = 0 =>
    tab[t].command \in Commands /\ shells[tab[t].command].copy[1] \in {"sent", "running", "lost"}

RelayInv ==
  /\ RelayRows
  /\ \A e \in Execs : RequestTrue(http[e])
  /\ \A c \in Commands : CommandSound(c)
  /\ \A t \in Tabs : PageSound(t)

\* The fields of a entry, one update at a time.
LEMMA LineChanges ==
  ASSUME NEW entry \in LineRow
  PROVE  /\ \A n \in Nat : [entry EXCEPT !.faults = n] \in LineRow
         /\ \A n \in Nat : [entry EXCEPT !.st = "quiet", !.faults = n] \in LineRow
         /\ \A n \in Nat \ {0} : [entry EXCEPT !.st = "up", !.gen = n] \in LineRow
         /\ [entry EXCEPT !.st = "down"] \in LineRow
BY DEF LineRow

LEMMA LineFields == \A entry \in LineRow : entry.faults \in Nat /\ entry.gen \in Nat /\ entry.gen # 0
BY DEF LineRow

LEMMA TabFields == \A entry \in TabRow : entry.inbox \in Nat
BY DEF TabRow

LEMMA TabChanges ==
  ASSUME NEW entry \in TabRow
  PROVE  /\ \A n \in Nat : [entry EXCEPT !.inbox = n] \in TabRow
         /\ \A n \in Nat : [entry EXCEPT !.inbox = n, !.running = FALSE] \in TabRow
         /\ \A n \in Nat, c \in Commands : [entry EXCEPT !.running = TRUE, !.command = c, !.inbox = n] \in TabRow
BY DEF TabRow

LEMMA OneLess == \A n \in Nat : n > 0 => n - 1 \in Nat
OBVIOUS

LEMMA FirstAttempt == 1 \in Attempts /\ MaxSends \in Nat /\ MaxSends >= 1
BY RelayAssumption DEF Attempts

LEMMA RelayInvMeans == RelayInv => RelaySound
<1> SUFFICES ASSUME RelayInv PROVE RelaySound
  OBVIOUS
<1>1. AnswersTrue
  BY DEF RelayInv, RequestTrue, AnswersTrue
<1>2. NoReplay
  BY DEF RelayInv, CommandSound, NoReplay
<1>3. PagesHear
  <2> SUFFICES ASSUME NEW t \in Tabs, tab[t].running, tab[t].inbox = 0
               PROVE  Coming(tab[t].command) \/ \E i \in Attempts : shells[tab[t].command].copy[i] = "lost"
    BY DEF PagesHear, RelayInv, RelayRows, TabRow
  <2> QED BY FirstAttempt DEF RelayInv, PageSound, Coming
<1> QED BY <1>1, <1>2, <1>3 DEF RelaySound

LEMMA RelayInvInit == RelayInit => RelayInv
<1> SUFFICES ASSUME RelayInit PROVE RelayInv
  OBVIOUS
<1>1. RelayRows
  BY FirstAttempt, RelayAssumption DEF RelayInit, RelayRows, LineRow, HttpRow, ShellRow, TabRow, Places
<1> QED BY <1>1, FirstAttempt DEF RelayInit, RelayInv, RequestTrue, CommandSound, PageSound

\* A step on one request that keeps its entry and what its answer says.
LEMMA RequestStep ==
  ASSUME RelayInv, NEW e \in Execs, NEW entry \in HttpRow, RequestTrue(entry),
         http' = [http EXCEPT ![e] = entry], UNCHANGED <<shells, tab>>,
         line' \in LineRow, line'.st = line.st, line'.gen = line.gen
  PROVE  RelayInv'
<1>1. RelayRows'
  BY DEF RelayInv, RelayRows
<1>2. \A d \in Execs : RequestTrue(http[d])'
  BY DEF RelayInv, RelayRows, RequestTrue
<1>3. \A c \in Commands : CommandSound(c)'
  BY DEF RelayInv, CommandSound, Connected
<1> QED BY <1>1, <1>2, <1>3 DEF RelayInv, PageSound

LEMMA HttpStep == RelayInv /\ HttpNext => RelayInv'
<1> SUFFICES ASSUME RelayInv, NEW e \in Execs,
                    \/ \E asks \in {"command", "file", "malformed"} : PostExec(e, asks)
                    \/ HandleExecRequest(e) \/ ProcessEnds(e) \/ WaitAll(e) \/ ExecTimeout(e)
                    \/ \E says \in {"content", "not found", "refused"} : HandleFileRequest(e, says)
                    \/ ExecAck(e) \/ ServerTimeout(e)
             PROVE  RelayInv'
  BY DEF HttpNext
<1>r. http[e] \in HttpRow /\ RequestTrue(http[e]) /\ http \in [Execs -> HttpRow] /\ line \in LineRow
  BY DEF RelayInv, RelayRows
<1> DEFINE Step(entry) == entry \in HttpRow /\ RequestTrue(entry) /\ http' = [http EXCEPT ![e] = entry]
<1>1. ASSUME NEW asks \in {"command", "file", "malformed"}, PostExec(e, asks) PROVE RelayInv'
  <2>1. PICK entry : Step(entry)
    <3>1. CASE line.st = "down"
      <4>1. Step([http[e] EXCEPT !.asks = asks, !.res = "503"])
        BY <1>r, <1>1, <3>1 DEF PostExec, HttpRow, RequestTrue
      <4> QED BY <4>1
    <3>2. CASE line.st # "down" /\ asks = "malformed"
      <4>1. Step([http[e] EXCEPT !.asks = asks, !.res = "400"])
        BY <1>r, <1>1, <3>2 DEF PostExec, HttpRow, RequestTrue
      <4> QED BY <4>1
    <3>3. CASE line.st # "down" /\ asks # "malformed"
      <4> DEFINE place == IF Connected THEN "sent" ELSE "lost"
                 entry == [http[e] EXCEPT !.asks = asks, !.res = "waiting", !.gen = line.gen, !.at = place]
      <4>0. place \in {"sent", "lost"}
        OBVIOUS
      <4>1. line.gen \in Nat
        BY <1>r DEF LineRow
      <4>2. http[e].proc # "alive"
        BY <1>1, <1>r DEF PostExec, RequestTrue
      <4>4. http' = [http EXCEPT ![e] = entry]
        BY <1>1, <3>3 DEF PostExec
      <4> HIDE DEF place
      <4>5. entry \in HttpRow
        BY <1>r, <4>0, <4>1 DEF HttpRow
      <4>3. RequestTrue(entry)
        BY <1>r, <4>0, <4>2 DEF HttpRow, RequestTrue
      <4> QED BY <4>3, <4>4, <4>5
    <3> QED BY <3>1, <3>2, <3>3
  <2> QED BY <1>1, <1>r, <2>1, RequestStep DEF PostExec
<1>2. CASE HandleExecRequest(e)
  <2>1. \/ http' = [http EXCEPT ![e].at = "over", ![e].says = "disabled"]
        \/ http' = [http EXCEPT ![e].at = "over", ![e].says = "failed"]
        \/ http' = [http EXCEPT ![e].at = "started", ![e].proc = "alive"]
    BY <1>2 DEF HandleExecRequest
  <2>2. http[e].at = "sent"
    BY <1>2 DEF HandleExecRequest
  <2>3. PICK entry : Step(entry)
    <3>1. \A says \in {"disabled", "failed"} :
            [http[e] EXCEPT !.at = "over", !.says = says] \in HttpRow /\ RequestTrue([http[e] EXCEPT !.at = "over", !.says = says])
      BY <1>r, <2>2 DEF HttpRow, RequestTrue
    <3>2. [http[e] EXCEPT !.at = "started", !.proc = "alive"] \in HttpRow /\ RequestTrue([http[e] EXCEPT !.at = "started", !.proc = "alive"])
      BY <1>r, <2>2 DEF HttpRow, RequestTrue
    <3> QED BY <1>r, <2>1, <3>1, <3>2
  <2> QED BY <1>2, <1>r, <2>3, RequestStep DEF HandleExecRequest
<1>3. CASE ProcessEnds(e)
  <2>1. Step([http[e] EXCEPT !.proc = "ended"])
    BY <1>r, <1>3 DEF ProcessEnds, HttpRow, RequestTrue
  <2> QED BY <1>3, <1>r, <2>1, RequestStep DEF ProcessEnds
<1>4. CASE WaitAll(e)
  <2>1. Step([http[e] EXCEPT !.at = "over", !.says = "its code"])
    BY <1>r, <1>4 DEF WaitAll, HttpRow, RequestTrue
  <2> QED BY <1>4, <1>r, <2>1, RequestStep DEF WaitAll
<1>5. CASE ExecTimeout(e)
  <2>1. Step(ExecKilled(e))
    <3>1. http[e].at = "started" /\ http' = [http EXCEPT ![e] = ExecKilled(e)]
      BY <1>5 DEF ExecTimeout
    <3> QED BY <1>r, <3>1 DEF ExecKilled, HttpRow, RequestTrue
  <2> QED BY <1>5, <1>r, <2>1, RequestStep DEF ExecTimeout
<1>6. ASSUME NEW says \in {"content", "not found", "refused"}, HandleFileRequest(e, says) PROVE RelayInv'
  <2>1. Step([http[e] EXCEPT !.at = "over", !.says = says])
    BY <1>r, <1>6 DEF HandleFileRequest, HttpRow, RequestTrue
  <2> QED BY <1>6, <1>r, <2>1, RequestStep DEF HandleFileRequest
<1>7. CASE ExecAck(e)
  <2>1. PICK entry : Step(entry)
    <3>1. CASE Connected /\ line.gen = http[e].gen
      <4> DEFINE answer == IF http[e].res = "waiting" THEN StatusOf(http[e].says) ELSE http[e].res
                 entry == [http[e] EXCEPT !.at = "answered", !.res = answer]
      <4>1. http[e].at = "over" /\ http' = [http EXCEPT ![e].at = "answered", ![e].res = answer]
        BY <1>7, <3>1 DEF ExecAck
      <4>2. answer \in {"none", "waiting", "200", "400", "403", "404", "503", "504"} /\ answer # "none"
        BY <1>r, <4>1 DEF HttpRow, RequestTrue, StatusOf
      <4> HIDE DEF answer
      <4>3. entry \in HttpRow
        BY <1>r, <4>2 DEF HttpRow
      <4>4. /\ entry.at = "answered" /\ entry.res = answer /\ entry.proc = http[e].proc /\ entry.asks = http[e].asks
            /\ entry.says = http[e].says
        BY <1>r DEF HttpRow
      <4>5. RequestTrue(entry)
        BY <1>r, <4>1, <4>2, <4>4 DEF RequestTrue
      <4> QED BY <4>1, <4>3, <4>5
    <3>2. CASE ~(Connected /\ line.gen = http[e].gen)
      <4>1. Step([http[e] EXCEPT !.at = "lost"])
        BY <1>r, <1>7, <3>2 DEF ExecAck, HttpRow, RequestTrue
      <4> QED BY <4>1
    <3> QED BY <3>1, <3>2
  <2> QED BY <1>7, <1>r, <2>1, RequestStep DEF ExecAck
<1>8. CASE ServerTimeout(e)
  <2>1. Step([http[e] EXCEPT !.res = "504"])
    BY <1>r, <1>8 DEF ServerTimeout, HttpRow, RequestTrue
  <2>2. line' \in LineRow /\ line'.st = line.st /\ line'.gen = line.gen
    <3>1. line' = line \/ (line.faults > 0 /\ line' = [line EXCEPT !.faults = line.faults - 1])
      BY <1>8 DEF ServerTimeout, RelayFault
    <3>2. line \in LineRow
      BY <1>r
    <3>3. CASE line.faults > 0 /\ line' = [line EXCEPT !.faults = line.faults - 1]
      <4>1. line.faults - 1 \in Nat
        <5>1. line.faults \in Nat
          BY <3>2, LineFields
        <5>2. line.faults > 0
          BY <3>3
        <5> QED BY <5>1, <5>2, OneLess
      <4> QED BY <3>2, <3>3, <4>1, LineChanges DEF LineRow
    <3> QED BY <3>1, <3>2, <3>3
  <2> QED BY <1>8, <2>1, <2>2, RequestStep DEF ServerTimeout
<1> QED BY <1>1, <1>2, <1>3, <1>4, <1>5, <1>6, <1>7, <1>8

\* A step on one command, told to the pages as tab' says.
LEMMA CommandStep ==
  ASSUME RelayInv, NEW c \in Commands, NEW entry \in ShellRow, shells' = [shells EXCEPT ![c] = entry],
         UNCHANGED <<line, http>>, CommandSound(c)', tab' \in [Tabs -> TabRow],
         \A t \in Tabs : PageSound(t)'
  PROVE  RelayInv'
<1>1. RelayRows'
  BY DEF RelayInv, RelayRows
<1>2. \A d \in Commands : CommandSound(d)'
  BY DEF RelayInv, RelayRows, CommandSound, Connected
<1> QED BY <1>1, <1>2 DEF RelayInv

\* The pages that have not been told keep what they wait for, if the first copy is still under way.
LEMMA PagesKept ==
  ASSUME RelayInv, NEW c \in Commands, NEW entry \in ShellRow, shells' = [shells EXCEPT ![c] = entry],
         tab' = tab, shells[c].copy[1] \in {"sent", "running", "lost"} => entry.copy[1] \in {"sent", "running", "lost"}
  PROVE  \A t \in Tabs : PageSound(t)'
BY DEF RelayInv, RelayRows, PageSound

\* Every page that was told has news.
LEMMA PagesTold ==
  ASSUME RelayInv, tab' = Told
  PROVE  tab' \in [Tabs -> TabRow] /\ \A t \in Tabs : PageSound(t)'
<1>1. \A t \in Tabs : tab[t] \in TabRow
  BY DEF RelayInv, RelayRows
<1>2. tab' \in [Tabs -> TabRow]
  BY <1>1 DEF Told, TabRow
<1>3. \A t \in Tabs : tab'[t].inbox # 0
  BY <1>1 DEF Told, TabRow
<1> QED BY <1>2, <1>3 DEF PageSound

LEMMA SentIs == Sent \in {"sent", "lost"} /\ (Sent = "sent" <=> Connected)
BY DEF Sent

LEMMA ShellStep == RelayInv /\ ShellNext => RelayInv'
<1> SUFFICES ASSUME RelayInv, ShellNext PROVE RelayInv'
  OBVIOUS
<1>r. /\ \A c \in Commands : shells[c] \in ShellRow /\ CommandSound(c)
      /\ \A t \in Tabs : tab[t] \in TabRow /\ PageSound(t)
      /\ shells \in [Commands -> ShellRow] /\ tab \in [Tabs -> TabRow] /\ line \in LineRow
  BY DEF RelayInv, RelayRows
<1>n. line.gen \in Nat
  BY <1>r DEF LineRow
<1>t. \A t \in Tabs : tab[t] \in TabRow
  BY <1>r
<1>s. \A c \in Commands : shells[c] \in ShellRow
  BY <1>r
<1>1. ASSUME NEW c \in Commands, SubmitShell(c) PROVE RelayInv'
  <2>1. CASE line.st = "down"
    <3> DEFINE entry == [shells[c] EXCEPT !.pc = "settled"]
    <3>1. shells' = [shells EXCEPT ![c] = entry] /\ UNCHANGED <<line, http>> /\ entry \in ShellRow
      BY <1>1, <1>r, <2>1 DEF SubmitShell, ShellRow
    <3>2. CommandSound(c)'
      BY <1>1, <1>r, <3>1 DEF SubmitShell, CommandSound, Connected, ShellRow
    <3>3. \A t \in Tabs : tab'[t] = IF t # AskedBy[c] THEN tab[t]
                                    ELSE [tab[t] EXCEPT !.running = TRUE, !.command = c, !.inbox = @ + 1]
      BY <1>1, <2>1 DEF SubmitShell
    <3>4. tab' \in [Tabs -> TabRow]
      <4>1. \A t \in Tabs : tab'[t] \in TabRow
        <5>1. \A t \in Tabs : [tab[t] EXCEPT !.running = TRUE, !.command = c, !.inbox = @ + 1] \in TabRow
          <6>1. \A t \in Tabs : tab[t].inbox + 1 \in Nat
            BY <1>t, TabFields
          <6> QED BY <1>t, <6>1, TabChanges
        <5> QED BY <1>t, <3>3, <5>1
      <4> QED BY <1>1, <2>1, <4>1 DEF SubmitShell
    <3>5. \A t \in Tabs : PageSound(t)'
      <4> SUFFICES ASSUME NEW t \in Tabs PROVE PageSound(t)'
        OBVIOUS
      <4>1. CASE t = AskedBy[c]
        <5>1. tab'[t].inbox # 0
          <6>1. tab'[t] = [tab[t] EXCEPT !.running = TRUE, !.command = c, !.inbox = tab[t].inbox + 1]
            BY <3>3, <4>1
          <6>2. tab[t].inbox + 1 # 0 /\ tab[t] \in TabRow
            <7>1. tab[t].inbox \in Nat
              BY <1>t, TabFields
            <7> QED BY <1>t, <7>1
          <6> QED BY <6>1, <6>2 DEF TabRow
        <5> QED BY <5>1 DEF PageSound
      <4>2. CASE t # AskedBy[c]
        <5>1. tab'[t] = tab[t]
          BY <3>3, <4>2
        <5>2. \A d \in Commands : shells'[d].copy = shells[d].copy
          BY <1>r, <3>1 DEF ShellRow
        <5> QED BY <1>r, <5>1, <5>2 DEF PageSound
      <4> QED BY <4>1, <4>2
    <3> QED BY <3>1, <3>2, <3>4, <3>5, CommandStep
  <2>2. CASE line.st # "down"
    <3> DEFINE entry == [shells[c] EXCEPT !.pc = "awaits", !.sends = 1, !.copy[1] = Sent, !.gen = line.gen]
    <3>1. shells[c].pc = "none" /\ shells[c].sends = 0 /\ shells[c].ran = {} /\ \A i \in Attempts : shells[c].copy[i] = "none"
      BY <1>1, <1>r DEF SubmitShell, CommandSound
    <3>2. shells' = [shells EXCEPT ![c] = entry] /\ UNCHANGED <<line, http>>
      <4>1. shells' = [shells EXCEPT ![c] = [Emitted(c) EXCEPT !.gen = line.gen]] /\ UNCHANGED <<line, http>>
        BY <1>1, <2>2 DEF SubmitShell
      <4>2. [Emitted(c) EXCEPT !.gen = line.gen] = entry
        BY <1>s, <3>1 DEF Emitted, ShellRow
      <4> QED BY <4>1, <4>2
    <3>3. entry \in ShellRow
      <4>1. [shells[c].copy EXCEPT ![1] = Sent] \in [Attempts -> Places]
        BY <1>s, SentIs DEF ShellRow, Places
      <4>2. entry = [shells[c] EXCEPT !.pc = "awaits", !.sends = 1, !.copy = [shells[c].copy EXCEPT ![1] = Sent], !.gen = line.gen]
        BY <1>s DEF ShellRow
      <4>3. 1 \in 0..MaxSends /\ shells[c] \in ShellRow
        BY <1>s, FirstAttempt
      <4> QED BY <1>n, <4>1, <4>2, <4>3 DEF ShellRow
    <3>4. CommandSound(c)'
      BY <1>r, <3>1, <3>2, <3>3, SentIs, FirstAttempt DEF CommandSound, Connected, ShellRow
    <3>5. \A t \in Tabs : tab'[t] = IF t # AskedBy[c] THEN tab[t]
                                    ELSE [tab[t] EXCEPT !.running = TRUE, !.command = c]
      BY <1>1, <2>2 DEF SubmitShell
    <3>6. tab' \in [Tabs -> TabRow]
      <4>1. \A t \in Tabs : tab'[t] \in TabRow
        <5>1. \A t \in Tabs : [tab[t] EXCEPT !.running = TRUE, !.command = c] \in TabRow
          BY <1>t DEF TabRow
        <5> QED BY <1>t, <3>5, <5>1
      <4> QED BY <1>1, <2>2, <4>1 DEF SubmitShell
    <3>7. shells'[c].copy[1] \in {"sent", "lost"}
      BY <1>r, <3>2, SentIs, FirstAttempt DEF ShellRow
    <3>8. \A t \in Tabs : PageSound(t)'
      <4> SUFFICES ASSUME NEW t \in Tabs PROVE PageSound(t)'
        OBVIOUS
      <4>1. CASE t = AskedBy[c]
        <5>1. tab'[t].command = c
          BY <1>r, <3>5, <4>1 DEF TabRow
        <5> QED BY <3>7, <5>1 DEF PageSound
      <4>2. CASE t # AskedBy[c]
        <5>1. tab'[t] = tab[t]
          BY <3>5, <4>2
        <5>2. \A d \in Commands : d # c => shells'[d] = shells[d]
          BY <1>r, <3>2
        <5> QED BY <1>r, <3>7, <5>1, <5>2 DEF PageSound
      <4> QED BY <4>1, <4>2
    <3> QED BY <3>2, <3>3, <3>4, <3>6, <3>8, CommandStep
  <2> QED BY <2>1, <2>2
<1>2. ASSUME NEW c \in Commands, ShellAckTimeout(c) PROVE RelayInv'
  <2> DEFINE next == IF line.gen # shells[c].gen \/ shells[c].sends = MaxSends THEN "settled" ELSE "delay"
             entry == [shells[c] EXCEPT !.pc = next]
  <2>1. shells' = [shells EXCEPT ![c] = entry] /\ UNCHANGED <<line, http, tab>> /\ shells[c].pc = "awaits"
    BY <1>2 DEF ShellAckTimeout
  <2>2. entry \in ShellRow
    BY <1>r DEF ShellRow
  <2>3. CommandSound(c)'
    <3>1. CommandSound(c) /\ shells'[c] = entry
      BY <1>r, <2>1
    <3>2. entry.pc = next /\ entry.gen = shells[c].gen /\ entry.sends = shells[c].sends /\ entry.ran = shells[c].ran
          /\ entry.copy = shells[c].copy
      BY <1>s DEF ShellRow
    <3>3. next = "settled" \/ (next = "delay" /\ shells[c].sends < MaxSends)
      BY <1>s, FirstAttempt DEF ShellRow
    <3> HIDE DEF next, entry
    <3> QED BY <2>1, <3>1, <3>2, <3>3 DEF CommandSound, Connected
  <2>4. \A t \in Tabs : PageSound(t)'
    BY <1>r, <2>1, <2>2, PagesKept DEF ShellRow
  <2> QED BY <1>r, <2>1, <2>2, <2>3, <2>4, CommandStep
<1>3. ASSUME NEW c \in Commands, Resend(c) PROVE RelayInv'
  <2>1. CASE line.st = "down" \/ line.gen # shells[c].gen
    <3> DEFINE entry == [shells[c] EXCEPT !.pc = "settled"]
    <3>1. shells' = [shells EXCEPT ![c] = entry] /\ UNCHANGED <<line, http, tab>>
      BY <1>3, <2>1 DEF Resend, Resent
    <3>2. entry \in ShellRow
      BY <1>r DEF ShellRow
    <3>3. CommandSound(c)'
      BY <1>3, <1>r, <3>1, <3>2 DEF Resend, CommandSound, Connected, ShellRow
    <3>4. \A t \in Tabs : PageSound(t)'
      BY <1>r, <3>1, <3>2, PagesKept DEF ShellRow
    <3> QED BY <1>r, <3>1, <3>2, <3>3, <3>4, CommandStep
  <2>2. CASE ~(line.st = "down" \/ line.gen # shells[c].gen)
    <3> DEFINE n == shells[c].sends + 1
               entry == [shells[c] EXCEPT !.pc = "awaits", !.sends = n, !.copy[n] = Sent]
    <3>1. shells[c].pc = "delay" /\ shells[c].sends >= 1 /\ n \in Attempts /\ n # 1 /\ n \in 0..MaxSends /\ n >= 1
      BY <1>3, <1>r, FirstAttempt DEF Resend, CommandSound, ShellRow, Attempts
    <3>2. shells' = [shells EXCEPT ![c] = entry] /\ UNCHANGED <<line, http, tab>>
      BY <1>3, <2>2 DEF Resend, Resent, Emitted
    <3> HIDE DEF n
    <3>3. entry \in ShellRow
      BY <1>r, <3>1, SentIs DEF ShellRow, Places
    <3>4. CommandSound(c)'
      BY <1>r, <2>2, <3>1, <3>2, <3>3, SentIs DEF CommandSound, Connected, ShellRow
    <3>5. entry.copy[1] = shells[c].copy[1]
      BY <1>r, <3>1, FirstAttempt DEF ShellRow
    <3>6. \A t \in Tabs : PageSound(t)'
      BY <1>r, <3>2, <3>3, <3>5, PagesKept
    <3> QED BY <1>r, <3>2, <3>3, <3>4, <3>6, CommandStep
  <2> QED BY <2>1, <2>2
<1>4. ASSUME NEW c \in Commands, NEW i \in Attempts, HandleShellExec(c, i) PROVE RelayInv'
  <2>1. shells[c].copy[i] = "sent" /\ UNCHANGED <<line, http>> /\ Connected /\ line.gen = shells[c].gen
    BY <1>4, <1>r DEF HandleShellExec, CommandSound
  <2>2. CASE shells' = [shells EXCEPT ![c].copy[i] = "over"] /\ tab' = Told
    <3> DEFINE entry == [shells[c] EXCEPT !.copy[i] = "over"]
    <3>1. shells' = [shells EXCEPT ![c] = entry]
      BY <2>2
    <3>2. entry \in ShellRow
      BY <1>r DEF ShellRow, Places
    <3>3. CommandSound(c)'
      BY <1>r, <2>1, <3>1, <3>2 DEF CommandSound, Connected, ShellRow
    <3> QED BY <2>1, <2>2, <3>1, <3>2, <3>3, PagesTold, CommandStep
  <2>3. CASE shells' = [shells EXCEPT ![c].copy[i] = "running", ![c].ran = @ \cup {line.gen}] /\ tab' = tab
    <3> DEFINE entry == [shells[c] EXCEPT !.copy[i] = "running", !.ran = @ \cup {line.gen}]
    <3>1. shells' = [shells EXCEPT ![c] = entry]
      BY <1>r, <2>3 DEF ShellRow
    <3>2. entry \in ShellRow
      BY <1>r, <1>n DEF ShellRow, Places
    <3>3. CommandSound(c)'
      BY <1>r, <2>1, <3>1, <3>2 DEF CommandSound, Connected, ShellRow
    <3>4. shells[c].copy[1] \in {"sent", "running", "lost"} => entry.copy[1] \in {"sent", "running", "lost"}
      BY <1>r, FirstAttempt DEF ShellRow
    <3> QED BY <1>r, <2>1, <2>3, <3>1, <3>2, <3>3, <3>4, PagesKept, CommandStep
  <2> QED BY <1>4, <2>2, <2>3 DEF HandleShellExec
<1>5. ASSUME NEW c \in Commands, NEW i \in Attempts, ShellDone(c, i) PROVE RelayInv'
  <2> DEFINE end == IF Connected THEN "over" ELSE "lost"
             entry == [shells[c] EXCEPT !.copy[i] = end]
  <2>1. shells[c].copy[i] = "running" /\ UNCHANGED <<line, http>> /\ shells' = [shells EXCEPT ![c] = entry]
    BY <1>5 DEF ShellDone
  <2>2. entry \in ShellRow
    BY <1>r DEF ShellRow, Places
  <2>3. CommandSound(c)'
    BY <1>r, <2>1, <2>2 DEF CommandSound, Connected, ShellRow
  <2>4. CASE Connected
    BY <1>5, <2>1, <2>2, <2>3, <2>4, PagesTold, CommandStep DEF ShellDone
  <2>5. CASE ~Connected
    <3>1. shells[c].copy[1] \in {"sent", "running", "lost"} => entry.copy[1] \in {"sent", "running", "lost"}
      BY <1>r, <2>5, FirstAttempt DEF ShellRow
    <3> QED BY <1>5, <1>r, <2>1, <2>2, <2>3, <2>5, <3>1, PagesKept, CommandStep DEF ShellDone
  <2> QED BY <2>4, <2>5
<1>6. ASSUME NEW c \in Commands, NEW i \in Attempts, ShellAck(c, i) PROVE RelayInv'
  <2> DEFINE next == IF shells[c].pc = "awaits" /\ shells[c].sends = i /\ line.gen = shells[c].gen THEN "settled"
                     ELSE shells[c].pc
             entry == [shells[c] EXCEPT !.copy[i] = "acked", !.pc = next]
  <2>1. shells[c].copy[i] = "over" /\ UNCHANGED <<line, http, tab>>
        /\ shells' = [shells EXCEPT ![c].copy[i] = "acked", ![c].pc = next]
    BY <1>6, <1>r DEF ShellAck, ShellRow
  <2>2. next \in {"none", "awaits", "delay", "settled"} /\ (next # "settled" => next = shells[c].pc)
    BY <1>r DEF ShellRow
  <2>a. shells[c].pc # "none"
    BY <1>r, <2>1 DEF CommandSound
  <2>b. next # "none"
    BY <2>a
  <2> HIDE DEF next
  <2>3. entry \in ShellRow /\ shells' = [shells EXCEPT ![c] = entry]
    BY <1>r, <2>1, <2>2 DEF ShellRow, Places
  <2>4. CommandSound(c)'
    BY <1>r, <2>1, <2>2, <2>b, <2>3 DEF CommandSound, Connected, ShellRow
  <2>5. shells[c].copy[1] \in {"sent", "running", "lost"} => entry.copy[1] \in {"sent", "running", "lost"}
    BY <1>r, <2>1, FirstAttempt DEF ShellRow
  <2> QED BY <1>r, <2>1, <2>3, <2>4, <2>5, PagesKept, CommandStep
<1>7. ASSUME NEW t \in Tabs, FinishEntry(t) PROVE RelayInv'
  <2> DEFINE entry == [tab[t] EXCEPT !.inbox = @ - 1, !.running = FALSE]
  <2>1. tab' = [tab EXCEPT ![t] = entry] /\ UNCHANGED <<line, http, shells>>
    BY <1>7, <1>r DEF FinishEntry, TabRow
  <2>2. entry \in TabRow
    <3>1. tab[t].inbox - 1 \in Nat
      <4>1. tab[t].inbox \in Nat
        BY <1>t, TabFields
      <4> QED BY <1>7, <4>1 DEF FinishEntry
    <3> QED BY <1>t, <3>1, TabChanges
  <2>3. RelayRows'
    BY <2>1, <2>2 DEF RelayInv, RelayRows
  <2>4. \A u \in Tabs : PageSound(u)'
    BY <1>r, <2>1, <2>2 DEF PageSound, TabRow
  <2> QED BY <2>1, <2>3, <2>4 DEF RelayInv, CommandSound, Connected
<1> QED BY <1>1, <1>2, <1>3, <1>4, <1>5, <1>6, <1>7 DEF ShellNext

LEMMA LineStep == RelayInv /\ LineNext => RelayInv'
<1> SUFFICES ASSUME RelayInv, LineNext PROVE RelayInv'
  OBVIOUS
<1>r. /\ \A c \in Commands : shells[c] \in ShellRow /\ CommandSound(c)
      /\ \A e \in Execs : http[e] \in HttpRow /\ RequestTrue(http[e])
      /\ shells \in [Commands -> ShellRow] /\ tab \in [Tabs -> TabRow] /\ line \in LineRow /\ http \in [Execs -> HttpRow]
      /\ \A t \in Tabs : PageSound(t)
  BY DEF RelayInv, RelayRows
<1>l. line \in LineRow
  BY <1>r
<1>1. CASE Lose
  <2> DEFINE drop(p) == IF p \in {"sent", "over"} THEN "lost" ELSE p
             copies(c) == [i \in Attempts |-> drop(shells[c].copy[i])]
  <2>1. line' \in LineRow /\ line'.st = "quiet" /\ line'.gen = line.gen /\ UNCHANGED tab
    <3>1. /\ line' = [line EXCEPT !.st = "quiet", !.faults = line.faults - 1] /\ UNCHANGED tab
          /\ line.faults - 1 \in Nat
      <4>1. line.faults \in Nat
        BY <1>l, LineFields
      <4> QED BY <1>1, <4>1 DEF Lose
    <3> QED BY <1>l, <3>1, LineChanges DEF LineRow
  <2>2. \A e \in Execs : http'[e] \in HttpRow /\ RequestTrue(http'[e])
    <3> SUFFICES ASSUME NEW e \in Execs PROVE http'[e] \in HttpRow /\ RequestTrue(http'[e])
      OBVIOUS
    <3>1. http'[e] = IF http[e].at = "sent" THEN [http[e] EXCEPT !.at = "lost"] ELSE http[e]
      BY <1>1 DEF Lose
    <3> QED BY <1>r, <3>1 DEF HttpRow, RequestTrue
  <2>3. http' \in [Execs -> HttpRow]
    BY <1>1, <2>2 DEF Lose
  <2>4. \A c \in Commands : shells'[c] = [shells[c] EXCEPT !.copy = copies(c)]
    BY <1>1 DEF Lose
  <2>5. \A c \in Commands : copies(c) \in [Attempts -> Places]
    BY <1>r DEF ShellRow, Places
  <2>6. \A c \in Commands, i \in Attempts :
          /\ copies(c)[i] # "sent" /\ (shells[c].copy[i] = "none" => copies(c)[i] = "none")
          /\ shells[c].copy[i] \in {"sent", "running", "lost"} => copies(c)[i] \in {"sent", "running", "lost"}
    OBVIOUS
  <2> HIDE DEF copies
  <2>7. \A c \in Commands : /\ shells'[c] \in ShellRow /\ shells'[c].copy = copies(c) /\ shells'[c].pc = shells[c].pc
                            /\ shells'[c].ran = shells[c].ran /\ shells'[c].sends = shells[c].sends
                            /\ shells'[c].gen = shells[c].gen
    <3>1. \A c \in Commands : shells[c] \in ShellRow
      BY <1>r
    <3>2. \A c \in Commands : \A f \in [Attempts -> Places] : [shells[c] EXCEPT !.copy = f] \in ShellRow
      BY <3>1 DEF ShellRow
    <3>3. \A c \in Commands : shells'[c] \in ShellRow
      BY <2>4, <2>5, <3>2
    <3>4. \A entry \in ShellRow : \A f :
            /\ [entry EXCEPT !.copy = f].copy = f /\ [entry EXCEPT !.copy = f].pc = entry.pc
            /\ [entry EXCEPT !.copy = f].ran = entry.ran /\ [entry EXCEPT !.copy = f].sends = entry.sends
            /\ [entry EXCEPT !.copy = f].gen = entry.gen
      BY DEF ShellRow
    <3> SUFFICES ASSUME NEW c \in Commands
                 PROVE  /\ shells'[c].copy = copies(c) /\ shells'[c].pc = shells[c].pc
                        /\ shells'[c].ran = shells[c].ran /\ shells'[c].sends = shells[c].sends
                        /\ shells'[c].gen = shells[c].gen
      BY <3>3
    <3> DEFINE f == copies(c)
    <3>5. shells'[c] = [shells[c] EXCEPT !.copy = f] /\ shells[c] \in ShellRow
      BY <2>4, <3>1
    <3> HIDE DEF f
    <3>6. shells'[c].copy = f /\ shells'[c].pc = shells[c].pc /\ shells'[c].ran = shells[c].ran
          /\ shells'[c].sends = shells[c].sends /\ shells'[c].gen = shells[c].gen
      BY <3>4, <3>5
    <3> QED BY <3>6 DEF f
  <2>8. shells' \in [Commands -> ShellRow]
    BY <1>1, <2>7 DEF Lose
  <2>9. \A c \in Commands : CommandSound(c)'
    BY <1>r, <2>6, <2>7 DEF CommandSound
  <2>10. \A t \in Tabs : PageSound(t)'
    BY <1>r, <2>1, <2>6, <2>7, FirstAttempt DEF PageSound
  <2> QED BY <2>1, <2>2, <2>3, <2>8, <2>9, <2>10 DEF RelayInv, RelayRows
<1>2. CASE Notice \/ RegisterStubSocket
  <2>1. line' \in LineRow /\ ~Connected /\ UNCHANGED <<http, shells, tab>>
    <3>1. CASE Notice
      BY <1>l, <3>1 DEF Notice, LineRow, Connected
    <3>2. CASE RegisterStubSocket
      <4>1. line' = [line EXCEPT !.st = "up", !.gen = line.gen + 1] /\ line.st # "up" /\ UNCHANGED <<http, shells, tab>>
        BY <3>2 DEF RegisterStubSocket
      <4>2. line.gen + 1 \in Nat \ {0}
        <5>1. line.gen \in Nat
          BY <1>l, LineFields
        <5> QED BY <5>1
      <4> QED BY <1>l, <4>1, <4>2, LineChanges DEF Connected
    <3> QED BY <1>2, <3>1, <3>2
  <2>2. \A c \in Commands : CommandSound(c)'
    BY <1>r, <2>1 DEF CommandSound
  <2> QED BY <2>1, <2>2 DEF RelayInv, RelayRows, PageSound
<1> QED BY <1>1, <1>2 DEF LineNext

LEMMA RelayInvNext == RelayInv /\ [RelayNext]_relayVars => RelayInv'
<1>1. RelayInv /\ UNCHANGED relayVars => RelayInv'
  BY DEF relayVars, RelayInv, RelayRows, CommandSound, PageSound, Connected
<1> QED BY <1>1, HttpStep, ShellStep, LineStep DEF RelayNext

-----------------------------------------------------------------------------
(* The capacity policy. *)

Times == 0..Horizon
PolicyRow == [on : BOOLEAN, last : Times \cup {Never}, crashes : 0..PolicyCrashes]
LedgerRow == [off : BOOLEAN, intents : SUBSET Intents]
AllocStates == {"none", "pending", "running", "busy", "released"}
VisitPc == {"new", "provider", "acquire", "barrier", "release", "end"}
VisitRow == [pc : VisitPc, on : Allocs \cup {"none"}, at : Times, alone : BOOLEAN]

PolicyRows ==
  /\ policy \in PolicyRow
  /\ ledger \in LedgerRow
  /\ pool \in [Allocs -> AllocStates]
  /\ visit \in [Rounds -> VisitRow]
  /\ now \in Times

\* An intent in the ledger is the one its reconciliation decided.
IntentTrue(i) ==
  /\ visit[i.by].pc \in {"acquire", "release", "end"}
  /\ i.at = visit[i.by].at /\ i.alone = visit[i.by].alone
  /\ i.at <= now /\ i.at <= i.end
  /\ i.late => i.kind = "release"

VisitTrue(c) ==
  /\ visit[c].pc \in {"acquire", "release"} => \E i \in ledger.intents : i.by = c
  /\ visit[c].pc \in {"acquire", "barrier", "release"} => visit[c].at <= now /\ visit[c].on \in Allocs

OneAlone == \A c, d \in Applying : visit[c].alone /\ visit[d].alone => c = d

PolicyBase ==
  /\ PolicyRows
  /\ \A i \in ledger.intents : IntentTrue(i)
  /\ \A c \in Rounds : VisitTrue(c)
  /\ OneAlone
  /\ ledger.off <=> ~policy.on

AppliedOnes == {i \in ledger.intents : i.out = "applied"}

\* What holds while every decision was made alone.
CooledSince ==
  \A c \in Applying : visit[c].alone => \A i \in AppliedOnes : i.by # c => i.at + Cooldown <= visit[c].at
LastKnown == policy.on => \A i \in AppliedOnes : policy.last # Never /\ i.at <= policy.last
AppliedApart ==
  \A i, j \in AppliedOnes : i.by # j.by => i.at + Cooldown <= j.at \/ j.at + Cooldown <= i.at
RoomLeft ==
  (\E c \in Rounds : visit[c].pc = "acquire" /\ pool[visit[c].on] = "none") => Cardinality(ActiveOnes) < MaxTotal
CapHeld == IsFiniteSet(ActiveOnes) /\ Cardinality(ActiveOnes) <= MaxTotal

LoneInv == AllAlone => CooledSince /\ LastKnown /\ AppliedApart /\ RoomLeft /\ CapHeld

PolicyInv == PolicyBase /\ LoneInv

LEMMA PolicyBounds ==
  /\ MaxTotal \in Nat /\ Cooldown \in Nat /\ Horizon \in Nat /\ PolicyCrashes \in Nat
  /\ IsFiniteSet(Owned) /\ Cardinality(Owned) <= MaxTotal /\ Wanted \cap Owned = {}
BY PolicyAssumption

LEMMA PolicyInvMeans == PolicyInv => PolicyKept
<1> SUFFICES ASSUME PolicyInv PROVE PolicyKept
  OBVIOUS
<1>1. CapKept
  BY DEF PolicyInv, LoneInv, CapHeld, CapKept
<1>2. CooldownKept
  BY DEF PolicyInv, LoneInv, AppliedApart, AppliedOnes, CooldownKept
<1>3. SwitchKept
  BY DEF PolicyInv, PolicyBase, IntentTrue, SwitchKept
<1> QED BY <1>1, <1>2, <1>3 DEF PolicyKept

LEMMA PolicyInvInit == PolicyInit => PolicyInv
<1> SUFFICES ASSUME PolicyInit PROVE PolicyInv
  OBVIOUS
<1> USE PolicyBounds
<1>1. PolicyRows
  <2>1. Never \in Nat
    BY DEF Never
  <2> QED BY <2>1 DEF PolicyInit, PolicyRows, PolicyRow, LedgerRow, VisitRow, AllocStates, VisitPc, Times, Allocs
<1>2. ledger.intents = {} /\ Applying = {} /\ AppliedOnes = {}
  BY DEF PolicyInit, Applying, AppliedOnes
<1>3. CapHeld
  <2>1. ActiveOnes = Owned
    BY DEF PolicyInit, ActiveOnes, Active, Allocs
  <2> QED BY <2>1 DEF CapHeld
<1> QED BY <1>1, <1>2, <1>3 DEF PolicyInit, PolicyInv, PolicyBase, LoneInv, VisitTrue, OneAlone, CooledSince,
                                LastKnown, AppliedApart, RoomLeft

\* Nothing comes into the pool but what was acquired alone, and for that there was room.
LEMMA EffectFits ==
  ASSUME PolicyBase, AllAlone, RoomLeft, CapHeld, NEW D, D \subseteq Applying, Effect(D)
  PROVE  IsFiniteSet(ActiveOnes') /\ Cardinality(ActiveOnes') <= MaxTotal
<1> DEFINE New == {c \in D : visit[c].pc = "acquire" /\ pool[visit[c].on] = "none"}
<1>1. CASE New = {}
  <2>1. ActiveOnes' \subseteq ActiveOnes
    BY <1>1 DEF Effect, ActiveOnes, Active
  <2> QED BY <2>1, FS_Subset, FS_CardinalityType, PolicyBounds DEF CapHeld
<1>2. CASE New # {}
  <2>1. PICK c \in New : TRUE
    BY <1>2
  <2>2. c \in Rounds /\ visit[c].pc = "acquire" /\ pool[visit[c].on] = "none"
    BY <2>1 DEF Applying
  <2>3. ASSUME NEW d \in D, visit[d].pc = "acquire" PROVE d = c
    <3>1. \A e \in Rounds : visit[e].pc = "acquire" => visit[e].alone
      BY DEF PolicyBase, VisitTrue, IntentTrue, AllAlone
    <3> QED BY <2>1, <2>2, <2>3, <3>1 DEF PolicyBase, OneAlone, Applying
  <2> DEFINE k == visit[c].on
  <2>4. ActiveOnes' \subseteq ActiveOnes \cup {k}
    BY <2>3 DEF Effect, ActiveOnes, Active
  <2>5. Cardinality(ActiveOnes) < MaxTotal
    BY <2>2 DEF RoomLeft
  <2> HIDE DEF k
  <2>6. IsFiniteSet(ActiveOnes \cup {k}) /\ Cardinality(ActiveOnes \cup {k}) <= MaxTotal
    <3>1. IsFiniteSet(ActiveOnes) /\ Cardinality(ActiveOnes) \in Nat
      BY FS_CardinalityType DEF CapHeld
    <3>2. IsFiniteSet(ActiveOnes \cup {k})
      BY <3>1, FS_AddElement
    <3>3. Cardinality(ActiveOnes \cup {k}) \in {Cardinality(ActiveOnes), Cardinality(ActiveOnes) + 1}
      BY <3>1, FS_AddElement
    <3> QED BY <2>5, <3>1, <3>2, <3>3, PolicyBounds
  <2>7. IsFiniteSet(ActiveOnes') /\ Cardinality(ActiveOnes') <= Cardinality(ActiveOnes \cup {k})
    BY <2>4, <2>6, FS_Subset
  <2> QED BY <2>6, <2>7, FS_CardinalityType, PolicyBounds
<1> QED BY <1>1, <1>2

\* A reconciliation that comes to its end, or that has yet to decide, changes nothing that was settled.
LEMMA QuietVisit ==
  ASSUME PolicyInv, NEW c \in Rounds, NEW p \in {"provider", "end"}, visit[c].pc \in {"new", "provider", "barrier"},
         visit' = [visit EXCEPT ![c].pc = p], p = "end" \/ visit[c].pc = "new",
         UNCHANGED <<policy, ledger, pool, now>>
  PROVE  PolicyInv'
<1>r. visit \in [Rounds -> VisitRow]
  BY DEF PolicyInv, PolicyBase, PolicyRows
<1>1. /\ \A d \in Rounds : d # c => visit'[d] = visit[d]
      /\ visit'[c].pc = p /\ visit'[c].on = visit[c].on /\ visit'[c].at = visit[c].at /\ visit'[c].alone = visit[c].alone
      /\ visit' \in [Rounds -> VisitRow]
  BY <1>r DEF VisitRow, VisitPc
<1>2. Applying' \subseteq Applying
  BY <1>1 DEF Applying
<1>3. \A i \in ledger.intents : i.by \in Rounds /\ i.by # c
  <2>1. \A i \in ledger.intents : i.by \in Rounds
    BY DEF PolicyInv, PolicyBase, PolicyRows, LedgerRow, Intents
  <2>2. \A i \in ledger.intents : visit[i.by].pc \in {"acquire", "release", "end"}
    BY DEF PolicyInv, PolicyBase, IntentTrue
  <2> QED BY <2>1, <2>2
<1>4. PolicyBase'
  <2>1. \A i \in ledger.intents : IntentTrue(i)'
    BY <1>1, <1>3 DEF PolicyInv, PolicyBase, IntentTrue
  <2>2. \A d \in Rounds : VisitTrue(d)'
    BY <1>1 DEF PolicyInv, PolicyBase, VisitTrue
  <2>3. \A d \in Applying' : visit'[d] = visit[d] \/ visit'[d].alone = visit[d].alone
    BY <1>1 DEF Applying
  <2>4. OneAlone'
    BY <1>2, <2>3 DEF PolicyInv, PolicyBase, OneAlone
  <2> QED BY <1>1, <2>1, <2>2, <2>4 DEF PolicyInv, PolicyBase, PolicyRows
<1>5. LoneInv'
  <2>1. \A d \in Applying' : d \in Applying /\ visit'[d].alone = visit[d].alone /\ visit'[d].at = visit[d].at
    BY <1>1, <1>2 DEF Applying
  <2>2. \A d \in Rounds : visit'[d].pc = "acquire" => visit[d].pc = "acquire" /\ visit'[d].on = visit[d].on
    BY <1>1
  <2> QED BY <2>1, <2>2 DEF PolicyInv, LoneInv, AllAlone, CooledSince, LastKnown, AppliedApart, RoomLeft, CapHeld,
                            AppliedOnes, ActiveOnes, Active
<1> QED BY <1>4, <1>5 DEF PolicyInv


\* A decision: a visit takes up an allocation, with nothing in the ledger for it yet.
LEMMA DecisionSound ==
  ASSUME PolicyInv, NEW c \in Rounds, NEW k \in Allocs, NEW p \in {"acquire", "barrier"},
         visit[c].pc = "provider", policy.on, ~CoolingDown,
         visit' = [visit EXCEPT ![c] = [pc |-> p, on |-> k, at |-> now, alone |-> Applying = {}]]
  PROVE  /\ visit' \in [Rounds -> VisitRow] /\ c \notin Applying /\ Applying' = Applying \cup {c}
         /\ \A d \in Rounds : d # c => visit'[d] = visit[d]
         /\ visit'[c].pc = p /\ visit'[c].on = k /\ visit'[c].at = now /\ visit'[c].alone = (Applying = {})
         /\ \A i \in ledger.intents : i.by \in Rounds /\ i.by # c
         /\ OneAlone'
         /\ AllAlone => \A i \in AppliedOnes : i.at + Cooldown <= now
<1>r. visit \in [Rounds -> VisitRow] /\ now \in Times /\ policy \in PolicyRow
  BY DEF PolicyInv, PolicyBase, PolicyRows
<1>1. [pc |-> p, on |-> k, at |-> now, alone |-> Applying = {}] \in VisitRow
  BY <1>r DEF VisitRow, VisitPc
<1>2. visit' \in [Rounds -> VisitRow] /\ visit'[c] = [pc |-> p, on |-> k, at |-> now, alone |-> Applying = {}]
      /\ \A d \in Rounds : d # c => visit'[d] = visit[d]
  BY <1>r, <1>1
<1>3. visit'[c].pc = p /\ visit'[c].on = k /\ visit'[c].at = now /\ visit'[c].alone = (Applying = {})
  BY <1>2
<1>4. c \notin Applying /\ Applying' = Applying \cup {c}
  BY <1>2, <1>3 DEF Applying
<1>5. \A i \in ledger.intents : i.by \in Rounds /\ i.by # c
  <2>1. \A i \in ledger.intents : i.by \in Rounds
    BY DEF PolicyInv, PolicyBase, PolicyRows, LedgerRow, Intents
  <2>2. \A i \in ledger.intents : visit[i.by].pc \in {"acquire", "release", "end"}
    BY DEF PolicyInv, PolicyBase, IntentTrue
  <2> QED BY <2>1, <2>2
<1>6. OneAlone'
  <2> SUFFICES ASSUME NEW d \in Applying', NEW e \in Applying', visit'[d].alone, visit'[e].alone PROVE d = e
    BY DEF OneAlone
  <2>1. CASE Applying = {}
    BY <1>4, <2>1
  <2>2. CASE Applying # {}
    <3>1. d # c /\ e # c
      BY <1>3, <2>2
    <3>2. d \in Applying /\ e \in Applying /\ visit[d].alone /\ visit[e].alone
      BY <1>2, <1>4, <3>1 DEF Applying
    <3> QED BY <3>2 DEF PolicyInv, PolicyBase, OneAlone
  <2> QED BY <2>1, <2>2
<1>7. ASSUME AllAlone, NEW i \in AppliedOnes PROVE i.at + Cooldown <= now
  <2>1. policy.last # Never /\ i.at <= policy.last
    BY <1>7 DEF PolicyInv, LoneInv, LastKnown
  <2>2. ~(now - policy.last < Cooldown)
    BY <2>1 DEF CoolingDown
  <2>3. policy.last \in Nat /\ now \in Nat /\ i.at \in Nat
    <3>1. i.at \in Times
      BY DEF PolicyInv, PolicyBase, PolicyRows, LedgerRow, Intents, AppliedOnes, Times
    <3>2. policy.last \in Times
      BY <1>r, <2>1 DEF PolicyRow
    <3> QED BY <1>r, <3>1, <3>2, PolicyBounds DEF Times
  <2> QED BY <2>1, <2>2, <2>3, PolicyBounds
<1> QED BY <1>2, <1>3, <1>4, <1>5, <1>6, <1>7

\* The intent that a reconciliation leaves in the ledger.
LEMMA IntentIs ==
  ASSUME PolicyInv, NEW c \in Rounds, NEW k \in Allocs, NEW kind \in {"acquire", "release"}, NEW a \in BOOLEAN, NEW t \in Times
  PROVE  \E i \in Intents :
           /\ i = [by |-> c, key |-> k, kind |-> kind, at |-> t, end |-> now, out |-> "intent", alone |-> a, late |-> ledger.off]
           /\ i.by = c /\ i.at = t /\ i.end = now /\ i.out = "intent" /\ i.alone = a /\ i.late = ledger.off /\ i.kind = kind
<1>1. ledger.off \in BOOLEAN /\ now \in 0..Horizon
  BY DEF PolicyInv, PolicyBase, PolicyRows, LedgerRow, Times
<1> DEFINE i == [by |-> c, key |-> k, kind |-> kind, at |-> t, end |-> now, out |-> "intent", alone |-> a, late |-> ledger.off]
<1>2. i \in Intents
  BY <1>1 DEF Intents, Times
<1>3. i.by = c /\ i.at = t /\ i.end = now /\ i.out = "intent" /\ i.alone = a /\ i.late = ledger.off /\ i.kind = kind
  OBVIOUS
<1> HIDE DEF i
<1>4. i = [by |-> c, key |-> k, kind |-> kind, at |-> t, end |-> now, out |-> "intent", alone |-> a, late |-> ledger.off]
  BY DEF i
<1> QED BY <1>2, <1>3, <1>4

LEMMA RecommendsStep ==
  ASSUME PolicyInv, NEW c \in Rounds, NEW k \in Wanted, Recommends(c, k)
  PROVE  PolicyInv'
<1> DEFINE Refused == ~policy.on \/ CoolingDown \/ Cardinality(ActiveOnes) >= MaxTotal \/ Cardinality(PendingOnes) >= MaxPending
           lone == Applying = {}
<1>1. CASE Refused
  BY <1>1, QuietVisit DEF Recommends, Leaves
<1>2. CASE ~Refused
  <2>1. /\ visit[c].pc = "provider" /\ policy.on /\ ~CoolingDown
        /\ visit' = [visit EXCEPT ![c] = [pc |-> "acquire", on |-> k, at |-> now, alone |-> Applying = {}]]
        /\ ledger' = [ledger EXCEPT !.intents = @ \cup {[Intent(c, k, "acquire", lone) EXCEPT !.at = now]}]
        /\ UNCHANGED <<policy, pool, now>>
    BY <1>2 DEF Recommends, Record
  <2>2. k \in Allocs /\ k \in Wanted
    BY DEF Allocs
  <2>3. /\ visit' \in [Rounds -> VisitRow] /\ c \notin Applying /\ Applying' = Applying \cup {c}
        /\ \A d \in Rounds : d # c => visit'[d] = visit[d]
        /\ visit'[c].pc = "acquire" /\ visit'[c].on = k /\ visit'[c].at = now /\ visit'[c].alone = lone
        /\ \A i \in ledger.intents : i.by \in Rounds /\ i.by # c
        /\ OneAlone'
        /\ AllAlone => \A i \in AppliedOnes : i.at + Cooldown <= now
    BY <2>1, <2>2, DecisionSound
  <2>r. now \in Times /\ ledger \in LedgerRow /\ policy \in PolicyRow /\ pool \in [Allocs -> AllocStates]
    BY DEF PolicyInv, PolicyBase, PolicyRows
  <2>4. PICK new \in Intents :
          /\ new = [by |-> c, key |-> k, kind |-> "acquire", at |-> now, end |-> now, out |-> "intent", alone |-> lone,
                    late |-> ledger.off]
          /\ new.by = c /\ new.at = now /\ new.end = now /\ new.out = "intent"
          /\ new.alone = lone /\ new.late = ledger.off /\ new.kind = "acquire"
    <3>1. lone \in BOOLEAN
      OBVIOUS
    <3> HIDE DEF lone
    <3> QED BY <2>2, <2>r, <3>1, IntentIs
  <2>i. [Intent(c, k, "acquire", lone) EXCEPT !.at = now] = new
    <3> DEFINE a == lone
    <3> HIDE DEF a
    <3>1. [Intent(c, k, "acquire", a) EXCEPT !.at = now] =
            [by |-> c, key |-> k, kind |-> "acquire", at |-> now, end |-> now, out |-> "intent", alone |-> a, late |-> ledger.off]
      BY DEF Intent
    <3> QED BY <2>4, <3>1 DEF a
  <2> HIDE DEF lone
  <2>5. ledger' \in LedgerRow /\ ledger'.intents = ledger.intents \cup {new} /\ ledger'.off = ledger.off
    BY <2>1, <2>i, <2>r DEF LedgerRow
  <2>6. ~ledger.off
    BY <2>1 DEF PolicyInv, PolicyBase
  <2>7. PolicyBase'
    <3>1. \A i \in ledger'.intents : IntentTrue(i)'
      <4>1. IntentTrue(new)'
        <5>1. now <= now
          BY <2>r, PolicyBounds DEF Times
        <5>2. visit'[new.by].pc = "acquire" /\ new.at = visit'[new.by].at /\ new.at <= now' /\ new.at <= new.end
          BY <2>1, <2>3, <2>4, <5>1
        <5>3. new.alone = visit'[new.by].alone
          BY <2>3, <2>4, Zenon
        <5> QED BY <2>4, <2>6, <5>2, <5>3, Zenon DEF IntentTrue
      <4>2. \A i \in ledger.intents : IntentTrue(i)'
        BY <2>1, <2>3 DEF PolicyInv, PolicyBase, IntentTrue
      <4> QED BY <2>5, <4>1, <4>2, Zenon
    <3>2. \A d \in Rounds : VisitTrue(d)'
      <4>1. VisitTrue(c)'
        <5>1. now <= now
          BY <2>r, PolicyBounds DEF Times
        <5> QED BY <2>1, <2>2, <2>3, <2>4, <2>5, <5>1 DEF VisitTrue
      <4>2. \A d \in Rounds : d # c => VisitTrue(d)'
        BY <2>1, <2>3, <2>5 DEF PolicyInv, PolicyBase, VisitTrue
      <4> QED BY <4>1, <4>2
    <3>3. ledger'.off <=> ~policy'.on
      BY <2>1, <2>5 DEF PolicyInv, PolicyBase
    <3> QED BY <2>1, <2>3, <2>5, <2>r, <3>1, <3>2, <3>3 DEF PolicyBase, PolicyRows
  <2>8. ASSUME AllAlone' PROVE CooledSince' /\ LastKnown' /\ AppliedApart' /\ RoomLeft' /\ CapHeld'
    <3>1. AllAlone /\ lone
      BY <2>4, <2>5, <2>8 DEF AllAlone
    <3>2. AppliedOnes' = AppliedOnes
      BY <2>4, <2>5 DEF AppliedOnes
    <3>3. CooledSince'
      BY <2>3, <3>1, <3>2 DEF CooledSince, lone
    <3>4. LastKnown' /\ AppliedApart'
      BY <2>1, <3>1, <3>2 DEF PolicyInv, LoneInv, LastKnown, AppliedApart
    <3>5. ActiveOnes' = ActiveOnes
      BY <2>1 DEF ActiveOnes, Active
    <3>6. Cardinality(ActiveOnes) < MaxTotal
      <4>1. ~(Cardinality(ActiveOnes) >= MaxTotal) /\ CapHeld
        BY <1>2, <3>1 DEF PolicyInv, LoneInv
      <4>2. Cardinality(ActiveOnes) \in Nat
        BY <4>1, FS_CardinalityType DEF CapHeld
      <4> QED BY <4>1, <4>2, PolicyBounds
    <3> QED BY <3>1, <3>3, <3>4, <3>5, <3>6 DEF PolicyInv, LoneInv, RoomLeft, CapHeld
  <2> QED BY <2>7, <2>8 DEF PolicyInv, LoneInv
<1> QED BY <1>1, <1>2

LEMMA OwnedIdleStep ==
  ASSUME PolicyInv, NEW c \in Rounds, NEW k \in Allocs, OwnedIdle(c, k)
  PROVE  PolicyInv'
<1>1. CASE ~(policy.on /\ ~CoolingDown)
  <2>1. visit' = [visit EXCEPT ![c].pc = "end"]
    BY <1>1 DEF OwnedIdle
  <2> QED BY <2>1, QuietVisit DEF OwnedIdle
<1>2. CASE policy.on /\ ~CoolingDown
  <2>1. /\ visit[c].pc = "provider" /\ UNCHANGED <<policy, ledger, pool, now>>
        /\ visit' = [visit EXCEPT ![c] = [pc |-> "barrier", on |-> k, at |-> now, alone |-> Applying = {}]]
    BY <1>2 DEF OwnedIdle
  <2>2. /\ visit' \in [Rounds -> VisitRow] /\ c \notin Applying /\ Applying' = Applying \cup {c}
        /\ \A d \in Rounds : d # c => visit'[d] = visit[d]
        /\ visit'[c].pc = "barrier" /\ visit'[c].on = k /\ visit'[c].at = now
        /\ \A i \in ledger.intents : i.by \in Rounds /\ i.by # c
        /\ OneAlone'
        /\ AllAlone => \A i \in AppliedOnes : i.at + Cooldown <= now
    BY <1>2, <2>1, DecisionSound
  <2>3. now <= now
    BY PolicyBounds DEF PolicyInv, PolicyBase, PolicyRows, Times
  <2>4. PolicyBase'
    <3>1. \A i \in ledger.intents : IntentTrue(i)'
      BY <2>1, <2>2 DEF PolicyInv, PolicyBase, IntentTrue
    <3>2. \A d \in Rounds : VisitTrue(d)'
      BY <2>1, <2>2, <2>3 DEF PolicyInv, PolicyBase, VisitTrue
    <3> QED BY <2>1, <2>2, <3>1, <3>2 DEF PolicyInv, PolicyBase, PolicyRows
  <2>5. ASSUME AllAlone' PROVE CooledSince' /\ LastKnown' /\ AppliedApart' /\ RoomLeft' /\ CapHeld'
    <3>1. AllAlone /\ AppliedOnes' = AppliedOnes /\ ActiveOnes' = ActiveOnes
      BY <2>1, <2>5 DEF AllAlone, AppliedOnes, ActiveOnes, Active
    <3>2. CooledSince'
      <4>1. \A d \in Applying : visit'[d] = visit[d] /\ d # c
        BY <2>2 DEF Applying
      <4>2. CooledSince
        BY <3>1 DEF PolicyInv, LoneInv
      <4> QED BY <2>2, <3>1, <4>1, <4>2 DEF CooledSince
    <3>3. RoomLeft'
      BY <2>1, <2>2, <3>1 DEF PolicyInv, LoneInv, RoomLeft
    <3> QED BY <2>1, <3>1, <3>2, <3>3 DEF PolicyInv, LoneInv, LastKnown, AppliedApart, CapHeld
  <2> QED BY <2>4, <2>5 DEF PolicyInv, LoneInv
<1> QED BY <1>1, <1>2

LEMMA BarrierEndsStep ==
  ASSUME PolicyInv, NEW c \in Rounds, BarrierEnds(c)
  PROVE  PolicyInv'
<1>1. CASE Leaves(c) /\ UNCHANGED ledger
  BY <1>1, QuietVisit DEF BarrierEnds, Leaves
<1>2. CASE visit' = [visit EXCEPT ![c].pc = "release"] /\ Record(Intent(c, visit[c].on, "release", visit[c].alone))
  <2>r. /\ visit \in [Rounds -> VisitRow] /\ ledger \in LedgerRow /\ policy \in PolicyRow
        /\ pool \in [Allocs -> AllocStates] /\ now \in Times
    BY DEF PolicyInv, PolicyBase, PolicyRows
  <2>1. visit[c].pc = "barrier" /\ UNCHANGED <<policy, pool, now>>
    BY DEF BarrierEnds
  <2>2. visit[c].at <= now /\ visit[c].on \in Allocs /\ visit[c].at \in Times /\ visit[c].alone \in BOOLEAN
    BY <2>1, <2>r DEF PolicyInv, PolicyBase, VisitTrue, VisitRow
  <2>3. /\ \A d \in Rounds : d # c => visit'[d] = visit[d]
        /\ visit'[c].pc = "release" /\ visit'[c].on = visit[c].on /\ visit'[c].at = visit[c].at
        /\ visit'[c].alone = visit[c].alone /\ visit' \in [Rounds -> VisitRow]
    BY <1>2, <2>r DEF VisitRow, VisitPc
  <2>4. PICK new \in Intents :
          /\ new = [by |-> c, key |-> visit[c].on, kind |-> "release", at |-> visit[c].at, end |-> now, out |-> "intent",
                    alone |-> visit[c].alone, late |-> ledger.off]
          /\ new.by = c /\ new.at = visit[c].at /\ new.end = now /\ new.out = "intent"
          /\ new.alone = visit[c].alone /\ new.late = ledger.off /\ new.kind = "release"
    BY <2>2, IntentIs
  <2>5. ledger' \in LedgerRow /\ ledger'.intents = ledger.intents \cup {new} /\ ledger'.off = ledger.off
    <3>1. Intent(c, visit[c].on, "release", visit[c].alone) = new
      BY <2>4 DEF Intent
    <3> QED BY <1>2, <2>4, <2>r, <3>1 DEF Record, LedgerRow
  <2>6. \A i \in ledger.intents : i.by \in Rounds /\ i.by # c
    <3>1. \A i \in ledger.intents : i.by \in Rounds
      BY DEF PolicyInv, PolicyBase, PolicyRows, LedgerRow, Intents
    <3>2. \A i \in ledger.intents : visit[i.by].pc \in {"acquire", "release", "end"}
      BY DEF PolicyInv, PolicyBase, IntentTrue
    <3> QED BY <2>1, <3>1, <3>2
  <2>7. Applying' = Applying /\ \A d \in Applying : visit'[d].alone = visit[d].alone /\ visit'[d].at = visit[d].at
    BY <2>1, <2>3 DEF Applying
  <2>8. PolicyBase'
    <3>1. \A i \in ledger'.intents : IntentTrue(i)'
      <4>1. IntentTrue(new)'
        <5>1. visit'[new.by].pc = "release" /\ new.at = visit'[new.by].at /\ new.at <= now' /\ new.at <= new.end
          BY <2>1, <2>2, <2>3, <2>4
        <5>2. new.alone = visit'[new.by].alone
          BY <2>3, <2>4, Zenon
        <5> QED BY <2>4, <5>1, <5>2, Zenon DEF IntentTrue
      <4>2. \A i \in ledger.intents : IntentTrue(i)'
        BY <2>1, <2>3, <2>6 DEF PolicyInv, PolicyBase, IntentTrue
      <4> QED BY <2>5, <4>1, <4>2, Zenon
    <3>2. \A d \in Rounds : VisitTrue(d)'
      <4>1. VisitTrue(c)'
        BY <2>1, <2>2, <2>3, <2>4, <2>5 DEF VisitTrue
      <4>2. \A d \in Rounds : d # c => VisitTrue(d)'
        BY <2>1, <2>3, <2>5 DEF PolicyInv, PolicyBase, VisitTrue
      <4> QED BY <4>1, <4>2
    <3>3. OneAlone' /\ (ledger'.off <=> ~policy'.on)
      BY <2>1, <2>5, <2>7 DEF PolicyInv, PolicyBase, OneAlone
    <3> QED BY <2>1, <2>3, <2>5, <2>r, <3>1, <3>2, <3>3 DEF PolicyBase, PolicyRows
  <2>9. ASSUME AllAlone' PROVE CooledSince' /\ LastKnown' /\ AppliedApart' /\ RoomLeft' /\ CapHeld'
    <3>1. AllAlone /\ AppliedOnes' = AppliedOnes /\ ActiveOnes' = ActiveOnes
      BY <2>1, <2>4, <2>5, <2>9 DEF AllAlone, AppliedOnes, ActiveOnes, Active
    <3>2. RoomLeft'
      BY <2>1, <2>3, <3>1 DEF PolicyInv, LoneInv, RoomLeft
    <3> QED BY <2>1, <2>7, <3>1, <3>2 DEF PolicyInv, LoneInv, CooledSince, LastKnown, AppliedApart, CapHeld
  <2> QED BY <2>8, <2>9 DEF PolicyInv, LoneInv
<1> QED BY <1>1, <1>2 DEF BarrierEnds

\* The outcome is written into the reconciliation's own intent.
LEMMA OutcomeIs ==
  ASSUME PolicyBase, NEW c \in Rounds, NEW out \in {"applied", "failed"}, Outcome(c, out)
  PROVE  /\ ledger' \in LedgerRow /\ ledger'.off = ledger.off
         /\ \A j \in ledger'.intents : \E i \in ledger.intents :
              /\ j.by = i.by /\ j.at = i.at /\ j.alone = i.alone /\ j.late = i.late /\ j.kind = i.kind
              /\ IF i.by = c THEN j.out = out /\ j.end = now ELSE j = i
         /\ \A i \in ledger.intents : \E j \in ledger'.intents : j.by = i.by /\ j.alone = i.alone
<1> DEFINE done(i) == IF i.by = c THEN [i EXCEPT !.out = out, !.end = now] ELSE i
<1>r. ledger \in LedgerRow /\ now \in Times
  BY DEF PolicyBase, PolicyRows
<1>1. ASSUME NEW i \in Intents
      PROVE  /\ done(i) \in Intents /\ done(i).by = i.by /\ done(i).at = i.at /\ done(i).alone = i.alone
             /\ done(i).late = i.late /\ done(i).kind = i.kind
             /\ IF i.by = c THEN done(i).out = out /\ done(i).end = now ELSE done(i) = i
  BY <1>r DEF Intents, Times
<1>2. ledger' = [ledger EXCEPT !.intents = {done(i) : i \in ledger.intents}]
  BY DEF Outcome
<1> HIDE DEF done
<1>3. ledger.intents \subseteq Intents
  BY <1>r DEF LedgerRow
<1>4. ledger'.intents = {done(i) : i \in ledger.intents} /\ ledger'.off = ledger.off
  BY <1>2, <1>r DEF LedgerRow
<1>5. {done(i) : i \in ledger.intents} \subseteq Intents
  BY <1>1, <1>3
<1>6. ledger' \in LedgerRow
  BY <1>2, <1>5, <1>r DEF LedgerRow
<1> QED BY <1>1, <1>3, <1>4, <1>6

\* A call under way was decided alone if everything in the ledger was.
LEMMA UnderWayAlone ==
  ASSUME PolicyBase, AllAlone, NEW c \in Rounds, visit[c].pc \in {"acquire", "release"}
  PROVE  visit[c].alone /\ visit[c].at <= now /\ visit[c].at \in Times
<1>1. PICK i \in ledger.intents : i.by = c
  BY DEF PolicyBase, VisitTrue
<1>2. i.alone = visit[c].alone /\ i.at = visit[c].at /\ i.at <= now /\ i.alone
  BY <1>1 DEF PolicyBase, IntentTrue, AllAlone
<1>3. visit[c].at \in Times
  BY DEF PolicyBase, PolicyRows, VisitRow
<1> QED BY <1>2, <1>3

LEMMA EffectTyped ==
  ASSUME PolicyRows, NEW D, Effect(D)
  PROVE  pool' \in [Allocs -> AllocStates]
BY DEF Effect, PolicyRows, AllocStates

LEMMA BackendEndsStep ==
  ASSUME PolicyInv, NEW c \in Rounds, BackendEnds(c)
  PROVE  PolicyInv'
<1>r. /\ visit \in [Rounds -> VisitRow] /\ ledger \in LedgerRow /\ policy \in PolicyRow
      /\ pool \in [Allocs -> AllocStates] /\ now \in Times /\ PolicyRows /\ PolicyBase
  BY DEF PolicyInv, PolicyBase, PolicyRows
<1>1. visit[c].pc \in {"acquire", "release"} /\ visit' = [visit EXCEPT ![c].pc = "end"] /\ now' = now
  BY DEF BackendEnds, Leaves
<1>2. PICK out \in {"applied", "failed"}, D \in SUBSET {c} :
        /\ Effect(D) /\ Outcome(c, out)
        /\ policy' = IF out = "applied" THEN [policy EXCEPT !.last = visit[c].at] ELSE policy
  BY DEF BackendEnds
<1>3. /\ \A d \in Rounds : d # c => visit'[d] = visit[d]
      /\ visit'[c].pc = "end" /\ visit'[c].at = visit[c].at /\ visit'[c].alone = visit[c].alone /\ visit' \in [Rounds -> VisitRow]
  BY <1>1, <1>r DEF VisitRow, VisitPc
<1>4. /\ ledger' \in LedgerRow /\ ledger'.off = ledger.off
      /\ \A j \in ledger'.intents : \E i \in ledger.intents :
           /\ j.by = i.by /\ j.at = i.at /\ j.alone = i.alone /\ j.late = i.late /\ j.kind = i.kind
           /\ IF i.by = c THEN j.out = out /\ j.end = now ELSE j = i
      /\ \A i \in ledger.intents : \E j \in ledger'.intents : j.by = i.by /\ j.alone = i.alone
  BY <1>2, <1>r, OutcomeIs
<1>5. c \in Applying /\ Applying' = Applying \ {c}
  BY <1>1, <1>3 DEF Applying
<1>6. visit[c].at \in Times
  BY <1>r DEF VisitRow
<1>7. PolicyBase'
  <2>1. \A i \in ledger'.intents : IntentTrue(i)'
    <3> SUFFICES ASSUME NEW j \in ledger'.intents PROVE IntentTrue(j)'
      OBVIOUS
    <3>1. PICK i \in ledger.intents :
            /\ j.by = i.by /\ j.at = i.at /\ j.alone = i.alone /\ j.late = i.late /\ j.kind = i.kind
            /\ IF i.by = c THEN j.out = out /\ j.end = now ELSE j = i
      BY <1>4
    <3>2. IntentTrue(i) /\ i.by \in Rounds
      BY <1>r DEF PolicyBase, LedgerRow, Intents
    <3>3. visit'[j.by].pc \in {"acquire", "release", "end"} /\ j.at = visit'[j.by].at /\ j.at <= now' /\ j.at <= j.end
      BY <1>1, <1>3, <3>1, <3>2 DEF IntentTrue
    <3>4. j.alone = visit'[j.by].alone
      BY <1>3, <3>1, <3>2, Zenon DEF IntentTrue
    <3>5. j.late => j.kind = "release"
      BY <3>1, <3>2, Zenon DEF IntentTrue
    <3> QED BY <3>3, <3>4, <3>5, Zenon DEF IntentTrue
  <2>2. \A d \in Rounds : VisitTrue(d)'
    <3> SUFFICES ASSUME NEW d \in Rounds PROVE VisitTrue(d)'
      OBVIOUS
    <3>1. CASE d = c
      BY <1>3, <3>1 DEF VisitTrue
    <3>2. CASE d # c
      BY <1>1, <1>3, <1>4, <1>r, <3>2 DEF PolicyBase, VisitTrue
    <3> QED BY <3>1, <3>2
  <2>3. OneAlone'
    BY <1>3, <1>5, <1>r DEF PolicyBase, OneAlone, Applying
  <2>4. policy' \in PolicyRow /\ policy'.on = policy.on
    BY <1>2, <1>6, <1>r DEF PolicyRow
  <2>5. ledger'.off <=> ~policy'.on
    BY <1>4, <1>r, <2>4 DEF PolicyBase
  <2>6. pool' \in [Allocs -> AllocStates]
    BY <1>2, <1>r, EffectTyped
  <2> QED BY <1>1, <1>3, <1>4, <1>r, <2>1, <2>2, <2>3, <2>4, <2>5, <2>6 DEF PolicyBase, PolicyRows
<1>8. ASSUME AllAlone' PROVE CooledSince' /\ LastKnown' /\ AppliedApart' /\ RoomLeft' /\ CapHeld'
  <2>1. AllAlone
    BY <1>4, <1>8 DEF AllAlone
  <2>2. CooledSince /\ LastKnown /\ AppliedApart /\ RoomLeft /\ CapHeld
    BY <2>1 DEF PolicyInv, LoneInv
  <2>3. visit[c].alone
    BY <1>1, <1>r, <2>1, UnderWayAlone
  <2>4. ASSUME NEW d \in Applying', visit'[d].alone PROVE FALSE
    BY <1>3, <1>5, <1>r, <2>3, <2>4 DEF PolicyBase, OneAlone, Applying
  <2>5. CooledSince'
    BY <2>4 DEF CooledSince
  <2>6. RoomLeft'
    <3> SUFFICES ASSUME NEW d \in Rounds, visit'[d].pc = "acquire" PROVE FALSE
      BY DEF RoomLeft
    <3>1. d # c /\ d \in Applying' /\ visit[d].pc = "acquire" /\ visit'[d].alone = visit[d].alone
      BY <1>3 DEF Applying
    <3> QED BY <1>r, <2>1, <2>4, <3>1, UnderWayAlone
  <2>7. CapHeld'
    BY <1>2, <1>5, <1>r, <2>1, <2>2, EffectFits DEF CapHeld
  \* What is applied now was applied before, or is this call's.
  <2>8. ASSUME NEW j \in AppliedOnes'
        PROVE  j.at \in Times /\ (j.by = c => out = "applied" /\ j.at = visit[c].at) /\ (j.by # c => j \in AppliedOnes)
    <3>1. PICK i \in ledger.intents :
            /\ j.by = i.by /\ j.at = i.at
            /\ IF i.by = c THEN j.out = out /\ j.end = now ELSE j = i
      BY <1>4, <2>8 DEF AppliedOnes
    <3>2. IntentTrue(i) /\ i.at \in Times
      BY <1>r DEF PolicyBase, LedgerRow, Intents, Times
    <3> QED BY <2>8, <3>1, <3>2 DEF AppliedOnes, IntentTrue
  <2>9. \A i \in AppliedOnes : i.by # c => i.at + Cooldown <= visit[c].at
    BY <1>5, <2>2, <2>3 DEF CooledSince
  <2>10. AppliedApart'
    <3> SUFFICES ASSUME NEW i \in AppliedOnes', NEW j \in AppliedOnes', i.by # j.by
                 PROVE  i.at + Cooldown <= j.at \/ j.at + Cooldown <= i.at
      BY DEF AppliedApart
    <3>1. CASE i.by = c
      BY <2>8, <2>9, <3>1
    <3>2. CASE j.by = c
      BY <2>8, <2>9, <3>2
    <3>3. CASE i.by # c /\ j.by # c
      BY <2>2, <2>8, <3>3 DEF AppliedApart
    <3> QED BY <3>1, <3>2, <3>3
  <2>11. LastKnown'
    <3> SUFFICES ASSUME policy'.on, NEW j \in AppliedOnes' PROVE policy'.last # Never /\ j.at <= policy'.last
      BY DEF LastKnown
    <3>1. CASE out = "applied"
      <4>1. policy'.last = visit[c].at
        BY <1>2, <1>r, <3>1 DEF PolicyRow
      <4>2. visit[c].at # Never
        BY <1>6, PolicyBounds DEF Times, Never
      <4>3. j.at <= visit[c].at
        <5>1. CASE j.by = c
          BY <1>6, <2>8, <5>1, PolicyBounds DEF Times
        <5>2. CASE j.by # c
          <6>1. j.at + Cooldown <= visit[c].at /\ j.at \in Nat /\ visit[c].at \in Nat
            BY <1>6, <2>8, <2>9, <5>2 DEF Times
          <6> QED BY <6>1, PolicyBounds
        <5> QED BY <5>1, <5>2
      <4> QED BY <4>1, <4>2, <4>3
    <3>2. CASE out = "failed"
      <4>1. policy' = policy /\ j \in AppliedOnes
        BY <1>2, <2>8, <3>2
      <4> QED BY <2>2, <4>1 DEF LastKnown
    <3> QED BY <3>1, <3>2
  <2> QED BY <2>5, <2>6, <2>7, <2>10, <2>11
<1> QED BY <1>7, <1>8 DEF PolicyInv, LoneInv

LEMMA DisableStep ==
  ASSUME PolicyInv, DisableCapacityPolicy
  PROVE  PolicyInv'
<1>r. /\ visit \in [Rounds -> VisitRow] /\ ledger \in LedgerRow /\ policy \in PolicyRow /\ now \in Times
      /\ UNCHANGED <<pool, visit, now>>
  BY DEF PolicyInv, PolicyBase, PolicyRows, DisableCapacityPolicy
<1>1. /\ ledger' \in LedgerRow /\ ledger'.intents = ledger.intents /\ ledger'.off
      /\ policy' \in PolicyRow /\ ~policy'.on
  BY <1>r DEF DisableCapacityPolicy, LedgerRow, PolicyRow
<1>2. PolicyBase'
  <2>1. \A i \in ledger'.intents : IntentTrue(i)'
    BY <1>1, <1>r DEF PolicyInv, PolicyBase, IntentTrue
  <2>2. \A d \in Rounds : VisitTrue(d)'
    BY <1>1, <1>r DEF PolicyInv, PolicyBase, VisitTrue
  <2>3. OneAlone'
    BY <1>r DEF PolicyInv, PolicyBase, OneAlone, Applying
  <2> QED BY <1>1, <1>r, <2>1, <2>2, <2>3 DEF PolicyInv, PolicyBase, PolicyRows
<1>3. AllAlone' => AllAlone /\ AppliedOnes' = AppliedOnes /\ ActiveOnes' = ActiveOnes /\ Applying' = Applying
  BY <1>1, <1>r DEF AllAlone, AppliedOnes, ActiveOnes, Active, Applying
<1>4. LoneInv'
  BY <1>1, <1>3, <1>r DEF PolicyInv, LoneInv, CooledSince, LastKnown, AppliedApart, RoomLeft, CapHeld
<1> QED BY <1>2, <1>4 DEF PolicyInv

LEMMA TimePassesStep ==
  ASSUME PolicyInv, TimePasses
  PROVE  PolicyInv'
<1>r. UNCHANGED <<policy, ledger, pool, visit>> /\ now \in Nat /\ now' = now + 1 /\ now' \in Times
  BY PolicyBounds DEF TimePasses, PolicyInv, PolicyBase, PolicyRows, Times
<1>1. \A i \in ledger.intents : IntentTrue(i)'
  <2> SUFFICES ASSUME NEW i \in ledger.intents PROVE IntentTrue(i)'
    OBVIOUS
  <2>1. IntentTrue(i) /\ i.at \in Nat
    BY DEF PolicyInv, PolicyBase, PolicyRows, LedgerRow, Intents
  <2>2. i.at <= now'
    BY <1>r, <2>1 DEF IntentTrue
  <2> QED BY <1>r, <2>1, <2>2 DEF IntentTrue
<1>2. \A d \in Rounds : VisitTrue(d)'
  <2> SUFFICES ASSUME NEW d \in Rounds PROVE VisitTrue(d)'
    OBVIOUS
  <2>1. VisitTrue(d) /\ visit[d].at \in Nat
    BY DEF PolicyInv, PolicyBase, PolicyRows, VisitRow, Times
  <2> QED BY <1>r, <2>1 DEF VisitTrue
<1>3. PolicyBase'
  BY <1>1, <1>2, <1>r DEF PolicyInv, PolicyBase, PolicyRows, OneAlone, Applying
<1>4. LoneInv'
  BY <1>r DEF PolicyInv, LoneInv, AllAlone, CooledSince, LastKnown, AppliedApart, RoomLeft, CapHeld, AppliedOnes, Applying,
              ActiveOnes, Active
<1> QED BY <1>3, <1>4 DEF PolicyInv

LEMMA PoolMovesStep ==
  ASSUME PolicyInv, NEW k \in Allocs, PoolMoves(k)
  PROVE  PolicyInv'
<1>r. UNCHANGED <<policy, ledger, visit, now>> /\ pool \in [Allocs -> AllocStates]
  BY DEF PoolMoves, PolicyInv, PolicyBase, PolicyRows
<1>1. PICK p \in {"running", "busy"} : pool[k] \in {"pending", "running", "busy"} /\ pool' = [pool EXCEPT ![k] = p]
  BY DEF PoolMoves
<1>2. pool' \in [Allocs -> AllocStates] /\ ActiveOnes' = ActiveOnes
  BY <1>1, <1>r DEF AllocStates, ActiveOnes, Active
<1>3. \A j \in Allocs : pool'[j] = "none" => pool[j] = "none"
  BY <1>1, <1>r
<1>4. \A i \in ledger.intents : IntentTrue(i)'
  BY <1>r DEF PolicyInv, PolicyBase, IntentTrue
<1>5. PolicyBase'
  BY <1>2, <1>4, <1>r DEF PolicyInv, PolicyBase, PolicyRows, VisitTrue, OneAlone, Applying
<1>6. \A c \in Rounds : visit[c].pc = "acquire" => visit[c].on \in Allocs
  BY DEF PolicyInv, PolicyBase, VisitTrue
<1>7. LoneInv'
  <2> SUFFICES ASSUME AllAlone' PROVE CooledSince' /\ LastKnown' /\ AppliedApart' /\ RoomLeft' /\ CapHeld'
    BY DEF LoneInv
  <2>1. CooledSince /\ LastKnown /\ AppliedApart /\ RoomLeft /\ CapHeld
    BY <1>r DEF PolicyInv, LoneInv, AllAlone
  <2>2. RoomLeft'
    BY <1>2, <1>3, <1>6, <1>r, <2>1 DEF RoomLeft
  <2>3. CapHeld'
    BY <1>2, <2>1 DEF CapHeld
  <2> QED BY <1>r, <2>1, <2>2, <2>3 DEF CooledSince, LastKnown, AppliedApart, AppliedOnes, Applying
<1> QED BY <1>5, <1>7 DEF PolicyInv

\* What a restart reads back is no earlier than any decision that was applied.
LEMMA RestoredIs ==
  ASSUME PolicyInv
  PROVE  /\ Restored.on = ~ledger.off
         /\ Restored.last \in Times \cup {Never}
         /\ ~ledger.off => \A i \in AppliedOnes : Restored.last # Never /\ i.at <= Restored.last
         /\ policy.crashes > 0 => Restored.crashes = policy.crashes - 1
<1> DEFINE applied == {i.end : i \in {j \in ledger.intents : j.out = "applied"}}
<1>r. ledger \in LedgerRow /\ policy \in PolicyRow
  BY DEF PolicyInv, PolicyBase, PolicyRows
<1>1. applied \subseteq 0..Horizon
  BY <1>r DEF LedgerRow, Intents
<1>2. \A i \in AppliedOnes : i.end \in applied /\ i.at <= i.end /\ i.at \in Nat /\ i.end \in Nat
  BY <1>r DEF AppliedOnes, PolicyInv, PolicyBase, IntentTrue, LedgerRow, Intents
<1>3. Restored = [policy EXCEPT !.on = ~ledger.off, !.crashes = @ - 1,
                                !.last = IF ledger.off \/ applied = {} THEN Never ELSE Max(applied)]
  BY DEF Restored
<1> HIDE DEF applied
<1>4. /\ Restored.on = ~ledger.off /\ Restored.crashes = policy.crashes - 1
      /\ Restored.last = IF ledger.off \/ applied = {} THEN Never ELSE Max(applied)
  BY <1>3, <1>r DEF PolicyRow
<1>5. CASE applied = {}
  BY <1>2, <1>4, <1>5 DEF Times
<1>6. CASE applied # {}
  <2>1. Max(applied) \in applied /\ \A t \in applied : Max(applied) >= t
    BY <1>1, <1>6, HighestUpTo, PolicyBounds
  <2>2. Max(applied) \in Times /\ Max(applied) # Never
    <3>1. Max(applied) \in 0..Horizon
      BY <1>1, <2>1
    <3>2. \A t \in 0..Horizon : t # Never
      BY PolicyBounds DEF Never
    <3> QED BY <3>1, <3>2 DEF Times
  <2>3. Max(applied) \in Nat
    BY <2>2, PolicyBounds DEF Times
  <2>4. \A i \in AppliedOnes : i.at <= Max(applied)
    BY <1>2, <2>1, <2>3
  <2> QED BY <1>4, <1>6, <2>2, <2>4
<1> QED BY <1>5, <1>6

LEMMA RestartPolicyStep ==
  ASSUME PolicyInv, RestartPolicy
  PROVE  PolicyInv'
<1>r. /\ visit \in [Rounds -> VisitRow] /\ ledger \in LedgerRow /\ policy \in PolicyRow /\ now' = now
      /\ PolicyRows /\ PolicyBase
  BY DEF PolicyInv, PolicyBase, PolicyRows, RestartPolicy
<1>1. PICK D \in SUBSET Applying : Effect(D)
  BY DEF RestartPolicy
<1>2. /\ visit' \in [Rounds -> VisitRow] /\ Applying' = {}
      /\ \A c \in Rounds : /\ visit'[c].at = visit[c].at /\ visit'[c].alone = visit[c].alone
                           /\ visit'[c].pc = IF visit[c].pc = "new" THEN "new" ELSE "end"
  <2>1. visit' = [c \in Rounds |-> IF visit[c].pc = "new" THEN visit[c] ELSE [visit[c] EXCEPT !.pc = "end"]]
    BY DEF RestartPolicy
  <2>2. \A c \in Rounds : visit[c] \in VisitRow
    BY <1>r
  <2>3. ASSUME NEW c \in Rounds
        PROVE  /\ visit'[c] \in VisitRow /\ visit'[c].at = visit[c].at /\ visit'[c].alone = visit[c].alone
               /\ visit'[c].pc = IF visit[c].pc = "new" THEN "new" ELSE "end"
    BY <2>1, <2>2 DEF VisitRow, VisitPc
  <2> QED BY <2>1, <2>3 DEF Applying
<1>3. /\ ledger' \in LedgerRow /\ ledger'.off = ledger.off
      /\ \A j \in ledger'.intents : \E i \in ledger.intents :
           /\ j.by = i.by /\ j.at = i.at /\ j.alone = i.alone /\ j.late = i.late /\ j.kind = i.kind /\ j.end = i.end
           /\ j.out = "applied" => j = i
      /\ \A i \in ledger.intents : \E j \in ledger'.intents : j.alone = i.alone
  <2> DEFINE lost(i) == IF i.out = "intent" THEN [i EXCEPT !.out = "unknown"] ELSE i
  <2>1. ASSUME NEW i \in Intents
        PROVE  /\ lost(i) \in Intents /\ lost(i).by = i.by /\ lost(i).at = i.at /\ lost(i).alone = i.alone
               /\ lost(i).late = i.late /\ lost(i).kind = i.kind /\ lost(i).end = i.end
               /\ lost(i).out = "applied" => lost(i) = i
    BY DEF Intents
  <2>2. ledger' = [ledger EXCEPT !.intents = {lost(i) : i \in ledger.intents}]
    BY DEF RestartPolicy
  <2> HIDE DEF lost
  <2>3. ledger.intents \subseteq Intents
    BY <1>r DEF LedgerRow
  <2>4. ledger'.intents = {lost(i) : i \in ledger.intents} /\ ledger'.off = ledger.off
    BY <2>2, <1>r DEF LedgerRow
  <2>5. {lost(i) : i \in ledger.intents} \subseteq Intents
    BY <2>1, <2>3
  <2>6. ledger' \in LedgerRow
    BY <2>2, <2>5, <1>r DEF LedgerRow
  <2> QED BY <2>1, <2>3, <2>4, <2>6
<1>4. policy' = Restored /\ policy.crashes > 0
  BY DEF RestartPolicy
<1>5. PolicyBase'
  <2>1. \A i \in ledger'.intents : IntentTrue(i)'
    <3> SUFFICES ASSUME NEW j \in ledger'.intents PROVE IntentTrue(j)'
      OBVIOUS
    <3>1. PICK i \in ledger.intents :
            /\ j.by = i.by /\ j.at = i.at /\ j.alone = i.alone /\ j.late = i.late /\ j.kind = i.kind /\ j.end = i.end
      BY <1>3
    <3>2. IntentTrue(i) /\ i.by \in Rounds
      BY <1>r DEF PolicyBase, LedgerRow, Intents
    <3>3. visit'[j.by].pc \in {"acquire", "release", "end"} /\ j.at = visit'[j.by].at /\ j.at <= now' /\ j.at <= j.end
      BY <1>2, <1>r, <3>1, <3>2 DEF IntentTrue
    <3>4. j.alone = visit'[j.by].alone
      BY <1>2, <3>1, <3>2, Zenon DEF IntentTrue
    <3>5. j.late => j.kind = "release"
      BY <3>1, <3>2, Zenon DEF IntentTrue
    <3> QED BY <3>3, <3>4, <3>5, Zenon DEF IntentTrue
  <2>2. (\A d \in Rounds : VisitTrue(d)') /\ OneAlone'
    BY <1>2 DEF VisitTrue, OneAlone
  <2>3. policy' \in PolicyRow /\ policy'.on = ~ledger.off
    <3>1. policy' = [policy EXCEPT !.on = policy'.on, !.crashes = policy'.crashes, !.last = policy'.last]
      BY <1>4, <1>r DEF Restored, PolicyRow
    <3>2. policy'.on = ~ledger.off /\ policy'.last \in Times \cup {Never} /\ policy'.crashes = policy.crashes - 1
      BY <1>4, RestoredIs
    <3>3. policy.crashes - 1 \in 0..PolicyCrashes
      BY <1>4, <1>r, PolicyBounds DEF PolicyRow
    <3>4. policy'.on \in BOOLEAN
      BY <1>r, <3>2 DEF LedgerRow
    <3> QED BY <1>r, <3>1, <3>2, <3>3, <3>4 DEF PolicyRow
  <2>4. pool' \in [Allocs -> AllocStates]
    BY <1>1, <1>r, EffectTyped
  <2>5. ledger'.off <=> ~policy'.on
    BY <1>3, <2>3
  <2> QED BY <1>2, <1>3, <1>r, <2>1, <2>2, <2>3, <2>4, <2>5 DEF PolicyBase, PolicyRows
<1>6. ASSUME AllAlone' PROVE CooledSince' /\ LastKnown' /\ AppliedApart' /\ RoomLeft' /\ CapHeld'
  <2>1. AllAlone /\ AppliedOnes' \subseteq AppliedOnes
    BY <1>3, <1>6 DEF AllAlone, AppliedOnes
  <2>2. AppliedApart /\ RoomLeft /\ CapHeld
    BY <2>1 DEF PolicyInv, LoneInv
  <2>3. CooledSince' /\ RoomLeft'
    BY <1>2 DEF CooledSince, RoomLeft
  <2>4. LastKnown'
    BY <1>4, <2>1, RestoredIs DEF LastKnown
  <2>5. CapHeld'
    BY <1>1, <1>r, <2>1, <2>2, EffectFits DEF CapHeld
  <2> QED BY <2>1, <2>2, <2>3, <2>4, <2>5 DEF AppliedApart
<1> QED BY <1>5, <1>6 DEF PolicyInv, LoneInv

LEMMA PolicyInvNext == PolicyInv /\ [PolicyNext]_policyVars => PolicyInv'
<1> SUFFICES ASSUME PolicyInv, [PolicyNext]_policyVars PROVE PolicyInv'
  OBVIOUS
<1>1. ASSUME NEW c \in Rounds, Reconcile(c) PROVE PolicyInv'
  <2>1. CASE policy.on
    <3>1. visit' = [visit EXCEPT ![c].pc = "provider"]
      BY <1>1, <2>1 DEF Reconcile
    <3> QED BY <1>1, <3>1, QuietVisit DEF Reconcile
  <2>2. CASE ~policy.on
    <3>1. visit' = [visit EXCEPT ![c].pc = "end"]
      BY <1>1, <2>2 DEF Reconcile
    <3> QED BY <1>1, <3>1, QuietVisit DEF Reconcile
  <2> QED BY <2>1, <2>2
<1>2. ASSUME NEW c \in Rounds, NothingToDo(c) PROVE PolicyInv'
  BY <1>2, QuietVisit DEF NothingToDo, Leaves
<1>3. CASE UNCHANGED policyVars
  <2>1. UNCHANGED <<policy, ledger, pool, visit, now>>
    BY <1>3 DEF policyVars
  <2>2. \A i \in ledger.intents : IntentTrue(i)'
    BY <2>1 DEF PolicyInv, PolicyBase, IntentTrue
  <2> QED BY <2>1, <2>2 DEF PolicyInv, PolicyBase, PolicyRows, VisitTrue, OneAlone, Applying, LoneInv, AllAlone, CooledSince,
                       LastKnown, AppliedApart, RoomLeft, CapHeld, AppliedOnes, ActiveOnes, Active
<1> QED BY <1>1, <1>2, <1>3, BarrierEndsStep, BackendEndsStep, RecommendsStep, OwnedIdleStep, PoolMovesStep, DisableStep,
           RestartPolicyStep, TimePassesStep DEF PolicyNext
-----------------------------------------------------------------------------
(***************************************************************************)
(* The walltime of an allocation: the drain is begun while it can be       *)
(* finished, unless squeue fails for as long as the drain is early.        *)
(***************************************************************************)

AllocRow == [left : 0..JobMinutes, up : BOOLEAN, accepting : BOOLEAN, drain : {"no", "term", "grace", "over"}, age : {0, 1},
             checked : SUBSET {"stub", "server"}, idle : Nat, exit : {"none", "walltime", "idle", "restart"}, incidents : 0..Incidents]
WorkRow == [at : Stages, tries : Nat, term : {-1, 0, 1}, late : BOOLEAN]

\* What squeue has failed to tell of is made good by the minutes before the drain is due.
DrainBegunInTime ==
  alloc.drain = "no" /\ alloc.up =>
    /\ alloc.left + (Incidents - alloc.incidents) + 1 >= DrainAt
    /\ "stub" \in alloc.checked => alloc.left + (Incidents - alloc.incidents) >= DrainAt

\* A SIGTERM comes with the drain, and who outlives its minute came after it.
Warned(t) ==
  /\ work[t].term # -1 => In(t, {"run", "over", "cut"}) /\ alloc.drain # "no"
  /\ In(t, {"run"}) => alloc.up
  /\ In(t, {"run"}) /\ work[t].term # -1 => work[t].term = 0 /\ alloc.drain = "term" /\ alloc.age = 0
  /\ In(t, {"run"}) /\ alloc.drain # "no" => work[t].term = 0 \/ work[t].late
  /\ In(t, {"cut"}) /\ alloc.exit # "restart" => work[t].term = 1 \/ work[t].late

WalltimeInv ==
  /\ alloc \in AllocRow /\ work \in [JobTasks -> WorkRow]
  /\ alloc.accepting <=> alloc.drain = "no"
  /\ alloc.up => alloc.left > 0 /\ alloc.exit = "none"
  /\ DrainBegunInTime
  /\ \A t \in JobTasks : Warned(t)

LEMMA WalltimeBounds ==
  /\ JobMinutes \in Nat /\ DrainAt \in Nat /\ RenewAt \in Nat /\ IdleMinutes \in Nat /\ Incidents \in Nat
  /\ 2 < DrainAt /\ DrainAt < RenewAt /\ RenewAt <= JobMinutes
BY WalltimeAssumption

LEMMA WalltimeInvInit == WalltimeInit => WalltimeInv
<1> SUFFICES ASSUME WalltimeInit PROVE WalltimeInv
  OBVIOUS
<1>1. alloc \in AllocRow
  BY WalltimeBounds DEF WalltimeInit, AllocRow
<1>2. work \in [JobTasks -> WorkRow]
  BY DEF WalltimeInit, WorkRow, Stages
<1>3. alloc.left = JobMinutes /\ alloc.up /\ alloc.exit = "none" /\ alloc.accepting /\ alloc.drain = "no" /\ alloc.incidents = Incidents
  BY DEF WalltimeInit
<1>4. DrainBegunInTime
  BY <1>3, WalltimeBounds DEF DrainBegunInTime, WalltimeInit
<1>5. \A t \in JobTasks : Warned(t)
  BY DEF WalltimeInit, Warned, In
<1> QED BY <1>1, <1>2, <1>3, <1>4, <1>5, WalltimeBounds DEF WalltimeInv

LEMMA WalltimeInvMeans == WalltimeInv => CutTasksWarned
<1> SUFFICES ASSUME WalltimeInv PROVE CutTasksWarned
  OBVIOUS
<1>1. \A t \in JobTasks : Warned(t)
  BY DEF WalltimeInv
<1> QED BY <1>1 DEF Warned, In, CutTasksWarned, RunningTasks

\* The server and the tasks move one task, and not the drain.
LEMMA OneTaskMoves ==
  ASSUME WalltimeInv, NEW t \in JobTasks, NEW w, work' = [work EXCEPT ![t] = w], w \in WorkRow,
         alloc' \in AllocRow, alloc'.left = alloc.left, alloc'.up = alloc.up, alloc'.accepting = alloc.accepting,
         alloc'.drain = alloc.drain, alloc'.age = alloc.age, alloc'.checked = alloc.checked, alloc'.exit = alloc.exit,
         alloc'.incidents = alloc.incidents, Warned(t)'
  PROVE  WalltimeInv'
<1>1. work \in [JobTasks -> WorkRow]
  BY DEF WalltimeInv
<1>2. work' \in [JobTasks -> WorkRow] /\ \A u \in JobTasks : u # t => work'[u] = work[u]
  BY <1>1
<1>3. \A u \in JobTasks : Warned(u)'
  <2> SUFFICES ASSUME NEW u \in JobTasks, u # t PROVE Warned(u)'
    OBVIOUS
  <2>1. Warned(u) /\ work'[u] = work[u]
    BY <1>2 DEF WalltimeInv
  <2> QED BY <2>1 DEF Warned, In
<1>4. DrainBegunInTime'
  BY DEF WalltimeInv, DrainBegunInTime
<1> QED BY <1>2, <1>3, <1>4 DEF WalltimeInv

LEMMA TasksStep ==
  ASSUME WalltimeInv, NEW t \in JobTasks,
         OfferRun(t) \/ HearRun(t) \/ PreflightEnds(t) \/ RunNotStarted(t) \/ TaskExits(t)
  PROVE  WalltimeInv'
<1>r. alloc \in AllocRow /\ work \in [JobTasks -> WorkRow] /\ work[t] \in WorkRow /\ Warned(t)
      /\ (alloc.accepting <=> alloc.drain = "no")
  BY DEF WalltimeInv
<1>1. CASE OfferRun(t) \/ HearRun(t)
  <2>1. PICK at \in {"sent", "preflight", "ignored"} :
          work' = [work EXCEPT ![t] = [work[t] EXCEPT !.at = at]] /\ alloc' = alloc /\ In(t, {"queue", "sent"})
    BY <1>1, <1>r DEF OfferRun, HearRun, MoveTask, In
  <2>2. [work[t] EXCEPT !.at = at] \in WorkRow
    BY <1>r DEF WorkRow, Stages
  <2>3. Warned(t)'
    BY <1>r, <2>1 DEF Warned, In, WorkRow
  <2> QED BY <1>r, <2>1, <2>2, <2>3, OneTaskMoves
<1>2. CASE RunNotStarted(t)
  <2>1. PICK at \in {"failed", "queue"} :
          work' = [work EXCEPT ![t] = [work[t] EXCEPT !.at = at, !.tries = @ + 1]] /\ alloc' = alloc /\ In(t, {"ignored", "sent"})
    BY <1>2, <1>r DEF RunNotStarted, In
  <2>2. [work[t] EXCEPT !.at = at, !.tries = @ + 1] \in WorkRow
    <3>1. work[t].tries + 1 \in Nat
      BY <1>r DEF WorkRow
    <3> QED BY <1>r, <3>1 DEF WorkRow, Stages
  <2>3. Warned(t)'
    BY <1>r, <2>1 DEF Warned, In, WorkRow
  <2> QED BY <1>r, <2>1, <2>2, <2>3, OneTaskMoves
<1>3. CASE TaskExits(t)
  <2>1. /\ work' = [work EXCEPT ![t] = [work[t] EXCEPT !.at = "over"]] /\ alloc' = [alloc EXCEPT !.idle = 0]
        /\ In(t, {"run"})
    BY <1>3, <1>r DEF TaskExits, MoveTask, In
  <2>2. [work[t] EXCEPT !.at = "over"] \in WorkRow
    BY <1>r DEF WorkRow, Stages
  <2>3. Warned(t)'
    BY <1>r, <2>1 DEF Warned, In, WorkRow, AllocRow
  <2>4. alloc' \in AllocRow
    BY <1>r, <2>1 DEF AllocRow
  <2> QED BY <1>r, <2>1, <2>2, <2>3, <2>4, OneTaskMoves DEF AllocRow
<1>4. CASE PreflightEnds(t)
  <2>1. PICK ok \in BOOLEAN :
          /\ work' = [work EXCEPT ![t].at = IF ok THEN "run" ELSE "over", ![t].late = ~alloc.accepting]
          /\ alloc' = [alloc EXCEPT !.idle = IF ok THEN 0 ELSE @]
    BY <1>4 DEF PreflightEnds
  <2> DEFINE late == ~alloc.accepting
  <2>l. late \in BOOLEAN /\ (late <=> alloc.drain # "no")
    BY <1>r, Zenon DEF AllocRow
  <2>2. PICK at \in {"run", "over"} : at = IF ok THEN "run" ELSE "over"
    OBVIOUS
  <2>3. PICK idle \in Nat : idle = IF ok THEN 0 ELSE alloc.idle
    BY <1>r DEF AllocRow
  <2>4. work' = [work EXCEPT ![t] = [work[t] EXCEPT !.at = at, !.late = late]]
    BY <1>r, <2>1, <2>2
  <2>5. alloc' = [alloc EXCEPT !.idle = idle]
    BY <2>1, <2>3
  <2>6. alloc.up /\ In(t, {"preflight"})
    BY <1>4 DEF PreflightEnds
  <2> HIDE DEF late
  <2>7. [work[t] EXCEPT !.at = at, !.late = late] \in WorkRow
    BY <1>r, <2>l DEF WorkRow, Stages
  <2>8. alloc' \in AllocRow
    BY <1>r, <2>5 DEF AllocRow
  <2>9. /\ alloc'.left = alloc.left /\ alloc'.up = alloc.up /\ alloc'.accepting = alloc.accepting
        /\ alloc'.drain = alloc.drain /\ alloc'.age = alloc.age /\ alloc'.checked = alloc.checked /\ alloc'.exit = alloc.exit
        /\ alloc'.incidents = alloc.incidents
    BY <1>r, <2>5 DEF AllocRow
  <2>10. work'[t].at = at /\ work'[t].late = late /\ work'[t].term = work[t].term
    BY <1>r, <2>4 DEF WorkRow
  <2>11. work[t].term = -1
    BY <1>r, <2>6 DEF Warned, In
  <2>12. Warned(t)'
    BY <2>6, <2>l, <2>9, <2>10, <2>11 DEF Warned, In
  <2> QED BY <2>4, <2>7, <2>8, <2>9, <2>12, OneTaskMoves
<1> QED BY <1>1, <1>2, <1>3, <1>4

LEMMA JobOverStep ==
  ASSUME WalltimeInv, NEW why \in {"walltime", "idle", "restart"}, JobOver(why), alloc.up,
         why # "restart" => \A t \in RunningTasks : work[t].late
  PROVE  WalltimeInv'
<1>r. alloc \in AllocRow /\ work \in [JobTasks -> WorkRow] /\ (alloc.accepting <=> alloc.drain = "no")
  BY DEF WalltimeInv
<1>1. /\ alloc' \in AllocRow /\ ~alloc'.up /\ alloc'.exit = why /\ alloc'.drain = alloc.drain
      /\ alloc'.accepting = alloc.accepting
  <2>1. 0 \in 0..JobMinutes
    BY WalltimeBounds
  <2> QED BY <1>r, <2>1 DEF JobOver, AllocRow
<1>2. ASSUME NEW t \in JobTasks
      PROVE  /\ work'[t] \in WorkRow /\ work'[t].term = work[t].term /\ work'[t].late = work[t].late
             /\ work'[t].at = CASE work[t].at = "run" -> "cut"
                                [] work[t].at \in {"sent", "ignored", "preflight"} -> "queue"
                                [] OTHER -> work[t].at
  <2>1. work[t] \in WorkRow
    BY <1>r
  <2> QED BY <2>1 DEF JobOver, WorkRow, Stages
<1>3. work' \in [JobTasks -> WorkRow]
  BY <1>2 DEF JobOver
<1>4. ASSUME NEW t \in JobTasks PROVE Warned(t)'
  <2>1. Warned(t) /\ (In(t, {"run"}) /\ why # "restart" => work[t].late) /\ alloc.exit = "none"
    BY DEF WalltimeInv, RunningTasks
  <2>2. work[t] \in WorkRow
    BY <1>r
  <2>3. CASE work[t].at = "run"
    BY <1>1, <1>2, <2>1, <2>3 DEF Warned, In
  <2>4. CASE work[t].at \in {"sent", "ignored", "preflight"}
    BY <1>1, <1>2, <2>1, <2>4 DEF Warned, In
  <2>5. CASE work[t].at \notin {"run", "sent", "ignored", "preflight", "cut"}
    BY <1>1, <1>2, <2>1, <2>5 DEF Warned, In
  <2>6. CASE work[t].at = "cut"
    BY <1>1, <1>2, <2>1, <2>6 DEF Warned, In
  <2> QED BY <2>3, <2>4, <2>5, <2>6
<1> QED BY <1>1, <1>3, <1>4, <1>r DEF WalltimeInv, DrainBegunInTime

\* A drain begins: who runs has its SIGTERM.
LEMMA WalltimeCheckStep ==
  ASSUME WalltimeInv, WalltimeCheck
  PROVE  WalltimeInv'
<1>r. /\ alloc \in AllocRow /\ work \in [JobTasks -> WorkRow] /\ (alloc.accepting <=> alloc.drain = "no")
      /\ alloc.up /\ alloc.left > 0 /\ alloc.exit = "none"
      /\ alloc.left \in Nat /\ alloc.incidents \in 0..Incidents /\ alloc.incidents \in Nat
  BY WalltimeBounds DEF WalltimeInv, WalltimeCheck, AllocRow
<1>1. CASE DrainDue /\ BeginDrain
  <2>1. alloc' = [alloc EXCEPT !.drain = "term", !.age = 0, !.accepting = FALSE, !.checked = @ \cup {"stub"}]
    BY <1>1 DEF BeginDrain
  <2>2. /\ alloc' \in AllocRow /\ alloc'.drain = "term" /\ alloc'.age = 0 /\ ~alloc'.accepting
        /\ alloc'.up = alloc.up /\ alloc'.exit = alloc.exit /\ alloc'.left = alloc.left
    BY <1>r, <2>1 DEF AllocRow
  <2>3. ASSUME NEW t \in JobTasks
        PROVE  /\ work'[t] \in WorkRow /\ work'[t].at = work[t].at /\ work'[t].late = work[t].late
               /\ work'[t].term = IF work[t].at = "run" THEN 0 ELSE work[t].term
    BY <1>1, <1>r DEF BeginDrain, In, WorkRow
  <2>4. work' \in [JobTasks -> WorkRow]
    BY <1>1, <2>3 DEF BeginDrain
  <2>5. ASSUME NEW t \in JobTasks PROVE Warned(t)'
    <3>1. Warned(t) /\ alloc.drain = "no"
      BY <1>1 DEF WalltimeInv, DrainDue
    <3> QED BY <1>r, <2>2, <2>3, <3>1 DEF Warned, In
  <2> QED BY <1>r, <2>2, <2>4, <2>5 DEF WalltimeInv, DrainBegunInTime
<1>2. CASE ~DrainDue /\ alloc' = [alloc EXCEPT !.checked = @ \cup {"stub"}] /\ UNCHANGED work
  <2>1. /\ alloc' \in AllocRow /\ alloc'.drain = alloc.drain /\ alloc'.age = alloc.age /\ alloc'.accepting = alloc.accepting
        /\ alloc'.up = alloc.up /\ alloc'.exit = alloc.exit /\ alloc'.left = alloc.left /\ alloc'.incidents = alloc.incidents
    BY <1>2, <1>r DEF AllocRow
  <2>2. DrainBegunInTime'
    <3>1. alloc.drain = "no" => alloc.left >= DrainAt
      BY <1>2, <1>r, WalltimeBounds DEF DrainDue
    <3> QED BY <1>r, <2>1, <3>1, WalltimeBounds DEF DrainBegunInTime
  <2>3. \A t \in JobTasks : Warned(t)'
    BY <1>2, <2>1 DEF WalltimeInv, Warned, In
  <2> QED BY <1>2, <1>r, <2>1, <2>2, <2>3 DEF WalltimeInv
<1>3. CASE Incident /\ alloc' = [alloc EXCEPT !.checked = @ \cup {"stub"}, !.incidents = @ - 1] /\ UNCHANGED work
  <2>1. alloc.incidents - 1 \in 0..Incidents
    BY <1>3, <1>r, WalltimeBounds DEF Incident
  <2>2. /\ alloc' \in AllocRow /\ alloc'.drain = alloc.drain /\ alloc'.age = alloc.age /\ alloc'.accepting = alloc.accepting
        /\ alloc'.up = alloc.up /\ alloc'.exit = alloc.exit /\ alloc'.left = alloc.left
        /\ alloc'.incidents = alloc.incidents - 1
    BY <1>3, <1>r, <2>1 DEF AllocRow
  <2>3. DrainBegunInTime'
    <3>1. alloc.drain = "no" => alloc.left + (Incidents - alloc.incidents) + 1 >= DrainAt
      BY <1>r DEF WalltimeInv, DrainBegunInTime
    <3> QED BY <1>r, <2>2, <3>1, WalltimeBounds DEF DrainBegunInTime
  <2>4. \A t \in JobTasks : Warned(t)'
    BY <1>3, <2>2 DEF WalltimeInv, Warned, In
  <2> QED BY <1>3, <1>r, <2>2, <2>3, <2>4 DEF WalltimeInv
<1> QED BY <1>1, <1>2, <1>3 DEF WalltimeCheck

\* The drain goes on, and what still runs at its end came after it.
LEMMA DrainStep ==
  ASSUME WalltimeInv, DrainWaits \/ DrainOver
  PROVE  WalltimeInv'
<1>r. /\ alloc \in AllocRow /\ work \in [JobTasks -> WorkRow] /\ (alloc.accepting <=> alloc.drain = "no")
      /\ alloc.up /\ alloc.left > 0 /\ alloc.exit = "none" /\ alloc.drain # "no"
  BY DEF WalltimeInv, DrainWaits, DrainOver
<1>1. PICK drain \in {"grace", "over"} : alloc' = [alloc EXCEPT !.drain = drain]
  BY DEF DrainWaits, DrainOver
<1>2. /\ alloc' \in AllocRow /\ alloc'.drain = drain /\ alloc'.age = alloc.age /\ alloc'.accepting = alloc.accepting
      /\ alloc'.up = alloc.up /\ alloc'.exit = alloc.exit /\ alloc'.left = alloc.left
  BY <1>1, <1>r DEF AllocRow
<1>3. ASSUME NEW t \in JobTasks PROVE In(t, {"run"}) => work[t].late /\ work[t].term = -1
  <2>1. Warned(t)
    BY DEF WalltimeInv
  <2>2. ~(alloc.drain = "term" /\ alloc.age = 0)
    BY <1>r DEF DrainWaits, DrainOver, AllocRow
  <2>3. work[t].term \in {-1, 0, 1}
    BY <1>r DEF WorkRow
  <2> QED BY <1>r, <2>1, <2>2, <2>3 DEF Warned, In
<1>4. ASSUME NEW t \in JobTasks
      PROVE  /\ work'[t] \in WorkRow /\ work'[t].late = work[t].late /\ work'[t].term = work[t].term
             /\ work'[t].at = work[t].at \/ (work[t].at = "run" /\ work'[t].at = "cut")
  <2>1. work[t] \in WorkRow
    BY <1>r
  <2>2. CASE work' = work
    BY <2>1, <2>2
  <2>3. CASE work' = [u \in JobTasks |-> IF In(u, {"run"}) THEN [work[u] EXCEPT !.at = "cut"] ELSE work[u]]
    BY <2>1, <2>3 DEF In, WorkRow, Stages
  <2> QED BY <2>2, <2>3 DEF DrainWaits, DrainOver
<1>5. work' \in [JobTasks -> WorkRow]
  BY <1>4, <1>r DEF DrainWaits, DrainOver
<1>6. ASSUME NEW t \in JobTasks PROVE Warned(t)'
  <2>1. Warned(t)
    BY DEF WalltimeInv
  <2> QED BY <1>2, <1>3, <1>4, <1>r, <2>1 DEF Warned, In
<1> QED BY <1>2, <1>5, <1>6, <1>r DEF WalltimeInv, DrainBegunInTime

LEMMA MinuteStep ==
  ASSUME WalltimeInv, Minute
  PROVE  WalltimeInv'
<1>r. /\ alloc \in AllocRow /\ work \in [JobTasks -> WorkRow] /\ (alloc.accepting <=> alloc.drain = "no")
      /\ alloc.up /\ alloc.left > 1 /\ alloc.exit = "none" /\ "stub" \in alloc.checked
      /\ alloc.left \in Nat /\ alloc.incidents \in Nat
  <2>1. alloc.left > 1 /\ alloc.checked = {"stub", "server"} /\ alloc.up
    BY DEF Minute
  <2>2. alloc \in AllocRow /\ alloc.exit = "none"
    BY <2>1 DEF WalltimeInv
  <2>3. alloc.left \in Nat /\ alloc.incidents \in Nat
    BY <2>2, WalltimeBounds DEF AllocRow
  <2> QED BY <2>1, <2>2, <2>3 DEF WalltimeInv
<1>1. PICK age \in {0, 1}, idle \in Nat :
        /\ alloc' = [alloc EXCEPT !.left = @ - 1, !.checked = {}, !.age = age, !.idle = idle]
        /\ alloc.drain = "term" => age = 1
  <2>1. alloc.age \in {0, 1} /\ alloc.idle \in Nat /\ alloc.idle + 1 \in Nat
    BY <1>r DEF AllocRow
  <2> DEFINE age == IF alloc.drain = "term" THEN 1 ELSE alloc.age
             idle == IF RunningTasks = {} /\ alloc.idle < IdleMinutes THEN alloc.idle + 1 ELSE alloc.idle
  <2>2. age \in {0, 1} /\ idle \in Nat /\ (alloc.drain = "term" => age = 1)
    BY <2>1
  <2>3. alloc' = [alloc EXCEPT !.left = @ - 1, !.checked = {}, !.age = age, !.idle = idle]
    BY <1>r DEF Minute, AllocRow
  <2> HIDE DEF age, idle
  <2> QED BY <2>2, <2>3
<1>2. alloc.left - 1 \in 0..JobMinutes /\ alloc.left - 1 > 0
  BY <1>r, WalltimeBounds DEF AllocRow
<1>3. /\ alloc' \in AllocRow /\ alloc'.drain = alloc.drain /\ alloc'.age = age /\ alloc'.accepting = alloc.accepting
      /\ alloc'.up = alloc.up /\ alloc'.exit = alloc.exit /\ alloc'.left = alloc.left - 1 /\ alloc'.checked = {}
      /\ alloc'.incidents = alloc.incidents
  BY <1>1, <1>2, <1>r DEF AllocRow
<1>4. DrainBegunInTime'
  <2>1. alloc.drain = "no" => alloc.left + (Incidents - alloc.incidents) >= DrainAt
    BY <1>r DEF WalltimeInv, DrainBegunInTime
  <2> QED BY <1>3, <1>r, <2>1, WalltimeBounds DEF DrainBegunInTime
<1>5. ASSUME NEW t \in JobTasks
      PROVE  /\ work'[t] \in WorkRow /\ work'[t].late = work[t].late
             /\ work'[t].term = IF work[t].term = 0 THEN 1 ELSE work[t].term
             /\ work'[t].at = IF work[t].at = "run" /\ work[t].term = 0 THEN "cut" ELSE work[t].at
  BY <1>r DEF Minute, RunningTasks, In, WorkRow, Stages
<1>6. work' \in [JobTasks -> WorkRow]
  BY <1>5 DEF Minute
<1>7. ASSUME NEW t \in JobTasks PROVE Warned(t)'
  <2>1. Warned(t) /\ work[t].term \in {-1, 0, 1}
    BY <1>r DEF WalltimeInv, WorkRow
  <2>2. CASE work[t].at = "run" /\ work[t].term = 0
    BY <1>3, <1>5, <1>r, <2>1, <2>2 DEF Warned, In
  <2>3. CASE work[t].at = "run" /\ work[t].term # 0
    BY <1>3, <1>5, <1>r, <2>1, <2>3 DEF Warned, In
  <2>4. CASE work[t].at # "run"
    BY <1>3, <1>5, <1>r, <2>1, <2>4 DEF Warned, In
  <2> QED BY <2>2, <2>3, <2>4
<1> QED BY <1>2, <1>3, <1>4, <1>6, <1>7, <1>r DEF WalltimeInv

\* The job is at its end only after its drain, if squeue has not failed too often.
LEMMA EndsDrained ==
  ASSUME WalltimeInv, Incidents + 2 < DrainAt, alloc.up, alloc.left = 1, alloc.drain \in {"no", "over"}
  PROVE  \A t \in RunningTasks : work[t].late
<1>1. alloc.drain # "no"
  <2>1. alloc.incidents \in Nat /\ alloc.incidents <= Incidents
    BY WalltimeBounds DEF WalltimeInv, AllocRow
  <2> QED BY <2>1, WalltimeBounds DEF WalltimeInv, DrainBegunInTime
<1>2. alloc.drain = "over"
  BY <1>1
<1> QED BY <1>2 DEF WalltimeInv, Warned, In, RunningTasks

LEMMA WalltimeInvNext ==
  ASSUME Incidents + 2 < DrainAt, WalltimeInv, [WalltimeNext]_walltimeVars
  PROVE  WalltimeInv'
<1>1. CASE WalltimeEnds
  BY <1>1, EndsDrained, JobOverStep DEF WalltimeEnds
<1>2. CASE IdleExit
  BY <1>2, JobOverStep DEF IdleExit
<1>3. CASE Restarted
  BY <1>3, JobOverStep DEF Restarted
<1>4. CASE CheckAutoRenew
  <2>1. work' = work /\ alloc' = [alloc EXCEPT !.checked = @ \cup {"server"}] /\ alloc \in AllocRow
    BY <1>4 DEF CheckAutoRenew, WalltimeInv
  <2>2. /\ alloc' \in AllocRow /\ alloc'.drain = alloc.drain /\ alloc'.age = alloc.age /\ alloc'.accepting = alloc.accepting
        /\ alloc'.up = alloc.up /\ alloc'.exit = alloc.exit /\ alloc'.left = alloc.left /\ alloc'.incidents = alloc.incidents
        /\ ("stub" \in alloc'.checked <=> "stub" \in alloc.checked)
    BY <2>1 DEF AllocRow
  <2>3. \A t \in JobTasks : Warned(t)'
    BY <2>1, <2>2 DEF WalltimeInv, Warned, In
  <2> QED BY <2>1, <2>2, <2>3 DEF WalltimeInv, DrainBegunInTime
<1>5. CASE UNCHANGED walltimeVars
  <2>1. alloc' = alloc /\ work' = work
    BY <1>5 DEF walltimeVars
  <2>2. \A t \in JobTasks : Warned(t)'
    BY <2>1 DEF WalltimeInv, Warned, In
  <2> QED BY <2>1, <2>2 DEF WalltimeInv, DrainBegunInTime
<1> QED BY <1>1, <1>2, <1>3, <1>4, <1>5, TasksStep, WalltimeCheckStep, DrainStep, MinuteStep DEF WalltimeNext

-----------------------------------------------------------------------------
(* What is kept. *)

\* The database and the memory agree on a task, or it is known that they do not.
Matched(t) ==
  \/ t \in loose
  \/ /\ \A s \in Hosts : live[s][t] # "none" => rows[t] = OnHost(s, live[s][t])
     /\ rows[t].at = "stub" => rows[t].host \in Hosts /\ live[rows[t].host][t] = rows[t].st

\* A backup has a task that was there in one of its tables or on one of its arrays.
BackupFits(f) ==
  \A t \in Held :
    /\ f.table[t].at # "stub"
    /\ t \in f.had \ f.torn => f.table[t] # Absent \/ \E s \in Hosts : f.arrays[s][t] # "none"

\* While the arrays are shared, what the backup has of them is what the memory has.
CopyFits == BackupFits(copy) /\ \A s \in copy.shared : copy.arrays[s] = live[s]

FilesFit ==
  /\ \A k \in DOMAIN files : BackupFits(files[k])
  /\ serving.saved => \E k \in DOMAIN files : files[k].whole

\* What a handler relies on between two of its commits.
BetweenCommits ==
  /\ serving.pc = "moving" => \A t \in serving.on : rows[t] = Absent
  /\ serving.pc = "cleared" =>
       serving.from \in DOMAIN files /\ copy.shared = {} /\ \A t \in Held : rows[t] = Absent
  /\ serving.pc = "down" => copy.shared = {}

StorageInv ==
  /\ StorageTypeOK /\ CopyFits /\ FilesFit /\ BetweenCommits
  /\ serving.pc \in {"up", "moving"} => \A t \in Held : Matched(t)

\* A step that changes one task leaves what is said of the others.
LEMMA OneTaskChanges ==
  ASSUME NEW t \in Held, \A u \in Held : Matched(u), Matched(t)',
         \A u \in Held \ {t} : /\ rows'[u] = rows[u] /\ (u \in loose => u \in loose')
                               /\ \A s \in Hosts : live'[s][u] = live[s][u]
  PROVE  (\A u \in Held : Matched(u))'
<1> SUFFICES ASSUME NEW u \in Held, u # t PROVE Matched(u)'
  OBVIOUS
<1>1. CASE u \in loose
  BY <1>1 DEF Matched
<1>2. CASE u \notin loose
  <2>1. /\ \A s \in Hosts : live[s][u] # "none" => rows[u] = OnHost(s, live[s][u])
        /\ rows[u].at = "stub" => rows[u].host \in Hosts /\ live[rows[u].host][u] = rows[u].st
    BY <1>2 DEF Matched
  <2>2. /\ \A s \in Hosts : live'[s][u] # "none" => rows'[u] = OnHost(s, live'[s][u])
        /\ rows'[u].at = "stub" => rows'[u].host \in Hosts /\ live'[rows'[u].host][u] = rows'[u].st
    BY <2>1 DEF OnHost
  <2> QED BY <2>2 DEF Matched, OnHost
<1> QED BY <1>1, <1>2

\* A backup stays whole if only what is known to be torn comes off its arrays.
LEMMA KeepsHolding ==
  ASSUME BackupFits(copy), copy'.table = copy.table, copy'.had = copy.had, copy.torn \subseteq copy'.torn,
         \A u \in Held \ copy'.torn, h \in Hosts :
           copy.arrays[h][u] # "none" => copy'.arrays[h][u] # "none"
  PROVE  BackupFits(copy)'
<1> SUFFICES ASSUME NEW u \in Held
             PROVE /\ copy'.table[u].at # "stub"
                   /\ u \in copy'.had \ copy'.torn =>
                        copy'.table[u] # Absent \/ \E h \in Hosts : copy'.arrays[h][u] # "none"
  BY DEF BackupFits, Absent
<1>1. /\ copy.table[u].at # "stub"
      /\ u \in copy.had \ copy.torn =>
           copy.table[u] # Absent \/ \E h \in Hosts : copy.arrays[h][u] # "none"
  BY DEF BackupFits
<1> QED BY <1>1

LEMMA InPlaceDoes ==
  ASSUME StorageTypeOK, CopyFits, NEW s \in Hosts, NEW t \in Held, NEW st \in Statuses \ {"none"},
         InPlace(s, t, st)
  PROVE  /\ live' \in Arrays /\ copy' \in Copies /\ CopyFits' /\ live'[s][t] = st
         /\ \A h \in Hosts, u \in Held : ~(h = s /\ u = t) => live'[h][u] = live[h][u]
<1>1. live \in Arrays /\ copy \in Copies /\ copy.arrays \in Arrays /\ copy.shared \subseteq Hosts
  BY DEF StorageTypeOK, Copies
<1>2. /\ live' \in Arrays /\ live'[s][t] = st
      /\ \A h \in Hosts, u \in Held : ~(h = s /\ u = t) => live'[h][u] = live[h][u]
  BY <1>1 DEF InPlace, Arrays
<1>3. CASE s \notin copy.shared
  <2>1. copy' = copy
    BY <1>3 DEF InPlace
  <2>2. \A h \in copy.shared : live'[h] = live[h]
    BY <1>1, <1>3 DEF InPlace, Arrays
  <2> QED BY <1>1, <1>2, <2>1, <2>2 DEF CopyFits
<1>4. CASE s \in copy.shared
  <2> DEFINE new == [copy.arrays EXCEPT ![s][t] = st]
  <2>1. copy' = [copy EXCEPT !.arrays = new]
    BY <1>1, <1>4 DEF InPlace, Copies, Arrays
  <2>2. new \in Arrays /\ \A h \in Hosts, u \in Held : ~(h = s /\ u = t) => new[h][u] = copy.arrays[h][u]
    BY <1>1 DEF Arrays
  <2>3. new[s][t] # "none"
    BY <1>1 DEF Arrays, Statuses
  <2>4. \A h \in copy.shared : new[h] = live'[h]
    <3> SUFFICES ASSUME NEW h \in copy.shared PROVE new[h] = live'[h]
      OBVIOUS
    <3>1. copy.arrays[h] = live[h] /\ h \in Hosts
      BY <1>1 DEF CopyFits
    <3> QED BY <1>1, <3>1 DEF InPlace, Arrays
  <2> HIDE DEF new
  <2>5. /\ copy' \in Copies /\ copy'.arrays = new /\ copy'.shared = copy.shared /\ copy'.table = copy.table
        /\ copy'.had = copy.had /\ copy'.torn = copy.torn
    BY <1>1, <2>1, <2>2 DEF Copies
  <2>6. BackupFits(copy)'
    BY <2>2, <2>3, <2>5, KeepsHolding DEF CopyFits
  <2> QED BY <1>2, <2>4, <2>5, <2>6 DEF CopyFits
<1> QED BY <1>3, <1>4

LEMMA WriteKeeps ==
  ASSUME StorageTypeOK, NEW ok \in BOOLEAN, Written(ok)
  PROVE  /\ serving' \in Servings
         /\ \A f \in {"pc", "on", "host", "from", "saved", "backups"} : serving'[f] = serving[f]
<1>1. serving \in Servings
  BY DEF StorageTypeOK
<1>2. CASE serving' = serving
  BY <1>1, <1>2
<1>3. CASE serving.slips > 0 /\ serving' = [serving EXCEPT !.slips = @ - 1]
  BY <1>1, <1>3 DEF Servings
<1> QED BY <1>2, <1>3 DEF Written, Slip

LEMMA TableRows ==
  /\ Absent \in Rows /\ Queued \in Rows /\ Over \in Rows
  /\ \A s \in Hosts, st \in Statuses : OnHost(s, st) \in Rows
  /\ Absent.at = "none" /\ Queued.at = "global" /\ Over.at = "archive"
  /\ \A s \in Hosts, st \in Statuses : /\ OnHost(s, st).at = "stub" /\ OnHost(s, st).host = s
                                       /\ OnHost(s, st).st = st
BY DEF Absent, Queued, Over, OnHost, Rows, Statuses

\* What a step keeps that leaves the files and the place in the handler alone.
LEMMA SameFiles ==
  ASSUME FilesFit, BetweenCommits, UNCHANGED files, serving'.saved = serving.saved, Up, serving'.pc = "up"
  PROVE  FilesFit' /\ BetweenCommits'
BY DEF FilesFit, BetweenCommits, Up, BackupFits

LEMMA AddToGlobalQueueStep ==
  ASSUME StorageInv, NEW t \in Held, AddToGlobalQueue(t)
  PROVE  StorageInv'
<1>1. PICK ok \in BOOLEAN :
        /\ Up /\ rows[t] = Absent /\ t \notin OnArrays(live) \cup loose
        /\ Written(ok)
        /\ IF ok THEN rows' = [rows EXCEPT ![t] = Queued] /\ UNCHANGED loose
           ELSE loose' = loose \cup {t} /\ UNCHANGED rows
        /\ UNCHANGED <<live, copy, files>>
  BY DEF AddToGlobalQueue
<1>2. StorageTypeOK /\ CopyFits /\ FilesFit /\ BetweenCommits /\ \A u \in Held : Matched(u)
  BY <1>1 DEF StorageInv, Up
<1>3. serving' \in Servings /\ serving'.pc = "up" /\ serving'.saved = serving.saved
  BY <1>1, <1>2, WriteKeeps DEF Up
<1>4. StorageTypeOK'
  BY <1>1, <1>2, <1>3, TableRows DEF StorageTypeOK
<1>5. CopyFits' /\ FilesFit' /\ BetweenCommits'
  BY <1>1, <1>2, <1>3, SameFiles DEF CopyFits, BackupFits
<1>6. Matched(t)'
  BY <1>1, <1>2, TableRows DEF Matched, OnArrays, StorageTypeOK
<1>7. (\A u \in Held : Matched(u))'
  <2>1. \A u \in Held \ {t} : /\ rows'[u] = rows[u] /\ (u \in loose => u \in loose')
                              /\ \A s \in Hosts : live'[s][u] = live[s][u]
    BY <1>1, <1>2 DEF StorageTypeOK
  <2> QED BY <1>2, <1>6, <2>1, OneTaskChanges
<1> QED BY <1>4, <1>5, <1>7 DEF StorageInv

LEMMA PostToStubStep ==
  ASSUME StorageInv, NEW s \in Hosts, NEW t \in Held, PostToStub(s, t)
  PROVE  StorageInv'
<1>1. /\ Up /\ rows[t] = Absent /\ InPlace(s, t, "assigned") /\ loose' = loose \cup {t}
      /\ UNCHANGED <<rows, files, serving>>
  BY DEF PostToStub
<1>2. StorageTypeOK /\ CopyFits /\ FilesFit /\ BetweenCommits /\ \A u \in Held : Matched(u)
  BY <1>1 DEF StorageInv, Up
<1>3. "assigned" \in Statuses \ {"none"}
  BY DEF Statuses
<1>4. /\ live' \in Arrays /\ copy' \in Copies /\ CopyFits'
      /\ \A h \in Hosts, u \in Held : ~(h = s /\ u = t) => live'[h][u] = live[h][u]
  BY <1>1, <1>2, <1>3, InPlaceDoes
<1>5. StorageTypeOK'
  BY <1>1, <1>2, <1>4 DEF StorageTypeOK
<1>6. FilesFit' /\ BetweenCommits'
  BY <1>1, <1>2, SameFiles DEF Up
<1>7. (\A u \in Held : Matched(u))'
  <2>1. Matched(t)'
    BY <1>1 DEF Matched
  <2>2. \A u \in Held \ {t} : /\ rows'[u] = rows[u] /\ (u \in loose => u \in loose')
                              /\ \A h \in Hosts : live'[h][u] = live[h][u]
    BY <1>1, <1>4
  <2> QED BY <1>2, <2>1, <2>2, OneTaskChanges
<1> QED BY <1>4, <1>5, <1>6, <1>7 DEF StorageInv

LEMMA MoveToStubQueueStep ==
  ASSUME StorageInv, NEW s \in Hosts, NEW t \in Held, MoveToStubQueue(s, t)
  PROVE  StorageInv'
<1>1. /\ Up /\ rows[t] = Queued /\ rows' = [rows EXCEPT ![t] = Absent]
      /\ serving' = [serving EXCEPT !.pc = "moving", !.on = {t}, !.host = s]
      /\ UNCHANGED <<live, copy, files, loose>>
  BY DEF MoveToStubQueue
<1>2. StorageTypeOK /\ CopyFits /\ FilesFit /\ \A u \in Held : Matched(u)
  BY <1>1 DEF StorageInv, Up
<1>3. serving' \in Servings /\ serving'.pc = "moving" /\ serving'.on = {t} /\ serving'.saved = serving.saved
  BY <1>1, <1>2 DEF StorageTypeOK, Servings
<1>4. StorageTypeOK' /\ rows'[t] = Absent
  BY <1>1, <1>2, <1>3, TableRows DEF StorageTypeOK
<1>5. CopyFits' /\ FilesFit' /\ BetweenCommits'
  BY <1>1, <1>2, <1>3, <1>4 DEF CopyFits, BackupFits, FilesFit, BetweenCommits
<1>6. Matched(t)'
  <2>1. t \in loose \/ \A h \in Hosts : live[h][t] = "none"
    BY <1>1, <1>2, TableRows DEF Matched, StorageTypeOK, Arrays
  <2> QED BY <1>1, <1>4, <2>1, TableRows DEF Matched
<1>7. (\A u \in Held : Matched(u))'
  <2>1. \A u \in Held \ {t} : /\ rows'[u] = rows[u] /\ (u \in loose => u \in loose')
                              /\ \A h \in Hosts : live'[h][u] = live[h][u]
    BY <1>1, <1>2 DEF StorageTypeOK
  <2> QED BY <1>2, <1>6, <2>1, OneTaskChanges
<1> QED BY <1>4, <1>5, <1>7 DEF StorageInv

LEMMA MoveEndsStep ==
  ASSUME StorageInv, NEW ok \in BOOLEAN, MoveEnds(ok)
  PROVE  StorageInv'
<1>1. PICK t \in serving.on, s \in Hosts \cap {serving.host} :
        /\ serving.pc = "moving"
        /\ ok \/ serving.slips > 0
        /\ serving' = [serving EXCEPT !.pc = "up", !.on = {}, !.host = NoHost, !.slips = IF ok THEN @ ELSE @ - 1]
        /\ InPlace(s, t, "assigned")
        /\ IF ok THEN rows' = [rows EXCEPT ![t] = OnHost(s, "assigned")] /\ UNCHANGED loose
           ELSE loose' = loose \cup {t} /\ UNCHANGED rows
        /\ UNCHANGED files
  BY DEF MoveEnds
<1>2. /\ StorageTypeOK /\ CopyFits /\ FilesFit /\ (\A u \in Held : Matched(u))
      /\ rows[t] = Absent /\ t \in Held
  BY <1>1 DEF StorageInv, BetweenCommits, StorageTypeOK, Servings
<1>3. serving' \in Servings /\ serving'.pc = "up" /\ serving'.saved = serving.saved
  <2>1. serving \in Servings
    BY <1>2 DEF StorageTypeOK
  <2>2. CASE ok
    <3>1. serving' = [serving EXCEPT !.pc = "up", !.on = {}, !.host = NoHost, !.slips = serving.slips]
      BY <1>1, <2>1, <2>2 DEF Servings
    <3> QED BY <2>1, <3>1 DEF Servings
  <2>3. CASE ~ok
    <3>1. serving' = [serving EXCEPT !.pc = "up", !.on = {}, !.host = NoHost, !.slips = serving.slips - 1]
      BY <1>1, <2>1, <2>3 DEF Servings
    <3>2. serving.slips - 1 \in Nat
      BY <1>1, <2>1, <2>3 DEF Servings
    <3> QED BY <2>1, <3>1, <3>2 DEF Servings
  <2> QED BY <2>2, <2>3
<1>4. /\ live' \in Arrays /\ copy' \in Copies /\ CopyFits' /\ live'[s][t] = "assigned"
      /\ \A h \in Hosts, u \in Held : ~(h = s /\ u = t) => live'[h][u] = live[h][u]
  <2>1. "assigned" \in Statuses \ {"none"}
    BY DEF Statuses
  <2> QED BY <1>1, <1>2, <2>1, InPlaceDoes
<1>5. StorageTypeOK' /\ (ok => rows'[t] = OnHost(s, "assigned"))
  <2>1. OnHost(s, "assigned") \in Rows
    BY TableRows DEF Statuses
  <2> QED BY <1>1, <1>2, <1>3, <1>4, <2>1 DEF StorageTypeOK
<1>6. FilesFit' /\ BetweenCommits'
  BY <1>1, <1>2, <1>3 DEF FilesFit, BetweenCommits, BackupFits
<1>7. Matched(t)'
  <2>1. CASE ~ok
    BY <1>1, <2>1 DEF Matched
  <2>2. CASE ok /\ t \in loose
    BY <1>1, <2>2 DEF Matched
  <2>3. CASE ok /\ t \notin loose
    <3>1. \A h \in Hosts : live[h][t] = "none"
      BY <1>2, <2>3, TableRows DEF Matched, StorageTypeOK, Arrays
    <3>2. \A h \in Hosts : live'[h][t] # "none" => h = s
      BY <1>2, <1>4, <3>1
    <3>3. rows'[t].host = s /\ rows'[t].st = "assigned"
      BY <1>5, <2>3, TableRows DEF Statuses
    <3> QED BY <1>4, <1>5, <2>3, <3>2, <3>3 DEF Matched, OnHost
  <2> QED BY <2>1, <2>2, <2>3
<1>8. (\A u \in Held : Matched(u))'
  <2>1. \A u \in Held \ {t} : /\ rows'[u] = rows[u] /\ (u \in loose => u \in loose')
                              /\ \A h \in Hosts : live'[h][u] = live[h][u]
    BY <1>1, <1>2, <1>4 DEF StorageTypeOK
  <2> QED BY <1>2, <1>7, <2>1, OneTaskChanges
<1> QED BY <1>3, <1>4, <1>5, <1>6, <1>8 DEF StorageInv

\* A task of which one array holds an entry, and of which the row tells no other, is there once.
LEMMA HeldOnce ==
  ASSUME StorageTypeOK, NEW s \in Hosts, NEW t \in Held, Matched(t), t \notin loose, live[s][t] # "none"
  PROVE  \A h \in Hosts : live[h][t] # "none" => h = s
<1>1. \A h \in Hosts : live[h][t] # "none" => rows[t] = OnHost(h, live[h][t])
  BY DEF Matched
<1>2. \A h \in Hosts : live[h][t] \in Statuses
  BY DEF StorageTypeOK, Arrays
<1>3. \A h \in Hosts : live[h][t] # "none" => rows[t].host = h
  BY <1>1, <1>2, TableRows
<1> QED BY <1>3

LEMMA UpdateTaskStep ==
  ASSUME StorageInv, NEW s \in Hosts, NEW t \in Held, UpdateTask(s, t)
  PROVE  StorageInv'
<1>1. PICK ok \in BOOLEAN :
        /\ Up /\ live[s][t] \in ActiveStatuses
        /\ Written(ok) /\ Updated(s, t, "running", ok)
        /\ UNCHANGED files
  BY DEF UpdateTask
<1>2. StorageTypeOK /\ CopyFits /\ FilesFit /\ BetweenCommits /\ \A u \in Held : Matched(u)
  BY <1>1 DEF StorageInv, Up
<1>3. serving' \in Servings /\ serving'.pc = "up" /\ serving'.saved = serving.saved
  BY <1>1, <1>2, WriteKeeps DEF Up
<1>4. FilesFit' /\ BetweenCommits'
  BY <1>1, <1>2, <1>3, SameFiles
<1>5. CASE ~ok
  <2>1. UNCHANGED <<live, copy, rows, loose>>
    BY <1>1, <1>5 DEF Updated
  <2>2. StorageTypeOK' /\ CopyFits'
    BY <1>1, <1>2, <1>3, <2>1 DEF StorageTypeOK, CopyFits, BackupFits
  <2>3. (\A u \in Held : Matched(u))'
    BY <1>2, <2>1 DEF Matched
  <2> QED BY <1>4, <2>2, <2>3 DEF StorageInv
<1>6. CASE ok
  <2>1. /\ InPlace(s, t, "running") /\ rows' = [rows EXCEPT ![t] = OnHost(s, "running")]
        /\ loose' = loose \ ({t} \ Twice(live))
    BY <1>1, <1>6 DEF Updated
  <2>2. "running" \in Statuses \ {"none"} /\ live[s][t] # "none"
    BY <1>1 DEF Statuses, ActiveStatuses
  <2>3. /\ live' \in Arrays /\ copy' \in Copies /\ CopyFits' /\ live'[s][t] = "running"
        /\ \A h \in Hosts, u \in Held : ~(h = s /\ u = t) => live'[h][u] = live[h][u]
    BY <1>2, <2>1, <2>2, InPlaceDoes
  <2>4. StorageTypeOK' /\ rows'[t] = OnHost(s, "running")
    <3>1. OnHost(s, "running") \in Rows
      BY <2>2, TableRows
    <3> QED BY <1>1, <1>2, <1>3, <2>1, <2>3, <3>1 DEF StorageTypeOK
  <2>5. Matched(t)'
    <3>1. CASE t \in loose'
      BY <3>1 DEF Matched
    <3>2. CASE t \notin loose'
      <4>1. \A h \in Hosts : live[h][t] # "none" => h = s
        <5>1. CASE t \in loose
          BY <2>1, <2>2, <3>2, <5>1 DEF Twice
        <5>2. CASE t \notin loose
          BY <1>2, <2>2, <5>2, HeldOnce
        <5> QED BY <5>1, <5>2
      <4>2. \A h \in Hosts : live'[h][t] # "none" => h = s
        BY <2>3, <4>1
      <4>3. rows'[t].host = s /\ rows'[t].st = "running"
        BY <2>2, <2>4, TableRows
      <4> QED BY <2>3, <2>4, <4>2, <4>3 DEF Matched, OnHost
    <3> QED BY <3>1, <3>2
  <2>6. (\A u \in Held : Matched(u))'
    <3>1. \A u \in Held \ {t} : /\ rows'[u] = rows[u] /\ (u \in loose => u \in loose')
                                /\ \A h \in Hosts : live'[h][u] = live[h][u]
      BY <1>2, <2>1, <2>3 DEF StorageTypeOK
    <3> QED BY <1>2, <2>5, <3>1, OneTaskChanges
  <2> QED BY <1>4, <2>3, <2>4, <2>6 DEF StorageInv
<1> QED BY <1>5, <1>6

LEMMA EndTaskStep ==
  ASSUME StorageInv, NEW s \in Hosts, NEW t \in Held, EndTask(s, t)
  PROVE  StorageInv'
<1>1. PICK ok \in BOOLEAN :
        /\ Up /\ live[s][t] \in ActiveStatuses
        /\ Written(ok) /\ Archived(s, t)
        /\ IF ok THEN rows' = [rows EXCEPT ![t] = Over] /\ loose' = loose \ ({t} \ Twice(live))
           ELSE loose' = loose \cup {t} /\ UNCHANGED rows
        /\ UNCHANGED files
  BY DEF EndTask
<1>2. StorageTypeOK /\ CopyFits /\ FilesFit /\ BetweenCommits /\ \A u \in Held : Matched(u)
  BY <1>1 DEF StorageInv, Up
<1>3. serving' \in Servings /\ serving'.pc = "up" /\ serving'.saved = serving.saved
  BY <1>1, <1>2, WriteKeeps DEF Up
<1>4. FilesFit' /\ BetweenCommits'
  BY <1>1, <1>2, <1>3, SameFiles
<1>5. /\ live' \in Arrays /\ live'[s][t] = "none" /\ live[s][t] # "none"
      /\ \A h \in Hosts, u \in Held : ~(h = s /\ u = t) => live'[h][u] = live[h][u]
      /\ \A h \in Hosts \ {s} : live'[h] = live[h]
  BY <1>1, <1>2 DEF Archived, StorageTypeOK, Arrays, Statuses, ActiveStatuses
<1>6. copy' \in Copies /\ CopyFits'
  <2>1. copy \in Copies /\ copy.arrays \in Arrays /\ copy.shared \subseteq Hosts
    BY <1>2 DEF StorageTypeOK, Copies
  <2>2. CASE s \notin copy.shared
    <3>1. copy' = copy
      BY <1>1, <2>2 DEF Archived
    <3>2. \A h \in copy.shared : live'[h] = live[h]
      BY <1>5, <2>1, <2>2
    <3> QED BY <1>2, <2>1, <3>1, <3>2 DEF CopyFits, BackupFits
  <2>3. CASE s \in copy.shared
    <3> DEFINE new == [copy.arrays EXCEPT ![s][t] = "done"]
    <3>1. copy' = [copy EXCEPT !.arrays = new, !.shared = copy.shared \ {s}]
      BY <1>1, <2>1, <2>3 DEF Archived, Copies, Arrays
    <3>2. /\ new \in Arrays /\ new[s][t] = "done"
          /\ \A h \in Hosts, u \in Held : ~(h = s /\ u = t) => new[h][u] = copy.arrays[h][u]
          /\ \A h \in Hosts \ {s} : new[h] = copy.arrays[h]
      BY <2>1 DEF Arrays, Statuses
    <3> HIDE DEF new
    <3>3. /\ copy' \in Copies /\ copy'.arrays = new /\ copy'.shared = copy.shared \ {s}
          /\ copy'.table = copy.table /\ copy'.had = copy.had /\ copy'.torn = copy.torn
      BY <2>1, <3>1, <3>2 DEF Copies
    <3>4. \A h \in copy'.shared : copy'.arrays[h] = live'[h]
      BY <1>2, <1>5, <2>1, <3>2, <3>3 DEF CopyFits
    <3>5. BackupFits(copy)'
      BY <1>2, <3>2, <3>3, KeepsHolding DEF CopyFits
    <3> QED BY <3>3, <3>4, <3>5 DEF CopyFits
  <2> QED BY <2>2, <2>3
<1>7. StorageTypeOK' /\ (ok => rows'[t] = Over)
  BY <1>1, <1>2, <1>3, <1>5, <1>6, TableRows DEF StorageTypeOK
<1>8. Matched(t)'
  <2>1. CASE t \in loose'
    BY <2>1 DEF Matched
  <2>2. CASE t \notin loose'
    <3>1. ok
      BY <1>1, <2>2
    <3>2. \A h \in Hosts : live[h][t] # "none" => h = s
      <4>1. CASE t \in loose
        BY <1>1, <1>5, <2>2, <3>1, <4>1 DEF Twice
      <4>2. CASE t \notin loose
        BY <1>2, <1>5, <4>2, HeldOnce
      <4> QED BY <4>1, <4>2
    <3>3. \A h \in Hosts : live'[h][t] = "none"
      BY <1>5, <3>2
    <3> QED BY <1>7, <3>1, <3>3, TableRows DEF Matched
  <2> QED BY <2>1, <2>2
<1>9. (\A u \in Held : Matched(u))'
  <2>1. \A u \in Held \ {t} : /\ rows'[u] = rows[u] /\ (u \in loose => u \in loose')
                              /\ \A h \in Hosts : live'[h][u] = live[h][u]
    BY <1>1, <1>2, <1>5 DEF StorageTypeOK
  <2> QED BY <1>2, <1>8, <2>1, OneTaskChanges
<1> QED BY <1>4, <1>6, <1>7, <1>9 DEF StorageInv

LEMMA DispatchTimeoutStep ==
  ASSUME StorageInv, NEW s \in Hosts, NEW t \in Held, DispatchTimeout(s, t)
  PROVE  StorageInv'
<1>1. PICK ok \in BOOLEAN :
        /\ Up /\ live[s][t] = "assigned"
        /\ Written(ok)
        /\ live' = [live EXCEPT ![s][t] = "none"]
        /\ copy' = IF s \in copy.shared
                   THEN [copy EXCEPT !.arrays[s][t] = "none", !.torn = @ \cup {t}] ELSE copy
        /\ IF ok THEN rows' = [rows EXCEPT ![t] = Queued] /\ loose' = loose \ ({t} \ Twice(live))
           ELSE loose' = loose \cup {t} /\ UNCHANGED rows
        /\ UNCHANGED files
  BY DEF DispatchTimeout
<1>2. StorageTypeOK /\ CopyFits /\ FilesFit /\ BetweenCommits /\ \A u \in Held : Matched(u)
  BY <1>1 DEF StorageInv, Up
<1>3. serving' \in Servings /\ serving'.pc = "up" /\ serving'.saved = serving.saved
  BY <1>1, <1>2, WriteKeeps DEF Up
<1>4. FilesFit' /\ BetweenCommits'
  BY <1>1, <1>2, <1>3, SameFiles
<1>5. /\ live' \in Arrays /\ live'[s][t] = "none" /\ live[s][t] # "none"
      /\ \A h \in Hosts, u \in Held : ~(h = s /\ u = t) => live'[h][u] = live[h][u]
      /\ \A h \in Hosts \ {s} : live'[h] = live[h]
  BY <1>1, <1>2 DEF StorageTypeOK, Arrays, Statuses
<1>6. copy' \in Copies /\ CopyFits'
  <2>1. copy \in Copies /\ copy.arrays \in Arrays /\ copy.shared \subseteq Hosts /\ copy.torn \subseteq Held
    BY <1>2 DEF StorageTypeOK, Copies
  <2>2. CASE s \notin copy.shared
    <3>1. copy' = copy
      BY <1>1, <2>2
    <3>2. \A h \in copy.shared : live'[h] = live[h]
      BY <1>5, <2>1, <2>2
    <3> QED BY <1>2, <2>1, <3>1, <3>2 DEF CopyFits, BackupFits
  <2>3. CASE s \in copy.shared
    <3> DEFINE new == [copy.arrays EXCEPT ![s][t] = "none"]
    <3>1. copy' = [copy EXCEPT !.arrays = new, !.torn = copy.torn \cup {t}]
      BY <1>1, <2>1, <2>3 DEF Copies, Arrays
    <3>2. /\ new \in Arrays
          /\ \A h \in Hosts, u \in Held : ~(h = s /\ u = t) => new[h][u] = copy.arrays[h][u]
      BY <2>1 DEF Arrays, Statuses
    <3>3. \A h \in copy.shared : new[h] = live'[h]
      <4> SUFFICES ASSUME NEW h \in copy.shared PROVE new[h] = live'[h]
        OBVIOUS
      <4>1. copy.arrays[h] = live[h] /\ h \in Hosts
        BY <1>2, <2>1 DEF CopyFits
      <4> QED BY <1>1, <1>2, <2>1, <4>1 DEF StorageTypeOK, Arrays
    <3> HIDE DEF new
    <3>4. /\ copy' \in Copies /\ copy'.arrays = new /\ copy'.shared = copy.shared
          /\ copy'.table = copy.table /\ copy'.had = copy.had /\ copy'.torn = copy.torn \cup {t}
      BY <2>1, <3>1, <3>2 DEF Copies
    <3>5. \A u \in Held : u # t => \A h \in Hosts : new[h][u] = copy.arrays[h][u]
      BY <3>2
    <3>6. BackupFits(copy)'
      BY <1>2, <3>4, <3>5, KeepsHolding DEF CopyFits
    <3> QED BY <3>3, <3>4, <3>6 DEF CopyFits
  <2> QED BY <2>2, <2>3
<1>7. StorageTypeOK' /\ (ok => rows'[t] = Queued)
  BY <1>1, <1>2, <1>3, <1>5, <1>6, TableRows DEF StorageTypeOK
<1>8. Matched(t)'
  <2>1. CASE t \in loose'
    BY <2>1 DEF Matched
  <2>2. CASE t \notin loose'
    <3>1. ok
      BY <1>1, <2>2
    <3>2. \A h \in Hosts : live[h][t] # "none" => h = s
      <4>1. CASE t \in loose
        BY <1>1, <1>5, <2>2, <3>1, <4>1 DEF Twice
      <4>2. CASE t \notin loose
        BY <1>2, <1>5, <4>2, HeldOnce
      <4> QED BY <4>1, <4>2
    <3>3. \A h \in Hosts : live'[h][t] = "none"
      BY <1>5, <3>2
    <3> QED BY <1>7, <3>1, <3>3, TableRows DEF Matched
  <2> QED BY <2>1, <2>2
<1>9. (\A u \in Held : Matched(u))'
  <2>1. \A u \in Held \ {t} : /\ rows'[u] = rows[u] /\ (u \in loose => u \in loose')
                              /\ \A h \in Hosts : live'[h][u] = live[h][u]
    BY <1>1, <1>2, <1>5 DEF StorageTypeOK
  <2> QED BY <1>2, <1>8, <2>1, OneTaskChanges
<1> QED BY <1>4, <1>6, <1>7, <1>9 DEF StorageInv

LEMMA RequeueStubTasksStep ==
  ASSUME StorageInv, NEW s \in Hosts, RequeueStubTasks(s)
  PROVE  StorageInv'
<1> DEFINE Back == RequeuedOf(s)
<1>1. /\ Up /\ UNCHANGED <<files, serving>>
      /\ live' = [live EXCEPT ![s] = [t \in Held |-> IF t \in Back THEN "none" ELSE @[t]]]
      /\ copy' = IF s \in copy.shared
                 THEN [copy EXCEPT !.arrays[s] = [t \in Held |-> IF t \in Back THEN "pending" ELSE @[t]],
                                   !.shared = @ \ {s}]
                 ELSE copy
      /\ rows' = [t \in Held |-> IF t \in Back THEN Queued ELSE rows[t]]
      /\ loose' = loose \ (Back \ Twice(live))
  BY DEF RequeueStubTasks
<1>2. StorageTypeOK /\ CopyFits /\ FilesFit /\ BetweenCommits /\ \A u \in Held : Matched(u)
  BY <1>1 DEF StorageInv, Up
<1>3. Back \subseteq Held /\ \A t \in Back : live[s][t] = "assigned"
  BY DEF RequeuedOf
<1> HIDE DEF Back
<1>4. FilesFit' /\ BetweenCommits'
  BY <1>1, <1>2, SameFiles DEF Up
<1>5. /\ live' \in Arrays
      /\ \A t \in Back : live'[s][t] = "none"
      /\ \A h \in Hosts, u \in Held : ~(h = s /\ u \in Back) => live'[h][u] = live[h][u]
      /\ \A h \in Hosts \ {s} : live'[h] = live[h]
  BY <1>1, <1>2, <1>3 DEF StorageTypeOK, Arrays, Statuses
<1>6. copy' \in Copies /\ CopyFits'
  <2>1. copy \in Copies /\ copy.arrays \in Arrays /\ copy.shared \subseteq Hosts
    BY <1>2 DEF StorageTypeOK, Copies
  <2>2. CASE s \notin copy.shared
    <3>1. copy' = copy
      BY <1>1, <2>2
    <3>2. \A h \in copy.shared : live'[h] = live[h]
      BY <1>5, <2>1, <2>2
    <3> QED BY <1>2, <2>1, <3>1, <3>2 DEF CopyFits, BackupFits
  <2>3. CASE s \in copy.shared
    <3> DEFINE new == [copy.arrays EXCEPT ![s] = [t \in Held |-> IF t \in Back THEN "pending" ELSE copy.arrays[s][t]]]
    <3>1. copy' = [copy EXCEPT !.arrays = new, !.shared = copy.shared \ {s}]
      BY <1>1, <2>1, <2>3 DEF Copies, Arrays
    <3>2. /\ new \in Arrays
          /\ \A t \in Back : new[s][t] = "pending"
          /\ \A h \in Hosts, u \in Held : ~(h = s /\ u \in Back) => new[h][u] = copy.arrays[h][u]
          /\ \A h \in Hosts \ {s} : new[h] = copy.arrays[h]
      BY <1>3, <2>1 DEF Arrays, Statuses
    <3> HIDE DEF new
    <3>3. /\ copy' \in Copies /\ copy'.arrays = new /\ copy'.shared = copy.shared \ {s}
          /\ copy'.table = copy.table /\ copy'.had = copy.had /\ copy'.torn = copy.torn
      BY <2>1, <3>1, <3>2 DEF Copies
    <3>4. \A h \in copy'.shared : copy'.arrays[h] = live'[h]
      BY <1>2, <1>5, <2>1, <3>2, <3>3 DEF CopyFits
    <3>5. \A u \in Held, h \in Hosts : copy.arrays[h][u] # "none" => new[h][u] # "none"
      BY <3>2
    <3>6. BackupFits(copy)'
      BY <1>2, <3>3, <3>5, KeepsHolding DEF CopyFits
    <3> QED BY <3>3, <3>4, <3>6 DEF CopyFits
  <2> QED BY <2>2, <2>3
<1>7. /\ rows' \in [Held -> Rows] /\ loose' \subseteq loose
      /\ \A u \in Held : rows'[u] = IF u \in Back THEN Queued ELSE rows[u]
  BY <1>1, <1>2, TableRows DEF StorageTypeOK
<1>8. StorageTypeOK'
  BY <1>1, <1>2, <1>5, <1>6, <1>7 DEF StorageTypeOK
<1>9. ASSUME NEW u \in Held PROVE Matched(u)'
  <2>1. CASE u \in loose'
    BY <2>1 DEF Matched
  <2>2. CASE u \notin loose' /\ u \in Back
    <3>1. live[s][u] # "none" /\ rows'[u] = Queued /\ Matched(u)
      BY <1>2, <1>3, <1>7, <2>2
    <3>2. \A h \in Hosts : live[h][u] # "none" => h = s
      <4>1. CASE u \in loose
        <5>1. u \notin Twice(live)
          BY <1>1, <2>2, <4>1
        <5> QED BY <3>1, <5>1 DEF Twice
      <4>2. CASE u \notin loose
        BY <1>2, <3>1, <4>2, HeldOnce
      <4> QED BY <4>1, <4>2
    <3>3. \A h \in Hosts : live'[h][u] = "none"
      BY <1>5, <2>2, <3>2
    <3> QED BY <3>1, <3>3, TableRows DEF Matched
  <2>3. CASE u \notin loose' /\ u \notin Back
    <3>1. u \notin loose /\ rows'[u] = rows[u] /\ \A h \in Hosts : live'[h][u] = live[h][u]
      BY <1>1, <1>5, <1>7, <2>3
    <3>2. /\ \A h \in Hosts : live[h][u] # "none" => rows[u] = OnHost(h, live[h][u])
          /\ rows[u].at = "stub" => rows[u].host \in Hosts /\ live[rows[u].host][u] = rows[u].st
      BY <1>2, <3>1 DEF Matched
    <3>3. /\ \A h \in Hosts : live'[h][u] # "none" => rows'[u] = OnHost(h, live'[h][u])
          /\ rows'[u].at = "stub" => rows'[u].host \in Hosts /\ live'[rows'[u].host][u] = rows'[u].st
      BY <3>1, <3>2
    <3> QED BY <3>3 DEF Matched, OnHost
  <2> QED BY <2>1, <2>2, <2>3
<1> QED BY <1>4, <1>6, <1>8, <1>9 DEF StorageInv

\* Of a task whose row is on no stub, the arrays hold nothing, unless that is known.
LEMMA OffArrays ==
  ASSUME StorageTypeOK, NEW t \in Held, Matched(t), rows[t].at # "stub"
  PROVE  t \in loose \/ \A h \in Hosts : live[h][t] = "none"
<1>1. \A h \in Hosts : live[h][t] \in Statuses
  BY DEF StorageTypeOK, Arrays
<1> QED BY <1>1, TableRows DEF Matched

\* A step that writes the row of a task which is on no array and stays on none.
LEMMA RowRewritten ==
  ASSUME StorageTypeOK, CopyFits, \A u \in Held : Matched(u), NEW t \in Held, rows[t].at # "stub",
         NEW r \in {Absent, Queued, Over}, rows' = [rows EXCEPT ![t] = r], UNCHANGED <<live, copy, loose>>
  PROVE  rows' \in [Held -> Rows] /\ rows'[t] = r /\ CopyFits' /\ (\A u \in Held : Matched(u))'
<1>1. rows' \in [Held -> Rows] /\ rows'[t] = r /\ r.at # "stub"
  BY TableRows DEF StorageTypeOK
<1>2. CopyFits'
  BY DEF CopyFits, BackupFits
<1>3. t \in loose \/ \A h \in Hosts : live[h][t] = "none"
  BY OffArrays
<1>4. Matched(t)'
  BY <1>1, <1>3 DEF Matched
<1>5. \A u \in Held \ {t} : /\ rows'[u] = rows[u] /\ (u \in loose => u \in loose')
                            /\ \A h \in Hosts : live'[h][u] = live[h][u]
  BY DEF StorageTypeOK
<1> QED BY <1>1, <1>2, <1>4, <1>5, OneTaskChanges

LEMMA EndQueuedStep ==
  ASSUME StorageInv, NEW t \in Held, EndQueued(t)
  PROVE  StorageInv'
<1>1. /\ Up /\ rows[t] = Queued /\ rows' = [rows EXCEPT ![t] = Over]
      /\ UNCHANGED <<live, copy, files, serving, loose>>
  BY DEF EndQueued
<1>2. StorageTypeOK /\ CopyFits /\ FilesFit /\ BetweenCommits /\ \A u \in Held : Matched(u)
  BY <1>1 DEF StorageInv, Up
<1>3. rows[t].at # "stub"
  BY <1>1, TableRows
<1>4. rows' \in [Held -> Rows] /\ CopyFits' /\ (\A u \in Held : Matched(u))'
  BY <1>1, <1>2, <1>3, RowRewritten
<1>5. StorageTypeOK'
  BY <1>1, <1>2, <1>4 DEF StorageTypeOK
<1>6. FilesFit' /\ BetweenCommits'
  BY <1>1, <1>2, SameFiles DEF Up
<1> QED BY <1>4, <1>5, <1>6 DEF StorageInv

LEMMA RequeueArchivedStep ==
  ASSUME StorageInv, NEW t \in Held, RequeueArchived(t)
  PROVE  StorageInv'
<1>1. /\ Up /\ rows[t] = Over /\ rows' = [rows EXCEPT ![t] = Absent]
      /\ serving' = [serving EXCEPT !.pc = "moving", !.on = {t}, !.host = NoHost]
      /\ UNCHANGED <<live, copy, files, loose>>
  BY DEF RequeueArchived
<1>2. StorageTypeOK /\ CopyFits /\ FilesFit /\ \A u \in Held : Matched(u)
  BY <1>1 DEF StorageInv, Up
<1>3. serving' \in Servings /\ serving'.pc = "moving" /\ serving'.on = {t} /\ serving'.saved = serving.saved
  BY <1>1, <1>2 DEF StorageTypeOK, Servings
<1>4. rows' \in [Held -> Rows] /\ rows'[t] = Absent /\ CopyFits' /\ (\A u \in Held : Matched(u))'
  <2>1. rows[t].at # "stub"
    BY <1>1, TableRows
  <2> QED BY <1>1, <1>2, <2>1, RowRewritten
<1>5. StorageTypeOK'
  BY <1>1, <1>2, <1>3, <1>4 DEF StorageTypeOK
<1>6. FilesFit' /\ BetweenCommits'
  BY <1>1, <1>2, <1>3, <1>4 DEF FilesFit, BetweenCommits, BackupFits
<1> QED BY <1>3, <1>4, <1>5, <1>6 DEF StorageInv

LEMMA RequeueEndsStep ==
  ASSUME StorageInv, NEW ok \in BOOLEAN, RequeueEnds(ok)
  PROVE  StorageInv'
<1>1. PICK t \in serving.on :
        /\ serving.pc = "moving" /\ serving.host = NoHost
        /\ ok \/ serving.slips > 0
        /\ serving' = [serving EXCEPT !.pc = "up", !.on = {}, !.slips = IF ok THEN @ ELSE @ - 1]
        /\ IF ok THEN rows' = [rows EXCEPT ![t] = Queued] /\ UNCHANGED loose
           ELSE loose' = loose \cup {t} /\ UNCHANGED rows
        /\ UNCHANGED <<live, copy, files>>
  BY DEF RequeueEnds
<1>2. /\ StorageTypeOK /\ CopyFits /\ FilesFit /\ (\A u \in Held : Matched(u))
      /\ rows[t] = Absent /\ t \in Held
  BY <1>1 DEF StorageInv, BetweenCommits, StorageTypeOK, Servings
<1>3. serving' \in Servings /\ serving'.pc = "up" /\ serving'.saved = serving.saved
  <2>1. serving \in Servings
    BY <1>2 DEF StorageTypeOK
  <2>2. CASE ok
    <3>1. serving' = [serving EXCEPT !.pc = "up", !.on = {}, !.slips = serving.slips]
      BY <1>1, <2>1, <2>2 DEF Servings
    <3> QED BY <2>1, <3>1 DEF Servings
  <2>3. CASE ~ok
    <3>1. serving' = [serving EXCEPT !.pc = "up", !.on = {}, !.slips = serving.slips - 1]
      BY <1>1, <2>1, <2>3 DEF Servings
    <3>2. serving.slips - 1 \in Nat
      BY <1>1, <2>1, <2>3 DEF Servings
    <3> QED BY <2>1, <3>1, <3>2 DEF Servings
  <2> QED BY <2>2, <2>3
<1>4. FilesFit' /\ BetweenCommits'
  BY <1>1, <1>2, <1>3 DEF FilesFit, BetweenCommits, BackupFits
<1>5. CASE ok
  <2>1. rows[t].at # "stub"
    BY <1>2, TableRows
  <2>2. rows' \in [Held -> Rows] /\ CopyFits' /\ (\A u \in Held : Matched(u))'
    BY <1>1, <1>2, <1>5, <2>1, RowRewritten
  <2>3. StorageTypeOK'
    BY <1>1, <1>2, <1>3, <1>5, <2>2 DEF StorageTypeOK
  <2> QED BY <1>4, <2>2, <2>3 DEF StorageInv
<1>6. CASE ~ok
  <2>1. StorageTypeOK' /\ CopyFits'
    BY <1>1, <1>2, <1>3, <1>6 DEF StorageTypeOK, CopyFits, BackupFits
  <2>2. Matched(t)'
    BY <1>1, <1>6 DEF Matched
  <2>3. \A u \in Held \ {t} : /\ rows'[u] = rows[u] /\ (u \in loose => u \in loose')
                              /\ \A h \in Hosts : live'[h][u] = live[h][u]
    BY <1>1, <1>6
  <2>4. (\A u \in Held : Matched(u))'
    BY <1>2, <2>2, <2>3, OneTaskChanges
  <2> QED BY <1>4, <2>1, <2>4 DEF StorageInv
<1> QED BY <1>5, <1>6

LEMMA ExportStateStep ==
  ASSUME StorageInv, ExportState
  PROVE  StorageInv'
<1>1. /\ Up /\ serving.backups > 0 /\ serving' = [serving EXCEPT !.backups = @ - 1]
      /\ copy' = [pc |-> "exported", table |-> Unhosted, arrays |-> live, shared |-> Hosts,
                  had |-> {t \in Held : Unhosted[t] # Absent} \cup OnArrays(live), torn |-> {}]
      /\ UNCHANGED <<rows, live, files, loose>>
  BY DEF ExportState
<1>2. StorageTypeOK /\ FilesFit /\ BetweenCommits /\ \A u \in Held : Matched(u)
  BY <1>1 DEF StorageInv, Up
<1>3. serving' \in Servings /\ serving'.pc = "up" /\ serving'.saved = serving.saved
  BY <1>1, <1>2 DEF StorageTypeOK, Servings, Up
<1>4. Unhosted \in [Held -> Rows] /\ \A t \in Held : Unhosted[t].at # "stub"
  BY <1>2, TableRows DEF StorageTypeOK, Unhosted
<1>5. copy' \in Copies
  <2>1. OnArrays(live) \subseteq Held
    BY DEF OnArrays
  <2> QED BY <1>1, <1>2, <1>4, <2>1 DEF Copies, StorageTypeOK
<1>6. BackupFits(copy)'
  <2> SUFFICES ASSUME NEW u \in Held
               PROVE /\ copy'.table[u].at # "stub"
                     /\ u \in copy'.had \ copy'.torn =>
                          copy'.table[u] # Absent \/ \E h \in Hosts : copy'.arrays[h][u] # "none"
    BY DEF BackupFits, Absent
  <2>1. copy'.table = Unhosted /\ copy'.arrays = live
    BY <1>1
  <2>2. u \in copy'.had => Unhosted[u] # Absent \/ u \in OnArrays(live)
    BY <1>1
  <2> QED BY <1>4, <2>1, <2>2 DEF OnArrays
<1>7. CopyFits'
  BY <1>1, <1>6 DEF CopyFits
<1>8. StorageTypeOK'
  BY <1>1, <1>2, <1>3, <1>5 DEF StorageTypeOK
<1>9. FilesFit' /\ BetweenCommits'
  BY <1>1, <1>2, <1>3, SameFiles
<1>10. (\A u \in Held : Matched(u))'
  BY <1>1, <1>2 DEF Matched
<1> QED BY <1>7, <1>8, <1>9, <1>10 DEF StorageInv

LEMMA SerialiseStep ==
  ASSUME StorageInv, Serialise
  PROVE  StorageInv'
<1>1. /\ Up /\ copy' = [copy EXCEPT !.pc = "text", !.shared = {}]
      /\ UNCHANGED <<rows, live, files, serving, loose>>
  BY DEF Serialise
<1>2. StorageTypeOK /\ CopyFits /\ FilesFit /\ BetweenCommits /\ \A u \in Held : Matched(u)
  BY <1>1 DEF StorageInv, Up
<1>3. /\ copy' \in Copies /\ copy'.shared = {} /\ copy'.arrays = copy.arrays /\ copy'.table = copy.table
      /\ copy'.had = copy.had /\ copy'.torn = copy.torn
  BY <1>1, <1>2 DEF StorageTypeOK, Copies
<1>4. CopyFits'
  BY <1>2, <1>3, KeepsHolding DEF CopyFits
<1>5. StorageTypeOK'
  BY <1>1, <1>2, <1>3 DEF StorageTypeOK
<1>6. FilesFit' /\ BetweenCommits'
  BY <1>1, <1>2, SameFiles DEF Up
<1>7. (\A u \in Held : Matched(u))'
  BY <1>1, <1>2 DEF Matched
<1> QED BY <1>4, <1>5, <1>6, <1>7 DEF StorageInv

LEMMA NothingCopied == NoCopy \in Copies /\ BackupFits(NoCopy) /\ NoCopy.shared = {}
<1>1. NoTable \in [Held -> Rows] /\ \A t \in Held : NoTable[t] = Absent
  BY TableRows DEF NoTable
<1>2. Empty \in Arrays
  BY DEF Empty, Arrays, Statuses
<1>3. /\ NoCopy.pc = "none" /\ NoCopy.table = NoTable /\ NoCopy.arrays = Empty
      /\ NoCopy.shared = {} /\ NoCopy.had = {} /\ NoCopy.torn = {}
  BY DEF NoCopy
<1>4. NoCopy \in Copies
  BY <1>1, <1>2 DEF NoCopy, Copies
<1>5. BackupFits(NoCopy)
  BY <1>1, <1>3, TableRows DEF BackupFits
<1> QED BY <1>3, <1>4, <1>5

\* What is written is what was copied, and it fits as the copy did.
LEMMA FileOfCopy ==
  ASSUME StorageTypeOK, CopyFits, NEW whole \in BOOLEAN
  PROVE  File(whole) \in Files /\ BackupFits(File(whole)) /\ File(whole).whole = whole
<1>1. /\ File(whole).table = copy.table /\ File(whole).arrays = copy.arrays
      /\ File(whole).had = copy.had /\ File(whole).torn = copy.torn /\ File(whole).whole = whole
  BY DEF File
<1>2. File(whole) \in Files
  BY DEF StorageTypeOK, Copies, Files, File
<1>3. BackupFits(File(whole))
  BY <1>1 DEF CopyFits, BackupFits
<1> QED BY <1>1, <1>2, <1>3

LEMMA PrependedFile ==
  ASSUME NEW f \in Files, NEW fs \in Seq(Files), NEW all, all = <<f>> \o fs
  PROVE  /\ all \in Seq(Files) /\ Len(all) = Len(fs) + 1 /\ all[1] = f
         /\ \A k \in DOMAIN all : k = 1 \/ (k - 1 \in DOMAIN fs /\ all[k] = fs[k - 1])
         /\ \A k \in DOMAIN fs : k + 1 \in DOMAIN all /\ all[k + 1] = fs[k]
<1>1. all \in Seq(Files) /\ Len(all) = Len(fs) + 1 /\ all[1] = f
  OBVIOUS
<1>2. \A k \in 2 .. Len(all) : k - 1 \in DOMAIN fs /\ all[k] = fs[k - 1]
  OBVIOUS
<1>3. DOMAIN all = 1 .. Len(all) /\ DOMAIN fs = 1 .. Len(fs) /\ Len(fs) \in Nat
  BY <1>1
<1>4. \A k \in DOMAIN all : k = 1 \/ k \in 2 .. Len(all)
  BY <1>1, <1>3
<1>5. ASSUME NEW k \in DOMAIN fs PROVE k + 1 \in DOMAIN all /\ all[k + 1] = fs[k]
  <2>1. k + 1 \in 2 .. Len(all) /\ (k + 1) - 1 = k
    BY <1>1, <1>3
  <2> QED BY <1>2, <1>3, <2>1
<1> QED BY <1>1, <1>2, <1>4, <1>5

LEMMA FileWrittenStep ==
  ASSUME StorageInv, FileWritten
  PROVE  StorageInv'
<1>1. /\ Up /\ files' = Pruned(<<File(TRUE)>> \o files) /\ copy' = NoCopy
      /\ serving' = [serving EXCEPT !.saved = TRUE] /\ UNCHANGED <<rows, live, loose>>
  BY DEF FileWritten
<1>2. StorageTypeOK /\ CopyFits /\ FilesFit /\ BetweenCommits /\ \A u \in Held : Matched(u)
  BY <1>1 DEF StorageInv, Up
<1>3. serving' \in Servings /\ serving'.pc = "up"
  BY <1>1, <1>2 DEF StorageTypeOK, Servings, Up
<1>4. File(TRUE) \in Files /\ BackupFits(File(TRUE)) /\ File(TRUE).whole
  BY <1>2, FileOfCopy
<1>5. PICK f \in Files : f = File(TRUE)
  BY <1>4
<1> DEFINE all == <<f>> \o files
<1>6. /\ files \in Seq(Files) /\ all \in Seq(Files) /\ Len(all) = Len(files) + 1 /\ all[1] = f
      /\ \A k \in 2 .. Len(all) : all[k] = files[k - 1] /\ k - 1 \in DOMAIN files
  BY <1>2 DEF StorageTypeOK
<1>7. PICK n \in Nat : n \in 1 .. Len(all) /\ files' = SubSeq(all, 1, n)
  <2> HIDE DEF all
  <2>1. files' = Pruned(all)
    BY <1>1, <1>5 DEF all
  <2>2. KeepCount \in Nat \ {0} /\ Len(all) \in Nat \ {0}
    BY <1>6, StorageAssumption
  <2>3. (IF Len(all) < KeepCount THEN Len(all) ELSE KeepCount) \in 1 .. Len(all)
    BY <2>2
  <2> QED BY <2>1, <2>2, <2>3 DEF Pruned
<1>8. files' \in Seq(Files) /\ DOMAIN files' = 1 .. n /\ \A k \in 1 .. n : files'[k] = all[k]
  <2> HIDE DEF all
  <2> QED BY <1>6, <1>7
<1>9. \A k \in DOMAIN files' : files'[k] = f \/ \E j \in DOMAIN files : files'[k] = files[j]
  <2> SUFFICES ASSUME NEW k \in 1 .. n PROVE files'[k] = f \/ \E j \in DOMAIN files : files'[k] = files[j]
    BY <1>8
  <2> HIDE DEF all
  <2>1. CASE k = 1
    BY <1>6, <1>8, <2>1
  <2>2. CASE k # 1
    <3>1. k \in 2 .. Len(all)
      BY <1>6, <1>7, <2>2
    <3> QED BY <1>6, <1>8, <3>1
  <2> QED BY <2>1, <2>2
<1>10. FilesFit'
  <2>1. \A k \in DOMAIN files : BackupFits(files[k])
    BY <1>2 DEF FilesFit
  <2>2. \A k \in DOMAIN files' : BackupFits(files'[k])
    BY <1>4, <1>5, <1>9, <2>1
  <2>3. 1 \in DOMAIN files' /\ files'[1].whole
    <3>1. 1 \in 1 .. n
      BY <1>7
    <3>2. files'[1] = f
      BY <1>6, <1>8, <3>1
    <3> QED BY <1>4, <1>5, <1>8, <3>1, <3>2
  <2> QED BY <2>2, <2>3 DEF FilesFit, BackupFits, Absent
<1>11. CopyFits'
  BY <1>1, NothingCopied DEF CopyFits, BackupFits, Absent
<1>12. StorageTypeOK'
  BY <1>1, <1>2, <1>3, <1>8, NothingCopied DEF StorageTypeOK
<1>13. BetweenCommits' /\ (\A u \in Held : Matched(u))'
  BY <1>1, <1>2, <1>3 DEF BetweenCommits, Matched
<1> QED BY <1>10, <1>11, <1>12, <1>13 DEF StorageInv

LEMMA LoadFromStateStep ==
  ASSUME StorageInv, NEW k, LoadFromState(k)
  PROVE  StorageInv'
<1>1. /\ k \in DOMAIN files /\ rows' = NoTable /\ live' = Empty /\ loose' = {}
      /\ copy' = [copy EXCEPT !.shared = {}]
      /\ serving' = [serving EXCEPT !.pc = "cleared", !.from = k] /\ UNCHANGED files
  BY DEF LoadFromState
<1>2. StorageTypeOK /\ CopyFits /\ FilesFit
  BY DEF StorageInv
<1>3. k \in Nat
  BY <1>1, <1>2 DEF StorageTypeOK
<1>4. /\ serving' \in Servings /\ serving'.pc = "cleared" /\ serving'.from = k
      /\ serving'.saved = serving.saved
  BY <1>1, <1>2, <1>3 DEF StorageTypeOK, Servings
<1>5. /\ copy' \in Copies /\ copy'.shared = {} /\ copy'.arrays = copy.arrays /\ copy'.table = copy.table
      /\ copy'.had = copy.had /\ copy'.torn = copy.torn
  BY <1>1, <1>2 DEF StorageTypeOK, Copies
<1>6. CopyFits'
  BY <1>2, <1>5, KeepsHolding DEF CopyFits
<1>7. NoTable \in [Held -> Rows] /\ Empty \in Arrays
  BY TableRows DEF NoTable, Empty, Arrays, Statuses
<1>8. StorageTypeOK'
  BY <1>1, <1>2, <1>4, <1>5, <1>7 DEF StorageTypeOK
<1>9. FilesFit' /\ BetweenCommits'
  <2>1. \A t \in Held : rows'[t] = NoTable[t] /\ NoTable[t] = Absent
    BY <1>1 DEF NoTable
  <2>2. FilesFit'
    BY <1>1, <1>2, <1>4 DEF FilesFit, BackupFits
  <2> QED BY <1>1, <1>4, <1>5, <2>1, <2>2 DEF BetweenCommits, Absent
<1> QED BY <1>4, <1>6, <1>8, <1>9 DEF StorageInv

\* What a task becomes when a backup is restored, but for those it has torn, twice or pending.
LEMMA RestoredRow ==
  ASSUME NEW f, f.arrays \in Arrays, f.table \in [Held -> Rows], BackupFits(f),
         NEW last \in LastOf(f), NEW t \in Held, t \notin Twice(f.arrays),
         \A s \in Hosts : f.arrays[s][t] # "pending"
  PROVE  /\ Applied(f, last)[t] \in Rows
         /\ \A s \in Hosts : f.arrays[s][t] \in Statuses \ {"none", "done"} =>
              Applied(f, last)[t] = OnHost(s, f.arrays[s][t])
         /\ Applied(f, last)[t].at = "stub" =>
              /\ Applied(f, last)[t].host \in Hosts
              /\ f.arrays[Applied(f, last)[t].host][t] = Applied(f, last)[t].st
              /\ Applied(f, last)[t].st # "done"
<1>1. last \in [Held -> Hosts] /\ last[t] \in Hosts
  BY DEF LastOf
<1>2. PICK st \in Statuses : st = f.arrays[last[t]][t]
  BY <1>1 DEF Arrays
<1>3. Applied(f, last)[t] = IF st = "none" THEN f.table[t] ELSE RowOf(st, last[t])
  BY <1>2 DEF Applied
<1>4. \A s \in Hosts : f.arrays[s][t] # "none" => s = last[t]
  <2> SUFFICES ASSUME NEW s \in Hosts, f.arrays[s][t] # "none" PROVE s = last[t]
    OBVIOUS
  <2>1. s \in Holding(f, t)
    BY DEF Holding
  <2>2. last[t] \in Holding(f, t)
    BY <2>1 DEF LastOf
  <2> QED BY <1>1, <2>1, <2>2 DEF Holding, Twice
<1>5. CASE st = "none"
  <2>1. Applied(f, last)[t] = f.table[t] /\ f.table[t] \in Rows /\ f.table[t].at # "stub"
    BY <1>3, <1>5 DEF BackupFits
  <2>2. \A s \in Hosts : f.arrays[s][t] = "none"
    BY <1>2, <1>4, <1>5
  <2> QED BY <2>1, <2>2
<1>6. CASE st = "done"
  <2>1. Applied(f, last)[t] = Over
    BY <1>3, <1>6 DEF RowOf
  <2>2. \A s \in Hosts : f.arrays[s][t] \in {"none", "done"}
    BY <1>2, <1>4, <1>6
  <2> QED BY <2>1, <2>2, TableRows
<1>7. CASE st \notin {"none", "done"}
  <2>1. st # "pending"
    BY <1>1, <1>2
  <2>2. Applied(f, last)[t] = OnHost(last[t], st)
    BY <1>3, <1>7, <2>1 DEF RowOf
  <2>3. /\ OnHost(last[t], st) \in Rows /\ OnHost(last[t], st).host = last[t]
        /\ OnHost(last[t], st).st = st
    BY <1>1, TableRows
  <2>4. \A s \in Hosts : f.arrays[s][t] # "none" => s = last[t] /\ f.arrays[s][t] = st
    BY <1>2, <1>4
  <2> QED BY <1>1, <1>2, <1>7, <2>2, <2>3, <2>4
<1> QED BY <1>5, <1>6, <1>7

LEMMA RestoredTable ==
  ASSUME NEW f, f.arrays \in Arrays, f.table \in [Held -> Rows], NEW last \in LastOf(f)
  PROVE  Applied(f, last) \in [Held -> Rows]
<1> SUFFICES ASSUME NEW t \in Held
             PROVE (IF f.arrays[last[t]][t] = "none" THEN f.table[t]
                    ELSE RowOf(f.arrays[last[t]][t], last[t])) \in Rows
  BY DEF Applied
<1>1. last[t] \in Hosts
  BY DEF LastOf
<1>2. PICK st \in Statuses : st = f.arrays[last[t]][t]
  BY <1>1 DEF Arrays
<1>3. OnHost(NoHost, st) \in Rows /\ OnHost(last[t], st) \in Rows
  BY <1>1 DEF OnHost, Rows
<1>4. RowOf(st, last[t]) \in Rows
  BY <1>3, TableRows DEF RowOf
<1> QED BY <1>2, <1>4

LEMMA ApplyStateStep ==
  ASSUME StorageInv, ApplyState
  PROVE  StorageInv'
<1>1. serving.pc = "cleared" /\ serving.from \in DOMAIN files /\ StorageTypeOK /\ CopyFits /\ FilesFit
  BY DEF StorageInv, BetweenCommits, ApplyState
<1>2. PICK f \in Files : f = files[serving.from]
  BY <1>1 DEF StorageTypeOK
<1>3. PICK last \in LastOf(f) : rows' = Applied(f, last)
  BY <1>2 DEF ApplyState
<1>4. /\ live' = [s \in Hosts |-> [t \in Held |-> IF f.arrays[s][t] = "done" THEN "none" ELSE f.arrays[s][t]]]
      /\ loose' = f.torn \cup Twice(f.arrays) \cup {t \in Held : \E s \in Hosts : f.arrays[s][t] = "pending"}
      /\ serving' = [serving EXCEPT !.pc = "up", !.from = 0]
      /\ UNCHANGED <<copy, files>>
  BY <1>2 DEF ApplyState
<1>5. serving' \in Servings /\ serving'.pc = "up" /\ serving'.saved = serving.saved
  BY <1>1, <1>4 DEF StorageTypeOK, Servings
<1>6. f.arrays \in Arrays /\ f.table \in [Held -> Rows] /\ f.torn \subseteq Held /\ BackupFits(f)
  BY <1>1, <1>2 DEF FilesFit, Files
<1>7. rows' \in [Held -> Rows] /\ loose' \subseteq Held
  <2>1. Twice(f.arrays) \subseteq Held
    BY DEF Twice
  <2> QED BY <1>3, <1>4, <1>6, <2>1, RestoredTable
<1>8. live' \in Arrays /\ \A s \in Hosts, t \in Held :
        live'[s][t] = IF f.arrays[s][t] = "done" THEN "none" ELSE f.arrays[s][t]
  BY <1>4, <1>6 DEF Arrays, Statuses
<1>9. CopyFits'
  <2>1. copy.shared = {}
    BY <1>1 DEF StorageInv, BetweenCommits
  <2> QED BY <1>1, <1>4, <2>1 DEF CopyFits, BackupFits
<1>10. StorageTypeOK'
  BY <1>1, <1>4, <1>5, <1>7, <1>8 DEF StorageTypeOK
<1>11. FilesFit' /\ BetweenCommits'
  BY <1>1, <1>4, <1>5 DEF FilesFit, BetweenCommits, BackupFits
<1>12. ASSUME NEW t \in Held PROVE Matched(t)'
  <2>1. CASE t \in loose'
    BY <2>1 DEF Matched
  <2>2. CASE t \notin loose'
    <3>1. t \notin Twice(f.arrays) /\ \A s \in Hosts : f.arrays[s][t] # "pending"
      BY <1>4, <2>2
    <3>2. /\ \A s \in Hosts : f.arrays[s][t] \in Statuses \ {"none", "done"} =>
               rows'[t] = OnHost(s, f.arrays[s][t])
          /\ rows'[t].at = "stub" =>
               /\ rows'[t].host \in Hosts
               /\ f.arrays[rows'[t].host][t] = rows'[t].st
               /\ rows'[t].st # "done"
      BY <1>3, <1>6, <3>1, RestoredRow
    <3>3. \A s \in Hosts : f.arrays[s][t] \in Statuses
      BY <1>6 DEF Arrays
    <3>4. /\ \A s \in Hosts : live'[s][t] # "none" => rows'[t] = OnHost(s, live'[s][t])
          /\ rows'[t].at = "stub" => rows'[t].host \in Hosts /\ live'[rows'[t].host][t] = rows'[t].st
      BY <1>8, <3>2, <3>3
    <3> QED BY <3>4 DEF Matched, OnHost
  <2> QED BY <2>1, <2>2
<1> QED BY <1>9, <1>10, <1>11, <1>12 DEF StorageInv

LEMMA ApplyFailsStep ==
  ASSUME StorageInv, ApplyFails
  PROVE  StorageInv'
<1>1. /\ serving.pc = "cleared" /\ serving.slips > 0
      /\ live' \in {Empty, files[serving.from].arrays} /\ loose' = OnArrays(live')
      /\ serving' = [serving EXCEPT !.pc = "up", !.from = 0, !.slips = @ - 1]
      /\ UNCHANGED <<rows, copy, files>>
  BY DEF ApplyFails
<1>2. StorageTypeOK /\ CopyFits /\ FilesFit /\ serving.from \in DOMAIN files /\ copy.shared = {}
  BY <1>1 DEF StorageInv, BetweenCommits
<1>3. serving' \in Servings /\ serving'.pc = "up" /\ serving'.saved = serving.saved
  <2>1. serving \in Servings /\ serving.slips - 1 \in Nat
    BY <1>1, <1>2 DEF StorageTypeOK, Servings
  <2> QED BY <1>1, <2>1 DEF Servings
<1>4. live' \in Arrays
  <2>1. Empty \in Arrays
    BY DEF Empty, Arrays, Statuses
  <2>2. files[serving.from] \in Files
    BY <1>2 DEF StorageTypeOK
  <2>3. files[serving.from].arrays \in Arrays
    BY <2>2 DEF Files
  <2> QED BY <1>1, <2>1, <2>3
<1>5. CopyFits'
  BY <1>1, <1>2 DEF CopyFits, BackupFits
<1>6. StorageTypeOK'
  <2>1. loose' \subseteq Held
    BY <1>1 DEF OnArrays
  <2> QED BY <1>1, <1>2, <1>3, <1>4, <2>1 DEF StorageTypeOK
<1>7. FilesFit' /\ BetweenCommits'
  BY <1>1, <1>2, <1>3 DEF FilesFit, BetweenCommits, BackupFits
<1>8. \A t \in Held : rows[t] = Absent
  BY <1>1 DEF StorageInv, BetweenCommits
<1>9. ASSUME NEW t \in Held PROVE Matched(t)'
  <2>1. CASE t \in loose'
    BY <2>1 DEF Matched
  <2>2. CASE t \notin loose'
    <3>1. \A s \in Hosts : live'[s][t] = "none"
      BY <1>1, <2>2 DEF OnArrays
    <3> QED BY <1>1, <1>8, <3>1, TableRows DEF Matched
  <2> QED BY <2>1, <2>2
<1> QED BY <1>5, <1>6, <1>7, <1>9 DEF StorageInv

LEMMA CrashStep ==
  ASSUME StorageInv, Crash
  PROVE  StorageInv'
<1>1. /\ serving.slips > 0
      /\ serving' = [serving EXCEPT !.pc = "down", !.on = {}, !.host = NoHost, !.from = 0, !.slips = @ - 1]
      /\ live' = Empty /\ copy' = NoCopy /\ loose' = {} /\ UNCHANGED rows
      /\ files' = IF copy.pc = "text" THEN <<File(FALSE)>> \o files ELSE files
  BY DEF Crash
<1>2. StorageTypeOK /\ CopyFits /\ FilesFit
  BY DEF StorageInv
<1>3. serving' \in Servings /\ serving'.pc = "down" /\ serving'.saved = serving.saved
  <2>1. serving \in Servings /\ serving.slips - 1 \in Nat
    BY <1>1, <1>2 DEF StorageTypeOK, Servings
  <2> QED BY <1>1, <2>1 DEF Servings
<1>4. files' \in Seq(Files) /\ FilesFit'
  <2>1. CASE files' = files
    BY <1>2, <1>3, <2>1 DEF StorageTypeOK, FilesFit, BackupFits
  <2>2. CASE files' = <<File(FALSE)>> \o files
    <3>1. File(FALSE) \in Files /\ BackupFits(File(FALSE))
      BY <1>2, FileOfCopy
    <3>2. PICK f \in Files : f = File(FALSE)
      BY <3>1
    <3>3. /\ files \in Seq(Files) /\ files' \in Seq(Files) /\ files'[1] = f
          /\ \A k \in DOMAIN files' : k = 1 \/ (k - 1 \in DOMAIN files /\ files'[k] = files[k - 1])
          /\ \A k \in DOMAIN files : k + 1 \in DOMAIN files' /\ files'[k + 1] = files[k]
      <4>1. files \in Seq(Files)
        BY <1>2 DEF StorageTypeOK
      <4>2. files' = <<f>> \o files
        BY <2>2, <3>2
      <4> QED BY <4>1, <4>2, PrependedFile
    <3>4. \A k \in DOMAIN files' : BackupFits(files'[k])
      BY <1>2, <3>1, <3>2, <3>3 DEF FilesFit
    <3>5. serving'.saved => \E k \in DOMAIN files' : files'[k].whole
      BY <1>2, <1>3, <3>3 DEF FilesFit
    <3> QED BY <3>3, <3>4, <3>5 DEF FilesFit, BackupFits, Absent
  <2> QED BY <1>1, <2>1, <2>2
<1>5. CopyFits'
  BY <1>1, NothingCopied DEF CopyFits, BackupFits, Absent
<1>6. StorageTypeOK'
  <2>1. Empty \in Arrays
    BY DEF Empty, Arrays, Statuses
  <2> QED BY <1>1, <1>2, <1>3, <1>4, <2>1, NothingCopied DEF StorageTypeOK
<1>7. BetweenCommits'
  BY <1>1, <1>3, NothingCopied DEF BetweenCommits
<1> QED BY <1>3, <1>4, <1>5, <1>6, <1>7 DEF StorageInv

LEMMA LoadFromDbStep ==
  ASSUME StorageInv, LoadFromDb
  PROVE  StorageInv'
<1>1. /\ serving.pc = "down" /\ serving' = [serving EXCEPT !.pc = "up"]
      /\ rows' = [t \in Held |-> IF rows[t].at # "stub" THEN rows[t]
                                 ELSE IF ~Loaded(t) THEN [rows[t] EXCEPT !.at = "archive"]
                                 ELSE IF rows[t].st = "assigned" THEN Queued ELSE rows[t]]
      /\ live' = [s \in Hosts |-> [t \in Held |->
                     IF Loaded(t) /\ rows[t].host = s /\ rows[t].st # "assigned" THEN rows[t].st ELSE "none"]]
      /\ UNCHANGED <<copy, files, loose>>
  BY DEF LoadFromDb
<1>2. StorageTypeOK /\ CopyFits /\ FilesFit /\ copy.shared = {}
  BY <1>1 DEF StorageInv, BetweenCommits
<1>3. serving' \in Servings /\ serving'.pc = "up" /\ serving'.saved = serving.saved
  BY <1>1, <1>2 DEF StorageTypeOK, Servings
<1>4. ASSUME NEW t \in Held
      PROVE  /\ rows'[t] \in Rows
             /\ \A s \in Hosts : live'[s][t] \in Statuses
             /\ \A s \in Hosts : live'[s][t] # "none" => rows'[t] = OnHost(s, live'[s][t])
             /\ rows'[t].at = "stub" => rows'[t].host \in Hosts /\ live'[rows'[t].host][t] = rows'[t].st
  <2>1. PICK r \in Rows : r = rows[t]
    BY <1>2 DEF StorageTypeOK
  <2>2. r = [at |-> r.at, st |-> r.st, host |-> r.host] /\ r.st \in Statuses /\ r.host \in Hosts \cup {NoHost}
    BY <2>1 DEF Rows
  <2>3. \A s \in Hosts : live'[s][t] = IF Loaded(t) /\ r.host = s /\ r.st # "assigned" THEN r.st ELSE "none"
    BY <1>1, <2>1
  <2>4. rows'[t] = IF r.at # "stub" THEN r ELSE IF ~Loaded(t) THEN [r EXCEPT !.at = "archive"]
                   ELSE IF r.st = "assigned" THEN Queued ELSE r
    BY <1>1, <2>1
  <2>5. CASE r.at # "stub" \/ ~Loaded(t)
    <3>1. rows'[t] \in Rows /\ rows'[t].at # "stub"
      BY <2>1, <2>2, <2>4, <2>5 DEF Rows
    <3>2. \A s \in Hosts : live'[s][t] = "none"
      BY <2>1, <2>3, <2>5 DEF Loaded
    <3> QED BY <3>1, <3>2 DEF Statuses
  <2>6. CASE Loaded(t) /\ r.at = "stub" /\ r.st = "assigned"
    <3>1. rows'[t] = Queued
      BY <2>4, <2>6
    <3>2. \A s \in Hosts : live'[s][t] = "none"
      BY <2>3, <2>6
    <3> QED BY <3>1, <3>2, TableRows DEF Statuses
  <2>7. CASE Loaded(t) /\ r.at = "stub" /\ r.st # "assigned"
    <3>1. rows'[t] = r /\ r.host \in Hosts
      BY <2>1, <2>2, <2>4, <2>7 DEF Loaded
    <3>2. \A s \in Hosts : live'[s][t] = IF r.host = s THEN r.st ELSE "none"
      BY <2>3, <2>7
    <3>3. r = OnHost(r.host, r.st)
      BY <2>2, <2>7 DEF OnHost
    <3> QED BY <2>1, <2>2, <3>1, <3>2, <3>3 DEF Statuses
  <2> QED BY <2>5, <2>6, <2>7
<1>5. rows' \in [Held -> Rows] /\ live' \in Arrays
  <2>1. DOMAIN rows' = Held /\ rows' = [t \in Held |-> rows'[t]]
    BY <1>1
  <2>2. live' = [s \in Hosts |-> [t \in Held |-> live'[s][t]]]
    BY <1>1
  <2> QED BY <1>4, <2>1, <2>2 DEF Arrays
<1>6. CopyFits'
  BY <1>1, <1>2 DEF CopyFits, BackupFits
<1>7. StorageTypeOK'
  BY <1>1, <1>2, <1>3, <1>5 DEF StorageTypeOK
<1>8. FilesFit' /\ BetweenCommits'
  BY <1>1, <1>2, <1>3 DEF FilesFit, BetweenCommits, BackupFits
<1>9. (\A t \in Held : Matched(t))'
  BY <1>4 DEF Matched, OnHost
<1> QED BY <1>6, <1>7, <1>8, <1>9 DEF StorageInv

LEMMA StorageInvInit == StorageInit => StorageInv
<1> SUFFICES ASSUME StorageInit PROVE StorageInv
  OBVIOUS
<1>1. rows = NoTable /\ live = Empty /\ copy = NoCopy /\ files = <<>> /\ loose = {}
  BY DEF StorageInit
<1>2. serving \in Servings /\ serving.pc = "up" /\ ~serving.saved
  <2>1. PICK b \in 1..MaxBackups :
          serving = [pc |-> "up", on |-> {}, host |-> NoHost, from |-> 0, saved |-> FALSE,
                     backups |-> b, slips |-> Slips + MaxBackups - b]
    BY DEF StorageInit
  <2>2. b \in Nat /\ Slips + MaxBackups - b \in Nat
    BY StorageAssumption
  <2> QED BY <2>1, <2>2 DEF Servings
<1>3. NoTable \in [Held -> Rows] /\ Empty \in Arrays /\ \A t \in Held, s \in Hosts : Empty[s][t] = "none"
  BY TableRows DEF NoTable, Empty, Arrays, Statuses
<1>4. StorageTypeOK
  BY <1>1, <1>2, <1>3, NothingCopied DEF StorageTypeOK
<1>5. CopyFits /\ FilesFit /\ BetweenCommits
  BY <1>1, <1>2, NothingCopied DEF CopyFits, FilesFit, BetweenCommits
<1>6. \A t \in Held : NoTable[t] = Absent
  BY DEF NoTable
<1>7. \A t \in Held : Matched(t)
  BY <1>1, <1>3, <1>6, TableRows DEF Matched
<1> QED BY <1>4, <1>5, <1>7 DEF StorageInv

LEMMA StorageInvNext == StorageInv /\ [StorageNext]_storageVars => StorageInv'
<1> SUFFICES ASSUME StorageInv, [StorageNext]_storageVars PROVE StorageInv'
  OBVIOUS
<1>1. CASE UNCHANGED storageVars
  BY <1>1 DEF StorageInv, StorageTypeOK, CopyFits, FilesFit, BetweenCommits, BackupFits, Matched, storageVars
<1>2. ASSUME NEW t \in Held, AddToGlobalQueue(t) \/ EndQueued(t) \/ RequeueArchived(t) PROVE StorageInv'
  BY <1>2, AddToGlobalQueueStep, EndQueuedStep, RequeueArchivedStep
<1>3. ASSUME NEW s \in Hosts, NEW t \in Held,
             \/ PostToStub(s, t) \/ MoveToStubQueue(s, t) \/ UpdateTask(s, t)
             \/ EndTask(s, t) \/ DispatchTimeout(s, t)
      PROVE StorageInv'
  BY <1>3, PostToStubStep, MoveToStubQueueStep, UpdateTaskStep, EndTaskStep, DispatchTimeoutStep
<1>4. ASSUME NEW ok \in BOOLEAN, MoveEnds(ok) \/ RequeueEnds(ok) PROVE StorageInv'
  BY <1>4, MoveEndsStep, RequeueEndsStep
<1>5. ASSUME NEW s \in Hosts, RequeueStubTasks(s) PROVE StorageInv'
  BY <1>5, RequeueStubTasksStep
<1>6. CASE ExportState \/ Serialise \/ FileWritten
  BY <1>6, ExportStateStep, SerialiseStep, FileWrittenStep
<1>7. ASSUME NEW k \in 1..(KeepCount + Slips), LoadFromState(k) PROVE StorageInv'
  BY <1>7, LoadFromStateStep
<1>8. CASE ApplyState \/ ApplyFails \/ Crash \/ LoadFromDb
  BY <1>8, ApplyStateStep, ApplyFailsStep, CrashStep, LoadFromDbStep
<1> QED BY <1>1, <1>2, <1>3, <1>4, <1>5, <1>6, <1>7, <1>8 DEF StorageNext

LEMMA StorageInvMeans == StorageInv => StorageSound
<1> SUFFICES ASSUME StorageInv PROVE StorageTypeOK /\ RestartLosesNothing /\ BackupsHold
  BY DEF StorageSound
<1>1. StorageTypeOK /\ FilesFit
  BY DEF StorageInv
<1>2. RestartLosesNothing
  BY DEF StorageInv, RestartLosesNothing, Matched, Up
<1>3. ASSUME NEW k \in DOMAIN files, NEW t \in files[k].had \ files[k].torn, NEW last \in LastOf(files[k])
      PROVE  Applied(files[k], last)[t] # Absent
  <2>1. PICK f \in Files : f = files[k]
    BY <1>1 DEF StorageTypeOK
  <2>2. /\ t \in Held /\ t \in f.had \ f.torn /\ last \in LastOf(f) /\ BackupFits(f)
        /\ f.arrays \in Arrays
    BY <1>1, <1>3, <2>1 DEF Files, FilesFit
  <2>3. last[t] \in Hosts
    BY <2>2 DEF LastOf
  <2>4. PICK st \in Statuses : st = f.arrays[last[t]][t]
    BY <2>2, <2>3 DEF Arrays
  <2>5. Applied(f, last)[t] = IF st = "none" THEN f.table[t] ELSE RowOf(st, last[t])
    BY <2>2, <2>4 DEF Applied
  <2>6. CASE st = "none"
    <3>1. ASSUME NEW s \in Hosts, f.arrays[s][t] # "none" PROVE FALSE
      <4>1. Holding(f, t) # {}
        BY <3>1 DEF Holding
      <4>2. last[t] \in Holding(f, t)
        BY <2>2, <4>1 DEF LastOf
      <4> QED BY <2>4, <2>6, <4>2 DEF Holding
    <3> QED BY <2>1, <2>2, <2>5, <2>6, <3>1 DEF BackupFits
  <2>7. CASE st # "none"
    <3>1. RowOf(st, last[t]).at \in {"archive", "stub"}
      BY DEF RowOf, Over, OnHost
    <3> QED BY <2>1, <2>5, <2>7, <3>1, TableRows
  <2> QED BY <2>6, <2>7
<1>4. BackupsHold
  BY <1>1, <1>3 DEF BackupsHold, FilesFit
<1> QED BY <1>1, <1>2, <1>4

-----------------------------------------------------------------------------
(* The parts side by side. *)

LEMMA PartsBegin ==
  Init => /\ CheckpointInit /\ SubmissionInit /\ RelayInit /\ PolicyInit /\ WalltimeInit
          /\ StorageInit
BY DEF Init

\* A step of the whole is, for each part, one of its own or none.
LEMMA PartsMove ==
  [Next]_edgesVars =>
    /\ [CheckpointNext]_checkpointVars /\ [SubmissionNext]_submissionVars /\ [RelayNext]_relayVars
    /\ [PolicyNext]_policyVars /\ [WalltimeNext]_walltimeVars /\ [StorageNext]_storageVars
BY DEF Next, edgesVars, otherVars, RelayNext

\* A checkpoint that can be found is whole, no saved step is repeated by a process that
\* chose its checkpoint itself, and what has ended in order or has answered a signal
\* has saved the step it was at (managed.py).
THEOREM SavedWorkSurvives == Spec => []CheckpointsSound
BY PartsBegin, PartsMove, CheckpointInitial, CheckpointStep, CheckpointInvMeans, PTL DEF Spec

\* However often a submission is posted again, whatever is lost on the way and whenever
\* the server restarts, one experiment is kept per key and its answers tell of it
\* (submit.py:112, api/experiments.ts); and a command, a file or a line of a shell has one
\* effect and is answered with what came of it (reliable.ts:92).
THEOREM AskedOnceDoneOnce == Spec => []RequestsKept
<1>1. Init => SubmissionInv /\ RelayInv
  BY PartsBegin, SubmissionInvInit, RelayInvInit
<1>2. SubmissionInv /\ RelayInv /\ [Next]_edgesVars => SubmissionInv' /\ RelayInv'
  BY PartsMove, SubmissionInvNext, RelayInvNext
<1>3. SubmissionInv /\ RelayInv => RequestsKept
  BY SubmissionInvMeans, RelayInvMeans DEF RequestsKept
<1> QED BY <1>1, <1>2, <1>3, PTL DEF Spec

\* What the database holds of a task is what the memory holds, so that a restart loses
\* nothing, and a backup holds what was there when it was taken, whatever crashes, fails,
\* is pruned or is restored, and in whatever order; but for what the model names: tasks
\* whose row is behind, and tasks a dispatch timeout took off a backup that was being
\* written (store/index.ts, store/backup.ts).
THEOREM KeptThroughRestarts == Spec => []StorageSound
BY PartsBegin, PartsMove, StorageInvInit, StorageInvNext, StorageInvMeans, PTL DEF Spec

\* The policy stays within its cap and its cooldown, however its calls fail, take effect
\* late or are cut off by a restart, and off once it is switched off
\* (capacity/automation.ts, api/capacity.ts).
THEOREM PolicyStaysWithinItsLimits == Spec => []PolicyKept
BY PartsBegin, PartsMove, PolicyInvInit, PolicyInvNext, PolicyInvMeans, PTL DEF Spec

\* No task of an allocation whose time runs out is cut without the minute it was warned
\* of, for any number of tasks and any length, if squeue fails for fewer minutes than the
\* drain begins early, less two: one to notice and one of grace (daemon.ts:545-664).
THEOREM NoTaskCutUnwarned == ASSUME Incidents + 2 < DrainAt PROVE Spec => []CutTasksWarned
<1>1. Init => WalltimeInv
  BY PartsBegin, WalltimeInvInit
<1>2. WalltimeInv /\ [Next]_edgesVars => WalltimeInv'
  BY PartsMove, WalltimeInvNext
<1> QED BY <1>1, <1>2, WalltimeInvMeans, PTL DEF Spec
=============================================================================
