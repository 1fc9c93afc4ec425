--------------------------- MODULE ExperimentProofs ---------------------------
(***************************************************************************)
(* Proofs about experiments and the tasks in them, for any number of both: *)
(* a task is at home in one grid, whatever is retried, replaced, moved or  *)
(* cut short by a crash (OneGridPerRun), and an experiment that was told   *)
(* of every end has stored that it is over (SettledIsStored).              *)
(***************************************************************************)
EXTENDS MCExperiments, FiniteSetTheorems, TLAPS

Statuses == {"none", "blocked", "pending", "live", "completed", "failed", "cancelled", "deleted"}
Marks == {"running", "passed", "partial", "failed"}
Listed(e) == exp[e].ids \cup exp[e].refs

\* Where a task is listed it belongs, a ref is of a task that knows its experiment, and
\* no task belongs to what was never begun.
AtHome ==
  \A e \in Exps :
    /\ \A t \in Listed(e) : run[t].status # "none" /\ (run[t].grid = e \/ run[t].status = "deleted")
    /\ exp[e].at \in {"none", "lost"} => exp[e].ids = {}
    /\ \A t \in exp[e].refs : exp[e].at = "there" /\ run[t].member
    /\ \A t \in Runs : run[t].grid = e => exp[e].at # "none"

HomeInv == ExperimentTypeOK /\ AtHome

LEMMA HomeInvInit == ExperimentInit => HomeInv
<1> SUFFICES ASSUME ExperimentInit PROVE HomeInv
  OBVIOUS
<1>1. NoExperiment \in Exp
  BY DEF NoExperiment, Exp, NoResults
<1>2. ExperimentTypeOK
  BY <1>1, ExperimentAssumption DEF ExperimentInit, ExperimentTypeOK, Run
<1>3. \A e \in Exps : exp[e] = NoExperiment
  BY DEF ExperimentInit
<1>4. \A t \in Runs : run[t].grid \notin Exps
  BY ExperimentAssumption DEF ExperimentInit, NoExp, Exps
<1> QED BY <1>2, <1>3, <1>4 DEF HomeInv, AtHome, Listed, NoExperiment

LEMMA HomeInvMeans == HomeInv => OneGridPerRun
BY DEF HomeInv, AtHome, Listed, OneGridPerRun

\* What keeps the tasks at home: none is forgotten, and what a list gains belongs there.
RunsGoOn ==
  \A t \in Runs : run[t].status # "none" =>
    /\ run'[t].status # "none" /\ (run[t].member => run'[t].member)
    /\ run[t].status = "deleted" => run'[t].status = "deleted"
ListsGrow ==
  \A e \in Exps :
    /\ exp[e].at # "none" => exp'[e].at # "none"
    /\ \A t \in Runs : run'[t].grid = e => run[t].grid = e \/ exp'[e].at # "none"
    /\ \A t \in exp'[e].ids \cup exp'[e].refs :
         \/ t \in Listed(e) /\ run'[t].grid = run[t].grid
         \/ run'[t].status # "none" /\ run'[t].grid = e
    /\ \A t \in exp'[e].refs : exp'[e].at = "there" /\ (t \in exp[e].refs \/ run'[t].member)
    /\ exp'[e].at \in {"none", "lost"} => exp'[e].ids = {}

LEMMA HomesKept ==
  ASSUME HomeInv, ExperimentTypeOK', RunsGoOn, ListsGrow
  PROVE  HomeInv'
<1> SUFFICES ASSUME NEW e \in Exps
             PROVE  /\ \A t \in exp'[e].ids \cup exp'[e].refs :
                         run'[t].status # "none" /\ (run'[t].grid = e \/ run'[t].status = "deleted")
                    /\ exp'[e].at \in {"none", "lost"} => exp'[e].ids = {}
                    /\ \A t \in exp'[e].refs : exp'[e].at = "there" /\ run'[t].member
                    /\ \A t \in Runs : run'[t].grid = e => exp'[e].at # "none"
  BY DEF HomeInv, AtHome, Listed
<1>1. exp'[e].ids \subseteq Runs /\ exp'[e].refs \subseteq Runs /\ exp[e].refs \subseteq Runs
  BY DEF HomeInv, ExperimentTypeOK, Exp
<1>2. ASSUME NEW t \in exp'[e].ids \cup exp'[e].refs
      PROVE  run'[t].status # "none" /\ (run'[t].grid = e \/ run'[t].status = "deleted")
  <2>1. t \in Runs
    BY <1>1
  <2>2. CASE t \in Listed(e) /\ run'[t].grid = run[t].grid
    BY <2>1, <2>2 DEF HomeInv, AtHome, RunsGoOn
  <2>3. CASE run'[t].status # "none" /\ run'[t].grid = e
    BY <2>3
  <2> QED BY <2>2, <2>3 DEF ListsGrow
<1>3. ASSUME NEW t \in exp'[e].refs
      PROVE  exp'[e].at = "there" /\ run'[t].member
  <2>1. t \in Runs /\ exp'[e].at = "there" /\ (t \in exp[e].refs \/ run'[t].member)
    BY <1>1 DEF ListsGrow
  <2>2. t \in exp[e].refs => run[t].status # "none" /\ run[t].member
    BY DEF HomeInv, AtHome, Listed
  <2> QED BY <2>1, <2>2 DEF RunsGoOn
<1>4. ASSUME NEW t \in Runs, run'[t].grid = e PROVE exp'[e].at # "none"
  BY <1>4 DEF HomeInv, AtHome, ListsGrow
<1> QED BY <1>2, <1>3, <1>4 DEF ListsGrow

\* The lists of all experiments as they were, or shorter.
ListsStay ==
  \A e \in Exps : /\ exp'[e].ids = exp[e].ids /\ exp'[e].refs = exp[e].refs /\ exp'[e].at = exp[e].at

LEMMA ListsStayed ==
  ASSUME HomeInv, ListsStay, \A e \in Exps : \A t \in Listed(e) : run'[t].grid = run[t].grid,
         \A t \in Runs : run'[t].grid = run[t].grid \/ \E u \in Runs : run'[t].grid = run[u].grid
  PROVE  ListsGrow
BY DEF HomeInv, AtHome, Listed, ListsStay, ListsGrow

-----------------------------------------------------------------------------
(* What the operators return. *)

LEMMA StatusTyped == \A r, T : StatusOf(r, T) \in Marks
BY DEF StatusOf, Marks

LEMMA DerivedTyped == \A r, x, e : Derived(r, x, e) \in Marks
BY DEF Derived, Marks

LEMMA StatusSettles ==
  ASSUME NEW r, NEW T, T # {}, \A t \in T : Final(r, t)
  PROVE  StatusOf(r, T) # "running"
BY DEF StatusOf

LEMMA DerivedSettles ==
  ASSUME NEW r, NEW x, NEW e, GridTasks(r, e) # {}, \A t \in GridTasks(r, e) : Final(r, t)
  PROVE  Derived(r, x, e) # "running"
BY DEF Derived

LEMMA RederivedIs ==
  ASSUME NEW r, NEW x \in [Exps -> Exp], NEW e \in Exps
  PROVE  /\ Rederived(r, x, e) \in [Exps -> Exp]
         /\ \A f \in Exps : /\ Rederived(r, x, e)[f].ids = x[f].ids /\ Rederived(r, x, e)[f].refs = x[f].refs
                            /\ Rederived(r, x, e)[f].at = x[f].at
                            /\ f # e => Rederived(r, x, e)[f] = x[f]
         /\ x[e].at = "there" => Rederived(r, x, e)[e].status = Derived(r, x[e], e)
<1> DEFINE s == IF x[e].at = "there" THEN Derived(r, x[e], e) ELSE x[e].status
<1>1. s \in Marks /\ x[e] \in Exp
  BY DerivedTyped DEF Exp, Marks
<1>2. Rederived(r, x, e) = [x EXCEPT ![e].status = s]
  BY DEF Rederived
<1>3. x[e].at = "there" => s = Derived(r, x[e], e)
  OBVIOUS
<1> HIDE DEF s
<1>4. [x[e] EXCEPT !.status = s] \in Exp
  BY <1>1 DEF Exp, Marks
<1>5. Rederived(r, x, e) = [x EXCEPT ![e] = [x[e] EXCEPT !.status = s]]
  BY <1>2
<1>6. /\ [x[e] EXCEPT !.status = s].ids = x[e].ids /\ [x[e] EXCEPT !.status = s].refs = x[e].refs
      /\ [x[e] EXCEPT !.status = s].at = x[e].at /\ [x[e] EXCEPT !.status = s].status = s
  BY <1>1 DEF Exp
<1> QED BY <1>3, <1>4, <1>5, <1>6

LEMMA LookedIs ==
  ASSUME HomeInv, NEW r, NEW g \in Exps \cup {NoExp}
  PROVE  /\ Looked(r, g) \in [Exps -> Exp]
         /\ \A f \in Exps : /\ Looked(r, g)[f].ids = exp[f].ids /\ Looked(r, g)[f].refs = exp[f].refs
                            /\ Looked(r, g)[f].at = exp[f].at
                            /\ f # g => Looked(r, g)[f] = exp[f]
         /\ g \in Exps /\ exp[g].at = "there" => Looked(r, g)[g].status = Derived(r, exp[g], g)
<1>1. exp \in [Exps -> Exp] /\ NoExp \notin Exps
  BY DEF HomeInv, ExperimentTypeOK, NoExp, Exps
<1>2. CASE g = NoExp
  BY <1>1, <1>2 DEF Looked
<1>3. CASE g \in Exps
  BY <1>1, <1>3, RederivedIs DEF Looked
<1> QED BY <1>2, <1>3

-----------------------------------------------------------------------------
(* Tasks that start and end: no list changes. *)

LEMMA RunsKept ==
  ASSUME HomeInv, ExperimentTypeOK', ListsStay,
         \A t \in Runs : /\ run'[t].grid = run[t].grid /\ (run[t].member => run'[t].member)
                         /\ run[t].status # "none" => run'[t].status # "none"
                         /\ run[t].status = "deleted" => run'[t].status = "deleted"
  PROVE  HomeInv'
<1>1. RunsGoOn
  BY DEF RunsGoOn
<1>2. \A e \in Exps : Listed(e) \subseteq Runs
  BY DEF HomeInv, ExperimentTypeOK, Exp, Listed
<1>3. ListsGrow
  BY <1>2, ListsStayed
<1> QED BY <1>1, <1>3, HomesKept

\* What is settled stays so where nothing happens; where it does, it is settled anew.
LEMMA Elsewhere ==
  ASSUME SettledIsStored, NEW G,
         \A e \in Exps \ G : /\ GridTasks(run', e) = GridTasks(run, e)
                             /\ \A t \in GridTasks(run, e) : run'[t].status = run[t].status
                             /\ exp'[e].at = exp[e].at /\ exp'[e].status = exp[e].status
                             /\ e \in unheard \cup hasty => e \in unheard' \cup hasty',
         \A e \in Exps \cap G : e \in unheard' \cup hasty' \/ (AllFinal(e)' => exp'[e].status # "running")
  PROVE  SettledIsStored'
<1> SUFFICES ASSUME NEW e \in Exps, e \notin unheard' \cup hasty', AllFinal(e)' PROVE exp'[e].status # "running"
  BY DEF SettledIsStored
<1>1. CASE e \in G
  BY <1>1
<1>2. CASE e \notin G
  <2>1. AllFinal(e)
    BY <1>2 DEF AllFinal, Final
  <2> QED BY <1>2, <2>1 DEF SettledIsStored
<1> QED BY <1>1, <1>2

LEMMA ElsewhereThan ==
  ASSUME SettledIsStored, NEW g,
         \A e \in Exps : e # g =>
           /\ GridTasks(run', e) = GridTasks(run, e)
           /\ \A t \in GridTasks(run, e) : run'[t].status = run[t].status
           /\ exp'[e].at = exp[e].at /\ exp'[e].status = exp[e].status
           /\ e \in unheard \cup hasty => e \in unheard' \cup hasty',
         g \in Exps => g \in unheard' \cup hasty' \/ (AllFinal(g)' => exp'[g].status # "running")
  PROVE  SettledIsStored'
<1> DEFINE G == {g}
<1>1. \A e \in Exps \ G : /\ GridTasks(run', e) = GridTasks(run, e)
                          /\ \A t \in GridTasks(run, e) : run'[t].status = run[t].status
                          /\ exp'[e].at = exp[e].at /\ exp'[e].status = exp[e].status
                          /\ e \in unheard \cup hasty => e \in unheard' \cup hasty'
  OBVIOUS
<1>2. \A e \in Exps \cap G : e \in unheard' \cup hasty' \/ (AllFinal(e)' => exp'[e].status # "running")
  OBVIOUS
<1> HIDE DEF G
<1> QED BY <1>1, <1>2, Elsewhere

LEMMA AllFinalNext ==
  ASSUME NEW e \in Exps
  PROVE  AllFinal(e)' <=> /\ exp'[e].at = "there" /\ GridTasks(run', e) # {}
                         /\ \A t \in GridTasks(run', e) : Final(run', t)
BY DEF AllFinal, GridTasks, Exists, Final

LEMMA RunFields ==
  ASSUME HomeInv, NEW t \in Runs
  PROVE  /\ run[t] \in Run /\ run[t].status \in Statuses /\ run[t].grid \in Exps \cup {NoExp} /\ run[t].member \in BOOLEAN
         /\ run[t].root \in Runs \cup {NoRun}
BY DEF HomeInv, ExperimentTypeOK, Run, Statuses

LEMMA PutIs ==
  ASSUME HomeInv, NEW t \in Runs, NEW s \in Statuses
  PROVE  /\ Put(t, s) \in [Runs -> Run]
         /\ \A u \in Runs : /\ Put(t, s)[u].grid = run[u].grid /\ Put(t, s)[u].member = run[u].member
                            /\ Put(t, s)[u].root = run[u].root
                            /\ Put(t, s)[u].status = IF u = t THEN s ELSE run[u].status
<1>1. run \in [Runs -> Run] /\ run[t] \in Run
  BY DEF HomeInv, ExperimentTypeOK
<1>2. [run[t] EXCEPT !.status = s] \in Run
  BY <1>1 DEF Run, Statuses
<1>3. Put(t, s) = [run EXCEPT ![t] = [run[t] EXCEPT !.status = s]]
  BY DEF Put
<1>4. /\ [run[t] EXCEPT !.status = s].grid = run[t].grid /\ [run[t] EXCEPT !.status = s].member = run[t].member
      /\ [run[t] EXCEPT !.status = s].root = run[t].root /\ [run[t] EXCEPT !.status = s].status = s
  BY <1>1 DEF Run
<1> QED BY <1>1, <1>2, <1>3, <1>4

LEMMA CancelledIs ==
  ASSUME NEW r \in [Runs -> Run], NEW S
  PROVE  /\ CancelledIn(r, S) \in [Runs -> Run]
         /\ \A u \in Runs : /\ CancelledIn(r, S)[u].grid = r[u].grid /\ CancelledIn(r, S)[u].member = r[u].member
                            /\ CancelledIn(r, S)[u].root = r[u].root
                            /\ CancelledIn(r, S)[u].status = IF u \in S THEN "cancelled" ELSE r[u].status
<1>1. ASSUME NEW u \in Runs
      PROVE  /\ [r[u] EXCEPT !.status = "cancelled"] \in Run
             /\ [r[u] EXCEPT !.status = "cancelled"].grid = r[u].grid /\ [r[u] EXCEPT !.status = "cancelled"].member = r[u].member
             /\ [r[u] EXCEPT !.status = "cancelled"].root = r[u].root /\ [r[u] EXCEPT !.status = "cancelled"].status = "cancelled"
  <2>1. r[u] \in Run
    OBVIOUS
  <2> QED BY <2>1 DEF Run
<1> QED BY <1>1 DEF CancelledIn

LEMMA ExpBounds ==
  /\ MaxRuns \in Nat /\ MaxExps \in Nat /\ Meddling \in Nat /\ NoExp \notin Exps /\ NoRun \notin Runs
BY ExperimentAssumption DEF NoExp, NoRun, Exps, Runs

LEMMA MeddleTyped ==
  ASSUME HomeInv, Meddle
  PROVE  expLeft' \in 0..Meddling
BY ExpBounds DEF HomeInv, ExperimentTypeOK, Meddle

ExperimentInv == HomeInv /\ SettledIsStored

\* A task ends and the experiment is told, or the snapshot is taken: the status is derived.
LEMMA ToldStep ==
  ASSUME ExperimentInv, NEW g \in Exps \cup {NoExp}, run' \in [Runs -> Run],
         exp' = Looked(run', g), expLeft' = expLeft, Heard(g),
         \A t \in Runs : /\ run'[t].grid = run[t].grid /\ run'[t].member = run[t].member
                         /\ run'[t].status = run[t].status \/ (run[t].grid = g /\ Exists(run, t) /\ Exists(run', t))
  PROVE  ExperimentInv'
<1>1. /\ exp' \in [Exps -> Exp]
      /\ \A f \in Exps : /\ exp'[f].ids = exp[f].ids /\ exp'[f].refs = exp[f].refs /\ exp'[f].at = exp[f].at
                         /\ f # g => exp'[f] = exp[f]
      /\ g \in Exps /\ exp[g].at = "there" => exp'[g].status = Derived(run', exp[g], g)
  BY LookedIs DEF ExperimentInv
<1>2. ExperimentTypeOK'
  BY <1>1 DEF ExperimentInv, HomeInv, ExperimentTypeOK, Heard
<1>3. HomeInv'
  <2>1. ListsStay
    BY <1>1 DEF ListsStay
  <2>2. \A t \in Runs : /\ run[t].status # "none" => run'[t].status # "none"
                        /\ run[t].status = "deleted" => run'[t].status = "deleted"
    BY DEF Exists
  <2>3. \A t \in Runs : run[t].member => run'[t].member
    BY Zenon
  <2> QED BY <1>2, <2>1, <2>2, <2>3, RunsKept DEF ExperimentInv
<1>4. ASSUME NEW e \in Exps, e # g
      PROVE  /\ GridTasks(run', e) = GridTasks(run, e)
             /\ \A t \in GridTasks(run, e) : run'[t].status = run[t].status
  BY <1>4 DEF GridTasks, Exists
<1>5. ASSUME g \in Exps, AllFinal(g)' PROVE exp'[g].status # "running"
  <2>1. exp[g].at = "there" /\ GridTasks(run', g) # {} /\ \A t \in GridTasks(run', g) : Final(run', t)
    BY <1>1, <1>5, AllFinalNext
  <2> QED BY <1>1, <1>5, <2>1, DerivedSettles
<1>6. SettledIsStored'
  <2>1. \A e \in Exps : e # g /\ e \in unheard \cup hasty => e \in unheard' \cup hasty'
    BY DEF Heard
  <2> QED BY <1>1, <1>4, <1>5, <2>1, ElsewhereThan DEF ExperimentInv
<1> QED BY <1>3, <1>6 DEF ExperimentInv

LEMMA EndedStep ==
  ASSUME ExperimentInv, NEW t \in Runs, RunCompleted(t) \/ RunStopped(t)
  PROVE  ExperimentInv'
<1>r. run[t].status = "live" /\ run[t].grid \in Exps \cup {NoExp} /\ expLeft' = expLeft /\ HomeInv
  BY RunFields DEF RunCompleted, RunStopped, ExperimentInv
<1>1. CASE RunCompleted(t)
  <2>1. run' = Put(t, "completed") /\ exp' = Looked(run', run[t].grid) /\ Heard(run[t].grid)
    BY <1>1 DEF RunCompleted
  <2>2. run' \in [Runs -> Run]
        /\ \A u \in Runs : /\ run'[u].grid = run[u].grid /\ run'[u].member = run[u].member
                           /\ run'[u].status = IF u = t THEN "completed" ELSE run[u].status
    BY <1>r, <2>1, PutIs DEF Statuses
  <2>3. \A u \in Runs : run'[u].status = run[u].status \/ (run[u].grid = run[t].grid /\ Exists(run, u) /\ Exists(run', u))
    BY <1>r, <2>2 DEF Exists
  <2> QED BY <1>r, <2>1, <2>2, <2>3, ToldStep
<1>2. CASE RunStopped(t)
  <2>1. PICK S \in SUBSET BlockedWith(t) : run' = CancelledIn(Put(t, "cancelled"), S)
    BY <1>2 DEF RunStopped
  <2>2. exp' = Looked(run', run[t].grid) /\ Heard(run[t].grid)
    BY <1>2 DEF RunStopped
  <2>3. Put(t, "cancelled") \in [Runs -> Run]
        /\ \A u \in Runs : /\ Put(t, "cancelled")[u].grid = run[u].grid /\ Put(t, "cancelled")[u].member = run[u].member
                           /\ Put(t, "cancelled")[u].status = IF u = t THEN "cancelled" ELSE run[u].status
    BY <1>r, PutIs DEF Statuses
  <2>4. run' \in [Runs -> Run]
        /\ \A u \in Runs : /\ run'[u].grid = run[u].grid /\ run'[u].member = run[u].member
                           /\ run'[u].status = IF u \in S THEN "cancelled" ELSE IF u = t THEN "cancelled" ELSE run[u].status
    BY <2>1, <2>3, CancelledIs
  <2>5. \A u \in S : run[u].grid = run[t].grid /\ run[u].status = "blocked"
    BY DEF BlockedWith, GridTasks
  <2>6. \A u \in Runs : run'[u].status = run[u].status \/ (run[u].grid = run[t].grid /\ Exists(run, u) /\ Exists(run', u))
    BY <1>r, <2>4, <2>5 DEF Exists
  <2> QED BY <1>r, <2>2, <2>4, <2>6, ToldStep
<1> QED BY <1>1, <1>2

\* A failure looks at the experiment before the cascade.
LEMMA FailedStep ==
  ASSUME ExperimentInv, NEW t \in Runs, RunFailed(t)
  PROVE  ExperimentInv'
<1>r. PICK g \in Exps \cup {NoExp} : run[t].grid = g /\ run[t].status = "live" /\ expLeft' = expLeft /\ HomeInv
  BY RunFields DEF RunFailed, ExperimentInv
<1>1. PICK S \in SUBSET BlockedWith(t), status \in {"failed", "cancelled"} :
        /\ run' = CancelledIn(Put(t, status), S)
        /\ exp' = Looked(Put(t, status), g)
        /\ unheard' = unheard \ {g}
        /\ hasty' = IF S = {} THEN hasty \ {g} ELSE hasty \cup {g}
  BY <1>r DEF RunFailed
<1>2. Put(t, status) \in [Runs -> Run]
      /\ \A u \in Runs : /\ Put(t, status)[u].grid = run[u].grid /\ Put(t, status)[u].member = run[u].member
                         /\ Put(t, status)[u].status = IF u = t THEN status ELSE run[u].status
  BY <1>r, PutIs DEF Statuses
<1>3. run' \in [Runs -> Run]
      /\ \A u \in Runs : /\ run'[u].grid = run[u].grid /\ run'[u].member = run[u].member
                         /\ run'[u].status = IF u \in S THEN "cancelled" ELSE IF u = t THEN status ELSE run[u].status
  BY <1>1, <1>2, CancelledIs
<1>4. \A u \in S : run[u].grid = g /\ run[u].status = "blocked" /\ g # NoExp
  BY <1>r DEF BlockedWith, GridTasks
<1>5. \A u \in Runs : run'[u].status = run[u].status \/ (run[u].grid = g /\ Exists(run, u) /\ Exists(run', u))
  BY <1>r, <1>3, <1>4 DEF Exists
<1>6. /\ exp' \in [Exps -> Exp]
      /\ \A f \in Exps : /\ exp'[f].ids = exp[f].ids /\ exp'[f].refs = exp[f].refs /\ exp'[f].at = exp[f].at
                         /\ f # g => exp'[f] = exp[f]
      /\ g \in Exps /\ exp[g].at = "there" => exp'[g].status = Derived(Put(t, status), exp[g], g)
  BY <1>1, <1>r, LookedIs
<1>7. ExperimentTypeOK'
  <2>1. hasty' \subseteq Exps
    <3>1. S # {} => g \in Exps
      BY <1>4, <1>r
    <3> QED BY <1>1, <1>r, <3>1 DEF HomeInv, ExperimentTypeOK
  <2> QED BY <1>1, <1>3, <1>6, <1>r, <2>1 DEF HomeInv, ExperimentTypeOK
<1>8. HomeInv'
  <2>1. ListsStay
    BY <1>6 DEF ListsStay
  <2>2. \A u \in Runs : /\ run[u].status # "none" => run'[u].status # "none"
                        /\ run[u].status = "deleted" => run'[u].status = "deleted"
    BY <1>5 DEF Exists
  <2>3. \A u \in Runs : run[u].member => run'[u].member
    BY <1>3, Zenon
  <2> QED BY <1>3, <1>7, <1>r, <2>1, <2>2, <2>3, RunsKept
<1>9. ASSUME NEW e \in Exps, e # g
      PROVE  /\ GridTasks(run', e) = GridTasks(run, e)
             /\ \A u \in GridTasks(run, e) : run'[u].status = run[u].status
             /\ e \in unheard \cup hasty => e \in unheard' \cup hasty'
  BY <1>1, <1>3, <1>5, <1>9 DEF GridTasks, Exists
<1>10. ASSUME g \in Exps, g \notin hasty', AllFinal(g)' PROVE exp'[g].status # "running"
  <2>1. S = {}
    BY <1>1, <1>10
  <2>2. \A u \in Runs : run'[u].status = Put(t, status)[u].status /\ run'[u].grid = Put(t, status)[u].grid
    BY <1>2, <1>3, <2>1
  <2>3. /\ exp[g].at = "there" /\ GridTasks(Put(t, status), g) # {}
        /\ \A u \in GridTasks(Put(t, status), g) : Final(Put(t, status), u)
    <3>1. /\ exp[g].at = "there" /\ GridTasks(run', g) # {}
          /\ \A u \in GridTasks(run', g) : Final(run', u)
      BY <1>6, <1>10, AllFinalNext
    <3> QED BY <2>2, <3>1 DEF GridTasks, Exists, Final
  <2> QED BY <1>6, <1>10, <2>3, DerivedSettles
<1>11. SettledIsStored'
  BY <1>6, <1>9, <1>10, ElsewhereThan DEF ExperimentInv
<1> QED BY <1>8, <1>11 DEF ExperimentInv

Open(r, e) == \E u \in GridTasks(r, e) : ~Final(r, u)

\* Requests and ends that leave the experiments alone: what was settled is open again,
\* has lost a task that was over, or was not told.
LEMMA SameExperiments ==
  ASSUME ExperimentInv, exp' = exp, hasty' = hasty, unheard \subseteq unheard', unheard' \subseteq Exps,
         run' \in [Runs -> Run], expLeft' \in 0..Meddling, RunsGoOn,
         \A t \in Runs : run[t].status # "none" => run'[t].grid = run[t].grid,
         \A t \in Runs : run'[t].grid = run[t].grid \/ \E u \in Runs : run'[t].grid = run[u].grid,
         \A e \in Exps \ unheard' : Open(run', e) \/ (~Open(run, e) /\ GridTasks(run', e) \subseteq GridTasks(run, e))
  PROVE  ExperimentInv'
<1>1. ExperimentTypeOK'
  BY DEF ExperimentInv, HomeInv, ExperimentTypeOK
<1>2. ListsGrow
  <2>1. \A e \in Exps : \A t \in Listed(e) : t \in Runs /\ run[t].status # "none"
    BY DEF ExperimentInv, HomeInv, AtHome, ExperimentTypeOK, Exp, Listed
  <2> QED BY <2>1, ListsStayed DEF ListsStay, ExperimentInv
<1>3. SettledIsStored'
  <2> SUFFICES ASSUME NEW e \in Exps, e \notin unheard' \cup hasty', AllFinal(e)' PROVE exp'[e].status # "running"
    BY DEF SettledIsStored
  <2>1. ~Open(run', e) /\ GridTasks(run', e) # {} /\ exp[e].at = "there"
    BY AllFinalNext DEF Open
  <2>2. AllFinal(e)
    BY <2>1 DEF AllFinal, Open
  <2> QED BY <2>2 DEF SettledIsStored, ExperimentInv
<1> QED BY <1>1, <1>2, <1>3, HomesKept DEF ExperimentInv

LEMMA OpenSame ==
  ASSUME NEW e \in Exps, NEW r, NEW q,
         \A t \in Runs : (r[t].grid = e /\ Exists(r, t)) \/ (q[t].grid = e /\ Exists(q, t))
                          => r[t].grid = q[t].grid /\ r[t].status = q[t].status
  PROVE  GridTasks(r, e) = GridTasks(q, e) /\ (Open(r, e) <=> Open(q, e))
BY DEF GridTasks, Exists, Open, Final

\* One task changes its status, and its grid is open after that, untold, or rid of a task that was over.
LEMMA OneStatus ==
  ASSUME ExperimentInv, NEW t \in Runs, NEW s \in Statuses \ {"none"}, run' = Put(t, s), exp' = exp, hasty' = hasty,
         unheard \subseteq unheard', unheard' \subseteq Exps, expLeft' \in 0..Meddling, run[t].status # "deleted",
         \/ s \in {"blocked", "pending", "live"}
         \/ run[t].grid \in Exps => run[t].grid \in unheard'
         \/ s = "deleted" /\ Final(run, t)
  PROVE  ExperimentInv'
<1>1. /\ run' \in [Runs -> Run]
      /\ \A u \in Runs : /\ run'[u].grid = run[u].grid /\ run'[u].member = run[u].member
                         /\ run'[u].status = IF u = t THEN s ELSE run[u].status
  BY PutIs DEF ExperimentInv
<1>2. RunsGoOn
  <2>1. \A u \in Runs : run[u].member => run'[u].member
    BY <1>1, Zenon
  <2> QED BY <1>1, <2>1 DEF RunsGoOn
<1>3. ASSUME NEW e \in Exps \ unheard'
      PROVE  Open(run', e) \/ (~Open(run, e) /\ GridTasks(run', e) \subseteq GridTasks(run, e))
  <2>1. CASE run[t].grid # e
    <3>1. GridTasks(run', e) = GridTasks(run, e) /\ (Open(run', e) <=> Open(run, e))
      BY <1>1, <2>1, OpenSame
    <3> QED BY <3>1
  <2>2. CASE run[t].grid = e /\ s \in {"blocked", "pending", "live"}
    BY <1>1, <2>2 DEF Open, GridTasks, Final, Exists
  <2>3. CASE run[t].grid = e /\ s = "deleted" /\ Final(run, t)
    BY <1>1, <2>3 DEF Open, GridTasks, Final, Exists
  <2> QED BY <2>1, <2>2, <2>3
<1> QED BY <1>1, <1>2, <1>3, SameExperiments

LEMMA StatusSteps ==
  ASSUME ExperimentInv, NEW t \in Runs, StartRun(t) \/ SubmitRun(t) \/ EndsUntold(t) \/ RequeueRun(t) \/ DeleteRun(t)
  PROVE  ExperimentInv'
<1>r. /\ unheard \subseteq Exps /\ expLeft \in 0..Meddling /\ HomeInv /\ run[t].grid \in Exps \cup {NoExp}
      /\ (Meddle => expLeft' \in 0..Meddling)
  BY RunFields, MeddleTyped DEF ExperimentInv, HomeInv, ExperimentTypeOK
<1>1. CASE StartRun(t)
  <2>1. PICK s \in {"pending", "live"} : run' = Put(t, s) /\ run[t].status \in {"blocked", "pending"}
    BY <1>1 DEF StartRun
  <2> QED BY <1>1, <1>r, <2>1, OneStatus DEF StartRun, Statuses
<1>2. CASE SubmitRun(t)
  <2>1. run' = Put(t, "pending") /\ run[t].status = "none"
    BY <1>2 DEF SubmitRun, NewRuns, Put
  <2> QED BY <1>2, <1>r, <2>1, OneStatus DEF SubmitRun, Statuses
<1>3. CASE EndsUntold(t)
  <2>1. PICK s \in {"failed", "cancelled"} : run' = Put(t, s) /\ run[t].status \in {"blocked", "pending", "live"}
    BY <1>3 DEF EndsUntold
  <2>2. unheard' = unheard \cup ({run[t].grid} \ {NoExp}) /\ exp' = exp /\ hasty' = hasty /\ Meddle
    BY <1>3 DEF EndsUntold
  <2>3. unheard' \subseteq Exps /\ (run[t].grid \in Exps => run[t].grid \in unheard')
    BY <1>r, <2>2, ExpBounds
  <2> QED BY <1>r, <2>1, <2>2, <2>3, OneStatus DEF Statuses
<1>4. CASE RequeueRun(t)
  <2>1. run' = Put(t, "pending") /\ run[t].status # "deleted"
    BY <1>4 DEF RequeueRun, Final
  <2> QED BY <1>4, <1>r, <2>1, OneStatus DEF RequeueRun, Statuses
<1>5. CASE DeleteRun(t)
  <2>1. run' = Put(t, "deleted") /\ run[t].status # "deleted" /\ Final(run, t)
    BY <1>5 DEF DeleteRun, Final
  <2> QED BY <1>5, <1>r, <2>1, OneStatus DEF DeleteRun, Statuses
<1> QED BY <1>1, <1>2, <1>3, <1>4, <1>5

LEMMA CopyIs ==
  ASSUME HomeInv, NEW t \in Runs
  PROVE  /\ Copy(t) \in Run /\ Copy(t).status = "pending" /\ Copy(t).grid = run[t].grid /\ Copy(t).member = run[t].member
BY RunFields DEF Copy, Root, Run

\* A retry is one more task of the grid, and it is not over.
LEMMA RetryStep ==
  ASSUME ExperimentInv, NEW t \in Runs, RunRetried(t) \/ RetryRun(t)
  PROVE  ExperimentInv'
<1>r. run \in [Runs -> Run] /\ run[t] \in Run /\ HomeInv /\ unheard \subseteq Exps /\ exp' = exp /\ hasty' = hasty
      /\ unheard' = unheard /\ expLeft' \in 0..Meddling /\ run[t].status \in {"live", "completed", "failed", "cancelled"}
  BY MeddleTyped DEF ExperimentInv, HomeInv, ExperimentTypeOK, RunRetried, RetryRun, Final
<1>1. PICK u \in Runs, s \in {"failed", "completed", "cancelled"} :
        run[u].status = "none" /\ run' = [run EXCEPT ![t] = [run[t] EXCEPT !.status = s], ![u] = Copy(t)]
  <2>1. CASE RunRetried(t)
    <3>1. PICK u \in Runs : NewRuns({u}, 1) /\ run' = [run EXCEPT ![t].status = "failed", ![u] = Copy(t)]
      BY <2>1 DEF RunRetried
    <3> QED BY <3>1 DEF NewRuns
  <2>2. CASE RetryRun(t)
    <3>1. PICK u \in Runs : NewRuns({u}, 1) /\ run' = [run EXCEPT ![u] = Copy(t)]
      BY <2>2 DEF RetryRun
    <3>2. run[t].status \in {"failed", "completed", "cancelled"} /\ run[u].status = "none"
      BY <2>2, <3>1 DEF RetryRun, Final, NewRuns
    <3>3. [run[t] EXCEPT !.status = run[t].status] = run[t]
      BY <1>r DEF Run
    <3>4. run' = [run EXCEPT ![t] = [run[t] EXCEPT !.status = run[t].status], ![u] = Copy(t)]
      BY <1>r, <3>1, <3>3
    <3> QED BY <3>2, <3>4
  <2> QED BY <2>1, <2>2
<1>2. u # t
  BY <1>1, <1>r
<1>3. /\ run' \in [Runs -> Run]
      /\ \A v \in Runs : v # t /\ v # u => run'[v] = run[v]
      /\ run'[t].grid = run[t].grid /\ run'[t].member = run[t].member /\ run'[t].status = s
      /\ run'[u] = Copy(t)
  <2>1. /\ [run[t] EXCEPT !.status = s] \in Run /\ [run[t] EXCEPT !.status = s].grid = run[t].grid
        /\ [run[t] EXCEPT !.status = s].member = run[t].member /\ [run[t] EXCEPT !.status = s].status = s
    BY <1>r DEF Run
  <2>2. Copy(t) \in Run
    BY <1>r, CopyIs
  <2> QED BY <1>1, <1>2, <1>r, <2>1, <2>2
<1>4. run'[u].status = "pending" /\ run'[u].grid = run[t].grid
  BY <1>3, <1>r, CopyIs
<1>5. RunsGoOn /\ \A v \in Runs : run[v].status # "none" => run'[v].grid = run[v].grid
  <2>1. run[t].member => run'[t].member
    BY <1>3, Zenon
  <2> QED BY <1>1, <1>3, <1>r, <2>1 DEF RunsGoOn
<1>6. ASSUME NEW e \in Exps
      PROVE  Open(run', e) \/ (~Open(run, e) /\ GridTasks(run', e) \subseteq GridTasks(run, e))
  <2>1. CASE run[t].grid = e
    BY <1>4, <2>1 DEF Open, GridTasks, Exists, Final
  <2>2. CASE run[t].grid # e
    <3>1. GridTasks(run', e) = GridTasks(run, e) /\ (Open(run', e) <=> Open(run, e))
      <4>1. ASSUME NEW v \in Runs,
                   (run'[v].grid = e /\ Exists(run', v)) \/ (run[v].grid = e /\ Exists(run, v))
            PROVE  run'[v].grid = run[v].grid /\ run'[v].status = run[v].status
        <5>1. v # u
          BY <1>1, <1>4, <2>2, <4>1 DEF Exists
        <5>2. v # t
          BY <1>3, <2>2, <4>1
        <5> QED BY <1>3, <5>1, <5>2
      <4> QED BY <4>1, OpenSame
    <3> QED BY <3>1
  <2> QED BY <2>1, <2>2
<1>7. \A v \in Runs : run'[v].grid = run[v].grid \/ \E w \in Runs : run'[v].grid = run[w].grid
  BY <1>3, <1>4
<1> QED BY <1>3, <1>5, <1>6, <1>7, <1>r, SameExperiments

LEMMA CancelGridStep ==
  ASSUME ExperimentInv, NEW e \in Exps, CancelGrid(e)
  PROVE  ExperimentInv'
<1> DEFINE S == {t \in GridTasks(run, e) : run[t].status = "pending"}
<1>r. /\ run \in [Runs -> Run] /\ unheard \subseteq Exps /\ exp' = exp /\ hasty' = hasty
      /\ unheard' = unheard \cup {e} /\ expLeft' \in 0..Meddling /\ run' = CancelledIn(run, S)
  BY MeddleTyped DEF ExperimentInv, HomeInv, ExperimentTypeOK, CancelGrid
<1>1. \A t \in S : run[t].grid = e /\ run[t].status = "pending"
  BY DEF GridTasks
<1> HIDE DEF S
<1>2. /\ run' \in [Runs -> Run]
      /\ \A u \in Runs : /\ run'[u].grid = run[u].grid /\ run'[u].member = run[u].member
                         /\ run'[u].status = IF u \in S THEN "cancelled" ELSE run[u].status
  BY <1>r, CancelledIs
<1>3. RunsGoOn
  <2>1. \A u \in Runs : run[u].member => run'[u].member
    BY <1>2, Zenon
  <2> QED BY <1>1, <1>2, <2>1 DEF RunsGoOn
<1>4. ASSUME NEW f \in Exps \ unheard'
      PROVE  Open(run', f) \/ (~Open(run, f) /\ GridTasks(run', f) \subseteq GridTasks(run, f))
  <2>1. GridTasks(run', f) = GridTasks(run, f) /\ (Open(run', f) <=> Open(run, f))
    <3>1. f # e
      BY <1>r
    <3>2. \A v \in Runs : run'[v].grid = f \/ run[v].grid = f
                          => run'[v].grid = run[v].grid /\ run'[v].status = run[v].status
      BY <1>1, <1>2, <3>1
    <3> QED BY <3>2, OpenSame
  <2> QED BY <2>1
<1> QED BY <1>2, <1>3, <1>4, <1>r, SameExperiments

-----------------------------------------------------------------------------
(* Experiments change. *)

LEMMA ExpFields ==
  ASSUME HomeInv, NEW e \in Exps
  PROVE  /\ exp[e] \in Exp /\ exp[e].ids \subseteq Runs /\ exp[e].refs \subseteq Runs /\ exp[e].status \in Marks
         /\ exp[e].result \in [Runs -> {"none", "passed", "missed"}]
BY DEF HomeInv, ExperimentTypeOK, Exp, Marks

\* An experiment changes, and no task does.
LEMMA OnlyExperiment ==
  ASSUME ExperimentInv, NEW e \in Exps, NEW y \in Exp, exp' = [exp EXCEPT ![e] = y], run' = run, expLeft' \in 0..Meddling,
         unheard' \subseteq Exps, hasty' \subseteq Exps, \A f \in Exps : f # e /\ f \in unheard \cup hasty => f \in unheard' \cup hasty',
         y.at # "none", y.ids = exp[e].ids, y.refs \subseteq exp[e].refs, y.refs # {} => y.at = "there", y.at \in {"none", "lost"} => y.ids = {},
         y.at = "there" => exp[e].at = "there",
         e \in unheard' \cup hasty' \/ (y.at = "there" /\ AllFinal(e) => y.status # "running")
  PROVE  ExperimentInv'
<1>1. /\ exp \in [Exps -> Exp] /\ exp' \in [Exps -> Exp] /\ exp'[e] = y
      /\ \A f \in Exps : f # e => exp'[f] = exp[f]
  BY DEF ExperimentInv, HomeInv, ExperimentTypeOK
<1>2. ExperimentTypeOK'
  BY <1>1 DEF ExperimentInv, HomeInv, ExperimentTypeOK
<1>3. RunsGoOn
  BY DEF RunsGoOn
<1>4. ListsGrow
  <2> SUFFICES ASSUME NEW f \in Exps
               PROVE  /\ exp[f].at # "none" => exp'[f].at # "none"
                      /\ exp'[f].ids \cup exp'[f].refs \subseteq Listed(f)
                      /\ \A t \in exp'[f].refs : exp'[f].at = "there" /\ t \in exp[f].refs
                      /\ exp'[f].at \in {"none", "lost"} => exp'[f].ids = {}
    BY DEF ListsGrow
  <2>1. CASE f = e
    BY <1>1, <2>1 DEF Listed
  <2>2. CASE f # e
    BY <1>1, <2>2 DEF Listed, ExperimentInv, HomeInv, AtHome
  <2> QED BY <2>1, <2>2
<1>5. e \in unheard' \cup hasty' \/ (AllFinal(e)' => exp'[e].status # "running")
  <2>1. AllFinal(e)' => y.at = "there" /\ AllFinal(e)
    BY <1>1, AllFinalNext DEF AllFinal
  <2> QED BY <1>1, <2>1
<1>6. \A f \in Exps : f # e =>
        /\ GridTasks(run', f) = GridTasks(run, f)
        /\ \A t \in GridTasks(run, f) : run'[t].status = run[t].status
        /\ exp'[f].at = exp[f].at /\ exp'[f].status = exp[f].status
        /\ f \in unheard \cup hasty => f \in unheard' \cup hasty'
  BY <1>1
<1>7. SettledIsStored'
  BY <1>5, <1>6, ElsewhereThan DEF ExperimentInv
<1> QED BY <1>2, <1>3, <1>4, <1>7, HomesKept DEF ExperimentInv

LEMMA SnapshotStep ==
  ASSUME ExperimentInv, NEW e \in Exps, StatusSnapshot(e)
  PROVE  ExperimentInv'
<1>1. exp' = Looked(run', e) /\ run' = run /\ Heard(e) /\ expLeft' = expLeft
  BY ExpBounds DEF StatusSnapshot, Looked
<1>2. run' \in [Runs -> Run]
  BY <1>1 DEF ExperimentInv, HomeInv, ExperimentTypeOK
<1> QED BY <1>1, <1>2, ToldStep

LEMMA DeleteExperimentStep ==
  ASSUME ExperimentInv, NEW e \in Exps, DeleteExperiment(e)
  PROVE  ExperimentInv'
<1> DEFINE y == [NoExperiment EXCEPT !.at = "deleted", !.ids = exp[e].ids]
<1>1. y \in Exp /\ y.ids = exp[e].ids /\ y.refs = {} /\ y.at = "deleted"
  BY ExpFields DEF ExperimentInv, NoExperiment, NoResults, Exp
<1>2. exp' = [exp EXCEPT ![e] = y] /\ run' = run /\ unheard' = unheard /\ hasty' = hasty /\ Meddle
  BY DEF DeleteExperiment
<1>3. unheard \subseteq Exps /\ hasty \subseteq Exps /\ HomeInv
  BY DEF ExperimentInv, HomeInv, ExperimentTypeOK
<1> HIDE DEF y
<1> QED BY <1>1, <1>2, <1>3, OnlyExperiment, MeddleTyped

\* A result is noted and the status derived anew.
LEMMA EvalStep ==
  ASSUME ExperimentInv, NEW t \in Runs, Eval(t)
  PROVE  ExperimentInv'
<1>r. PICK g \in Exps : run[t].grid = g /\ run[t].status = "live"
  BY RunFields, ExpBounds DEF Eval, ExperimentInv
<1>1. PICK noted \in {"passed", "missed"} : exp' = Rederived(run, [exp EXCEPT ![g].result[t] = noted], g)
  BY <1>r DEF Eval
<1>2. exp[g] \in Exp /\ exp[g].result \in [Runs -> {"none", "passed", "missed"}] /\ exp \in [Exps -> Exp]
  BY ExpFields DEF ExperimentInv, HomeInv, ExperimentTypeOK
<1> DEFINE z == [exp[g] EXCEPT !.result = [exp[g].result EXCEPT ![t] = noted]]
           x == [exp EXCEPT ![g] = z]
<1>3. z \in Exp /\ z.ids = exp[g].ids /\ z.refs = exp[g].refs /\ z.at = exp[g].at
  <2>1. [exp[g].result EXCEPT ![t] = noted] \in [Runs -> {"none", "passed", "missed"}]
    BY <1>2
  <2> QED BY <1>2, <2>1 DEF Exp
<1>4. exp' = Rederived(run, x, g)
  BY <1>1, <1>2
<1> HIDE DEF z
<1>5. x \in [Exps -> Exp] /\ x[g] = z /\ \A f \in Exps : f # g => x[f] = exp[f]
  BY <1>2, <1>3
<1> HIDE DEF x
<1>6. /\ exp' \in [Exps -> Exp]
      /\ \A f \in Exps : /\ exp'[f].ids = exp[f].ids /\ exp'[f].refs = exp[f].refs /\ exp'[f].at = exp[f].at
                         /\ f # g => exp'[f] = exp[f]
  <2>1. /\ Rederived(run, x, g) \in [Exps -> Exp]
        /\ \A f \in Exps : /\ Rederived(run, x, g)[f].ids = x[f].ids /\ Rederived(run, x, g)[f].refs = x[f].refs
                           /\ Rederived(run, x, g)[f].at = x[f].at
                           /\ f # g => Rederived(run, x, g)[f] = x[f]
    BY <1>5, RederivedIs
  <2>2. \A f \in Exps : /\ x[f].ids = exp[f].ids /\ x[f].refs = exp[f].refs /\ x[f].at = exp[f].at
                        /\ f # g => x[f] = exp[f]
    BY <1>3, <1>5
  <2> QED BY <1>4, <2>1, <2>2
<1>7. exp' = [exp EXCEPT ![g] = exp'[g]] /\ exp'[g] \in Exp
  BY <1>2, <1>6
<1>8. ~AllFinal(g)
  BY <1>r DEF AllFinal, GridTasks, Exists, Final
<1>9. /\ run' = run /\ unheard' = unheard /\ hasty' = hasty /\ expLeft' = expLeft /\ unheard \subseteq Exps /\ hasty \subseteq Exps
      /\ expLeft \in 0..Meddling
  BY DEF Eval, ExperimentInv, HomeInv, ExperimentTypeOK
<1>10. exp'[g].at # "none" /\ (exp'[g].refs # {} => exp'[g].at = "there")
  BY <1>r, <1>6 DEF ExperimentInv, HomeInv, AtHome
<1>11. exp'[g].at \in {"none", "lost"} => exp'[g].ids = {}
  BY <1>6 DEF ExperimentInv, HomeInv, AtHome
<1>12. PICK y \in Exp : y = exp'[g]
  BY <1>7
<1> QED BY <1>6, <1>7, <1>8, <1>9, <1>10, <1>11, <1>12, OnlyExperiment

\* Tasks come to one grid, to be done; what the others hold stays as it is.
LEMMA ComeToBeDone ==
  ASSUME ExperimentInv, ExperimentTypeOK', NEW N, NEW g \in Exps \cup {NoExp}, unheard' = unheard, hasty' = hasty,
         \A u \in N : run[u].status = "none" /\ run'[u].grid = g /\ run'[u].status \in {"pending", "blocked"},
         \A u \in Runs \ N : /\ run'[u].grid = run[u].grid /\ (run[u].member => run'[u].member)
                             /\ run'[u].status = run[u].status \/ (run[u].grid = g /\ Exists(run, u) /\ Exists(run', u)),
         ListsGrow,
         \A f \in Exps : f # g => exp'[f].at = exp[f].at /\ exp'[f].status = exp[f].status,
         g \in Exps /\ exp'[g].at = "there" => \E u \in N : u \in Runs /\ run'[u].status = "pending"
  PROVE  ExperimentInv'
<1>1. RunsGoOn
  BY DEF RunsGoOn, Exists
<1>2. ASSUME NEW e \in Exps, e # g
      PROVE  /\ GridTasks(run', e) = GridTasks(run, e)
             /\ \A t \in GridTasks(run, e) : run'[t].status = run[t].status
  <2>1. ASSUME NEW v \in Runs,
               (run'[v].grid = e /\ Exists(run', v)) \/ (run[v].grid = e /\ Exists(run, v))
        PROVE  run'[v].grid = run[v].grid /\ run'[v].status = run[v].status
    <3>1. v \notin N
      BY <1>2, <2>1 DEF Exists
    <3> QED BY <1>2, <2>1, <3>1
  <2>2. GridTasks(run', e) = GridTasks(run, e)
    BY <2>1, OpenSame
  <2> QED BY <2>1, <2>2 DEF GridTasks
<1>3. g \in Exps => ~AllFinal(g)'
  <2>1. g \in Exps => (AllFinal(g)' => exp'[g].at = "there" /\ \A u \in GridTasks(run', g) : Final(run', u))
    BY AllFinalNext
  <2> QED BY <2>1 DEF GridTasks, Exists, Final
<1>4. \A e \in Exps : e # g =>
        /\ GridTasks(run', e) = GridTasks(run, e)
        /\ \A t \in GridTasks(run, e) : run'[t].status = run[t].status
        /\ exp'[e].at = exp[e].at /\ exp'[e].status = exp[e].status
        /\ e \in unheard \cup hasty => e \in unheard' \cup hasty'
  BY <1>2
<1>5. SettledIsStored'
  BY <1>3, <1>4, ElsewhereThan DEF ExperimentInv
<1> QED BY <1>1, <1>5, HomesKept DEF ExperimentInv

LEMMA ReplaceStep ==
  ASSUME ExperimentInv, NEW t \in Runs, ReplaceRun(t)
  PROVE  ExperimentInv'
<1>r. PICK g \in Exps \cup {NoExp} : run[t].grid = g
  BY RunFields DEF ExperimentInv
<1>1. PICK u \in Runs, canonical \in BOOLEAN :
        /\ NewRuns({u}, 1)
        /\ run' = [run EXCEPT ![u] = [run[t] EXCEPT !.status = "pending", !.root = NoRun],
                              ![t].status = IF @ \in {"blocked", "pending"} THEN "cancelled" ELSE @]
        /\ exp' = [e \in Exps |-> IF canonical /\ exp[e].at = "there" /\ run[t].member /\ run[t].grid = e /\ t \in exp[e].refs
                                  THEN [exp[e] EXCEPT !.refs = (@ \ {t}) \cup {u}] ELSE exp[e]]
  BY DEF ReplaceRun
<1>2. /\ run \in [Runs -> Run] /\ exp \in [Exps -> Exp] /\ run[t] \in Run /\ run[u].status = "none" /\ Exists(run, t)
      /\ u # t /\ unheard' = unheard /\ hasty' = hasty /\ expLeft' \in 0..Meddling
  BY <1>1, MeddleTyped DEF ExperimentInv, HomeInv, ExperimentTypeOK, ReplaceRun, NewRuns, Exists
<1> DEFINE s == IF run[t].status \in {"blocked", "pending"} THEN "cancelled" ELSE run[t].status
           new == [run[t] EXCEPT !.status = "pending", !.root = NoRun]
           old == [run[t] EXCEPT !.status = s]
<1>3. s \in Statuses \ {"none", "deleted"}
  BY <1>2, RunFields DEF ExperimentInv, Exists, Statuses
<1>4. run' = [run EXCEPT ![u] = new, ![t] = old]
  BY <1>1, <1>2
<1> HIDE DEF s
<1>5. /\ new \in Run /\ new.status = "pending" /\ new.grid = run[t].grid /\ new.member = run[t].member
      /\ old \in Run /\ old.status = s /\ old.grid = run[t].grid /\ old.member = run[t].member
  BY <1>2, <1>3 DEF Run, Statuses
<1> HIDE DEF new, old
<1>6. /\ run' \in [Runs -> Run] /\ run'[u] = new /\ run'[t] = old
      /\ \A v \in Runs : v # t /\ v # u => run'[v] = run[v]
  BY <1>2, <1>4, <1>5
<1>7. ASSUME NEW e \in Exps
      PROVE  /\ exp'[e] \in Exp /\ exp'[e].ids = exp[e].ids /\ exp'[e].at = exp[e].at /\ exp'[e].status = exp[e].status
             /\ \A v \in exp'[e].refs : v \in exp[e].refs \/ (v = u /\ run[t].grid = e /\ run[t].member /\ exp[e].at = "there")
  <2>1. exp[e] \in Exp
    BY <1>2
  <2>2. CASE exp'[e] = exp[e]
    BY <2>1, <2>2
  <2>3. CASE exp'[e] = [exp[e] EXCEPT !.refs = (exp[e].refs \ {t}) \cup {u}] /\ run[t].grid = e /\ run[t].member /\ exp[e].at = "there"
    BY <2>1, <2>3 DEF Exp
  <2> QED BY <1>1, <2>2, <2>3
<1>8. ExperimentTypeOK'
  <2>1. exp' \in [Exps -> Exp]
    BY <1>1, <1>7
  <2> QED BY <1>2, <1>6, <2>1 DEF ExperimentInv, HomeInv, ExperimentTypeOK
<1>9. ListsGrow
  <2> SUFFICES ASSUME NEW e \in Exps
               PROVE  /\ \A v \in exp'[e].ids \cup exp'[e].refs :
                           \/ v \in Listed(e) /\ run'[v].grid = run[v].grid
                           \/ run'[v].status # "none" /\ run'[v].grid = e
                      /\ \A v \in exp'[e].refs : exp'[e].at = "there" /\ (v \in exp[e].refs \/ run'[v].member)
                      /\ exp'[e].at \in {"none", "lost"} => exp'[e].ids = {}
                      /\ \A v \in Runs : run'[v].grid = e => exp'[e].at # "none"
    BY <1>7 DEF ListsGrow
  <2>1. \A v \in Listed(e) : v \in Runs /\ run[v].status # "none"
    BY DEF ExperimentInv, HomeInv, AtHome, ExperimentTypeOK, Exp, Listed
  <2>2. \A v \in Listed(e) : run'[v].grid = run[v].grid
    BY <1>2, <1>5, <1>6, <2>1
  <2>3. \A v \in Runs : run'[v].grid = e => exp'[e].at # "none"
    BY <1>5, <1>6, <1>7 DEF ExperimentInv, HomeInv, AtHome
  <2>4. exp[e].at \in {"none", "lost"} => exp[e].ids = {}
    BY DEF ExperimentInv, HomeInv, AtHome
  <2>5. \A v \in exp[e].refs : exp[e].at = "there"
    BY DEF ExperimentInv, HomeInv, AtHome
  <2>6. run[t].member => run'[u].member
    BY <1>5, <1>6, Zenon
  <2>7. run'[u].status # "none" /\ run'[u].grid = run[t].grid
    BY <1>5, <1>6
  <2> QED BY <1>7, <2>2, <2>3, <2>4, <2>5, <2>6, <2>7 DEF Listed
<1> DEFINE N == {u}
<1>10. \A v \in N : run[v].status = "none" /\ run'[v].grid = g /\ run'[v].status \in {"pending", "blocked"}
  BY <1>2, <1>5, <1>6, <1>r
<1>11. ASSUME NEW v \in Runs \ N
       PROVE  /\ run'[v].grid = run[v].grid /\ (run[v].member => run'[v].member)
              /\ run'[v].status = run[v].status \/ (run[v].grid = g /\ Exists(run, v) /\ Exists(run', v))
  <2>1. CASE v = t
    <3>1. run[v].member => run'[v].member
      BY <1>5, <1>6, <2>1, Zenon
    <3> QED BY <1>2, <1>3, <1>5, <1>6, <1>r, <2>1, <3>1 DEF Exists
  <2>2. CASE v # t
    BY <1>6, <2>2
  <2> QED BY <2>1, <2>2
<1>12. \E v \in N : v \in Runs /\ run'[v].status = "pending"
  BY <1>5, <1>6
<1>13. \A f \in Exps : f # g => exp'[f].at = exp[f].at /\ exp'[f].status = exp[f].status
  BY <1>7
<1> HIDE DEF N
<1> QED BY <1>2, <1>8, <1>9, <1>10, <1>11, <1>12, <1>13, ComeToBeDone

LEMMA RetriedStep ==
  ASSUME ExperimentInv, NEW e \in Exps, Meddle, GridExists(e), NEW S \in SUBSET GridTasks(run, e),
         NEW copy \in [S -> Runs], NEW clear \in BOOLEAN, Retried(e, S, copy, clear)
  PROVE  ExperimentInv'
<1> DEFINE N == {copy[t] : t \in S}
<1>r. /\ run \in [Runs -> Run] /\ exp \in [Exps -> Exp] /\ exp[e] \in Exp /\ unheard' = unheard /\ hasty' = hasty
      /\ expLeft' \in 0..Meddling /\ S # {} /\ exp[e].at \notin {"none", "lost"}
  BY MeddleTyped DEF ExperimentInv, HomeInv, ExperimentTypeOK, Retried, GridExists
<1>1. N \subseteq Runs /\ \A u \in N : run[u].status = "none"
  BY DEF Retried, NewRuns
<1>2. ASSUME NEW u \in N
      PROVE  run'[u] \in Run /\ run'[u].status = "pending" /\ run'[u].grid = e
  <2>1. PICK c \in S : c = CHOOSE t \in S : copy[t] = u
    <3>1. \E t \in S : copy[t] = u
      OBVIOUS
    <3> QED BY <3>1
  <2>2. run'[u] = Copy(c)
    BY <1>1, <1>2, <2>1 DEF Retried
  <2>3. c \in Runs /\ run[c].grid = e
    BY DEF GridTasks
  <2> QED BY <2>2, <2>3, CopyIs DEF ExperimentInv
<1>3. ASSUME NEW u \in Runs \ N
      PROVE  run'[u] = run[u]
  BY <1>3 DEF Retried
<1>4. run' \in [Runs -> Run]
  BY <1>2, <1>3, <1>r DEF Retried
<1> DEFINE ids == (exp[e].ids \ S) \cup {copy[t] : t \in S \cap exp[e].ids}
           noted == [t \in Runs |-> IF clear /\ t \in S THEN "none" ELSE exp[e].result[t]]
           y == [exp[e] EXCEPT !.ids = ids, !.result = noted]
<1>5. exp' = [exp EXCEPT ![e] = y]
  BY <1>r DEF Retried
<1>6. ids \subseteq Runs /\ ids \subseteq exp[e].ids \cup N /\ noted \in [Runs -> {"none", "passed", "missed"}]
  BY <1>r, ExpFields DEF ExperimentInv
<1> HIDE DEF ids, noted
<1>7. y \in Exp /\ y.ids = ids /\ y.refs = exp[e].refs /\ y.at = exp[e].at
  BY <1>6, <1>r DEF Exp
<1> HIDE DEF y
<1>8. exp' \in [Exps -> Exp] /\ exp'[e] = y /\ \A f \in Exps : f # e => exp'[f] = exp[f]
  BY <1>5, <1>7, <1>r
<1>9. ExperimentTypeOK'
  BY <1>4, <1>8, <1>r DEF ExperimentInv, HomeInv, ExperimentTypeOK
<1> HIDE DEF N
<1>10. ListsGrow
  <2> SUFFICES ASSUME NEW f \in Exps
               PROVE  /\ exp[f].at # "none" => exp'[f].at # "none"
                      /\ \A v \in exp'[f].ids \cup exp'[f].refs :
                           \/ v \in Listed(f) /\ run'[v].grid = run[v].grid
                           \/ run'[v].status # "none" /\ run'[v].grid = f
                      /\ \A v \in exp'[f].refs : exp'[f].at = "there" /\ v \in exp[f].refs
                      /\ exp'[f].at \in {"none", "lost"} => exp'[f].ids = {}
                      /\ \A v \in Runs : run'[v].grid = f => run[v].grid = f \/ exp'[f].at # "none"
    BY DEF ListsGrow
  <2>1. \A v \in Listed(f) : v \in Runs /\ run[v].status # "none"
    BY DEF ExperimentInv, HomeInv, AtHome, ExperimentTypeOK, Exp, Listed
  <2>2. \A v \in Listed(f) : run'[v].grid = run[v].grid
    BY <1>1, <1>3, <2>1
  <2>3. exp[f].at \in {"none", "lost"} => exp[f].ids = {}
    BY DEF ExperimentInv, HomeInv, AtHome
  <2>4. \A v \in exp[f].refs : exp[f].at = "there"
    BY DEF ExperimentInv, HomeInv, AtHome
  <2>5. CASE f = e
    BY <1>2, <1>3, <1>6, <1>7, <1>8, <1>r, <2>2, <2>4, <2>5 DEF Listed
  <2>6. CASE f # e
    BY <1>2, <1>3, <1>8, <2>2, <2>3, <2>4, <2>6 DEF Listed
  <2> QED BY <2>5, <2>6
<1>11. \A v \in N : run[v].status = "none" /\ run'[v].grid = e /\ run'[v].status \in {"pending", "blocked"}
  BY <1>1, <1>2
<1>12. \A v \in Runs \ N : /\ run'[v].grid = run[v].grid /\ (run[v].member => run'[v].member)
                           /\ run'[v].status = run[v].status \/ (run[v].grid = e /\ Exists(run, v) /\ Exists(run', v))
  BY <1>3
<1>13. \E v \in N : v \in Runs /\ run'[v].status = "pending"
  BY <1>1, <1>2, <1>r DEF N
<1>14. \A f \in Exps : f # e => exp'[f].at = exp[f].at /\ exp'[f].status = exp[f].status
  BY <1>8
<1> QED BY <1>r, <1>9, <1>10, <1>11, <1>12, <1>13, <1>14, ComeToBeDone

LEMMA RetryFailedStep ==
  ASSUME ExperimentInv, NEW e \in Exps, RetryFailed(e) \/ GridRetryFailed(e)
  PROVE  ExperimentInv'
<1>1. CASE RetryFailed(e)
  <2> DEFINE S == {t \in GridTasks(run, e) : run[t].status = "failed" \/ exp[e].result[t] = "missed"}
  <2>1. PICK copy \in [S -> Runs] : Retried(e, S, copy, TRUE)
    BY <1>1 DEF RetryFailed
  <2>2. Meddle /\ GridExists(e) /\ S \in SUBSET GridTasks(run, e)
    BY <1>1 DEF RetryFailed, GridExists
  <2> HIDE DEF S
  <2> QED BY <2>1, <2>2, RetriedStep
<1>2. CASE GridRetryFailed(e)
  <2> DEFINE S == {t \in GridTasks(run, e) : run[t].status \in {"failed", "cancelled"}}
  <2>1. PICK copy \in [S -> Runs] : Retried(e, S, copy, FALSE)
    BY <1>2 DEF GridRetryFailed
  <2>2. Meddle /\ GridExists(e) /\ S \in SUBSET GridTasks(run, e)
    BY <1>2 DEF GridRetryFailed
  <2> HIDE DEF S
  <2> QED BY <2>1, <2>2, RetriedStep
<1> QED BY <1>1, <1>2

-----------------------------------------------------------------------------
(* Experiments begin. *)

\* New tasks, and a new grid for them, with or without its experiment.
LEMMA MadeStep ==
  ASSUME ExperimentInv, NEW e \in Exps, exp[e].at = "none", NEW S \in SUBSET Runs, \A t \in S : run[t].status = "none",
         NEW blocked \in SUBSET S, NEW member \in BOOLEAN, run' = Made(S, e, blocked, member),
         NEW y \in Exp, exp' = [exp EXCEPT ![e] = y], y.at \in {"there", "grid"}, y.ids \subseteq S, y.refs \subseteq S,
         y.refs # {} => y.at = "there" /\ member, y.at = "there" => blocked # S,
         unheard' = unheard, hasty' = hasty, expLeft' \in 0..Meddling
  PROVE  ExperimentInv'
<1>1. ASSUME NEW t \in Runs
      PROVE  /\ run'[t] \in Run
             /\ t \in S => /\ run'[t].status = (IF t \in blocked THEN "blocked" ELSE "pending")
                           /\ run'[t].grid = e /\ run'[t].member = member
             /\ t \notin S => run'[t] = run[t]
  <2>1. CASE t \in S
    <3>1. run'[t] = [status |-> IF t \in blocked THEN "blocked" ELSE "pending", grid |-> e, member |-> member, root |-> NoRun]
      BY <2>1 DEF Made
    <3> QED BY <2>1, <3>1 DEF Run
  <2>2. CASE t \notin S
    BY <2>2 DEF Made, ExperimentInv, HomeInv, ExperimentTypeOK
  <2> QED BY <2>1, <2>2
<1>2. exp' \in [Exps -> Exp] /\ exp'[e] = y /\ \A f \in Exps : f # e => exp'[f] = exp[f]
  BY DEF ExperimentInv, HomeInv, ExperimentTypeOK
<1>3. ExperimentTypeOK'
  <2>1. run' \in [Runs -> Run]
    BY <1>1 DEF Made
  <2> QED BY <1>2, <2>1 DEF ExperimentInv, HomeInv, ExperimentTypeOK
<1>4. ListsGrow
  <2> SUFFICES ASSUME NEW f \in Exps
               PROVE  /\ exp[f].at # "none" => exp'[f].at # "none"
                      /\ \A v \in exp'[f].ids \cup exp'[f].refs :
                           \/ v \in Listed(f) /\ run'[v].grid = run[v].grid
                           \/ run'[v].status # "none" /\ run'[v].grid = f
                      /\ \A v \in exp'[f].refs : exp'[f].at = "there" /\ (v \in exp[f].refs \/ run'[v].member)
                      /\ exp'[f].at \in {"none", "lost"} => exp'[f].ids = {}
                      /\ \A v \in Runs : run'[v].grid = f => run[v].grid = f \/ exp'[f].at # "none"
    BY DEF ListsGrow
  <2>1. CASE f = e
    <3>1. \A v \in S : run'[v].status # "none" /\ run'[v].grid = f
      BY <1>1, <2>1
    <3>2. \A v \in y.refs : y.at = "there" /\ run'[v].member
      BY <1>1
    <3> QED BY <1>2, <2>1, <3>1, <3>2
  <2>2. CASE f # e
    <3>1. \A v \in Listed(f) : v \in Runs /\ run[v].status # "none"
      BY DEF ExperimentInv, HomeInv, AtHome, ExperimentTypeOK, Exp, Listed
    <3>2. \A v \in Listed(f) : run'[v].grid = run[v].grid
      BY <1>1, <3>1
    <3>3. \A v \in Runs : run'[v].grid = f => run[v].grid = f
      BY <1>1, <2>2
    <3>4. exp[f].at \in {"none", "lost"} => exp[f].ids = {}
      BY DEF ExperimentInv, HomeInv, AtHome
    <3>5. \A v \in exp[f].refs : exp[f].at = "there"
      BY DEF ExperimentInv, HomeInv, AtHome
    <3> QED BY <1>2, <2>2, <3>2, <3>3, <3>4, <3>5 DEF Listed
  <2> QED BY <2>1, <2>2
<1>5. \A v \in S : run[v].status = "none" /\ run'[v].grid = e /\ run'[v].status \in {"pending", "blocked"}
  BY <1>1
<1>6. \A v \in Runs \ S : /\ run'[v].grid = run[v].grid /\ (run[v].member => run'[v].member)
                          /\ run'[v].status = run[v].status \/ (run[v].grid = e /\ Exists(run, v) /\ Exists(run', v))
  BY <1>1
<1>7. exp'[e].at = "there" => \E v \in S : v \in Runs /\ run'[v].status = "pending"
  <2>1. y.at = "there" => \E v \in S : v \notin blocked
    OBVIOUS
  <2> QED BY <1>1, <1>2, <2>1
<1>8. \A f \in Exps : f # e => exp'[f].at = exp[f].at /\ exp'[f].status = exp[f].status
  BY <1>2
<1> QED BY <1>3, <1>4, <1>5, <1>6, <1>7, <1>8, ComeToBeDone

LEMMA SubmitExperimentStep ==
  ASSUME ExperimentInv, NEW e \in Exps, SubmitExperiment(e)
  PROVE  ExperimentInv'
<1>1. PICK S \in SUBSET Runs, blocked \in SUBSET Runs :
        /\ NewRuns(S, 2) /\ blocked \subseteq S /\ blocked # S
        /\ run' = Made(S, e, blocked, TRUE)
        /\ exp' = [exp EXCEPT ![e] = [NoExperiment EXCEPT !.at = "there", !.ids = S, !.refs = S]]
  BY DEF SubmitExperiment
<1>2. /\ exp[e].at = "none" /\ \A t \in S : run[t].status = "none"
      /\ unheard' = unheard /\ hasty' = hasty /\ expLeft' = expLeft /\ expLeft \in 0..Meddling
  BY <1>1 DEF SubmitExperiment, NewExp, NewRuns, ExperimentInv, HomeInv, ExperimentTypeOK
<1> DEFINE y == [NoExperiment EXCEPT !.at = "there", !.ids = S, !.refs = S]
<1>3. y \in Exp /\ y.at = "there" /\ y.ids = S /\ y.refs = S
  BY DEF NoExperiment, NoResults, Exp
<1>4. exp' = [exp EXCEPT ![e] = y]
  BY <1>1
<1> HIDE DEF y
<1>5. S \in SUBSET Runs /\ blocked \in SUBSET S /\ TRUE \in BOOLEAN /\ y.at \in {"there", "grid"} /\ (y.at = "there" => blocked # S)
      /\ y.ids \subseteq S /\ y.refs \subseteq S /\ (y.refs # {} => y.at = "there" /\ TRUE) /\ expLeft' \in 0..Meddling
  BY <1>1, <1>2, <1>3
<1>6. run' = Made(S, e, blocked, TRUE)
  BY <1>1
<1> QED BY <1>2, <1>3, <1>4, <1>5, <1>6, MadeStep

\* A grid by itself is what a crash leaves of a matrix.
LEMMA GridIsCutMatrix == ASSUME NEW e \in Exps, SubmitGrid(e) PROVE SubmitMatrix(e)
BY DEF SubmitGrid, SubmitMatrix

LEMMA SubmitMatrixStep ==
  ASSUME ExperimentInv, NEW e \in Exps, SubmitMatrix(e)
  PROVE  ExperimentInv'
<1>1. PICK S \in SUBSET Runs, n \in 0..2 :
        /\ NewRuns(S, n) /\ run' = Made(S, e, {}, FALSE)
        /\ \/ /\ n > 0
              /\ exp' = [exp EXCEPT ![e] = [NoExperiment EXCEPT !.at = "there", !.ids = S]]
              /\ UNCHANGED expLeft
           \/ /\ Meddle
              /\ \E ids \in {{}, S} : exp' = [exp EXCEPT ![e] = [NoExperiment EXCEPT !.at = "grid", !.ids = ids]]
  BY DEF SubmitMatrix
<1>2. /\ exp[e].at = "none" /\ \A t \in S : run[t].status = "none"
      /\ unheard' = unheard /\ hasty' = hasty /\ expLeft \in 0..Meddling /\ HomeInv
  BY <1>1 DEF SubmitMatrix, NewExp, NewRuns, ExperimentInv, HomeInv, ExperimentTypeOK
<1>3. CASE n > 0 /\ exp' = [exp EXCEPT ![e] = [NoExperiment EXCEPT !.at = "there", !.ids = S]] /\ UNCHANGED expLeft
  <2> DEFINE y == [NoExperiment EXCEPT !.at = "there", !.ids = S]
  <2>1. y \in Exp /\ y.at = "there" /\ y.ids = S /\ y.refs = {}
    BY DEF NoExperiment, NoResults, Exp
  <2>2. exp' = [exp EXCEPT ![e] = y]
    BY <1>3
  <2>3. S # {}
    <3>1. Cardinality({}) = 0
      BY FS_EmptySet
    <3>2. Cardinality(S) = n
      BY <1>1 DEF NewRuns
    <3> QED BY <1>3, <3>1, <3>2
  <2> HIDE DEF y
  <2>4. {} \in SUBSET S /\ FALSE \in BOOLEAN /\ y.at \in {"there", "grid"} /\ (y.at = "there" => {} # S)
        /\ y.ids \subseteq S /\ y.refs \subseteq S /\ (y.refs # {} => y.at = "there" /\ FALSE) /\ expLeft' \in 0..Meddling
    BY <1>2, <1>3, <2>1, <2>3
  <2> QED BY <1>1, <1>2, <2>1, <2>2, <2>4, MadeStep
<1>4. CASE Meddle /\ \E ids \in {{}, S} : exp' = [exp EXCEPT ![e] = [NoExperiment EXCEPT !.at = "grid", !.ids = ids]]
  <2>1. PICK ids \in {{}, S} : exp' = [exp EXCEPT ![e] = [NoExperiment EXCEPT !.at = "grid", !.ids = ids]]
    BY <1>4
  <2> DEFINE y == [NoExperiment EXCEPT !.at = "grid", !.ids = ids]
  <2>2. y \in Exp /\ y.at = "grid" /\ y.ids \subseteq S /\ y.refs = {}
    BY DEF NoExperiment, NoResults, Exp
  <2>3. exp' = [exp EXCEPT ![e] = y]
    BY <2>1
  <2> HIDE DEF y
  <2>4. {} \in SUBSET S /\ FALSE \in BOOLEAN /\ y.at \in {"there", "grid"} /\ (y.at = "there" => {} # S)
        /\ y.ids \subseteq S /\ y.refs \subseteq S /\ (y.refs # {} => y.at = "there" /\ FALSE) /\ expLeft' \in 0..Meddling
    BY <1>2, <1>4, <2>2, MeddleTyped
  <2> QED BY <1>1, <1>2, <2>2, <2>3, <2>4, MadeStep
<1> QED BY <1>1, <1>3, <1>4

LEMMA AdoptStep ==
  ASSUME ExperimentInv, NEW e \in Exps, Adopt(e)
  PROVE  ExperimentInv'
<1>1. PICK T \in SUBSET {t \in Runs : Exists(run, t) /\ run[t].grid = NoExp} :
        /\ T # {}
        /\ run' = [t \in Runs |-> IF t \in T THEN [run[t] EXCEPT !.grid = e, !.member = TRUE] ELSE run[t]]
        /\ \/ exp' = [exp EXCEPT ![e] = [NoExperiment EXCEPT !.at = "there", !.ids = T, !.refs = T,
                                                             !.status = StatusOf(run, T)]]
           \/ exp' = [exp EXCEPT ![e] = [NoExperiment EXCEPT !.at = "grid", !.ids = T]]
           \/ exp' = [exp EXCEPT ![e].at = "lost"]
  BY DEF Adopt
<1>2. /\ exp[e].at = "none" /\ exp[e] \in Exp /\ run \in [Runs -> Run] /\ exp \in [Exps -> Exp] /\ exp[e].ids = {} /\ exp[e].refs = {}
      /\ unheard' = unheard /\ hasty' = hasty /\ expLeft' \in 0..Meddling /\ \A t \in Runs : run[t].grid # e
  BY MeddleTyped DEF Adopt, NewExp, ExperimentInv, HomeInv, ExperimentTypeOK, AtHome
<1>3. ASSUME NEW t \in Runs
      PROVE  /\ run'[t] \in Run /\ run'[t].status = run[t].status
             /\ t \in T => run'[t].grid = e /\ run'[t].member = TRUE /\ run[t].grid = NoExp /\ Exists(run, t)
             /\ t \notin T => run'[t] = run[t]
  <2>1. run[t] \in Run
    BY <1>2
  <2>2. CASE t \in T
    <3>1. run'[t] = [run[t] EXCEPT !.grid = e, !.member = TRUE]
      BY <1>1, <2>2
    <3> QED BY <2>1, <2>2, <3>1 DEF Run
  <2>3. CASE t \notin T
    BY <1>1, <2>1, <2>3
  <2> QED BY <2>2, <2>3
<1>4. PICK y \in Exp : /\ exp' = [exp EXCEPT ![e] = y] /\ y.ids \subseteq T /\ y.refs \subseteq T
                       /\ y.at \in {"there", "grid", "lost"} /\ (y.refs # {} => y.at = "there") /\ (y.at = "lost" => y.ids = {})
                       /\ y.at = "there" => y.status = StatusOf(run, T)
  <2>1. CASE exp' = [exp EXCEPT ![e] = [NoExperiment EXCEPT !.at = "there", !.ids = T, !.refs = T, !.status = StatusOf(run, T)]]
    <3>1. PICK status \in Marks : status = StatusOf(run, T)
      BY StatusTyped
    <3> DEFINE z == [NoExperiment EXCEPT !.at = "there", !.ids = T, !.refs = T, !.status = status]
    <3>2. z \in Exp /\ z.at = "there" /\ z.ids = T /\ z.refs = T /\ z.status = status
      BY DEF NoExperiment, NoResults, Exp, Marks
    <3>3. exp' = [exp EXCEPT ![e] = z]
      BY <2>1, <3>1
    <3> HIDE DEF z
    <3> QED BY <3>1, <3>2, <3>3
  <2>2. CASE exp' = [exp EXCEPT ![e] = [NoExperiment EXCEPT !.at = "grid", !.ids = T]]
    <3> DEFINE z == [NoExperiment EXCEPT !.at = "grid", !.ids = T]
    <3>1. z \in Exp /\ z.at = "grid" /\ z.ids = T /\ z.refs = {}
      BY DEF NoExperiment, NoResults, Exp
    <3> HIDE DEF z
    <3> QED BY <2>2, <3>1 DEF z
  <2>3. CASE exp' = [exp EXCEPT ![e].at = "lost"]
    <3> DEFINE z == [exp[e] EXCEPT !.at = "lost"]
    <3>1. z \in Exp /\ z.at = "lost" /\ z.ids = {} /\ z.refs = {}
      BY <1>2 DEF Exp
    <3>2. exp' = [exp EXCEPT ![e] = z]
      BY <1>2, <2>3
    <3> HIDE DEF z
    <3> QED BY <3>1, <3>2
  <2> QED BY <1>1, <2>1, <2>2, <2>3
<1>5. exp' \in [Exps -> Exp] /\ exp'[e] = y /\ \A f \in Exps : f # e => exp'[f] = exp[f]
  BY <1>2, <1>4
<1>6. ExperimentTypeOK'
  <2>1. run' \in [Runs -> Run]
    BY <1>1, <1>3
  <2> QED BY <1>2, <1>5, <2>1 DEF ExperimentInv, HomeInv, ExperimentTypeOK
<1>7. RunsGoOn
  <2>1. \A t \in Runs : run[t].member => run'[t].member
    BY <1>3
  <2> QED BY <1>3, <2>1 DEF RunsGoOn
<1>8. ListsGrow
  <2> SUFFICES ASSUME NEW f \in Exps
               PROVE  /\ exp[f].at # "none" => exp'[f].at # "none"
                      /\ \A v \in exp'[f].ids \cup exp'[f].refs :
                           \/ v \in Listed(f) /\ run'[v].grid = run[v].grid
                           \/ run'[v].status # "none" /\ run'[v].grid = f
                      /\ \A v \in exp'[f].refs : exp'[f].at = "there" /\ (v \in exp[f].refs \/ run'[v].member)
                      /\ exp'[f].at \in {"none", "lost"} => exp'[f].ids = {}
                      /\ \A v \in Runs : run'[v].grid = f => run[v].grid = f \/ exp'[f].at # "none"
    BY DEF ListsGrow
  <2>1. CASE f = e
    <3>1. \A v \in T : v \in Runs /\ run'[v].status # "none" /\ run'[v].grid = f /\ run'[v].member
      BY <1>3, <2>1 DEF Exists
    <3> QED BY <1>2, <1>4, <1>5, <2>1, <3>1
  <2>2. CASE f # e
    <3>1. \A v \in Listed(f) : v \in Runs /\ (run[v].grid = f \/ run[v].status = "deleted")
      BY DEF ExperimentInv, HomeInv, AtHome, ExperimentTypeOK, Exp, Listed
    <3>2. \A v \in Listed(f) : run'[v].grid = run[v].grid
      <4> SUFFICES ASSUME NEW v \in Listed(f) PROVE v \notin T
        BY <1>3, <3>1
      <4> QED BY <1>3, <3>1, ExpBounds DEF Exists
    <3>3. \A v \in Runs : run'[v].grid = f => run[v].grid = f
      BY <1>3, <2>2
    <3>4. exp[f].at \in {"none", "lost"} => exp[f].ids = {}
      BY DEF ExperimentInv, HomeInv, AtHome
    <3>5. \A v \in exp[f].refs : exp[f].at = "there"
      BY DEF ExperimentInv, HomeInv, AtHome
    <3> QED BY <1>5, <2>2, <3>2, <3>3, <3>4, <3>5 DEF Listed
  <2> QED BY <2>1, <2>2
<1>9. ASSUME AllFinal(e)' PROVE exp'[e].status # "running"
  <2>1. y.at = "there" /\ \A t \in GridTasks(run', e) : Final(run', t)
    BY <1>5, <1>9, AllFinalNext
  <2>2. ASSUME NEW t \in T PROVE Final(run, t)
    <3>1. t \in Runs /\ run'[t].status = run[t].status /\ run'[t].grid = e /\ Exists(run, t)
      BY <1>3
    <3>2. t \in GridTasks(run', e)
      BY <3>1 DEF GridTasks, Exists
    <3> QED BY <2>1, <3>1, <3>2 DEF Final
  <2>3. T # {}
    BY <1>1
  <2>4. StatusOf(run, T) # "running"
    BY <2>2, <2>3, StatusSettles
  <2> QED BY <1>4, <1>5, <2>1, <2>4
<1>10. ASSUME NEW f \in Exps, f # e
       PROVE  GridTasks(run', f) = GridTasks(run, f) /\ \A t \in GridTasks(run, f) : run'[t].status = run[t].status
  <2>1. \A v \in Runs : run'[v].grid = f <=> run[v].grid = f
    BY <1>3, <1>10, ExpBounds
  <2> QED BY <1>3, <2>1 DEF GridTasks, Exists
<1>11. \A f \in Exps : f # e =>
         /\ GridTasks(run', f) = GridTasks(run, f)
         /\ \A t \in GridTasks(run, f) : run'[t].status = run[t].status
         /\ exp'[f].at = exp[f].at /\ exp'[f].status = exp[f].status
         /\ f \in unheard \cup hasty => f \in unheard' \cup hasty'
  BY <1>2, <1>5, <1>10
<1>12. SettledIsStored'
  BY <1>9, <1>11, ElsewhereThan DEF ExperimentInv
<1> QED BY <1>6, <1>7, <1>8, <1>12, HomesKept DEF ExperimentInv

-----------------------------------------------------------------------------
(* Tasks move. *)

\* A task leaves the lists of its grid; an experiment that it named looks at the rest.
LEMMA LeavesIs ==
  ASSUME HomeInv, NEW t \in Runs, Exists(run, t)
  PROVE  /\ Leaves(exp, t) \in [Exps -> Exp]
         /\ \A h \in Exps : /\ Leaves(exp, t)[h].at = exp[h].at
                            /\ Leaves(exp, t)[h].ids = exp[h].ids \ {t} /\ Leaves(exp, t)[h].refs = exp[h].refs \ {t}
                            /\ h # run[t].grid => Leaves(exp, t)[h] = exp[h]
                            /\ h = run[t].grid /\ run[t].member /\ exp[h].at = "there" =>
                                 Leaves(exp, t)[h].status = StatusOf(run, {u \in exp[h].ids \ {t} : Exists(run, u)})
<1>r. exp \in [Exps -> Exp] /\ run[t].grid \in Exps \cup {NoExp} /\ NoExp \notin Exps
  BY RunFields, ExpBounds DEF HomeInv, ExperimentTypeOK
<1>1. ASSUME NEW h \in Exps, t \in Listed(h)
      PROVE  run[t].grid = h
  BY <1>1 DEF HomeInv, AtHome, Exists
<1>2. CASE run[t].grid = NoExp \/ ~GridExists(run[t].grid)
  <2>1. Leaves(exp, t) = exp
    BY <1>2 DEF Leaves
  <2>2. ASSUME NEW h \in Exps PROVE t \notin Listed(h)
    <3> SUFFICES ASSUME t \in Listed(h) PROVE FALSE
      OBVIOUS
    <3>1. run[t].grid = h
      BY <1>1
    <3>2. exp[h].at \notin {"grid", "there", "deleted"} /\ exp[h] \in Exp
      BY <1>2, <1>r, <3>1 DEF GridExists
    <3>3. exp[h].at \in {"none", "lost"}
      BY <3>2 DEF Exp
    <3>4. exp[h].ids = {} /\ exp[h].refs = {}
      BY <3>3 DEF HomeInv, AtHome
    <3> QED BY <3>4 DEF Listed
  <2>3. \A h \in Exps : exp[h].ids = exp[h].ids \ {t} /\ exp[h].refs = exp[h].refs \ {t}
    BY <2>2 DEF Listed
  <2>4. ASSUME NEW h \in Exps, h = run[t].grid PROVE exp[h].at # "there"
    BY <1>2, <1>r, <2>4 DEF GridExists
  <2> QED BY <1>r, <2>1, <2>3, <2>4
<1>3. CASE run[t].grid # NoExp /\ GridExists(run[t].grid)
  <2>1. PICK f \in Exps : f = run[t].grid /\ exp[f] \in Exp
    BY <1>3, <1>r
  <2> DEFINE told == run[t].member /\ exp[f].at = "there"
             ids == exp[f].ids \ {t}
             refs == IF told THEN exp[f].refs \ {t} ELSE exp[f].refs
             status == IF told THEN StatusOf(run, {u \in exp[f].ids \ {t} : Exists(run, u)}) ELSE exp[f].status
             y == [exp[f] EXCEPT !.ids = ids, !.refs = refs, !.status = status]
  <2>2. Leaves(exp, t) = [exp EXCEPT ![f] = y]
    BY <1>3, <1>r, <2>1 DEF Leaves
  <2>3. status \in Marks
    BY <2>1, StatusTyped DEF Exp, Marks
  <2>4. told => status = StatusOf(run, {u \in exp[f].ids \ {t} : Exists(run, u)})
    OBVIOUS
  <2>5. refs = exp[f].refs \ {t} /\ refs \in SUBSET Runs /\ ids \in SUBSET Runs
    BY <2>1 DEF HomeInv, AtHome, Exp
  <2> HIDE DEF status, refs, told
  <2>6. y \in Exp /\ y.ids = ids /\ y.refs = refs /\ y.status = status /\ y.at = exp[f].at
    BY <2>1, <2>3, <2>5 DEF Exp, Marks
  <2> HIDE DEF y
  <2>7. Leaves(exp, t) \in [Exps -> Exp] /\ Leaves(exp, t)[f] = y /\ \A h \in Exps : h # f => Leaves(exp, t)[h] = exp[h]
    BY <1>r, <2>2, <2>6
  <2>8. ASSUME NEW h \in Exps, h # f
        PROVE  exp[h].ids = exp[h].ids \ {t} /\ exp[h].refs = exp[h].refs \ {t}
    BY <1>1, <2>1, <2>8 DEF Listed
  <2>9. told <=> run[t].member /\ exp[f].at = "there"
    BY DEF told
  <2> QED BY <2>1, <2>4, <2>5, <2>6, <2>7, <2>8, <2>9
<1> QED BY <1>2, <1>3

\* The source that a task leaves has stored that the rest is over, or was not looked at.
LEMMA SourceSettled ==
  ASSUME HomeInv, NEW t \in Runs, NEW e \in Exps, Exists(run, t), NEW f \in Exps, f # e, run[t].grid = f,
         f \notin LeftUnheard(t, e), exp[f].at = "there", NEW r,
         \A u \in Runs : r[u].status = run[u].status /\ (u # t => r[u].grid = run[u].grid),
         \A u \in GridTasks(r, f) : Final(r, u)
  PROVE  Leaves(exp, t)[f].status # "running"
<1> DEFINE T == {u \in exp[f].ids \ {t} : Exists(run, u)}
<1>1. run[t].member /\ T # {}
  BY ExpBounds DEF LeftUnheard
<1>2. Leaves(exp, t)[f].status = StatusOf(run, T)
  BY <1>1, LeavesIs
<1>3. ASSUME NEW u \in T PROVE Final(run, u)
  <2>1. u \in Runs /\ u # t /\ run[u].grid = f /\ Exists(run, u)
    BY DEF HomeInv, AtHome, Listed, Exists, ExperimentTypeOK, Exp
  <2>2. u \in GridTasks(r, f)
    BY <2>1 DEF GridTasks, Exists
  <2> QED BY <2>1, <2>2 DEF Final
<1> HIDE DEF T
<1> QED BY <1>1, <1>2, <1>3, StatusSettles

LEMMA JoinsIs ==
  ASSUME NEW x \in [Exps -> Exp], NEW t \in Runs, NEW e \in Exps
  PROVE  /\ Joins(x, t, e) \in [Exps -> Exp]
         /\ \A h \in Exps : h # e => Joins(x, t, e)[h] = x[h]
         /\ Joins(x, t, e)[e].ids = x[e].ids \cup {t} /\ Joins(x, t, e)[e].refs = x[e].refs \cup {t}
         /\ Joins(x, t, e)[e].at = x[e].at /\ Joins(x, t, e)[e].status = StatusOf(run, GridTasks(run, e) \cup {t})
<1> DEFINE status == StatusOf(run, GridTasks(run, e) \cup {t})
           y == [x[e] EXCEPT !.ids = x[e].ids \cup {t}, !.refs = x[e].refs \cup {t}, !.status = status]
<1>1. x[e] \in Exp /\ status \in Marks
  BY StatusTyped
<1>2. Joins(x, t, e) = [x EXCEPT ![e] = y]
  BY DEF Joins
<1> HIDE DEF status
<1>3. y \in Exp /\ y.ids = x[e].ids \cup {t} /\ y.refs = x[e].refs \cup {t} /\ y.at = x[e].at /\ y.status = status
  BY <1>1 DEF Exp, Marks
<1> HIDE DEF y
<1>4. status = StatusOf(run, GridTasks(run, e) \cup {t})
  BY DEF status
<1> QED BY <1>2, <1>3, <1>4

Moved(t, e) == [run EXCEPT ![t].grid = e, ![t].member = TRUE]

LEMMA MovedIs ==
  ASSUME HomeInv, NEW t \in Runs, NEW e \in Exps
  PROVE  /\ Moved(t, e) \in [Runs -> Run] /\ Moved(t, e)[t].grid = e /\ Moved(t, e)[t].member = TRUE
         /\ Moved(t, e)[t].status = run[t].status /\ \A u \in Runs : u # t => Moved(t, e)[u] = run[u]
<1>1. run \in [Runs -> Run] /\ run[t] \in Run
  BY DEF HomeInv, ExperimentTypeOK
<1> DEFINE y == [run[t] EXCEPT !.grid = e, !.member = TRUE]
<1>2. Moved(t, e) = [run EXCEPT ![t] = y]
  BY <1>1 DEF Moved
<1>3. y \in Run /\ y.grid = e /\ y.member = TRUE /\ y.status = run[t].status
  BY <1>1 DEF Run
<1> HIDE DEF y
<1> QED BY <1>1, <1>2, <1>3

\* The task comes to a grid that is there, whose lists gain no other; the others lose it.
LEMMA MoveHome ==
  ASSUME HomeInv, NEW t \in Runs, NEW e \in Exps, Exists(run, t), exp[e].at = "there", run' = Moved(t, e),
         ExperimentTypeOK', \A h \in Exps : exp'[h].at = exp[h].at,
         \A h \in Exps : h # e => exp'[h].ids \subseteq exp[h].ids \ {t} /\ exp'[h].refs \subseteq exp[h].refs \ {t},
         exp'[e].ids \subseteq exp[e].ids \cup {t}, exp'[e].refs \subseteq exp[e].refs \cup {t}
  PROVE  HomeInv'
<1>1. /\ run'[t].grid = e /\ run'[t].member = TRUE /\ run'[t].status = run[t].status /\ run[t].status # "none"
      /\ \A u \in Runs : u # t => run'[u] = run[u]
  <2>1. run[t].status # "none"
    BY DEF Exists
  <2>2. /\ run'[t].grid = e /\ run'[t].member = TRUE /\ run'[t].status = run[t].status
        /\ \A u \in Runs : u # t => run'[u] = run[u]
    <3>1. /\ Moved(t, e) \in [Runs -> Run] /\ Moved(t, e)[t].grid = e /\ Moved(t, e)[t].member = TRUE
          /\ Moved(t, e)[t].status = run[t].status /\ \A u \in Runs : u # t => Moved(t, e)[u] = run[u]
      BY MovedIs
    <3> QED BY <3>1, Zenon
  <2> QED BY <2>1, <2>2
<1>2. RunsGoOn
  <2>1. \A u \in Runs : run[u].member => run'[u].member
    BY <1>1
  <2> QED BY <1>1, <2>1 DEF RunsGoOn
<1>3. ListsGrow
  <2> SUFFICES ASSUME NEW f \in Exps
               PROVE  /\ exp[f].at # "none" => exp'[f].at # "none"
                      /\ \A v \in exp'[f].ids \cup exp'[f].refs :
                           \/ v \in Listed(f) /\ run'[v].grid = run[v].grid
                           \/ run'[v].status # "none" /\ run'[v].grid = f
                      /\ \A v \in exp'[f].refs : exp'[f].at = "there" /\ (v \in exp[f].refs \/ run'[v].member)
                      /\ exp'[f].at \in {"none", "lost"} => exp'[f].ids = {}
                      /\ \A v \in Runs : run'[v].grid = f => run[v].grid = f \/ exp'[f].at # "none"
    BY DEF ListsGrow
  <2>1. \A v \in Listed(f) : v \in Runs
    BY DEF HomeInv, ExperimentTypeOK, Exp, Listed
  <2>2. \A v \in Listed(f) \ {t} : run'[v].grid = run[v].grid
    BY <1>1, <2>1
  <2>3. \A v \in Runs : run'[v].grid = f => run[v].grid = f \/ f = e
    BY <1>1
  <2>4. exp[f].at \in {"none", "lost"} => exp[f].ids = {}
    BY DEF HomeInv, AtHome
  <2>5. \A v \in exp[f].refs : exp[f].at = "there"
    BY DEF HomeInv, AtHome
  <2>6. CASE f = e
    BY <1>1, <2>2, <2>5, <2>6 DEF Listed
  <2>7. CASE f # e
    BY <2>2, <2>3, <2>4, <2>5, <2>7 DEF Listed
  <2> QED BY <2>6, <2>7
<1> QED BY <1>2, <1>3, HomesKept

\* The destination counts the task that comes, whatever its row says yet.
LEMMA TargetSettled ==
  ASSUME HomeInv, NEW t \in Runs, NEW e \in Exps, Exists(run, t), run' = Moved(t, e),
         \A u \in GridTasks(run', e) : Final(run', u)
  PROVE  StatusOf(run, GridTasks(run, e) \cup {t}) # "running"
<1>1. /\ run'[t].grid = e /\ run'[t].status = run[t].status
      /\ \A u \in Runs : u # t => run'[u] = run[u]
  BY MovedIs
<1>2. ASSUME NEW u \in GridTasks(run, e) \cup {t} PROVE Final(run, u)
  <2>1. u \in GridTasks(run', e) /\ run'[u].status = run[u].status
    BY <1>1 DEF GridTasks, Exists
  <2> QED BY <2>1 DEF Final
<1> DEFINE T == GridTasks(run, e) \cup {t}
<1>3. T # {} /\ \A u \in T : Final(run, u)
  BY <1>2
<1> HIDE DEF T
<1>4. StatusOf(run, T) # "running"
  BY <1>3, StatusSettles
<1> QED BY <1>4 DEF T

LEMMA MovedElsewhere ==
  ASSUME HomeInv, NEW t \in Runs, NEW e \in Exps, run' = Moved(t, e), NEW h \in Exps, h # e, h # run[t].grid
  PROVE  GridTasks(run', h) = GridTasks(run, h) /\ \A u \in GridTasks(run, h) : run'[u].status = run[u].status
<1>1. run'[t].grid = e /\ \A u \in Runs : u # t => run'[u] = run[u]
  BY MovedIs
<1> QED BY <1>1 DEF GridTasks, Exists

LEMMA AttachStep ==
  ASSUME ExperimentInv, NEW t \in Runs, NEW e \in Exps, Attach(t, e)
  PROVE  ExperimentInv'
<1>1. /\ exp[e].at = "there" /\ Exists(run, t) /\ run[t].grid \in {NoExp, e} /\ run' = Moved(t, e)
      /\ exp' = Joins(exp, t, e) /\ unheard' = unheard \ {e} /\ hasty' = hasty \ {e} /\ expLeft' \in 0..Meddling
  BY MeddleTyped DEF Attach, Moved, ExperimentInv
<1>2. HomeInv /\ exp \in [Exps -> Exp] /\ unheard \subseteq Exps /\ hasty \subseteq Exps
  BY DEF ExperimentInv, HomeInv, ExperimentTypeOK
<1>3. /\ exp' \in [Exps -> Exp]
      /\ \A h \in Exps : h # e => exp'[h] = exp[h]
      /\ exp'[e].ids = exp[e].ids \cup {t} /\ exp'[e].refs = exp[e].refs \cup {t}
      /\ exp'[e].at = exp[e].at /\ exp'[e].status = StatusOf(run, GridTasks(run, e) \cup {t})
  <2>1. /\ Joins(exp, t, e) \in [Exps -> Exp]
        /\ \A h \in Exps : h # e => Joins(exp, t, e)[h] = exp[h]
        /\ Joins(exp, t, e)[e].ids = exp[e].ids \cup {t} /\ Joins(exp, t, e)[e].refs = exp[e].refs \cup {t}
        /\ Joins(exp, t, e)[e].at = exp[e].at /\ Joins(exp, t, e)[e].status = StatusOf(run, GridTasks(run, e) \cup {t})
    BY <1>2, JoinsIs
  <2>2. exp' = Joins(exp, t, e)
    BY <1>1, <1>2
  <2> QED BY <2>1, <2>2, Zenon
<1>4. ExperimentTypeOK'
  BY <1>1, <1>2, <1>3, MovedIs DEF ExperimentTypeOK
<1>5. ASSUME NEW h \in Exps, h # e
      PROVE  exp'[h].ids \subseteq exp[h].ids \ {t} /\ exp'[h].refs \subseteq exp[h].refs \ {t}
  <2>1. t \notin Listed(h)
    BY <1>1, <1>2, <1>5, ExpBounds DEF HomeInv, AtHome, Exists
  <2> QED BY <1>3, <1>5, <2>1 DEF Listed
<1>6. HomeInv'
  BY <1>1, <1>2, <1>3, <1>4, <1>5, MoveHome
<1>7. AllFinal(e)' => exp'[e].status # "running"
  <2> SUFFICES ASSUME AllFinal(e)' PROVE exp'[e].status # "running"
    OBVIOUS
  <2>1. \A u \in GridTasks(run', e) : Final(run', u)
    BY AllFinalNext
  <2> QED BY <1>1, <1>2, <1>3, <2>1, TargetSettled
<1>8. \A h \in Exps : h # e =>
        /\ GridTasks(run', h) = GridTasks(run, h)
        /\ \A u \in GridTasks(run, h) : run'[u].status = run[u].status
        /\ exp'[h].at = exp[h].at /\ exp'[h].status = exp[h].status
        /\ h \in unheard \cup hasty => h \in unheard' \cup hasty'
  <2> SUFFICES ASSUME NEW h \in Exps, h # e
               PROVE  /\ GridTasks(run', h) = GridTasks(run, h)
                      /\ \A u \in GridTasks(run, h) : run'[u].status = run[u].status
                      /\ exp'[h].at = exp[h].at /\ exp'[h].status = exp[h].status
                      /\ h \in unheard \cup hasty => h \in unheard' \cup hasty'
    OBVIOUS
  <2>1. h # run[t].grid
    BY <1>1, ExpBounds
  <2> QED BY <1>1, <1>2, <1>3, <2>1, MovedElsewhere
<1>9. SettledIsStored'
  BY <1>7, <1>8, ElsewhereThan DEF ExperimentInv
<1> QED BY <1>6, <1>9 DEF ExperimentInv

\* In a move and in one that is cut short alike: the source is settled or was not looked
\* at, and the destination is where the step settles it or was not told either.
LEMMA Rehomed ==
  ASSUME ExperimentInv, NEW t \in Runs, NEW e \in Exps, Exists(run, t), run[t].grid # e,
         run' = run \/ run' = Moved(t, e), \A h \in Exps : exp'[h].at = exp[h].at,
         \A h \in Exps : h # e => exp'[h] = Leaves(exp, t)[h],
         \A h \in Exps : h # e /\ h \in unheard \cup hasty => h \in unheard' \cup hasty',
         LeftUnheard(t, e) \subseteq unheard',
         e \in unheard' \cup hasty' \/ (AllFinal(e)' => exp'[e].status # "running")
  PROVE  SettledIsStored'
<1>r. HomeInv
  BY DEF ExperimentInv
<1> DEFINE G == {e, run[t].grid}
<1>1. \A u \in Runs : run'[u].status = run[u].status /\ (u # t => run'[u].grid = run[u].grid)
  <2>1. /\ Moved(t, e) \in [Runs -> Run] /\ Moved(t, e)[t].grid = e /\ Moved(t, e)[t].member = TRUE
        /\ Moved(t, e)[t].status = run[t].status /\ \A u \in Runs : u # t => Moved(t, e)[u] = run[u]
    BY <1>r, MovedIs
  <2>2. Moved(t, e)[t].status = run[t].status /\ \A u \in Runs : u # t => Moved(t, e)[u] = run[u]
    BY <2>1
  <2> QED BY <2>2
<1>2. ASSUME NEW h \in Exps \ G
      PROVE  /\ GridTasks(run', h) = GridTasks(run, h)
             /\ \A u \in GridTasks(run, h) : run'[u].status = run[u].status
             /\ exp'[h].at = exp[h].at /\ exp'[h].status = exp[h].status
             /\ h \in unheard \cup hasty => h \in unheard' \cup hasty'
  <2>1. h # e /\ h # run[t].grid
    BY <1>2
  <2>2. exp'[h].status = exp[h].status
    BY <1>r, <2>1, LeavesIs
  <2>3. GridTasks(run', h) = GridTasks(run, h) /\ \A u \in GridTasks(run, h) : run'[u].status = run[u].status
    <3>1. CASE run' = run
      BY <3>1
    <3>2. CASE run' = Moved(t, e)
      BY <1>r, <2>1, <3>2, MovedElsewhere
    <3> QED BY <3>1, <3>2
  <2> QED BY <2>1, <2>2, <2>3
<1>3. ASSUME NEW f \in Exps, f = run[t].grid, f \notin unheard' \cup hasty', AllFinal(f)'
      PROVE  exp'[f].status # "running"
  <2>1. f # e /\ f \notin LeftUnheard(t, e)
    BY <1>3
  <2>2. exp[f].at = "there" /\ \A u \in GridTasks(run', f) : Final(run', u)
    BY <1>3, AllFinalNext
  <2>3. PICK r : r = run'
    OBVIOUS
  <2>4. \A u \in GridTasks(r, f) : Final(r, u)
    BY <2>2, <2>3
  <2>5. \A u \in Runs : r[u].status = run[u].status /\ (u # t => r[u].grid = run[u].grid)
    BY <1>1, <2>3
  <2>6. Leaves(exp, t)[f].status # "running"
    BY <1>r, <1>3, <2>1, <2>2, <2>4, <2>5, SourceSettled
  <2> QED BY <2>1, <2>6
<1>4. \A h \in Exps \cap G : h \in unheard' \cup hasty' \/ (AllFinal(h)' => exp'[h].status # "running")
  BY <1>3
<1>5. SettledIsStored
  BY DEF ExperimentInv
<1>6. PICK H : H = G
  OBVIOUS
<1> HIDE DEF G
<1>7. \A h \in Exps \ H : /\ GridTasks(run', h) = GridTasks(run, h)
                          /\ \A u \in GridTasks(run, h) : run'[u].status = run[u].status
                          /\ exp'[h].at = exp[h].at /\ exp'[h].status = exp[h].status
                          /\ h \in unheard \cup hasty => h \in unheard' \cup hasty'
  BY <1>2, <1>6
<1>8. \A h \in Exps \cap H : h \in unheard' \cup hasty' \/ (AllFinal(h)' => exp'[h].status # "running")
  BY <1>4, <1>6
<1> QED BY <1>5, <1>7, <1>8, Elsewhere

LEMMA MoveStep ==
  ASSUME ExperimentInv, NEW t \in Runs, NEW e \in Exps, Move(t, e)
  PROVE  ExperimentInv'
<1>1. /\ exp[e].at = "there" /\ Exists(run, t) /\ run[t].grid # e /\ run' = Moved(t, e)
      /\ exp' = Joins(Leaves(exp, t), t, e) /\ unheard' = (unheard \ {e}) \cup LeftUnheard(t, e) /\ hasty' = hasty \ {e}
      /\ expLeft' \in 0..Meddling
  BY MeddleTyped DEF Move, Moved, ExperimentInv
<1>2. /\ HomeInv /\ exp \in [Exps -> Exp] /\ unheard \subseteq Exps /\ hasty \subseteq Exps
      /\ run[t].grid \in Exps \cup {NoExp}
  BY RunFields DEF ExperimentInv, HomeInv, ExperimentTypeOK
<1>3. LeftUnheard(t, e) \subseteq Exps
  BY <1>2 DEF LeftUnheard
<1>4. PICK x \in [Exps -> Exp] : x = Leaves(exp, t)
  BY <1>1, <1>2, LeavesIs
<1>5. \A h \in Exps : x[h].at = exp[h].at /\ x[h].ids = exp[h].ids \ {t} /\ x[h].refs = exp[h].refs \ {t}
  BY <1>1, <1>2, <1>4, LeavesIs
<1>6. /\ exp' \in [Exps -> Exp]
      /\ \A h \in Exps : h # e => exp'[h] = x[h]
      /\ exp'[e].ids = x[e].ids \cup {t} /\ exp'[e].refs = x[e].refs \cup {t}
      /\ exp'[e].at = x[e].at /\ exp'[e].status = StatusOf(run, GridTasks(run, e) \cup {t})
  <2>1. /\ Joins(x, t, e) \in [Exps -> Exp]
        /\ \A h \in Exps : h # e => Joins(x, t, e)[h] = x[h]
        /\ Joins(x, t, e)[e].ids = x[e].ids \cup {t} /\ Joins(x, t, e)[e].refs = x[e].refs \cup {t}
        /\ Joins(x, t, e)[e].at = x[e].at /\ Joins(x, t, e)[e].status = StatusOf(run, GridTasks(run, e) \cup {t})
    BY <1>4, JoinsIs
  <2>2. exp' = Joins(x, t, e)
    BY <1>1, <1>4
  <2> QED BY <2>1, <2>2, Zenon
<1>7. ExperimentTypeOK'
  BY <1>1, <1>2, <1>3, <1>6, MovedIs DEF ExperimentTypeOK
<1>8. HomeInv'
  <2>1. /\ \A h \in Exps : exp'[h].at = exp[h].at
        /\ \A h \in Exps : h # e => exp'[h].ids \subseteq exp[h].ids \ {t} /\ exp'[h].refs \subseteq exp[h].refs \ {t}
        /\ exp'[e].ids \subseteq exp[e].ids \cup {t} /\ exp'[e].refs \subseteq exp[e].refs \cup {t}
    BY <1>5, <1>6
  <2> QED BY <1>1, <1>2, <1>7, <2>1, MoveHome
<1>9. AllFinal(e)' => exp'[e].status # "running"
  <2> SUFFICES ASSUME AllFinal(e)' PROVE exp'[e].status # "running"
    OBVIOUS
  <2>1. \A u \in GridTasks(run', e) : Final(run', u)
    BY AllFinalNext
  <2> QED BY <1>1, <1>2, <1>6, <2>1, TargetSettled
<1>10. SettledIsStored'
  <2>1. \A h \in Exps : exp'[h].at = exp[h].at
    BY <1>5, <1>6
  <2>2. \A h \in Exps : h # e => exp'[h] = Leaves(exp, t)[h]
    BY <1>4, <1>6
  <2>3. \A h \in Exps : h # e /\ h \in unheard \cup hasty => h \in unheard' \cup hasty'
    BY <1>1
  <2>4. LeftUnheard(t, e) \subseteq unheard'
    BY <1>1
  <2> QED BY <1>1, <1>9, <2>1, <2>2, <2>3, <2>4, Rehomed
<1> QED BY <1>8, <1>10 DEF ExperimentInv

LEMMA MoveCutStep ==
  ASSUME ExperimentInv, NEW t \in Runs, NEW e \in Exps, MoveCut(t, e)
  PROVE  ExperimentInv'
<1>1. /\ exp[e].at = "there" /\ Exists(run, t) /\ run[t].grid # e
      /\ unheard' = unheard \cup LeftUnheard(t, e) \cup {e} /\ hasty' = hasty
      /\ expLeft' \in 0..Meddling
  BY MeddleTyped DEF MoveCut, ExperimentInv
<1>2. /\ HomeInv /\ exp \in [Exps -> Exp] /\ unheard \subseteq Exps /\ hasty \subseteq Exps
      /\ run[t].grid \in Exps \cup {NoExp} /\ run \in [Runs -> Run]
  BY RunFields DEF ExperimentInv, HomeInv, ExperimentTypeOK
<1>3. LeftUnheard(t, e) \subseteq Exps
  BY <1>2 DEF LeftUnheard
<1>4. PICK x \in [Exps -> Exp] : x = Leaves(exp, t)
  BY <1>1, <1>2, LeavesIs
<1>5. \A h \in Exps : x[h].at = exp[h].at /\ x[h].ids = exp[h].ids \ {t} /\ x[h].refs = exp[h].refs \ {t}
  BY <1>1, <1>2, <1>4, LeavesIs
<1>6. \/ exp' = x /\ run' = run
      \/ run' = Moved(t, e) /\ exp' \in {x, [x EXCEPT ![e].ids = @ \cup {t}]}
  BY <1>4 DEF MoveCut, Moved
<1>7. PICK y \in Exp : /\ exp' = [x EXCEPT ![e] = y] /\ y.at = x[e].at /\ y.refs = x[e].refs
                       /\ y.ids = x[e].ids \/ (run' = Moved(t, e) /\ y.ids = x[e].ids \cup {t})
  <2>1. CASE exp' = x
    <3>1. x[e] \in Exp /\ exp' = [x EXCEPT ![e] = x[e]]
      BY <2>1
    <3> QED BY <3>1
  <2>2. CASE run' = Moved(t, e) /\ exp' = [x EXCEPT ![e].ids = @ \cup {t}]
    <3> DEFINE z == [x[e] EXCEPT !.ids = x[e].ids \cup {t}]
    <3>1. x[e] \in Exp
      OBVIOUS
    <3>2. z \in Exp /\ z.at = x[e].at /\ z.refs = x[e].refs /\ z.ids = x[e].ids \cup {t}
      BY <3>1 DEF Exp
    <3>3. exp' = [x EXCEPT ![e] = z]
      BY <2>2
    <3> HIDE DEF z
    <3> QED BY <2>2, <3>2, <3>3
  <2> QED BY <1>6, <2>1, <2>2
<1>8. exp' \in [Exps -> Exp] /\ exp'[e] = y /\ \A h \in Exps : h # e => exp'[h] = x[h]
  BY <1>7
<1>9. \A h \in Exps : exp'[h].at = exp[h].at
  BY <1>5, <1>7, <1>8
<1>10. ExperimentTypeOK'
  <2>1. run' \in [Runs -> Run]
    <3>1. Moved(t, e) \in [Runs -> Run]
      BY <1>2, MovedIs, Zenon
    <3> QED BY <1>2, <1>6, <3>1
  <2> QED BY <1>1, <1>2, <1>3, <1>8, <2>1 DEF ExperimentTypeOK
<1>11. HomeInv'
  <2>1. CASE run' = Moved(t, e)
    <3>1. /\ \A h \in Exps : h # e => exp'[h].ids \subseteq exp[h].ids \ {t} /\ exp'[h].refs \subseteq exp[h].refs \ {t}
          /\ exp'[e].ids \subseteq exp[e].ids \cup {t} /\ exp'[e].refs \subseteq exp[e].refs \cup {t}
      BY <1>5, <1>7, <1>8
    <3> QED BY <1>1, <1>2, <1>9, <1>10, <2>1, <3>1, MoveHome
  <2>2. CASE exp' = x /\ run' = run
    <3>1. RunsGoOn
      BY <2>2 DEF RunsGoOn
    <3>2. \A h \in Exps : exp'[h].ids \subseteq exp[h].ids /\ exp'[h].refs \subseteq exp[h].refs
      BY <1>5, <2>2
    <3>3. ListsGrow
      BY <1>2, <1>9, <2>2, <3>2 DEF ListsGrow, Listed, HomeInv, AtHome
    <3> QED BY <1>2, <1>10, <3>1, <3>3, HomesKept
  <2> QED BY <1>6, <2>1, <2>2
<1>12. SettledIsStored'
  <2>1. \A h \in Exps : h # e => exp'[h] = Leaves(exp, t)[h]
    BY <1>4, <1>8
  <2>2. \A h \in Exps : h # e /\ h \in unheard \cup hasty => h \in unheard' \cup hasty'
    BY <1>1
  <2>3. LeftUnheard(t, e) \subseteq unheard' /\ e \in unheard'
    BY <1>1
  <2>4. run' = run \/ run' = Moved(t, e)
    BY <1>6
  <2> QED BY <1>1, <1>9, <2>1, <2>2, <2>3, <2>4, Rehomed
<1> QED BY <1>11, <1>12 DEF ExperimentInv

-----------------------------------------------------------------------------
(* The invariant and what it means. *)

LEMMA ExperimentInvNext ==
  ASSUME ExperimentInv, ExperimentNext
  PROVE  ExperimentInv'
<1>1. ASSUME NEW t \in Runs,
             \/ SubmitRun(t) \/ StartRun(t) \/ Eval(t) \/ RunCompleted(t) \/ RunStopped(t) \/ RunFailed(t)
             \/ RunRetried(t) \/ EndsUntold(t) \/ RetryRun(t) \/ ReplaceRun(t) \/ RequeueRun(t) \/ DeleteRun(t)
      PROVE  ExperimentInv'
  BY <1>1, StatusSteps, EvalStep, EndedStep, FailedStep, RetryStep, ReplaceStep
<1>2. ASSUME NEW t \in Runs, NEW e \in Exps, Attach(t, e) \/ Move(t, e) \/ MoveCut(t, e)
      PROVE  ExperimentInv'
  BY <1>2, AttachStep, MoveStep, MoveCutStep
<1>3. ASSUME NEW e \in Exps,
             \/ SubmitExperiment(e) \/ SubmitMatrix(e) \/ SubmitGrid(e) \/ Adopt(e) \/ RetryFailed(e)
             \/ GridRetryFailed(e) \/ CancelGrid(e) \/ DeleteExperiment(e) \/ StatusSnapshot(e)
      PROVE  ExperimentInv'
  <2>1. SubmitGrid(e) => SubmitMatrix(e)
    BY GridIsCutMatrix
  <2> QED BY <1>3, <2>1, SubmitExperimentStep, SubmitMatrixStep, AdoptStep, RetryFailedStep, CancelGridStep,
             DeleteExperimentStep, SnapshotStep
<1> QED BY <1>1, <1>2, <1>3 DEF ExperimentNext

LEMMA ExperimentInvStays == ExperimentInv /\ UNCHANGED expVars => ExperimentInv'
BY DEF ExperimentInv, HomeInv, ExperimentTypeOK, AtHome, Listed, SettledIsStored, AllFinal, GridTasks, Exists, Final, expVars

LEMMA ExperimentInvariance == Spec => []ExperimentInv
<1>1. Init => ExperimentInv
  <2>1. ExperimentInit => SettledIsStored
    BY DEF ExperimentInit, SettledIsStored, AllFinal, NoExperiment
  <2> QED BY <2>1, HomeInvInit DEF Init, ExperimentInv
<1>2. ExperimentInv /\ [Next]_experimentsVars => ExperimentInv'
  BY ExperimentInvNext, ExperimentInvStays DEF Next, experimentsVars
<1> QED BY <1>1, <1>2, PTL DEF Spec

\* Whatever lists a task agrees with the task about where it belongs, for any number of
\* tasks and experiments, moves, retries, adoptions and crashes between their writes
\* (api/experiments.ts:1084-1301).
THEOREM TasksHaveOneHome == Spec => []OneGridPerRun
<1>1. ExperimentInv => OneGridPerRun
  BY HomeInvMeans DEF ExperimentInv
<1> QED BY <1>1, ExperimentInvariance, PTL

\* An experiment that heard of the end of each of its tasks has stored that it is over,
\* for any number of tasks and experiments (stub.ts:230-240, api/experiments.ts:73-110).
THEOREM EndsAreStored == Spec => []SettledIsStored
<1>1. ExperimentInv => SettledIsStored
  BY DEF ExperimentInv
<1> QED BY <1>1, ExperimentInvariance, PTL
=============================================================================
