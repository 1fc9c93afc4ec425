------------------------------- MODULE Lineage -------------------------------
(***************************************************************************)
(* The lineage of experiments and what is read from it: the recommendation *)
(* for an experiment from its metric and a baseline, the tree of parents,  *)
(* the leaderboard of a report.  None of it is stored: each request works  *)
(* it out from rows that evaluations, ends of tasks, edits and deletions   *)
(* have written.  There is one metric.  Retries and adoptions change which *)
(* tasks an experiment has: they are the business of Experiments.          *)
(***************************************************************************)
EXTENDS Naturals, FiniteSets, FiniteSetsExt

CONSTANTS
  MaxStudies, \* bound: experiments, numbered as they are created
  Trials,     \* the tasks an experiment may have
  Families,
  Drafts,     \* what an experiment is submitted with: tasks, family, goal, criterion
  Measures,   \* values of the metric
  Bar,        \* the threshold of a criterion
  Reports,    \* bound: evaluations
  Edits       \* bound: edits and deletions

NoStudy == 0
NoValue == 0
NoFamily == "none"
Goals == {"none", "min", "max"}
Criteria == {"none", "above", "below"}
Draft == [tasks : SUBSET Trials, family : Families \cup {NoFamily}, goal : Goals, criterion : Criteria]

ASSUME LineageAssumption ==
  /\ {MaxStudies, Bar, Reports, Edits} \subseteq Nat
  /\ Measures \subseteq Nat \ {NoValue} /\ IsFiniteSet(Trials) /\ IsFiniteSet(Measures)
  /\ Drafts \subseteq Draft /\ NoFamily \notin Families

VARIABLES
  study,      \* the rows
  trial,      \* the tasks
  result,     \* [study -> what the last evaluation of each task came to]
  lineageLeft \* what is left of Reports and Edits

lineageVars == <<study, trial, result, lineageLeft>>

Studies == 1..MaxStudies

\* goal: goal_metric with goal_direction.  criterion: the one of that metric.
Study == [at : {"none", "there", "deleted"}, tasks : SUBSET Trials,
          parent : Studies \cup {NoStudy}, family : Families \cup {NoFamily}, goal : Goals, criterion : Criteria]
Result == [checked : BOOLEAN, passed : BOOLEAN, value : Measures \cup {NoValue}]

LineageTypeOK ==
  /\ study \in [Studies -> Study]
  /\ trial \in [Studies -> [Trials -> {"waiting", "live", "completed", "failed"}]]
  /\ result \in [Studies -> [Trials -> Result]]
  /\ lineageLeft \in [reports : 0..Reports, edits : 0..Edits]

Unchecked == [checked |-> FALSE, passed |-> FALSE, value |-> NoValue]

LineageInit ==
  /\ study = [s \in Studies |-> [at |-> "none", tasks |-> {}, parent |-> NoStudy,
                                 family |-> NoFamily, goal |-> "none", criterion |-> "none"]]
  /\ trial = [s \in Studies |-> [t \in Trials |-> "waiting"]]
  /\ result = [s \in Studies |-> [t \in Trials |-> Unchecked]]
  /\ lineageLeft = [reports |-> Reports, edits |-> Edits]

There == {s \in Studies : study[s].at = "there"}

\* Ids that a request can name, those of deleted experiments with them.
KnownStudies == {s \in Studies : study[s].at # "none"}

(***************************************************************************)
(* The status, from the evaluations and the tasks.                         *)
(***************************************************************************)
StatusNow(s) ==
  LET tasks == study[s].tasks
      checked == {t \in tasks : result[s][t].checked}
      passed == {t \in tasks : result[s][t].passed}
      completed == {t \in tasks : trial[s][t] = "completed"}
      failed == {t \in tasks : trial[s][t] = "failed"}
  IN  IF tasks = {} \/ (passed # tasks /\ completed \cup failed # tasks) THEN "running"
      ELSE IF passed = tasks THEN "passed"
      ELSE IF checked # passed THEN (IF passed # {} THEN "partial" ELSE "failed")
      ELSE IF failed = {} THEN "passed"
      ELSE IF completed # {} THEN "partial" ELSE "failed"

HasExecutingTask(s) == \E t \in study[s].tasks : trial[s][t] = "live"

(***************************************************************************)
(* The recommendation.                                                     *)
(***************************************************************************)
Measured(s) == {result[s][t].value : t \in Trials} \ {NoValue}

\* aggregateMetrics and primaryMetricFor: only under a goal that is stated.
BestValue(s, goal) == IF goal = "min" THEN Min(Measured(s)) ELSE Max(Measured(s))
HasBest(s) == study[s].goal # "none" /\ Measured(s) # {}
Best(s) == BestValue(s, study[s].goal)

BetterDirection(goal, v, w) == IF goal = "min" THEN v < w ELSE v > w

\* Mutant: whoever has a value, whichever way its goal points.
ComparableAnyWay(s, c) == HasBest(c)

Comparable(s, c) == study[c].goal = study[s].goal /\ HasBest(c)

SameFamily(s) ==
  {c \in There \ {s} : study[c].family # NoFamily /\ study[c].family = study[s].family}

\* The parent if it is comparable, and else the best of the family.
Baseline(s) ==
  LET parent == study[s].parent
      family == {c \in SameFamily(s) : Comparable(s, c)}
  IN  IF parent \in There \ {s} /\ Comparable(s, parent)
      THEN [source |-> "parent", value |-> Best(parent)]
      ELSE IF family # {}
      THEN [source |-> "family",
            value |-> IF study[s].goal = "min" THEN Min({Best(c) : c \in family})
                                              ELSE Max({Best(c) : c \in family})]
      ELSE [source |-> "none", value |-> NoValue]

\* What a comparison shows as the best: by the sense of the criterion, not the goal.
ComparedBest(s) == IF study[s].criterion = "below" THEN Min(Measured(s)) ELSE Max(Measured(s))

\* The delta that a comparison shows of s, with the first of those named that has
\* a value: whether it is above it or below it.
Above(ids, s) == ComparedBest(s) > ComparedBest(ids[1])
Below(ids, s) == ComparedBest(s) < ComparedBest(ids[1])

Verdict(s) ==
  IF StatusNow(s) = "failed" THEN "failed"
  ELSE IF StatusNow(s) = "running" /\ HasExecutingTask(s) THEN "running"
  ELSE IF ~HasBest(s) THEN "inconclusive"
  ELSE LET base == Baseline(s)
           better == BetterDirection(study[s].goal, Best(s), base.value)
       IN  CASE base.source = "none" -> "inconclusive"
             [] base.source = "parent" ->
                  IF Best(s) = base.value THEN "inconclusive"
                  ELSE IF better THEN "improved" ELSE "regressed"
             [] base.source = "family" ->
                  IF Best(s) = base.value \/ better THEN "best" ELSE "inconclusive"

(***************************************************************************)
(* The tree, and the leaderboard of a report on a family.                  *)
(***************************************************************************)
Children(s) == {c \in There : study[c].parent = s}
Roots == {s \in There : study[s].parent \notin There}

\* What build reaches from the roots: the least set with them and their children.
Drawn ==
  {s \in There : \A D \in SUBSET There :
     Roots \subseteq D /\ (\A d \in D : Children(d) \subseteq D) => s \in D}

\* The goal that most of them state; of two, the one that comes first.
ReportGoal(F) ==
  LET stating(g) == Cardinality({s \in F : study[s].goal = g})
  IN  IF stating("min") + stating("max") = 0 THEN "none"
      ELSE IF stating("min") > stating("max") THEN "min" ELSE "max"

\* Those with a value, and whom each of them leads.
Ranked(F) == IF ReportGoal(F) = "none" THEN {} ELSE {s \in F : Measured(s) # {}}
Leads(F, s, c) ==
  LET v == BestValue(s, ReportGoal(F))
      w == BestValue(c, ReportGoal(F))
  IN  BetterDirection(ReportGoal(F), v, w) \/ (v = w /\ s < c)

(***************************************************************************)
(* What is read of many at once: the list by pages, the report with its    *)
(* filters and its limit, and an experiment with its parent and children.  *)
(***************************************************************************)
Any == "any"
StatusFilters == {"running", "passed", "partial", "failed", Any}
FamilyFilters == Families \cup {Any}

Filtered(family, status) ==
  {s \in There : /\ family \in {Any, study[s].family}
                 /\ status \in {Any, StatusNow(s)}}

\* GET /experiments: from the offset on, the newest first.
ListPage(F, offset, limit) ==
  {s \in F : Cardinality({c \in F : c > s}) \in offset .. offset + limit - 1}

\* GET /experiments/research-report: those without a family come last, then by age.
Before(s, c) ==
  LET bare(x) == study[x].family = NoFamily
  IN  IF bare(s) = bare(c) THEN s < c ELSE bare(c)
Returned(F, limit) == {s \in F : Cardinality({c \in F : Before(c, s)}) < limit}

\* The goal is that of all that match; ranked are those that are returned.
Board(F, limit) ==
  IF ReportGoal(F) = "none" THEN {} ELSE {s \in Returned(F, limit) : Measured(s) # {}}

\* The block of an experiment: its children are not filtered, nor limited.
Block(s) == [of |-> s, children |-> Children(s)]
Blocks(F, limit) == {Block(s) : s \in Returned(F, limit)}

\* diffSummaryForExperiment: what is known of the parent.
ChangedFromParent(s) ==
  IF study[s].parent \in There THEN (IF StatusNow(s) # StatusNow(study[s].parent) THEN "yes" ELSE "no")
  ELSE "unknown"

Brief(s) == [of |-> s, status |-> StatusNow(s), verdict |-> Verdict(s), changed |-> ChangedFromParent(s)]

\* GET /experiments/:id/summary: a parent that is gone is left out.
Summary(s) == [brief |-> Brief(s),
               parent |-> {Brief(p) : p \in There \cap {study[s].parent}},
               children |-> {Brief(c) : c \in Children(s)}]

(***************************************************************************)
(* Requests and evaluations.                                               *)
(***************************************************************************)
EditsLeft == lineageLeft.edits > 0
Edited == lineageLeft' = [lineageLeft EXCEPT !.edits = @ - 1]

\* POST /experiments: the parent, by its id or by its name, is not looked for.
CreateStudy(s) ==
  /\ study[s].at = "none" /\ \A r \in 1..(s - 1) : study[r].at # "none"
  /\ \E d \in Drafts, parent \in KnownStudies \cup {NoStudy} :
       study' = [study EXCEPT ![s] = [at |-> "there", tasks |-> d.tasks, parent |-> parent,
                                      family |-> d.family, goal |-> d.goal,
                                      criterion |-> d.criterion]]
  /\ UNCHANGED <<trial, result, lineageLeft>>

\* PATCH /experiments/:id: any of the metadata, the parent included.
PatchStudy(s) ==
  /\ EditsLeft /\ s \in There
  /\ \/ \E p \in KnownStudies \cup {NoStudy} : study' = [study EXCEPT ![s].parent = p]
     \/ \E f \in Families \cup {NoFamily} : study' = [study EXCEPT ![s].family = f]
     \/ \E g \in Goals : study' = [study EXCEPT ![s].goal = g]
     \/ \E c \in Criteria : study' = [study EXCEPT ![s].criterion = c]
  /\ study' # study /\ Edited
  /\ UNCHANGED <<trial, result>>

DeleteStudy(s) ==
  /\ EditsLeft /\ s \in There
  /\ study' = [study EXCEPT ![s].at = "deleted"]
  /\ Edited
  /\ UNCHANGED <<trial, result>>

Meets(criterion, v) == IF criterion = "above" THEN v > Bar ELSE v <= Bar

\* evaluateCriteria, of a report that may leave the metric out.
Evaluated(criterion, v) ==
  CASE criterion = "none" -> [checked |-> TRUE, passed |-> TRUE, value |-> NoValue]
    [] criterion # "none" /\ v = NoValue -> [checked |-> TRUE, passed |-> FALSE, value |-> NoValue]
    [] OTHER -> [checked |-> TRUE, passed |-> Meets(criterion, v), value |-> v]

\* task.eval: the last one counts.
EvaluateTrial(s, t) ==
  /\ s \in There /\ trial[s][t] = "live" /\ lineageLeft.reports > 0
  /\ \E v \in Measures \cup {NoValue} :
       result' = [result EXCEPT ![s][t] = Evaluated(study[s].criterion, v)]
  /\ lineageLeft' = [lineageLeft EXCEPT !.reports = @ - 1]
  /\ UNCHANGED <<study, trial>>

RunTrial(s, t) ==
  /\ study[s].at # "none"
  /\ \/ trial[s][t] = "waiting" /\ trial' = [trial EXCEPT ![s][t] = "live"]
     \/ trial[s][t] = "live" /\ \E end \in {"completed", "failed"} : trial' = [trial EXCEPT ![s][t] = end]
  /\ UNCHANGED <<study, result, lineageLeft>>

LineageNext ==
  \E s \in Studies :
    \/ CreateStudy(s) \/ PatchStudy(s) \/ DeleteStudy(s)
    \/ \E t \in study[s].tasks : EvaluateTrial(s, t) \/ RunTrial(s, t)

LineageSpec == LineageInit /\ [][LineageNext]_lineageVars

(***************************************************************************)
(* Properties.                                                             *)
(***************************************************************************)
\* Two of a family that are both called its best, with one goal, are equally good.
OneBest ==
  \A s \in There : \A c \in SameFamily(s) :
    Verdict(s) = "best" /\ Verdict(c) = "best" /\ study[s].goal = study[c].goal => Best(s) = Best(c)

\* No circle of parents in which everyone has improved, or everyone has regressed.
NoCircle ==
  \A A \in SUBSET There \ {{}} : (\A a \in A : study[a].parent \in A) =>
    \A verdict \in {"improved", "regressed"} : \E a \in A : Verdict(a) # verdict

\* In a family of one goal, whoever is called its best has the value of the
\* leader of its report; and the leader is called its best, or is judged by
\* its parent, has failed, is at work, or has nobody to be compared with.
LeaderIsBest ==
  \A f \in Families :
    LET F == {s \in There : study[s].family = f}
        others(s) == {c \in F \ {s} : Comparable(s, c)}
    IN  \A g \in Goals \ {"none"} : (\A s \in F : study[s].goal = g) =>
          \A leader \in Ranked(F) : (\A c \in Ranked(F) \ {leader} : Leads(F, leader, c)) =>
            /\ \A s \in F : Verdict(s) = "best" => Best(s) = Best(leader)
            /\ \/ Verdict(leader) \in {"best", "failed", "running"}
               \/ Baseline(leader).source = "parent" \/ others(leader) = {}

\* Compared with its parent, an experiment that is said to have improved shows a
\* better value and one that has regressed a worse one, when the criterion of
\* each looks the way of its goal.
ComparisonFits ==
  LET aligned(c) == study[c].goal = (IF study[c].criterion = "below" THEN "min" ELSE "max")
  IN  \A s \in There :
        LET ids == <<study[s].parent, s>>
        IN  Verdict(s) \in {"improved", "regressed"} /\ aligned(s) /\ aligned(ids[1]) =>
              /\ Above(ids, s) \equiv ((Verdict(s) = "improved") \equiv (study[s].goal = "max"))
              /\ Below(ids, s) \equiv ((Verdict(s) = "improved") \equiv (study[s].goal = "min"))

\* Whatever is evaluated, edited and deleted in between, the verdicts that are
\* told of several experiments fit each other, the leaderboard and the comparison
\* (api/experiments.ts:450-630, 674-704, 1884-1964).
VerdictsAgree == OneBest /\ NoCircle /\ LeaderIsBest /\ ComparisonFits

\* Page after page the list gives every experiment once.  A report with a limit
\* leads with the best of those it returns, not of those it counts; without one,
\* it has every child in the block of its parent, those that the tree leaves out
\* with them.  A summary calls the change from the parent known just when it shows
\* the parent, and says of parent and children what their own summaries say
\* (api/experiments.ts:269-333, 1669-1716, 1818-2056, 2203-2247).
ReportsFit ==
  /\ \A f \in FamilyFilters, status \in {Any} \cup {StatusNow(s) : s \in There} :
       LET all == Filtered(f, status)
           pages == [k \in 1 .. MaxStudies |-> ListPage(all, k - 1, 1)]
           goal == ReportGoal(all)
       IN  /\ UNION {pages[k] : k \in DOMAIN pages} = all
           /\ \A j, k \in DOMAIN pages : j # k => pages[j] \cap pages[k] = {}
           /\ goal # "none" => \A limit \in 1 .. MaxStudies : \A s \in all \ Board(all, limit) :
                \/ Measured(s) = {}
                \/ limit < Cardinality(all) /\ \A c \in Returned(all, limit) : Before(c, s)
  /\ \A s \in There \ Roots :
       \E block \in Blocks(There, MaxStudies) : s \in block.children /\ block.of = study[s].parent
  /\ There \ Drawn \subseteq UNION {block.children : block \in Blocks(There, MaxStudies)}
  /\ \A s \in There :
       LET own == Summary(s)
       IN  /\ (own.brief.changed = "unknown") \equiv (own.parent = {})
           /\ \A c \in own.children : c.changed # "unknown" /\ Summary(c.of).parent = {own.brief}
           /\ own.brief.verdict \in {"improved", "regressed"} => s \notin Roots

\* The request for the tree ends, whoever is made the parent of whom: those in a
\* circle of parents, and what hangs on them, are left out of it, not walked
\* round (api/experiments.ts:1718-1750).
TreeEnds ==
  LET drawn == Drawn
  IN  \A A \in SUBSET drawn \ {{}} : \E a \in A : study[a].parent \notin A
=============================================================================
