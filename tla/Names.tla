-------------------------------- MODULE Names --------------------------------
(***************************************************************************)
(* The mnemonic names (aliases) of tasks and experiments: rows that are    *)
(* never deleted one by one, and two maps in memory that stand for them.   *)
(* A name is a hash of the object and a nonce, so two objects may want the *)
(* same one.  Every read of a task names it; a restart reads the rows      *)
(* back; a restored backup brings its own rows, after the tasks it brings  *)
(* were saved and so named.  Each step is one synchronous call.            *)
(***************************************************************************)
EXTENDS Naturals, FiniteSets, SequencesExt

CONSTANTS
  Tasks,       \* ids of tasks, in the order in which they are saved
  Experiments, \* ids of experiments
  Aliases,     \* the names there are
  Spelling,    \* [Tasks \cup Experiments -> sequences of names, by nonce]
  Upheavals    \* bound: restarts and restored backups

Named == Tasks \cup Experiments
NoAlias == "no alias"
NoOne == 0

ASSUME NamesAssumption ==
  /\ Tasks \subseteq Nat \ {NoOne} /\ Experiments \subseteq Nat \ {NoOne}
  /\ Tasks \cap Experiments = {} /\ IsFiniteSet(Named)
  /\ Spelling \in [Named -> Seq(Aliases)] /\ NoAlias \notin Aliases /\ Upheavals \in Nat
  \* a name begins with the kind of its object, and a hundred nonces are never used up
  /\ \A t \in Tasks, e \in Experiments : ToSet(Spelling[t]) \cap ToSet(Spelling[e]) = {}
  /\ \A o \in Named : Cardinality(ToSet(Spelling[o])) >= Cardinality(Named)

VARIABLES
  living,    \* the objects there are
  registry,  \* rows, and the two maps of the store
  saved,     \* the last backup: its objects and its rows
  given,     \* history: the pairs that were handed out and that a restore did not undo
  clashed,   \* history: a restored row found its name taken by another object
  upheavals

namesVars == <<living, registry, saved, given, clashed, upheavals>>

\* rows: UNIQUE by alias and by object.
Pair == [alias : Aliases, object : Named]
Registry == [rows : SUBSET Pair, byObject : [Named -> Aliases \cup {NoAlias}],
             byAlias : [Aliases -> Named \cup {NoOne}]]
EmptyRegistry == [rows |-> {}, byObject |-> [o \in Named |-> NoAlias],
                  byAlias |-> [a \in Aliases |-> NoOne]]

Cached(reg, pair) ==
  [reg EXCEPT !.byObject[pair.object] = pair.alias, !.byAlias[pair.alias] = pair.object]

\* INSERT ... ON CONFLICT DO NOTHING.
Refused(reg, pair) ==
  \E row \in reg.rows : row.alias = pair.alias \/ row.object = pair.object

Inserted(reg, pair) ==
  IF Refused(reg, pair) THEN reg ELSE [reg EXCEPT !.rows = @ \cup {pair}]

\* generateMnemonicAlias: a hash of the object and the nonce, spelt in words.
Generated(o, nonce) == Spelling[o][nonce]

\* Mutant: the first nonce is taken without a look at the rows.
FirstSpelling(reg, o) == Generated(o, 1)

FirstFree(reg, o) ==
  Generated(o, CHOOSE n \in DOMAIN Spelling[o] :
    /\ \A row \in reg.rows : row.alias # Generated(o, n)
    /\ \A m \in 1 .. (n - 1) : \E row \in reg.rows : row.alias = Generated(o, m))

\* ensureObjectAlias: the map, the object's row, or the first nonce whose name is not taken.
Ensured(reg, o) ==
  IF reg.byObject[o] # NoAlias THEN reg
  ELSE IF \E row \in reg.rows : row.object = o
    THEN Cached(reg, CHOOSE row \in reg.rows : row.object = o)
  ELSE LET pair == [alias |-> FirstFree(reg, o), object |-> o]
       IN  Cached(Inserted(reg, pair), pair)

EnsuredAll(reg, objects) == FoldLeft(Ensured, reg, SetToSortSeq(objects, <))

\* resolveObjectRef with an alias: the map, else the row.
Meant(reg, a) ==
  IF reg.byAlias[a] # NoOne THEN reg.byAlias[a]
  ELSE IF \E row \in reg.rows : row.alias = a
    THEN (CHOOSE row \in reg.rows : row.alias = a).object
  ELSE NoOne

Looked(reg, a) ==
  IF Meant(reg, a) = NoOne THEN reg ELSE Cached(reg, [alias |-> a, object |-> Meant(reg, a)])

Given(reg) ==
  {[alias |-> reg.byObject[o], object |-> o] : o \in {p \in Named : reg.byObject[p] # NoAlias}}

Keep(reg) == registry' = reg /\ given' = given \cup Given(reg)

NamesInit ==
  /\ living = {} /\ registry = EmptyRegistry /\ saved = [objects |-> {}, rows |-> {}]
  /\ given = {} /\ clashed = FALSE /\ upheavals = 0

\* A task or an experiment is saved; reading it again names nothing new.
Save(o) ==
  /\ living' = living \cup {o}
  /\ Keep(Ensured(registry, o))
  /\ UNCHANGED <<saved, clashed, upheavals>>

\* deleteTask, deleteExperiment: the row of the name stays.
Delete(o) ==
  /\ o \in living /\ living' = living \ {o}
  /\ UNCHANGED <<registry, saved, given, clashed, upheavals>>

Look(a) ==
  /\ Keep(Looked(registry, a))
  /\ UNCHANGED <<living, saved, clashed, upheavals>>

\* A new process: the rows into the maps, then experiments and tasks that have no name.
Reboot ==
  /\ upheavals < Upheavals /\ upheavals' = upheavals + 1
  /\ LET read == FoldLeft(Cached, [EmptyRegistry EXCEPT !.rows = registry.rows],
                          SetToSeq(registry.rows))
     IN  Keep(EnsuredAll(EnsuredAll(read, living \cap Experiments), living \cap Tasks))
  /\ UNCHANGED <<living, saved, clashed>>

\* exportState.
Export ==
  /\ saved' = [objects |-> living, rows |-> registry.rows]
  /\ UNCHANGED <<living, registry, given, clashed, upheavals>>

\* loadFromState: saving the archived and queued tasks (early) names them before the rows of
\* the backup are inserted; those rows go into the maps whether or not they were.
Restore(early) ==
  /\ early \subseteq saved.objects
  /\ upheavals < Upheavals /\ upheavals' = upheavals + 1
  /\ living' = saved.objects
  /\ LET rows    == SetToSeq(saved.rows)
         tasks   == EnsuredAll(EmptyRegistry, early)
         loaded  == FoldLeft(Cached, FoldLeft(Inserted, tasks, rows), rows)
         reg     == EnsuredAll(loaded, saved.objects)
     IN  /\ registry' = reg
         /\ given' = saved.rows \cup Given(reg)
         /\ clashed' = (clashed \/ \E pair \in saved.rows : pair \notin reg.rows)
  /\ UNCHANGED saved

NamesNext ==
  \/ \E o \in Named : Save(o) \/ Delete(o)
  \/ \E a \in Aliases : Look(a)
  \/ Reboot
  \/ Export
  \/ \E early \in SUBSET Tasks : Restore(early)

NamesTypeOK ==
  /\ living \subseteq Named /\ registry \in Registry
  /\ saved \in [objects : SUBSET Named, rows : SUBSET Pair]
  /\ given \subseteq Pair /\ clashed \in BOOLEAN /\ upheavals \in 0 .. Upheavals

(* A name once handed out means the object it was handed out for, in memory and in the  *)
(* rows, and an object keeps its name, across deletions, collisions, restarts and       *)
(* restored backups; but for a backup that holds two objects whose names collide, of    *)
(* which the one saved first takes the name of the other.                               *)
NamesHold ==
  /\ NamesTypeOK
  /\ \A x, y \in registry.rows : (x.alias = y.alias \/ x.object = y.object) => x = y
  /\ ~clashed =>
       \A pair \in given :
         /\ pair \in registry.rows
         /\ Meant(registry, pair.alias) = pair.object
         /\ registry.byObject[pair.object] \in {pair.alias, NoAlias}
=============================================================================
