--------------------------- MODULE GraphMigration ---------------------------
(***************************************************************************)
(* Opening a .semsql file: every reader and every writer runs the          *)
(* migrations first (semsql_graph::open).  Each SQL statement commits by   *)
(* itself, so other processes act between any two of them, and a process   *)
(* may be killed there.                                                    *)
(*                                                                         *)
(* Of the tables only those a migration changes are kept: `vocabulary`,    *)
(* which version 2 copies to get rid of an old CHECK, and                  *)
(* `metric_definitions`, which versions 4 and 5 give columns.  All other   *)
(* statements are CREATE ... IF NOT EXISTS.                                *)
(***************************************************************************)
EXTENDS Naturals, FiniteSets

CONSTANTS
  Openers,    \* processes that open the file
  Rows,       \* rows of the vocabulary
  NoTable     \* an absent table

SchemaVersion == 5
\* measure_field, aggregate, distinct_measure
Columns == 1 .. 3

\* `wide`: its CHECK allows scope predicates.
Vocabularies == [rows : SUBSET Rows, wide : BOOLEAN]

ASSUME MigrationAssumption == NoTable \notin Vocabularies

VARIABLES
  version,      \* schema_version, 0 when there is none
  vocabulary, vocabulary2,
  metrics,      \* columns of metric_definitions: 0 for those it is created with
  proc,         \* what each process does
  saved,        \* history: rows committed by the processes that wrote
  shared,       \* history: processes that have had the file open beside another
  mishaps       \* history: what has befallen a rewriting of the vocabulary

tables == <<version, vocabulary, vocabulary2, metrics>>
history == <<saved, shared, mishaps>>
vars == <<tables, proc, history>>

Statements == {"create", "index", "version", "create2", "copy", "drop", "rename",
               "reindex", "metrics", "probe", "alter", "stamp"}
Out == {"out", "failed"}
Causes == {"none", "fault", "newer", "table", "column"}
\* Where a process is rewriting the vocabulary, and where it has copied it.
Rewriting == {"copy", "drop", "rename"}
CopyTaken == {"drop", "rename"}
\* company: another process had the file open during a rewriting.
\* clash: both had taken a copy, or one wrote what the other no longer copies.
\* cut: it ended between its drop and its rename, in a migrated graph.
Mishaps == {"company", "clash", "cut"}
Processes == [pc : Statements \cup Out \cup {"open"}, column : Columns, cause : Causes]
Gone == [pc |-> "out", column |-> 1, cause |-> "none"]

Wide(R) == [rows |-> R, wide |-> TRUE]
Narrow(R) == [rows |-> R, wide |-> FALSE]

\* A new file, and what each release up to the next one leaves.
Init ==
  /\ \E R \in SUBSET Rows :
     /\ saved = R
     /\ \/ version = 0 /\ R = {} /\ vocabulary = NoTable /\ metrics = {}
        \/ version = 1 /\ vocabulary = Narrow(R) /\ metrics = {}
        \/ version = 2 /\ vocabulary = Wide(R) /\ metrics = {}
        \/ version = 3 /\ vocabulary = Wide(R) /\ metrics = {0}
        \/ version = 4 /\ vocabulary = Wide(R) /\ metrics = {0, 1, 2}
        \/ version \in {5, 6} /\ vocabulary = Wide(R) /\ metrics = 0 .. 3
  /\ vocabulary2 = NoTable
  /\ proc = [o \in Openers |-> Gone]
  /\ shared = {} /\ mishaps = {}

At(o, pc) == proc[o].pc = pc
Goto(o, pc) == proc' = [proc EXCEPT ![o].pc = pc]
Fail(o, cause) == proc' = [proc EXCEPT ![o] = [pc |-> "failed", column |-> 1, cause |-> cause]]
Quit(o) == proc' = [proc EXCEPT ![o] = Gone]

\* A statement that meets a missing table, or one that is already there,
\* ends the open.
Continue(o, ok, pc) == IF ok THEN Goto(o, pc) ELSE Fail(o, "table")

Others(o) == {p \in Openers \ {o} : proc[p].pc \notin Out}
OthersAt(o, pcs) == \E p \in Openers \ {o} : proc[p].pc \in pcs

\* The history notes a mishap.
Note(happened, mishap) == mishaps' = IF happened THEN mishaps \cup {mishap} ELSE mishaps
CutShort(o) == Note(At(o, "rename") /\ version >= 2, "cut")

Open(o) ==
  /\ proc[o].pc \in Out
  /\ proc' = [proc EXCEPT ![o] = [pc |-> "create", column |-> 1, cause |-> "none"]]
  /\ shared' = (shared \ {o}) \cup (IF Others(o) = {} THEN {} ELSE {o} \cup Others(o))
  /\ Note(OthersAt(o, Rewriting), "company")
  /\ UNCHANGED <<tables, saved>>

-----------------------------------------------------------------------------
(* SCHEMA_V1_SQL, and the version the file has.                            *)

CreateVocabulary(o) ==
  /\ At(o, "create")
  /\ vocabulary' = IF vocabulary = NoTable THEN Wide({}) ELSE vocabulary
  /\ Goto(o, "index")
  /\ UNCHANGED <<version, vocabulary2, metrics, history>>

\* An index needs its table.
IndexVocabulary(o) ==
  /\ At(o, "index")
  /\ Continue(o, vocabulary # NoTable, "version")
  /\ UNCHANGED <<tables, history>>

\* Where the migrations of a graph of version v begin.
FirstStatement(v) ==
  CASE v < 2 -> "create2"
    [] v = 2 -> "metrics"
    [] v \in {3, 4} -> "probe"
    [] OTHER -> "open"

ReadVersion(o) ==
  /\ At(o, "version") /\ version <= SchemaVersion
  /\ proc' = [proc EXCEPT ![o].pc = FirstStatement(version),
                          ![o].column = IF version = 4 THEN 3 ELSE 1]
  /\ UNCHANGED <<tables, history>>

\* The version cannot be read, or not parsed: it counts as 0, whatever it is.
VersionUnread(o) ==
  /\ At(o, "version")
  /\ proc' = [proc EXCEPT ![o].pc = "create2", ![o].column = 1]
  /\ UNCHANGED <<tables, history>>

\* SchemaVersionMismatch
NewerGraph(o) ==
  /\ At(o, "version") /\ version > SchemaVersion
  /\ Fail(o, "newer")
  /\ UNCHANGED <<tables, history>>

-----------------------------------------------------------------------------
(* Version 2: the vocabulary is copied, dropped and replaced by the copy.  *)

\* A bug: what an interrupted migration left is thrown away.
CreateCopyAfresh(o) ==
  /\ At(o, "create2")
  /\ vocabulary2' = Wide({})
  /\ Goto(o, "copy")
  /\ Note(Others(o) # {}, "company")
  /\ UNCHANGED <<version, vocabulary, metrics, saved, shared>>

CreateCopy(o) ==
  /\ At(o, "create2")
  /\ vocabulary2' = IF vocabulary2 = NoTable THEN Wide({}) ELSE vocabulary2
  /\ Goto(o, "copy")
  /\ Note(Others(o) # {}, "company")
  /\ UNCHANGED <<version, vocabulary, metrics, saved, shared>>

CopyRows(o) ==
  LET ok == vocabulary # NoTable /\ vocabulary2 # NoTable IN
  /\ At(o, "copy")
  /\ vocabulary2' = IF ok THEN Wide(vocabulary2.rows \cup vocabulary.rows) ELSE vocabulary2
  /\ Continue(o, ok, "drop")
  /\ Note(OthersAt(o, CopyTaken), "clash")
  /\ UNCHANGED <<version, vocabulary, metrics, saved, shared>>

DropVocabulary(o) ==
  /\ At(o, "drop")
  /\ vocabulary' = NoTable
  /\ Continue(o, vocabulary # NoTable, "rename")
  /\ UNCHANGED <<version, vocabulary2, metrics, history>>

RenameCopy(o) ==
  LET ok == vocabulary = NoTable /\ vocabulary2 # NoTable IN
  /\ At(o, "rename")
  /\ vocabulary' = IF ok THEN vocabulary2 ELSE vocabulary
  /\ vocabulary2' = IF ok THEN NoTable ELSE vocabulary2
  /\ Continue(o, ok, "reindex")
  /\ UNCHANGED <<version, metrics, saved, shared>>
  /\ Note(~ ok /\ version >= 2, "cut")

Reindex(o) ==
  /\ At(o, "reindex")
  /\ Continue(o, vocabulary # NoTable, "metrics")
  /\ UNCHANGED <<tables, history>>

-----------------------------------------------------------------------------
(* Versions 3 to 5: the metric definitions and their columns.              *)

ToColumn(o, c) == proc' = [proc EXCEPT ![o].pc = "probe", ![o].column = c]

CreateMetrics(o) ==
  /\ At(o, "metrics")
  /\ metrics' = metrics \cup {0}
  /\ ToColumn(o, 1)
  /\ UNCHANGED <<version, vocabulary, vocabulary2, history>>

NextColumn(o) ==
  IF proc[o].column < 3 THEN ToColumn(o, proc[o].column + 1) ELSE Goto(o, "stamp")

\* A bug: columns are added without a look.
NoProbe(o) ==
  /\ At(o, "probe")
  /\ Goto(o, "alter")
  /\ UNCHANGED <<tables, history>>

Probe(o) ==
  /\ At(o, "probe")
  /\ IF proc[o].column \in metrics THEN NextColumn(o) ELSE Goto(o, "alter")
  /\ UNCHANGED <<tables, history>>

AddColumn(o) ==
  /\ At(o, "alter") /\ proc[o].column \notin metrics
  /\ metrics' = metrics \cup {proc[o].column}
  /\ NextColumn(o)
  /\ UNCHANGED <<version, vocabulary, vocabulary2, history>>

\* Another process added it after the probe.
ColumnRefused(o) ==
  /\ At(o, "alter") /\ proc[o].column \in metrics
  /\ Fail(o, "column")
  /\ UNCHANGED <<tables, history>>

\* A bug: the version is counted up.
StampNext(o) ==
  /\ At(o, "stamp")
  /\ version' = version + 1
  /\ Goto(o, "open")
  /\ UNCHANGED <<vocabulary, vocabulary2, metrics, history>>

\* Also over the version of a newer graph, if that was not read.
Stamp(o) ==
  /\ At(o, "stamp")
  /\ version' = SchemaVersion
  /\ Goto(o, "open")
  /\ UNCHANGED <<vocabulary, vocabulary2, metrics, history>>

-----------------------------------------------------------------------------
(* The open file, and what may go wrong.                                   *)

\* A transaction of a writer, which leaves the file when it is done.
Write(o) ==
  /\ At(o, "open") /\ vocabulary # NoTable
  /\ \E R \in SUBSET Rows : /\ vocabulary' = [vocabulary EXCEPT !.rows = @ \cup R]
                             /\ saved' = saved \cup R
  /\ Quit(o)
  /\ Note(OthersAt(o, {"drop"}), "clash")
  /\ UNCHANGED <<version, vocabulary2, metrics, shared>>

\* A statement fails: a full disk, or a lock that is not released in time.
Fault(o) ==
  /\ proc[o].pc \in Statements \ {"version"}
  /\ Fail(o, "fault")
  /\ CutShort(o)
  /\ UNCHANGED <<tables, saved, shared>>

\* The process is killed, or closes the file.
Leave(o) ==
  /\ proc[o].pc \notin Out
  /\ Quit(o)
  /\ CutShort(o)
  /\ UNCHANGED <<tables, saved, shared>>

Step(o) ==
  \/ Open(o) \/ CreateVocabulary(o) \/ IndexVocabulary(o) \/ ReadVersion(o)
  \/ VersionUnread(o) \/ NewerGraph(o)
  \/ CreateCopy(o) \/ CopyRows(o) \/ DropVocabulary(o) \/ RenameCopy(o) \/ Reindex(o)
  \/ CreateMetrics(o) \/ Probe(o) \/ AddColumn(o) \/ ColumnRefused(o)
  \/ Stamp(o) \/ Write(o) \/ Fault(o) \/ Leave(o)

Next == \E o \in Openers : Step(o)

Spec == Init /\ [][Next]_vars

-----------------------------------------------------------------------------
(* Properties.                                                             *)

TypeOK ==
  /\ version \in 0 .. SchemaVersion + 1
  /\ vocabulary \in Vocabularies \cup {NoTable}
  /\ vocabulary2 \in Vocabularies \cup {NoTable}
  /\ metrics \subseteq 0 .. 3
  /\ proc \in [Openers -> Processes]
  /\ saved \subseteq Rows /\ shared \subseteq Openers /\ mishaps \subseteq Mishaps

RowsOf(table) == IF table = NoTable THEN {} ELSE table.rows

\* The doc comment of migrate calls the migrations additive: no row that was
\* committed to the vocabulary is lost by an open.
NoRowIsLost == saved \subseteq RowsOf(vocabulary) \cup RowsOf(vocabulary2)

\* What it takes to lose one: two rewritings past their copies at once, or a
\* write between the copy and the drop of another process.  Nothing else
\* does, whatever is killed, fails, is run again, or takes a current graph
\* for one without a version.
RowsSurvive == "clash" \notin mishaps => NoRowIsLost

WholeGraph ==
  /\ version = SchemaVersion /\ metrics = 0 .. 3
  /\ vocabulary = Wide(saved)

Undisturbed == mishaps \cap {"company", "cut"} = {}

\* A process that has the file open sees the newest schema and every row,
\* also when its migration resumes one that was interrupted, and only a
\* fault, a newer graph or a lost race for a column makes an open fail: if
\* every rewriting had the file for itself, and none was cut short in a graph
\* that counts as migrated.
OpensWhole ==
  Undisturbed =>
    \A o \in Openers :
      /\ At(o, "open") => WholeGraph
      /\ At(o, "failed") => \/ proc[o].cause \in {"fault", "newer"}
                            \/ proc[o].cause = "column" /\ o \in shared
=============================================================================
