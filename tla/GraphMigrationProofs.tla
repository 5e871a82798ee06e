------------------------ MODULE GraphMigrationProofs ------------------------
(***************************************************************************)
(* Proofs about GraphMigration, for any number of processes and any rows,  *)
(* killed and failing at any statement, reading versions or not: what it   *)
(* takes to lose a row, and what it takes for an open file to be less than *)
(* whole.                                                                  *)
(***************************************************************************)
EXTENDS GraphMigration, TLAPS

Copied == {"reindex", "metrics", "probe", "alter", "stamp", "open"}
Settled == vocabulary = Wide(saved)

\* Where the rows are: in both tables together at any time, and in the
\* vocabulary alone from version 2 on, while no process replaces it.
TablesInv ==
  /\ saved = RowsOf(vocabulary) \cup RowsOf(vocabulary2)
  /\ vocabulary2 # NoTable => vocabulary2.wide
  /\ version >= 2 /\ (\A o \in Openers : ~ At(o, "rename")) => Settled

\* What each process has reached.
ProcessInv(o) ==
  /\ proc[o].pc \in {"index", "version", "create2"} => vocabulary # NoTable
  /\ proc[o].pc \in {"copy", "drop"} => vocabulary # NoTable /\ vocabulary2 # NoTable
  /\ At(o, "drop") => saved = vocabulary2.rows
  /\ At(o, "rename") => vocabulary = NoTable /\ vocabulary2 # NoTable
  /\ proc[o].pc \in Copied => Settled
  /\ proc[o].pc \in {"probe", "alter"} => \A c \in 0 .. 3 : c < proc[o].column => c \in metrics
  /\ proc[o].pc \in {"stamp", "open"} => metrics = 0 .. 3
  /\ At(o, "open") => version = 5

ColumnsInv ==
  /\ version = 3 => 0 \in metrics
  /\ version = 4 => {0, 1, 2} \subseteq metrics
  /\ version >= 5 => metrics = 0 .. 3

\* Processes that have the file open together know it, and none of them
\* rewrites the vocabulary.
OverlapInv ==
  \A o \in Openers : \A p \in Openers \ {o} :
    proc[o].pc \notin Out /\ proc[p].pc \notin Out => o \in shared /\ proc[o].pc \notin Rewriting

\* Only a process that shares the file can be beaten to a column.
FailureInv(o) ==
  /\ At(o, "alter") /\ o \notin shared => proc[o].column \notin metrics
  /\ At(o, "failed") => \/ proc[o].cause \in {"fault", "newer"}
                        \/ proc[o].cause = "column" /\ o \in shared

\* Where every rewriting had the file for itself and none was cut short.
MigrationInv == /\ TypeOK /\ TablesInv /\ ColumnsInv /\ OverlapInv
                /\ \A o \in Openers : ProcessInv(o) /\ FailureInv(o)

\* Where no two rewritings clashed: a copy that is about to replace the
\* vocabulary has all its rows, and there is one such copy.
RowsInv ==
  "clash" \notin mishaps =>
    /\ NoRowIsLost
    /\ \A o \in Openers : At(o, "drop") => RowsOf(vocabulary) \subseteq RowsOf(vocabulary2)
    /\ \A o \in Openers : \A p \in Openers \ {o} :
         proc[o].pc \in CopyTaken => proc[p].pc \notin CopyTaken

USE DEF SchemaVersion, history

LEMMA WideIsTable ==
  ASSUME NEW R \in SUBSET Rows
  PROVE  /\ Wide(R) # NoTable /\ RowsOf(Wide(R)) = R /\ Wide(R).wide
         /\ Narrow(R) # NoTable /\ RowsOf(Narrow(R)) = R
<1>1. Wide(R) \in Vocabularies /\ Narrow(R) \in Vocabularies
  BY DEF Vocabularies, Wide, Narrow
<1> QED
  BY <1>1, MigrationAssumption DEF RowsOf, Wide, Narrow

-----------------------------------------------------------------------------
(* Types.                                                                  *)

LEMMA GotoTyped ==
  ASSUME proc \in [Openers -> Processes], NEW o \in Openers,
         NEW pc \in Statements \cup Out \cup {"open"}, Goto(o, pc)
  PROVE  proc' \in [Openers -> Processes]
  BY DEF Goto, Processes

LEMMA FailTyped ==
  ASSUME proc \in [Openers -> Processes], NEW o \in Openers, NEW cause \in Causes, Fail(o, cause)
  PROVE  proc' \in [Openers -> Processes]
  BY DEF Fail, Processes, Out, Columns

LEMMA QuitTyped ==
  ASSUME proc \in [Openers -> Processes], NEW o \in Openers, Quit(o)
  PROVE  proc' \in [Openers -> Processes]
  BY DEF Quit, Gone, Processes, Out, Columns, Causes

LEMMA NoteTyped ==
  ASSUME mishaps \subseteq Mishaps, NEW happened, NEW mishap \in Mishaps, Note(happened, mishap)
  PROVE  mishaps' \subseteq Mishaps
  BY DEF Note

LEMMA ToColumnTyped ==
  ASSUME proc \in [Openers -> Processes], NEW o \in Openers, NEW c \in Columns, ToColumn(o, c)
  PROVE  proc' \in [Openers -> Processes]
  BY DEF ToColumn, Processes, Statements

LEMMA NextColumnTyped ==
  ASSUME proc \in [Openers -> Processes], NEW o \in Openers, NextColumn(o)
  PROVE  proc' \in [Openers -> Processes]
<1>1. proc[o].column \in Columns
  BY DEF Processes
<1>2. CASE proc[o].column < 3
  <2>1. proc[o].column + 1 \in Columns
    BY <1>1, <1>2 DEF Columns
  <2> QED
    BY <1>2, <2>1, ToColumnTyped DEF NextColumn
<1>3. CASE ~ (proc[o].column < 3)
  BY <1>3, GotoTyped DEF NextColumn, Statements
<1> QED
  BY <1>2, <1>3

LEMMA TypeInit == Init => TypeOK
<1> SUFFICES ASSUME Init PROVE TypeOK
  OBVIOUS
<1>1. /\ saved \subseteq Rows
      /\ vocabulary = NoTable \/ vocabulary = Narrow(saved) \/ vocabulary = Wide(saved)
  BY DEF Init
<1>2. Narrow(saved) \in Vocabularies /\ Wide(saved) \in Vocabularies
  BY <1>1 DEF Vocabularies, Wide, Narrow
<1>3. version \in 0 .. 6 /\ metrics \subseteq 0 .. 3
  BY DEF Init
<1>4. Gone \in Processes
  BY DEF Gone, Processes, Out, Causes, Columns
<1> QED
  BY <1>1, <1>2, <1>3, <1>4 DEF Init, TypeOK

LEMMA TypeStep == TypeOK /\ [Next]_vars => TypeOK'
<1> SUFFICES ASSUME TypeOK, [Next]_vars PROVE TypeOK'
  OBVIOUS
<1> USE DEF tables
<1>0. proc \in [Openers -> Processes]
  BY DEF TypeOK
<1>1. ASSUME NEW o \in Openers, Open(o) PROVE TypeOK'
  <2>1. proc' \in [Openers -> Processes]
    BY <1>0, <1>1 DEF Open, Processes, Statements, Causes, Columns
  <2> QED
    BY <1>1, <2>1, NoteTyped DEF TypeOK, Open, Others, Mishaps
<1>2. ASSUME NEW o \in Openers, CreateVocabulary(o) PROVE TypeOK'
  BY <1>0, <1>2, GotoTyped DEF TypeOK, CreateVocabulary, Vocabularies, Wide, Statements
<1>3. ASSUME NEW o \in Openers, IndexVocabulary(o) \/ Reindex(o) PROVE TypeOK'
  BY <1>0, <1>3, GotoTyped, FailTyped
  DEF TypeOK, IndexVocabulary, Reindex, Continue, Statements, Causes
<1>4. ASSUME NEW o \in Openers, ReadVersion(o) PROVE TypeOK'
  <2> DEFINE first == FirstStatement(version)
             column == IF version = 4 THEN 3 ELSE 1
  <2>1. first \in Statements \cup {"open"}
    BY DEF FirstStatement, Statements
  <2>2. column \in Columns
    BY DEF Columns
  <2>3. proc' = [proc EXCEPT ![o].pc = first, ![o].column = column]
    BY <1>4 DEF ReadVersion
  <2> HIDE DEF first, column
  <2>4. proc' \in [Openers -> Processes]
    BY <1>0, <2>1, <2>2, <2>3 DEF Processes
  <2> QED
    BY <1>4, <2>4 DEF TypeOK, ReadVersion
<1>5. ASSUME NEW o \in Openers, NewerGraph(o) \/ ColumnRefused(o) \/ Fault(o) PROVE TypeOK'
  BY <1>0, <1>5, FailTyped, NoteTyped
  DEF TypeOK, NewerGraph, ColumnRefused, Fault, CutShort, Causes, Mishaps
<1>6. ASSUME NEW o \in Openers, CreateCopy(o) PROVE TypeOK'
  BY <1>0, <1>6, GotoTyped, NoteTyped
  DEF TypeOK, CreateCopy, Vocabularies, Wide, Statements, Mishaps
<1>7. ASSUME NEW o \in Openers, CopyRows(o) PROVE TypeOK'
  BY <1>0, <1>7, GotoTyped, FailTyped, NoteTyped
  DEF TypeOK, CopyRows, Continue, Vocabularies, Wide, Statements, Causes, Mishaps
<1>8. ASSUME NEW o \in Openers, DropVocabulary(o) \/ RenameCopy(o) PROVE TypeOK'
  BY <1>0, <1>8, GotoTyped, FailTyped, NoteTyped
  DEF TypeOK, DropVocabulary, RenameCopy, Continue, Statements, Causes, Mishaps
<1>9. ASSUME NEW o \in Openers, CreateMetrics(o) \/ Stamp(o) \/ Leave(o) PROVE TypeOK'
  <2>1. proc' \in [Openers -> Processes]
    BY <1>0, <1>9, GotoTyped, ToColumnTyped, QuitTyped
    DEF CreateMetrics, Stamp, Leave, Statements, Columns
  <2>2. version' \in 0 .. 6
    BY <1>9 DEF TypeOK, CreateMetrics, Stamp, Leave
  <2>3. metrics' \subseteq 0 .. 3
    <3>1. metrics \subseteq 0 .. 3 /\ 0 \in 0 .. 3
      BY DEF TypeOK
    <3> QED
      BY <1>9, <3>1 DEF CreateMetrics, Stamp, Leave
  <2>4. mishaps' \subseteq Mishaps
    BY <1>9, NoteTyped DEF TypeOK, CreateMetrics, Stamp, Leave, CutShort, Mishaps
  <2> QED
    BY <1>9, <2>1, <2>2, <2>3, <2>4 DEF TypeOK, CreateMetrics, Stamp, Leave
<1>10. ASSUME NEW o \in Openers, Probe(o) PROVE TypeOK'
  BY <1>0, <1>10, GotoTyped, NextColumnTyped DEF TypeOK, Probe, Statements
<1>11. ASSUME NEW o \in Openers, AddColumn(o) PROVE TypeOK'
  <2>1. proc[o].column \in 0 .. 3
    BY <1>0 DEF Processes, Columns
  <2> QED
    BY <1>0, <1>11, <2>1, NextColumnTyped DEF TypeOK, AddColumn
<1>12. ASSUME NEW o \in Openers, Write(o) PROVE TypeOK'
  BY <1>0, <1>12, QuitTyped, NoteTyped DEF TypeOK, Write, Vocabularies, Mishaps
<1>13. ASSUME NEW o \in Openers, VersionUnread(o) PROVE TypeOK'
  <2>1. "create2" \in Statements \cup Out \cup {"open"} /\ 1 \in Columns
    BY DEF Statements, Columns
  <2>2. proc' \in [Openers -> Processes]
    BY <1>0, <1>13, <2>1 DEF VersionUnread, Processes
  <2> QED
    BY <1>13, <2>2 DEF TypeOK, VersionUnread
<1>14. CASE UNCHANGED vars
  BY <1>14 DEF vars, TypeOK
<1> QED
  BY <1>1, <1>2, <1>3, <1>4, <1>5, <1>6, <1>7, <1>8, <1>9, <1>10, <1>11, <1>12, <1>13, <1>14
  DEF Next, Step

-----------------------------------------------------------------------------
(* Where every rewriting had the file for itself.                          *)

\* What a step of o leaves of the others, and of itself.
LEMMA Moved ==
  ASSUME TypeOK, NEW o \in Openers, NEW pc, Goto(o, pc)
  PROVE  /\ \A p \in Openers \ {o} : proc'[p] = proc[p]
         /\ proc'[o].pc = pc /\ proc'[o].column = proc[o].column
  BY DEF TypeOK, Goto, Processes

LEMMA Failed ==
  ASSUME TypeOK, NEW o \in Openers, NEW cause, Fail(o, cause)
  PROVE  /\ \A p \in Openers \ {o} : proc'[p] = proc[p]
         /\ proc'[o].pc = "failed" /\ proc'[o].cause = cause
  BY DEF TypeOK, Fail, Processes

LEMMA HasQuit ==
  ASSUME TypeOK, NEW o \in Openers, Quit(o)
  PROVE  /\ \A p \in Openers \ {o} : proc'[p] = proc[p]
         /\ proc'[o].pc = "out"
  BY DEF TypeOK, Quit, Gone, Processes

LEMMA ToColumnMoved ==
  ASSUME TypeOK, NEW o \in Openers, NEW c, ToColumn(o, c)
  PROVE  /\ \A p \in Openers \ {o} : proc'[p] = proc[p]
         /\ proc'[o].pc = "probe" /\ proc'[o].column = c
  BY DEF TypeOK, ToColumn, Processes

LEMMA InvInit == Init => MigrationInv
<1> SUFFICES ASSUME Init PROVE MigrationInv
  OBVIOUS
<1>1. /\ saved \subseteq Rows
      /\ \/ vocabulary = NoTable /\ saved = {} /\ version = 0
         \/ vocabulary = Narrow(saved) /\ version = 1
         \/ vocabulary = Wide(saved)
  BY DEF Init
<1>2. TablesInv
  BY <1>1, WideIsTable DEF Init, TablesInv, Settled, RowsOf
<1>3. ColumnsInv
  BY DEF Init, ColumnsInv
<1>4. \A o \in Openers : At(o, "out")
  BY DEF Init, At, Gone
<1> QED
  BY <1>2, <1>3, <1>4, TypeInit
  DEF MigrationInv, OverlapInv, FailureInv, ProcessInv, At, Out, Copied

\* A step of a process that has the file open lets no other in.
LEMMA OverlapKept ==
  ASSUME MigrationInv, NEW o \in Openers, proc[o].pc \notin Out, proc'[o].pc \notin Rewriting,
         \A p \in Openers \ {o} : proc'[p] = proc[p], shared' = shared
  PROVE  OverlapInv'
  BY DEF MigrationInv, OverlapInv

\* Beside a process that rewrites, the others are out.
LEMMA OthersOut ==
  ASSUME MigrationInv, NEW o \in Openers, proc[o].pc \in Rewriting, NEW p \in Openers \ {o}
  PROVE  proc[p].pc \in Out
  BY DEF MigrationInv, OverlapInv, Rewriting, Out

\* A step that leaves the tables as they are.
LEMMA QuietStep ==
  ASSUME MigrationInv, TypeOK', NEW o \in Openers, proc[o].pc \notin Out,
         \A p \in Openers \ {o} : proc'[p] = proc[p], UNCHANGED <<tables, saved, shared>>,
         proc'[o].pc \notin Rewriting, At(o, "rename") => version < 2,
         ProcessInv(o)', FailureInv(o)'
  PROVE  MigrationInv'
<1>1. UNCHANGED <<version, vocabulary, vocabulary2, metrics, saved>> /\ (Settled' <=> Settled)
  BY DEF tables, Settled, Wide
<1>2. TablesInv'
  <2> SUFFICES ASSUME version >= 2, \A p \in Openers : ~ At(p, "rename")' PROVE Settled
    BY <1>1 DEF MigrationInv, TablesInv, RowsOf
  <2>1. ~ At(o, "rename")
    BY DEF MigrationInv, TypeOK
  <2>2. \A p \in Openers : ~ At(p, "rename")
    BY <2>1 DEF At
  <2> QED
    BY <2>2 DEF MigrationInv, TablesInv
<1>3. ColumnsInv'
  BY <1>1 DEF MigrationInv, ColumnsInv
<1>4. OverlapInv'
  BY OverlapKept
<1>5. ASSUME NEW p \in Openers \ {o} PROVE ProcessInv(p)' /\ FailureInv(p)'
  BY <1>1 DEF MigrationInv, ProcessInv, FailureInv, At
<1> QED
  BY <1>2, <1>3, <1>4, <1>5 DEF MigrationInv

\* A step of a process that has the file for itself.
LEMMA LoneStep ==
  ASSUME MigrationInv, TypeOK', NEW o \in Openers,
         \A p \in Openers \ {o} : proc'[p] = proc[p] /\ proc[p].pc \in Out,
         UNCHANGED <<version, metrics, shared>>, TablesInv', ProcessInv(o)', FailureInv(o)'
  PROVE  MigrationInv'
<1>1. ColumnsInv' /\ OverlapInv'
  BY DEF MigrationInv, ColumnsInv, OverlapInv
<1>2. ASSUME NEW p \in Openers \ {o} PROVE ProcessInv(p)' /\ FailureInv(p)'
  BY DEF MigrationInv, FailureInv, ProcessInv, At, Out, Copied
<1> QED
  BY <1>1, <1>2 DEF MigrationInv

\* A step that only adds columns: the others know that they share the file.
LEMMA MetricsStep ==
  ASSUME MigrationInv, TypeOK', NEW o \in Openers, proc[o].pc \notin Out \cup Rewriting,
         \A p \in Openers \ {o} : proc'[p] = proc[p], proc'[o].pc \notin Rewriting,
         UNCHANGED <<version, vocabulary, vocabulary2, saved, shared>>, metrics \subseteq metrics',
         ProcessInv(o)', FailureInv(o)'
  PROVE  MigrationInv'
<1>1. Settled' <=> Settled
  BY DEF Settled, Wide
<1>2. TablesInv'
  <2>1. (\A p \in Openers : ~ At(p, "rename")') => \A p \in Openers : ~ At(p, "rename")
    BY DEF At, Rewriting
  <2> QED
    BY <1>1, <2>1 DEF MigrationInv, TablesInv, RowsOf
<1>3. metrics' \subseteq 0 .. 3
  BY DEF TypeOK
<1>4. ColumnsInv'
  BY <1>3 DEF MigrationInv, ColumnsInv
<1>5. OverlapInv'
  BY OverlapKept
<1>6. ASSUME NEW p \in Openers \ {o} PROVE ProcessInv(p)' /\ FailureInv(p)'
  <2>1. ProcessInv(p)'
    BY <1>1, <1>3 DEF MigrationInv, ProcessInv, At
  <2>2. At(p, "alter") => p \in shared
    BY DEF MigrationInv, OverlapInv, At, Out
  <2> QED
    BY <2>1, <2>2 DEF MigrationInv, FailureInv, At
<1> QED
  BY <1>2, <1>4, <1>5, <1>6 DEF MigrationInv

LEMMA OpenStep ==
  ASSUME MigrationInv, TypeOK', Undisturbed', NEW o \in Openers, Open(o)
  PROVE  MigrationInv'
<1>1. /\ \A p \in Openers \ {o} : proc'[p] = proc[p]
      /\ proc'[o].pc = "create" /\ proc[o].pc \in Out
  BY DEF MigrationInv, TypeOK, Open
<1>2. UNCHANGED <<version, vocabulary, vocabulary2, metrics, saved>> /\ (Settled' <=> Settled)
  BY DEF Open, tables, Settled, Wide
<1>3. shared \ {o} \subseteq shared'
  BY DEF Open
<1>4. ASSUME NEW p \in Openers \ {o}, proc[p].pc \notin Out
      PROVE  /\ o \in shared' /\ p \in shared'
             /\ proc[p].pc \notin Rewriting
  <2>1. p \in Others(o)
    BY <1>4 DEF Others
  <2>2. ~ OthersAt(o, Rewriting)
    BY DEF Open, Note, Undisturbed
  <2> QED
    BY <2>1, <2>2 DEF Open, OthersAt
<1>5. OverlapInv'
  <2> SUFFICES ASSUME NEW p \in Openers, NEW q \in Openers \ {p},
                      proc'[p].pc \notin Out, proc'[q].pc \notin Out
               PROVE  p \in shared' /\ proc'[p].pc \notin Rewriting
    BY DEF OverlapInv
  <2>1. CASE p = o
    BY <1>1, <1>4, <2>1 DEF Rewriting
  <2>2. CASE q = o
    BY <1>1, <1>4, <2>2
  <2>3. CASE p # o /\ q # o
    BY <1>1, <1>3, <2>3 DEF MigrationInv, OverlapInv
  <2> QED
    BY <2>1, <2>2, <2>3
<1>6. TablesInv' /\ ColumnsInv'
  <2>1. (\A p \in Openers : ~ At(p, "rename")') => \A p \in Openers : ~ At(p, "rename")
    BY <1>1 DEF At, Out
  <2> QED
    BY <1>2, <2>1 DEF MigrationInv, TablesInv, ColumnsInv, RowsOf
<1>7. ProcessInv(o)' /\ FailureInv(o)'
  BY <1>1 DEF ProcessInv, FailureInv, At, Copied
<1>8. ASSUME NEW p \in Openers \ {o} PROVE ProcessInv(p)' /\ FailureInv(p)'
  <2>1. ProcessInv(p)'
    BY <1>1, <1>2 DEF MigrationInv, ProcessInv, At
  <2>2. FailureInv(p)'
    BY <1>1, <1>2, <1>3 DEF MigrationInv, FailureInv, At
  <2> QED
    BY <2>1, <2>2
<1> QED
  BY <1>5, <1>6, <1>7, <1>8 DEF MigrationInv

LEMMA CreateVocabularyStep ==
  ASSUME MigrationInv, TypeOK', NEW o \in Openers, CreateVocabulary(o)
  PROVE  MigrationInv'
<1>1. /\ \A p \in Openers \ {o} : proc'[p] = proc[p]
      /\ proc'[o].pc = "index" /\ proc[o].pc = "create" /\ proc[o].pc \notin Out
  BY Moved DEF MigrationInv, CreateVocabulary, At, Out
<1>2. UNCHANGED <<version, vocabulary2, metrics, saved, shared>>
  BY DEF CreateVocabulary
<1>3. vocabulary' # NoTable
  BY WideIsTable DEF CreateVocabulary
<1>4. ProcessInv(o)' /\ FailureInv(o)'
  BY <1>1, <1>3 DEF ProcessInv, FailureInv, At, Copied
<1>5. ~ At(o, "rename") /\ proc'[o].pc \notin Rewriting
  BY <1>1 DEF At, Rewriting
<1>6. CASE vocabulary = NoTable
  <2>1. ~ Settled
    <3>1. saved \in SUBSET Rows
      BY DEF MigrationInv, TypeOK
    <3> QED
      BY <1>6, <3>1, WideIsTable DEF Settled
  <2>2. \A p \in Openers : proc[p].pc \notin Rewriting
    BY <1>1, OthersOut DEF Rewriting
  <2>3. \A p \in Openers : proc[p].pc \in Out \cup {"create"}
    <3> SUFFICES ASSUME NEW p \in Openers PROVE proc[p].pc \in Out \cup {"create"}
      OBVIOUS
    <3>1. proc[p].pc \in Statements \cup Out \cup {"open"}
      BY DEF MigrationInv, TypeOK, Processes
    <3>2. proc[p].pc \notin Copied \cup {"index", "version", "create2"}
      BY <1>6, <2>1 DEF MigrationInv, ProcessInv
    <3> QED
      BY <2>2, <3>1, <3>2 DEF Statements, Copied, Rewriting
  <2>4. ~ (version >= 2)
    BY <2>1, <2>2 DEF MigrationInv, TablesInv, At, Rewriting
  <2>5. TablesInv'
    <3>1. RowsOf(vocabulary') = {} /\ RowsOf(vocabulary) = {}
      BY <1>6, WideIsTable DEF CreateVocabulary, RowsOf
    <3>2. RowsOf(vocabulary2)' = RowsOf(vocabulary2)
      BY <1>2 DEF RowsOf
    <3>3. RowsOf(vocabulary)' = {}
      BY <3>1 DEF RowsOf
    <3> QED
      BY <1>2, <2>4, <3>1, <3>2, <3>3 DEF MigrationInv, TablesInv
  <2>6. ColumnsInv' /\ OverlapInv'
    BY <1>1, <1>2, <1>5, OverlapKept DEF MigrationInv, ColumnsInv
  <2>7. ASSUME NEW p \in Openers \ {o} PROVE ProcessInv(p)' /\ FailureInv(p)'
    <3>1. proc'[p].pc \in Out \cup {"create"}
      BY <1>1, <2>3
    <3>2. FailureInv(p)'
      BY <1>1, <1>2 DEF MigrationInv, FailureInv, At
    <3> QED
      BY <3>1, <3>2 DEF ProcessInv, At, Out, Copied
  <2> QED
    BY <1>4, <2>5, <2>6, <2>7 DEF MigrationInv
<1>7. CASE vocabulary # NoTable
  <2>1. UNCHANGED <<tables, saved, shared>>
    BY <1>2, <1>7 DEF CreateVocabulary, tables
  <2> QED
    BY <1>1, <1>4, <1>5, <2>1, QuietStep
<1> QED
  BY <1>6, <1>7

\* A process that stops, failed for no fault of another or killed.
LEMMA StopStep ==
  ASSUME MigrationInv, TypeOK', Undisturbed', NEW o \in Openers,
         NewerGraph(o) \/ Fault(o) \/ Leave(o)
  PROVE  MigrationInv'
<1>1. /\ proc[o].pc \notin Out
      /\ \A p \in Openers \ {o} : proc'[p] = proc[p]
      /\ proc'[o].pc \in Out /\ (proc'[o].pc = "failed" => proc'[o].cause \in {"fault", "newer"})
  BY HasQuit, Failed DEF MigrationInv, NewerGraph, Fault, Leave, Out, Statements, At
<1>2. ProcessInv(o)' /\ FailureInv(o)' /\ proc'[o].pc \notin Rewriting
  BY <1>1 DEF ProcessInv, FailureInv, At, Out, Copied, Rewriting
<1>3. At(o, "rename") => version < 2
  <2> SUFFICES ASSUME At(o, "rename") PROVE version < 2
    OBVIOUS
  <2>1. Note(version >= 2, "cut")
    BY DEF NewerGraph, Fault, Leave, CutShort, At
  <2>2. ~ (version >= 2)
    BY <2>1 DEF Note, Undisturbed
  <2> QED
    BY <2>2 DEF MigrationInv, TypeOK
<1>4. UNCHANGED <<tables, saved, shared>>
  BY DEF NewerGraph, Fault, Leave
<1> QED
  BY <1>1, <1>2, <1>3, <1>4, QuietStep

LEMMA IndexStep ==
  ASSUME MigrationInv, TypeOK', NEW o \in Openers, IndexVocabulary(o) \/ Reindex(o)
  PROVE  MigrationInv'
<1>1. proc[o].pc \in {"index", "reindex"} /\ proc[o].pc \notin Out /\ ProcessInv(o)
  BY DEF MigrationInv, IndexVocabulary, Reindex, At, Out
<1>2. vocabulary # NoTable
  <2>1. saved \in SUBSET Rows
    BY DEF MigrationInv, TypeOK
  <2> QED
    BY <1>1, <2>1, WideIsTable DEF ProcessInv, Copied, Settled
<1>3. \/ At(o, "index") /\ Goto(o, "version")
      \/ At(o, "reindex") /\ Goto(o, "metrics")
  BY <1>2 DEF IndexVocabulary, Reindex, Continue
<1>4. /\ \A p \in Openers \ {o} : proc'[p] = proc[p]
      /\ \/ At(o, "index") /\ proc'[o].pc = "version"
         \/ At(o, "reindex") /\ proc'[o].pc = "metrics"
  BY <1>3, Moved DEF MigrationInv
<1>5. UNCHANGED <<tables, saved, shared>>
  BY DEF IndexVocabulary, Reindex
<1>6. ProcessInv(o)' /\ FailureInv(o)'
  BY <1>1, <1>2, <1>4, <1>5 DEF ProcessInv, FailureInv, At, Copied, Settled, tables
<1>7. proc'[o].pc \notin Rewriting /\ ~ At(o, "rename")
  BY <1>1, <1>4 DEF At, Rewriting
<1> QED
  BY <1>1, <1>4, <1>5, <1>6, <1>7, QuietStep

LEMMA ReadVersionStep ==
  ASSUME MigrationInv, TypeOK', NEW o \in Openers, ReadVersion(o)
  PROVE  MigrationInv'
<1>1. proc[o].pc = "version" /\ proc[o].pc \notin Out /\ vocabulary # NoTable
  BY DEF MigrationInv, ProcessInv, ReadVersion, At, Out
<1>2. /\ \A p \in Openers \ {o} : proc'[p] = proc[p]
      /\ proc'[o].pc = FirstStatement(version)
      /\ proc'[o].column = IF version = 4 THEN 3 ELSE 1
  BY DEF MigrationInv, TypeOK, ReadVersion, Processes
<1>3. UNCHANGED <<version, vocabulary, vocabulary2, metrics, saved, shared>>
  BY DEF ReadVersion, tables
<1>4. \/ version < 2 /\ proc'[o].pc = "create2"
      \/ version = 2 /\ proc'[o].pc = "metrics"
      \/ version = 3 /\ proc'[o].pc = "probe" /\ proc'[o].column = 1
      \/ version = 4 /\ proc'[o].pc = "probe" /\ proc'[o].column = 3
      \/ version = 5 /\ proc'[o].pc = "open"
  BY <1>2 DEF MigrationInv, TypeOK, ReadVersion, FirstStatement
<1>5. version \in 0 .. 6 /\ (version >= 2 => Settled) /\ ColumnsInv
  <2>1. \A p \in Openers : ~ At(p, "rename")
    BY <1>1, OthersOut DEF At, Rewriting
  <2> QED
    BY <2>1 DEF MigrationInv, TypeOK, TablesInv
<1>6. Settled' <=> Settled
  BY <1>3 DEF Settled
<1>7. ProcessInv(o)'
  BY <1>1, <1>3, <1>4, <1>5, <1>6 DEF ProcessInv, ColumnsInv, At, Copied
<1>8. FailureInv(o)'
  BY <1>4 DEF FailureInv, At
<1>9. proc'[o].pc \notin Rewriting /\ ~ At(o, "rename")
  BY <1>1, <1>4 DEF At, Rewriting
<1> QED
  BY <1>1, <1>2, <1>3, <1>7, <1>8, <1>9, QuietStep DEF tables

LEMMA VersionUnreadStep ==
  ASSUME MigrationInv, TypeOK', NEW o \in Openers, VersionUnread(o)
  PROVE  MigrationInv'
<1>1. proc[o].pc = "version" /\ proc[o].pc \notin Out /\ vocabulary # NoTable
  BY DEF MigrationInv, ProcessInv, VersionUnread, At, Out
<1>2. (\A p \in Openers \ {o} : proc'[p] = proc[p]) /\ proc'[o].pc = "create2"
  BY DEF MigrationInv, TypeOK, VersionUnread, Processes
<1>3. UNCHANGED <<tables, saved, shared>>
  BY DEF VersionUnread
<1>4. ProcessInv(o)' /\ FailureInv(o)'
  BY <1>1, <1>2, <1>3 DEF ProcessInv, FailureInv, At, Copied, tables
<1>5. proc'[o].pc \notin Rewriting /\ ~ At(o, "rename")
  BY <1>1, <1>2 DEF At, Rewriting
<1> QED
  BY <1>1, <1>2, <1>3, <1>4, <1>5, QuietStep

LEMMA CreateCopyStep ==
  ASSUME MigrationInv, TypeOK', Undisturbed', NEW o \in Openers, CreateCopy(o)
  PROVE  MigrationInv'
<1>1. proc[o].pc = "create2" /\ proc[o].pc \notin Out /\ vocabulary # NoTable
  BY DEF MigrationInv, ProcessInv, CreateCopy, At, Out
<1>2. Others(o) = {}
  BY DEF CreateCopy, Note, Undisturbed
<1>3. (\A p \in Openers \ {o} : proc'[p] = proc[p] /\ proc[p].pc \in Out) /\ proc'[o].pc = "copy"
  BY <1>2, Moved DEF MigrationInv, CreateCopy, Others
<1>4. /\ vocabulary2' # NoTable /\ RowsOf(vocabulary2)' = RowsOf(vocabulary2)
      /\ vocabulary2'.wide
  BY WideIsTable DEF MigrationInv, TablesInv, CreateCopy, RowsOf
<1>5. UNCHANGED <<version, vocabulary, metrics, saved, shared>>
  BY DEF CreateCopy
<1>6. TablesInv'
  <2>1. version >= 2 => Settled
    BY <1>1, <1>3 DEF MigrationInv, TablesInv, At, Out
  <2>2. Settled' <=> Settled
    BY <1>5 DEF Settled, Wide
  <2> QED
    BY <1>4, <1>5, <2>1, <2>2 DEF MigrationInv, TablesInv, RowsOf
<1>7. ProcessInv(o)' /\ FailureInv(o)'
  BY <1>1, <1>3, <1>4, <1>5 DEF ProcessInv, FailureInv, At, Copied
<1> QED
  BY <1>3, <1>5, <1>6, <1>7, LoneStep

LEMMA CopyRowsStep ==
  ASSUME MigrationInv, TypeOK', NEW o \in Openers, CopyRows(o)
  PROVE  MigrationInv'
<1>1. proc[o].pc = "copy" /\ vocabulary # NoTable /\ vocabulary2 # NoTable
  BY DEF MigrationInv, ProcessInv, CopyRows, At
<1>2. /\ vocabulary2' = Wide(vocabulary2.rows \cup vocabulary.rows)
      /\ Goto(o, "drop") /\ UNCHANGED <<version, vocabulary, metrics, saved, shared>>
  BY <1>1 DEF CopyRows, Continue
<1>3. /\ \A p \in Openers \ {o} : proc'[p] = proc[p] /\ proc[p].pc \in Out
      /\ proc'[o].pc = "drop"
  BY <1>1, <1>2, Moved, OthersOut DEF MigrationInv, Rewriting
<1>4. saved = vocabulary2.rows \cup vocabulary.rows /\ saved \in SUBSET Rows
  BY <1>1 DEF MigrationInv, TypeOK, TablesInv, RowsOf
<1>5. vocabulary2' # NoTable /\ vocabulary2'.rows = saved /\ vocabulary2'.wide
  BY <1>1, <1>2, <1>4, WideIsTable DEF RowsOf
<1>6. RowsOf(vocabulary)' = vocabulary.rows /\ RowsOf(vocabulary2)' = saved
  BY <1>1, <1>2, <1>5 DEF RowsOf
<1>7. TablesInv'
  <2>1. saved' = RowsOf(vocabulary)' \cup RowsOf(vocabulary2)'
    BY <1>2, <1>4, <1>6
  <2>2. version' >= 2 => Settled'
    <3>1. \A p \in Openers : ~ At(p, "rename")
      BY <1>1, <1>3 DEF At, Out
    <3> QED
      BY <1>2, <3>1 DEF MigrationInv, TablesInv, Settled, Wide
  <2> QED
    BY <1>5, <2>1, <2>2 DEF TablesInv
<1>8. ProcessInv(o)' /\ FailureInv(o)'
  BY <1>1, <1>2, <1>3, <1>5 DEF ProcessInv, FailureInv, At, Copied
<1> QED
  BY <1>2, <1>3, <1>7, <1>8, LoneStep

LEMMA DropStep ==
  ASSUME MigrationInv, TypeOK', NEW o \in Openers, DropVocabulary(o)
  PROVE  MigrationInv'
<1>1. /\ proc[o].pc = "drop"
      /\ vocabulary # NoTable /\ vocabulary2 # NoTable /\ saved = vocabulary2.rows
  BY DEF MigrationInv, ProcessInv, DropVocabulary, At
<1>2. /\ vocabulary' = NoTable /\ Goto(o, "rename")
      /\ UNCHANGED <<version, vocabulary2, metrics, saved, shared>>
  BY <1>1 DEF DropVocabulary, Continue
<1>3. /\ \A p \in Openers \ {o} : proc'[p] = proc[p] /\ proc[p].pc \in Out
      /\ proc'[o].pc = "rename"
  BY <1>1, <1>2, Moved, OthersOut DEF MigrationInv, Rewriting
<1>4. TablesInv'
  BY <1>1, <1>2, <1>3 DEF MigrationInv, TablesInv, RowsOf, At
<1>5. ProcessInv(o)' /\ FailureInv(o)'
  BY <1>1, <1>2, <1>3 DEF ProcessInv, FailureInv, At, Copied
<1> QED
  BY <1>2, <1>3, <1>4, <1>5, LoneStep

LEMMA RenameStep ==
  ASSUME MigrationInv, TypeOK', NEW o \in Openers, RenameCopy(o)
  PROVE  MigrationInv'
<1>1. proc[o].pc = "rename" /\ vocabulary = NoTable /\ vocabulary2 # NoTable
  BY DEF MigrationInv, ProcessInv, RenameCopy, At
<1>2. /\ vocabulary' = vocabulary2 /\ vocabulary2' = NoTable /\ Goto(o, "reindex")
      /\ UNCHANGED <<version, metrics, saved, shared>>
  BY <1>1 DEF RenameCopy, Continue
<1>3. /\ \A p \in Openers \ {o} : proc'[p] = proc[p] /\ proc[p].pc \in Out
      /\ proc'[o].pc = "reindex"
  BY <1>1, <1>2, Moved, OthersOut DEF MigrationInv, Rewriting
<1>4. saved = vocabulary2.rows /\ vocabulary2.wide = TRUE /\ vocabulary2 \in Vocabularies
  BY <1>1 DEF MigrationInv, TypeOK, TablesInv, RowsOf, Vocabularies
<1>5. Settled'
  <2>1. vocabulary2 = Wide(saved)
    BY <1>4 DEF Vocabularies, Wide
  <2> QED
    BY <1>2, <2>1 DEF Settled, Wide
<1>6. RowsOf(vocabulary)' = saved /\ RowsOf(vocabulary2)' = {}
  BY <1>1, <1>2, <1>4 DEF RowsOf
<1>7. TablesInv'
  BY <1>1, <1>2, <1>5, <1>6 DEF TablesInv
<1>8. ProcessInv(o)' /\ FailureInv(o)'
  BY <1>1, <1>2, <1>3, <1>5 DEF ProcessInv, FailureInv, At, Copied
<1> QED
  BY <1>2, <1>3, <1>7, <1>8, LoneStep

LEMMA CreateMetricsStep ==
  ASSUME MigrationInv, TypeOK', NEW o \in Openers, CreateMetrics(o)
  PROVE  MigrationInv'
<1>1. /\ proc[o].pc = "metrics" /\ proc[o].pc \notin Out /\ Settled
  BY DEF MigrationInv, ProcessInv, CreateMetrics, At, Out, Copied
<1>2. /\ metrics' = metrics \cup {0} /\ ToColumn(o, 1)
      /\ UNCHANGED <<version, vocabulary, vocabulary2, saved, shared>>
  BY DEF CreateMetrics
<1>3. \A p \in Openers \ {o} : proc'[p] = proc[p]
  BY <1>2, ToColumnMoved DEF MigrationInv
<1>4. proc'[o].pc = "probe" /\ proc'[o].column = 1
  BY <1>2, ToColumnMoved DEF MigrationInv
<1>5. \A c \in 0 .. 3 : c < 1 => c \in metrics'
  BY <1>2
<1>6. Settled'
  BY <1>1, <1>2 DEF Settled
<1>7. ProcessInv(o)' /\ FailureInv(o)'
  BY <1>4, <1>5, <1>6 DEF ProcessInv, FailureInv, At, Copied
<1>8. proc[o].pc \notin Out \cup Rewriting /\ proc'[o].pc \notin Rewriting
  BY <1>1, <1>4 DEF Out, Rewriting
<1> QED
  BY <1>2, <1>3, <1>7, <1>8, MetricsStep

\* From the column that is there to the next: the columns grow, or stay.
LEMMA NextColumnStep ==
  ASSUME MigrationInv, TypeOK', NEW o \in Openers, proc[o].pc \in {"probe", "alter"},
         metrics \subseteq metrics', proc[o].column \in metrics', NextColumn(o),
         UNCHANGED <<version, vocabulary, vocabulary2, saved, shared>>
  PROVE  MigrationInv'
<1>1. /\ proc[o].pc \notin Out \cup Rewriting /\ Settled
      /\ \A c \in 0 .. 3 : c < proc[o].column => c \in metrics
  BY DEF MigrationInv, ProcessInv, At, Out, Copied, Rewriting
<1>2. proc[o].column \in 1 .. 3 /\ metrics' \subseteq 0 .. 3
  BY DEF MigrationInv, TypeOK, Processes, Columns
<1>3. Settled'
  BY <1>1 DEF Settled
<1>4. \A c \in 0 .. 3 : c < proc[o].column + 1 => c \in metrics'
  BY <1>1, <1>2
<1>5. CASE proc[o].column < 3
  <2>1. \A p \in Openers \ {o} : proc'[p] = proc[p]
    BY <1>5, ToColumnMoved DEF MigrationInv, NextColumn
  <2>2. proc'[o].pc = "probe" /\ proc'[o].column = proc[o].column + 1
    BY <1>5, ToColumnMoved DEF MigrationInv, NextColumn
  <2>3. ProcessInv(o)' /\ FailureInv(o)'
    BY <1>3, <1>4, <2>2 DEF ProcessInv, FailureInv, At, Copied
  <2> QED
    BY <1>1, <2>1, <2>2, <2>3, MetricsStep DEF Rewriting
<1>6. CASE ~ (proc[o].column < 3)
  <2>1. \A p \in Openers \ {o} : proc'[p] = proc[p]
    BY <1>6, Moved DEF MigrationInv, NextColumn
  <2>2. proc'[o].pc = "stamp"
    BY <1>6, Moved DEF MigrationInv, NextColumn
  <2>3. metrics' = 0 .. 3
    <3>1. proc[o].column = 3
      BY <1>2, <1>6
    <3>2. 0 .. 3 \subseteq metrics'
      BY <1>4, <3>1
    <3> QED
      BY <1>2, <3>2
  <2>4. ProcessInv(o)' /\ FailureInv(o)'
    BY <1>3, <2>2, <2>3 DEF ProcessInv, FailureInv, At, Copied
  <2> QED
    BY <1>1, <2>1, <2>2, <2>4, MetricsStep DEF Rewriting
<1> QED
  BY <1>5, <1>6

LEMMA ProbeStep ==
  ASSUME MigrationInv, TypeOK', NEW o \in Openers, Probe(o)
  PROVE  MigrationInv'
<1>1. /\ proc[o].pc = "probe" /\ proc[o].pc \notin Out /\ Settled
      /\ \A c \in 0 .. 3 : c < proc[o].column => c \in metrics
  BY DEF MigrationInv, ProcessInv, Probe, At, Out, Copied
<1>2. UNCHANGED <<version, vocabulary, vocabulary2, metrics, saved, shared>>
  BY DEF Probe, tables
<1>3. CASE proc[o].column \in metrics
  <2>1. NextColumn(o)
    BY <1>3 DEF Probe
  <2> QED
    BY <1>1, <1>2, <1>3, <2>1, NextColumnStep
<1>4. CASE proc[o].column \notin metrics
  <2>1. Goto(o, "alter")
    BY <1>4 DEF Probe
  <2>2. \A p \in Openers \ {o} : proc'[p] = proc[p]
    BY <2>1, Moved DEF MigrationInv
  <2>3. proc'[o].pc = "alter" /\ proc'[o].column = proc[o].column
    BY <2>1, Moved DEF MigrationInv
  <2>4. ProcessInv(o)'
    BY <1>1, <1>2, <2>3 DEF ProcessInv, At, Copied, Settled
  <2>5. FailureInv(o)'
    BY <1>2, <1>4, <2>3 DEF FailureInv, At
  <2>6. proc'[o].pc \notin Rewriting /\ ~ At(o, "rename")
    BY <1>1, <2>3 DEF At, Rewriting
  <2> QED
    BY <1>1, <1>2, <2>2, <2>4, <2>5, <2>6, QuietStep DEF tables
<1> QED
  BY <1>3, <1>4

LEMMA AlterStep ==
  ASSUME MigrationInv, TypeOK', NEW o \in Openers, AddColumn(o) \/ ColumnRefused(o)
  PROVE  MigrationInv'
<1>1. proc[o].pc = "alter" /\ proc[o].pc \notin Out /\ FailureInv(o)
  BY DEF MigrationInv, AddColumn, ColumnRefused, At, Out
<1>2. CASE AddColumn(o)
  <2>1. /\ metrics' = metrics \cup {proc[o].column} /\ NextColumn(o)
        /\ UNCHANGED <<version, vocabulary, vocabulary2, saved, shared>>
    BY <1>2 DEF AddColumn
  <2> QED
    BY <1>1, <2>1, NextColumnStep
<1>3. CASE ColumnRefused(o)
  <2>1. o \in shared
    BY <1>1, <1>3 DEF FailureInv, At, ColumnRefused
  <2>2. \A p \in Openers \ {o} : proc'[p] = proc[p]
    BY <1>3, Failed DEF MigrationInv, ColumnRefused
  <2>3. proc'[o].pc = "failed" /\ proc'[o].cause = "column"
    BY <1>3, Failed DEF MigrationInv, ColumnRefused
  <2>4. UNCHANGED <<tables, saved, shared>>
    BY <1>3 DEF ColumnRefused
  <2>5. ProcessInv(o)' /\ FailureInv(o)'
    BY <2>1, <2>3, <2>4 DEF ProcessInv, FailureInv, At, Copied
  <2>6. proc'[o].pc \notin Rewriting /\ ~ At(o, "rename")
    BY <1>1, <2>3 DEF At, Rewriting
  <2> QED
    BY <1>1, <2>2, <2>4, <2>5, <2>6, QuietStep
<1> QED
  BY <1>2, <1>3

LEMMA StampStep ==
  ASSUME MigrationInv, TypeOK', NEW o \in Openers, Stamp(o)
  PROVE  MigrationInv'
<1>1. /\ proc[o].pc = "stamp" /\ proc[o].pc \notin Out /\ Settled
      /\ metrics = 0 .. 3 /\ version \in Nat
  BY DEF MigrationInv, TypeOK, ProcessInv, Stamp, At, Out, Copied
<1>2. /\ version' = 5 /\ Goto(o, "open")
      /\ UNCHANGED <<vocabulary, vocabulary2, metrics, saved, shared>>
  BY DEF Stamp
<1>3. \A p \in Openers \ {o} : proc'[p] = proc[p]
  BY <1>2, Moved DEF MigrationInv
<1>4. proc'[o].pc = "open"
  BY <1>2, Moved DEF MigrationInv
<1>5. Settled' /\ TablesInv' /\ ColumnsInv'
  BY <1>1, <1>2 DEF MigrationInv, TablesInv, ColumnsInv, Settled, RowsOf, Wide
<1>6. OverlapInv'
  BY <1>1, <1>2, <1>3, <1>4, OverlapKept DEF Rewriting
<1>7. ProcessInv(o)' /\ FailureInv(o)'
  BY <1>1, <1>2, <1>4, <1>5 DEF ProcessInv, FailureInv, At, Copied
<1>8. ASSUME NEW p \in Openers \ {o} PROVE ProcessInv(p)' /\ FailureInv(p)'
  <2>1. ProcessInv(p)'
    BY <1>2, <1>3, <1>5 DEF MigrationInv, ProcessInv, At
  <2>2. FailureInv(p)'
    BY <1>2, <1>3 DEF MigrationInv, FailureInv, At
  <2> QED
    BY <2>1, <2>2
<1> QED
  BY <1>5, <1>6, <1>7, <1>8 DEF MigrationInv

LEMMA WriteStep ==
  ASSUME MigrationInv, TypeOK', NEW o \in Openers, Write(o)
  PROVE  MigrationInv'
<1>1. proc[o].pc = "open" /\ proc[o].pc \notin Out /\ Settled /\ version = 5
  BY DEF MigrationInv, ProcessInv, Write, At, Out, Copied
<1>2. Quit(o) /\ UNCHANGED <<version, vocabulary2, metrics, shared>>
  BY DEF Write
<1>3. PICK R \in SUBSET Rows : /\ vocabulary' = [vocabulary EXCEPT !.rows = @ \cup R]
                               /\ saved' = saved \cup R
  BY DEF Write
<1>4. \A p \in Openers \ {o} : proc'[p] = proc[p]
  BY <1>2, HasQuit DEF MigrationInv
<1>5. proc'[o].pc = "out"
  BY <1>2, HasQuit DEF MigrationInv
<1>6. vocabulary' = Wide(saved')
  BY <1>1, <1>3 DEF Settled, Wide
<1>7. Settled'
  BY <1>1, <1>2, <1>6 DEF Settled, Wide
<1>8. TablesInv'
  <2>1. saved' \in SUBSET Rows
    BY DEF TypeOK
  <2>2. RowsOf(vocabulary)' = saved'
    BY <1>6, <2>1, WideIsTable DEF RowsOf
  <2>3. RowsOf(vocabulary2)' \subseteq saved'
    BY <1>2, <1>3 DEF MigrationInv, TablesInv, RowsOf
  <2> QED
    BY <1>2, <1>7, <2>2, <2>3 DEF MigrationInv, TablesInv
<1>9. ColumnsInv'
  BY <1>2 DEF MigrationInv, ColumnsInv
<1>10. OverlapInv'
  BY <1>1, <1>2, <1>4, <1>5, OverlapKept DEF Rewriting
<1>11. ProcessInv(o)' /\ FailureInv(o)'
  BY <1>5 DEF ProcessInv, FailureInv, At, Copied
<1>12. vocabulary' # NoTable
  <2>1. saved' \in SUBSET Rows
    BY DEF TypeOK
  <2> QED
    BY <1>6, <2>1, WideIsTable
<1>13. ASSUME NEW p \in Openers \ {o} PROVE ProcessInv(p)' /\ FailureInv(p)'
  <2>1. proc[p].pc \notin Rewriting
    BY <1>1, OthersOut
  <2>2. ProcessInv(p)'
    BY <1>1, <1>2, <1>4, <1>7, <1>12, <2>1 DEF MigrationInv, ProcessInv, At, Rewriting
  <2>3. FailureInv(p)'
    BY <1>2, <1>4 DEF MigrationInv, FailureInv, At
  <2> QED
    BY <2>2, <2>3
<1> QED
  BY <1>7, <1>8, <1>9, <1>10, <1>11, <1>13 DEF MigrationInv

LEMMA InvStutter == MigrationInv /\ UNCHANGED vars => MigrationInv'
<1> SUFFICES ASSUME MigrationInv, UNCHANGED vars PROVE MigrationInv'
  OBVIOUS
<1>1. TypeOK' /\ TablesInv' /\ ColumnsInv' /\ OverlapInv'
  BY DEF vars, tables, MigrationInv, TypeOK, TablesInv, ColumnsInv, OverlapInv, Settled, RowsOf,
         Wide, At
<1>2. ASSUME NEW o \in Openers PROVE ProcessInv(o)' /\ FailureInv(o)'
  BY DEF vars, tables, MigrationInv, ProcessInv, FailureInv, Settled, Wide, At
<1> QED
  BY <1>1, <1>2 DEF MigrationInv

LEMMA InvStep ==
  TypeOK /\ (Undisturbed => MigrationInv) /\ [Next]_vars => (Undisturbed' => MigrationInv')
<1> SUFFICES ASSUME TypeOK, Undisturbed => MigrationInv, [Next]_vars, Undisturbed'
             PROVE  MigrationInv'
  OBVIOUS
<1>1. TypeOK'
  BY TypeStep
<1>2. MigrationInv
  <2>1. mishaps \subseteq mishaps'
    BY DEF Next, Step, Open, CreateVocabulary, IndexVocabulary, ReadVersion, VersionUnread,
           NewerGraph, CreateCopy, CopyRows, DropVocabulary, RenameCopy, Reindex, CreateMetrics,
           Probe, AddColumn, ColumnRefused, Stamp, Write, Fault, Leave, CutShort, Note, vars
  <2> QED
    BY <2>1 DEF Undisturbed
<1>3. ASSUME NEW o \in Openers, Step(o) PROVE MigrationInv'
  BY <1>1, <1>2, <1>3, OpenStep, CreateVocabularyStep, IndexStep, ReadVersionStep,
     VersionUnreadStep, StopStep, CreateCopyStep, CopyRowsStep, DropStep, RenameStep,
     CreateMetricsStep, ProbeStep, AlterStep, StampStep, WriteStep
  DEF Step
<1> QED
  BY <1>2, <1>3, InvStutter DEF Next

-----------------------------------------------------------------------------
(* Where no two rewritings clashed, whoever else has the file open.        *)

LEMMA RowsInit == Init => RowsInv
<1> SUFFICES ASSUME Init PROVE RowsInv
  OBVIOUS
<1>1. /\ saved \subseteq Rows
      /\ \/ vocabulary = NoTable /\ saved = {}
         \/ vocabulary = Narrow(saved)
         \/ vocabulary = Wide(saved)
  BY DEF Init
<1>2. NoRowIsLost
  BY <1>1, WideIsTable DEF NoRowIsLost, RowsOf
<1>3. \A o \in Openers : At(o, "out") /\ proc[o].pc \notin CopyTaken
  BY DEF Init, At, Gone, CopyTaken
<1> QED
  BY <1>2, <1>3 DEF RowsInv, At

\* A step that takes no row from either table and no process to a copy.
LEMMA RowsKept ==
  ASSUME TypeOK, RowsInv, NEW o \in Openers, mishaps \subseteq mishaps',
         \A p \in Openers \ {o} : proc'[p] = proc[p], proc'[o].pc \notin CopyTaken,
         saved' = saved, RowsOf(vocabulary)' = RowsOf(vocabulary),
         RowsOf(vocabulary2) \subseteq RowsOf(vocabulary2)'
  PROVE  RowsInv'
  BY DEF RowsInv, NoRowIsLost, At, CopyTaken

LEMMA RowsStep == TypeOK /\ RowsInv /\ [Next]_vars => RowsInv'
<1> SUFFICES ASSUME TypeOK, RowsInv, [Next]_vars PROVE RowsInv'
  OBVIOUS
<1>1. TypeOK'
  BY TypeStep
<1>2. ASSUME NEW o \in Openers, Open(o) PROVE RowsInv'
  <2>1. (\A p \in Openers \ {o} : proc'[p] = proc[p]) /\ proc'[o].pc = "create"
    BY <1>2 DEF TypeOK, Open
  <2> QED
    BY <1>2, <2>1, RowsKept DEF Open, Note, CopyTaken, RowsOf, tables
<1>3. ASSUME NEW o \in Openers, CreateVocabulary(o) PROVE RowsInv'
  <2>1. (\A p \in Openers \ {o} : proc'[p] = proc[p]) /\ proc'[o].pc = "index"
    BY <1>3, Moved DEF CreateVocabulary
  <2>2. RowsOf(vocabulary)' = RowsOf(vocabulary)
    BY <1>3, WideIsTable DEF CreateVocabulary, RowsOf
  <2> QED
    BY <1>3, <2>1, <2>2, RowsKept DEF CreateVocabulary, CopyTaken, RowsOf
<1>4. ASSUME NEW o \in Openers, IndexVocabulary(o) \/ Reindex(o) PROVE RowsInv'
  <2>1. (\A p \in Openers \ {o} : proc'[p] = proc[p]) /\ proc'[o].pc \notin CopyTaken
    BY <1>4, Moved, Failed DEF IndexVocabulary, Reindex, Continue, CopyTaken
  <2> QED
    BY <1>4, <2>1, RowsKept DEF IndexVocabulary, Reindex, RowsOf, tables
<1>5. ASSUME NEW o \in Openers, ReadVersion(o) \/ VersionUnread(o) PROVE RowsInv'
  <2>1. /\ \A p \in Openers \ {o} : proc'[p] = proc[p]
        /\ proc'[o].pc \in {FirstStatement(version), "create2"}
    BY <1>5 DEF TypeOK, ReadVersion, VersionUnread, Processes
  <2>2. proc'[o].pc \notin CopyTaken
    BY <2>1 DEF FirstStatement, CopyTaken
  <2> QED
    BY <1>5, <2>1, <2>2, RowsKept DEF ReadVersion, VersionUnread, RowsOf, tables
<1>6. ASSUME NEW o \in Openers, CreateCopy(o) PROVE RowsInv'
  <2>1. (\A p \in Openers \ {o} : proc'[p] = proc[p]) /\ proc'[o].pc = "copy"
    BY <1>6, Moved DEF CreateCopy
  <2>2. RowsOf(vocabulary2)' = RowsOf(vocabulary2)
    BY <1>6, WideIsTable DEF CreateCopy, RowsOf
  <2> QED
    BY <1>6, <2>1, <2>2, RowsKept DEF CreateCopy, Note, CopyTaken, RowsOf
<1>7. ASSUME NEW o \in Openers, CopyRows(o) PROVE RowsInv'
  <2>1. CASE vocabulary = NoTable \/ vocabulary2 = NoTable
    <3>1. (\A p \in Openers \ {o} : proc'[p] = proc[p]) /\ proc'[o].pc = "failed"
      BY <1>7, <2>1, Failed DEF CopyRows, Continue
    <3> QED
      BY <1>7, <2>1, <3>1, RowsKept DEF CopyRows, Note, CopyTaken, RowsOf
  <2>2. CASE vocabulary # NoTable /\ vocabulary2 # NoTable
    <3> SUFFICES ASSUME "clash" \notin mishaps' PROVE RowsInv'
      BY DEF RowsInv
    <3>1. /\ vocabulary2' = Wide(vocabulary2.rows \cup vocabulary.rows)
          /\ Goto(o, "drop") /\ UNCHANGED <<vocabulary, saved>>
      BY <1>7, <2>2 DEF CopyRows, Continue
    <3>2. (\A p \in Openers \ {o} : proc'[p] = proc[p]) /\ proc'[o].pc = "drop"
      BY <3>1, Moved
    <3>3. "clash" \notin mishaps /\ \A p \in Openers \ {o} : proc[p].pc \notin CopyTaken
      BY <1>7 DEF CopyRows, Note, OthersAt
    <3>4. vocabulary2.rows \cup vocabulary.rows \in SUBSET Rows
      BY <2>2 DEF TypeOK, Vocabularies
    <3>5. /\ RowsOf(vocabulary2)' = RowsOf(vocabulary2) \cup RowsOf(vocabulary)
          /\ RowsOf(vocabulary)' = RowsOf(vocabulary)
      BY <2>2, <3>1, <3>4, WideIsTable DEF RowsOf
    <3>6. NoRowIsLost'
      BY <3>1, <3>3, <3>5 DEF RowsInv, NoRowIsLost
    <3> QED
      BY <3>2, <3>3, <3>5, <3>6 DEF RowsInv, At, CopyTaken
  <2> QED
    BY <2>1, <2>2
<1>8. ASSUME NEW o \in Openers, DropVocabulary(o) PROVE RowsInv'
  <2>1. CASE vocabulary = NoTable
    <3>1. (\A p \in Openers \ {o} : proc'[p] = proc[p]) /\ proc'[o].pc = "failed"
      BY <1>8, <2>1, Failed DEF DropVocabulary, Continue
    <3> QED
      BY <1>8, <2>1, <3>1, RowsKept DEF DropVocabulary, CopyTaken, RowsOf
  <2>2. CASE vocabulary # NoTable
    <3> SUFFICES ASSUME "clash" \notin mishaps' PROVE RowsInv'
      BY DEF RowsInv
    <3>1. /\ vocabulary' = NoTable /\ Goto(o, "rename") /\ proc[o].pc = "drop"
          /\ UNCHANGED <<vocabulary2, saved, mishaps>>
      BY <1>8, <2>2 DEF DropVocabulary, Continue, At
    <3>2. (\A p \in Openers \ {o} : proc'[p] = proc[p]) /\ proc'[o].pc = "rename"
      BY <3>1, Moved
    <3>3. /\ RowsOf(vocabulary)' = {} /\ RowsOf(vocabulary2)' = RowsOf(vocabulary2)
          /\ RowsOf(vocabulary) \subseteq RowsOf(vocabulary2)
      BY <3>1 DEF RowsOf, RowsInv, At
    <3>4. NoRowIsLost'
      BY <3>1, <3>3 DEF RowsInv, NoRowIsLost
    <3> QED
      BY <3>1, <3>2, <3>3, <3>4 DEF RowsInv, At, CopyTaken
  <2> QED
    BY <2>1, <2>2
<1>9. ASSUME NEW o \in Openers, RenameCopy(o) PROVE RowsInv'
  <2>1. CASE ~ (vocabulary = NoTable /\ vocabulary2 # NoTable)
    <3>1. (\A p \in Openers \ {o} : proc'[p] = proc[p]) /\ proc'[o].pc = "failed"
      BY <1>9, <2>1, Failed DEF RenameCopy, Continue
    <3> QED
      BY <1>9, <2>1, <3>1, RowsKept DEF RenameCopy, Note, CopyTaken, RowsOf
  <2>2. CASE vocabulary = NoTable /\ vocabulary2 # NoTable
    <3> SUFFICES ASSUME "clash" \notin mishaps' PROVE RowsInv'
      BY DEF RowsInv
    <3>1. /\ vocabulary' = vocabulary2 /\ vocabulary2' = NoTable
          /\ Goto(o, "reindex") /\ proc[o].pc = "rename"
          /\ saved' = saved /\ "clash" \notin mishaps
      BY <1>9, <2>2 DEF RenameCopy, Continue, At, Note
    <3>2. (\A p \in Openers \ {o} : proc'[p] = proc[p]) /\ proc'[o].pc = "reindex"
      BY <3>1, Moved
    <3>3. RowsOf(vocabulary)' = RowsOf(vocabulary2) /\ RowsOf(vocabulary) = {}
      BY <2>2, <3>1 DEF RowsOf
    <3>4. NoRowIsLost'
      BY <3>1, <3>3 DEF RowsInv, NoRowIsLost
    <3>5. \A p \in Openers : proc'[p].pc \notin CopyTaken
      BY <3>1, <3>2 DEF RowsInv, CopyTaken
    <3> QED
      BY <3>4, <3>5 DEF RowsInv, At, CopyTaken
  <2> QED
    BY <2>1, <2>2
<1>10. ASSUME NEW o \in Openers, CreateMetrics(o) \/ Probe(o) \/ AddColumn(o) \/ Stamp(o)
       PROVE  RowsInv'
  <2>1. /\ UNCHANGED <<vocabulary, vocabulary2, saved, mishaps>>
        /\ \/ \E c \in 0 .. 4 : ToColumn(o, c)
           \/ Goto(o, "alter") \/ Goto(o, "stamp") \/ Goto(o, "open")
    <3>1. proc[o].column + 1 \in 0 .. 4 /\ 1 \in 0 .. 4
      BY DEF TypeOK, Processes, Columns
    <3> QED
      BY <1>10, <3>1 DEF CreateMetrics, Probe, AddColumn, Stamp, NextColumn, tables
  <2>2. (\A p \in Openers \ {o} : proc'[p] = proc[p]) /\ proc'[o].pc \notin CopyTaken
    BY <2>1, Moved, ToColumnMoved DEF CopyTaken
  <2> QED
    BY <2>1, <2>2, RowsKept DEF RowsOf
<1>11. ASSUME NEW o \in Openers, NewerGraph(o) \/ ColumnRefused(o) \/ Fault(o) \/ Leave(o)
       PROVE  RowsInv'
  <2>1. (\A p \in Openers \ {o} : proc'[p] = proc[p]) /\ proc'[o].pc \notin CopyTaken
    BY <1>11, Failed, HasQuit DEF NewerGraph, ColumnRefused, Fault, Leave, CopyTaken
  <2> QED
    BY <1>11, <2>1, RowsKept
    DEF NewerGraph, ColumnRefused, Fault, Leave, CutShort, Note, RowsOf, tables
<1>12. ASSUME NEW o \in Openers, Write(o) PROVE RowsInv'
  <2> SUFFICES ASSUME "clash" \notin mishaps' PROVE RowsInv'
    BY DEF RowsInv
  <2>1. PICK R \in SUBSET Rows : /\ vocabulary' = [vocabulary EXCEPT !.rows = @ \cup R]
                                 /\ saved' = saved \cup R
    BY <1>12 DEF Write
  <2>2. (\A p \in Openers \ {o} : proc'[p] = proc[p]) /\ proc'[o].pc = "out"
    BY <1>12, HasQuit DEF Write
  <2>3. vocabulary \in Vocabularies /\ vocabulary' \in Vocabularies /\ vocabulary # NoTable
    BY <1>12, <2>1 DEF TypeOK, Write, Vocabularies
  <2>4. /\ RowsOf(vocabulary)' = RowsOf(vocabulary) \cup R
        /\ RowsOf(vocabulary2)' = RowsOf(vocabulary2)
    BY <1>12, <2>1, <2>3, MigrationAssumption DEF Write, RowsOf, Vocabularies
  <2>5. /\ "clash" \notin mishaps
        /\ \A p \in Openers \ {o} : proc[p].pc # "drop"
    BY <1>12 DEF Write, Note, OthersAt
  <2>6. NoRowIsLost'
    BY <2>1, <2>4, <2>5 DEF RowsInv, NoRowIsLost
  <2>7. \A p \in Openers : ~ At(p, "drop")'
    BY <2>2, <2>5 DEF At
  <2> QED
    BY <2>2, <2>5, <2>6, <2>7 DEF RowsInv, CopyTaken
<1>13. CASE UNCHANGED vars
  BY <1>13 DEF vars, tables, RowsInv, NoRowIsLost, RowsOf, At
<1> QED
  BY <1>2, <1>3, <1>4, <1>5, <1>6, <1>7, <1>8, <1>9, <1>10, <1>11, <1>12, <1>13 DEF Next, Step

-----------------------------------------------------------------------------
(* Theorems.                                                               *)

\* Every variable keeps its type.
THEOREM MigrationTyping == Spec => []TypeOK
  BY TypeInit, TypeStep, PTL DEF Spec

\* Migrations that are killed, fail, overlap and are run again, on a graph
\* of any release whose version is read or not, lose a committed row of the
\* vocabulary only if two of them are past their copies at once or a row is
\* written between a copy and its drop.
THEOREM RowsAreKept == Spec => []RowsSurvive
<1>1. RowsInv => RowsSurvive
  BY DEF RowsInv, RowsSurvive
<1> QED
  BY <1>1, MigrationTyping, RowsInit, RowsStep, PTL DEF Spec

\* Every opener finds the newest schema with every row, and only a fault, a
\* newer graph or a lost race for a column makes an open fail, until another
\* process has the file open during a rewriting of the vocabulary or one is
\* cut short in a graph that counts as migrated.
THEOREM OpensAreWhole == Spec => []OpensWhole
<1>1. (Undisturbed => MigrationInv) => OpensWhole
  BY DEF MigrationInv, ProcessInv, FailureInv, OpensWhole, WholeGraph, Settled, At, Copied
<1>2. Init => (Undisturbed => MigrationInv)
  BY InvInit
<1>3. TypeOK /\ (Undisturbed => MigrationInv) /\ [Next]_vars => (Undisturbed => MigrationInv)'
  BY InvStep
<1> QED
  BY <1>1, <1>2, <1>3, MigrationTyping, PTL DEF Spec
=============================================================================
