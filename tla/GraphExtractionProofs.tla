------------------------ MODULE GraphExtractionProofs ------------------------
(***************************************************************************)
(* Proofs about GraphExtraction, for every database, every set of          *)
(* vocabulary files and any number of changes, failures and kills: what    *)
(* the graph file names is in it, a word leads to an entity that claims    *)
(* it, a run that stops early changes nothing, and others see the graph    *)
(* absent, empty or whole.                                                 *)
(***************************************************************************)
EXTENDS GraphExtraction, FiniteSetTheorems, WellFoundedInduction, TLAPS

Reading == {"read", "alias", "line", "row", "end"}
BeforeCommit == {"source", "connect", "open", "tables", "columns", "keys", "commit"}

-----------------------------------------------------------------------------
(* Steps that change only the run.                                         *)

LEMMA RunStep ==
  ASSUME run \in Runs, NEW pc \in Pcs, Goto(pc)
  PROVE  /\ run' \in Runs /\ run'.pc = pc
         /\ run'.framework = run.framework /\ run'.input = run.input
         /\ run'.source = run.source /\ run'.extra = run.extra /\ run'.rest = run.rest
         /\ run'.claim = run.claim /\ run'.tables = run.tables /\ run'.columns = run.columns
         /\ run'.found = run.found /\ run'.stuck = run.stuck /\ run'.outcome = run.outcome
  BY DEF Goto, Runs

LEMMA RunStop ==
  ASSUME run \in Runs, NEW outcome \in Outcomes, Stop(outcome)
  PROVE  /\ run' \in Runs /\ run'.pc = "idle" /\ run'.outcome = outcome
         /\ run'.framework = run.framework /\ run'.input = run.input
         /\ run'.source = run.source /\ run'.extra = run.extra /\ run'.rest = run.rest
         /\ run'.claim = run.claim /\ run'.tables = run.tables /\ run'.columns = run.columns
         /\ run'.found = run.found /\ run'.stuck = run.stuck
  BY DEF Stop, Runs, Pcs

-----------------------------------------------------------------------------
(* What the steps write is of the right type.                              *)

LEMMA EmptyIsGraph == Empty \in Graphs
  BY DEF Empty, Graphs, Hashes

LEMMA NamesAreEntities ==
  /\ \A tables \in SUBSET Tables : EntitiesOf(tables) \subseteq Entities
  /\ \A columns \in SUBSET Columns : FieldsOf(columns) \subseteq Fields
  BY GraphAssumption DEF EntitiesOf, FieldsOf, Fields, Columns

LEMMA EntityRow ==
  ASSUME NEW e \in Entities
  PROVE  Row("entity", <<e>>, <<>>) \in Rows
  BY DEF Row, Rows, LineKinds

LEMMA FieldRow ==
  ASSUME NEW f \in Fields
  PROVE  Row("field", <<>>, <<f>>) \in Rows
  BY DEF Row, Rows, LineKinds

LEMMA KeyEdgesType ==
  ASSUME NEW keys \in SUBSET (Columns \X Columns)
  PROVE  KeyEdges(keys) \subseteq Edges
  BY GraphAssumption DEF KeyEdges, Edge, Edges, Fields, Columns

LEMMA InferredEdgesType ==
  ASSUME NEW columns \in SUBSET Columns
  PROVE  /\ InferredEdges(columns) \subseteq Edges
         /\ \A edge \in InferredEdges(columns) : {edge.from, edge.to} \subseteq FieldsOf(columns)
  BY NamesAreEntities DEF InferredEdges, Edge, Edges

LEMMA FieldCountType ==
  ASSUME NEW columns \in SUBSET Columns
  PROVE  FieldCount(columns) \in Nat
<1>1. IsFiniteSet({c \in columns : CanonOf[c[1]] # Unnamed})
  BY GraphAssumption, FS_Subset
<1> QED
  BY <1>1, FS_CardinalityType DEF FieldCount

-----------------------------------------------------------------------------
(* A line the graph grounds names entities and fields of it, as long as    *)
(* the aliases lead to entities of it.                                     *)

LEMMA SameLength ==
  ASSUME NEW S, NEW T, NEW s \in Seq(S), NEW t, t = [i \in DOMAIN s |-> t[i]],
         \A i \in DOMAIN s : t[i] \in T
  PROVE  t \in Seq(T)
<1>1. Len(s) \in Nat /\ DOMAIN s = 1 .. Len(s)
  OBVIOUS
<1>2. t \in [1 .. Len(s) -> T]
  BY <1>1
<1> QED
  BY <1>1, <1>2

AliasesInGraph == \A w \in Words : aliases[w] \in graph.entities \cup {Unnamed}

LEMMA GroundedLine ==
  ASSUME graph \in Graphs, NEW line \in Lines, Grounds(line), AliasesInGraph
  PROVE  /\ NamesOf(line) \in Seq(Entities) /\ NamesIn(graph, NamesOf(line))
         /\ ResolvedFields(line) \in Seq(Fields) /\ FieldsIn(graph, ResolvedFields(line))
<1>1. line.names \in Seq(Words) /\ line.fields \in Seq(Words \X FieldNames)
  BY DEF Lines
<1>2. graph.entities \subseteq Entities /\ graph.fields \subseteq Fields
  BY DEF Graphs
<1>3. \A w \in Words : Entity(w) \in graph.entities \cup {Unnamed}
  BY DEF Entity, AliasesInGraph
<1>4. \A i \in DOMAIN line.names : NamesOf(line)[i] \in graph.entities
  <2> SUFFICES ASSUME NEW i \in DOMAIN line.names PROVE NamesOf(line)[i] \in graph.entities
    OBVIOUS
  <2>1. line.names[i] \in Words /\ NamesOf(line)[i] = Entity(line.names[i])
    BY <1>1 DEF NamesOf
  <2> QED
    BY <2>1, <1>3 DEF Grounds
<1>5. \A i \in DOMAIN line.fields : ResolvedFields(line)[i] \in graph.fields
  BY DEF Grounds
<1>6. NamesOf(line) = [i \in DOMAIN line.names |-> NamesOf(line)[i]]
  BY DEF NamesOf
<1>7. ResolvedFields(line) = [i \in DOMAIN line.fields |-> ResolvedFields(line)[i]]
  BY DEF ResolvedFields
<1>d. DOMAIN NamesOf(line) = DOMAIN line.names /\ DOMAIN ResolvedFields(line) = DOMAIN line.fields
  BY DEF NamesOf, ResolvedFields
<1>8. ASSUME NEW i \in DOMAIN line.fields PROVE ResolvedFields(line)[i] \in Fields
  BY <1>2, <1>5
<1>9. NamesOf(line) \in Seq(Entities)
  BY ZenonT(60), <1>1, <1>2, <1>4, <1>6, SameLength
<1>10. ResolvedFields(line) \in Seq(Fields)
  BY ZenonT(60), <1>1, <1>7, <1>8, SameLength
<1> QED
  BY <1>d, <1>4, <1>5, <1>9, <1>10 DEF NamesIn, FieldsIn

LEMMA GroundedEdge ==
  ASSUME graph \in Graphs, NEW line \in Lines, Grounds(line), Joins(line)
  PROVE  EdgeOf(line) \in Edges /\ {EdgeOf(line).from, EdgeOf(line).to} \subseteq graph.fields
<1>1. line.kind = "relationship" /\ line.fields # <<>> /\ line.tag \in Cardinalities
  BY DEF Joins, Lines
<1>2. 1 \in DOMAIN line.fields /\ 2 \in DOMAIN line.fields
  BY <1>1 DEF Grounds, WellJoined, Lines
<1>3. ResolvedFields(line)[1] \in graph.fields /\ ResolvedFields(line)[2] \in graph.fields
  BY <1>2 DEF Grounds
<1>4. graph.fields \subseteq Fields
  BY DEF Graphs
<1> QED
  BY <1>1, <1>3, <1>4 DEF EdgeOf, Edge, Edges, Cardinalities

LEMMA GroundedRow ==
  ASSUME graph \in Graphs, NEW line \in Lines, Grounds(line), AliasesInGraph
  PROVE  /\ RowOf(line) \in Rows
         /\ NamesIn(graph, RowOf(line).names) /\ FieldsIn(graph, RowOf(line).fields)
<1>1. line.kind \in LineKinds
  BY DEF Lines
<1>2. <<>> \in Seq(Fields) /\ FieldsIn(graph, <<>>)
  BY DEF FieldsIn
<1> QED
  BY <1>1, <1>2, GroundedLine DEF RowOf, Row, Rows

LEMMA GroundedMetric ==
  ASSUME graph \in Graphs, GroundedGraph(graph), NEW line \in Lines, Grounds(line), AliasesInGraph
  PROVE  /\ MetricOf(line) \in Metrics
         /\ MetricOf(line).names \subseteq graph.entities
         /\ MetricOf(line).fields \subseteq graph.fields
<1> DEFINE fields == {ResolvedFields(line)[i] : i \in DOMAIN line.fields}
           names == {NamesOf(line)[i] : i \in DOMAIN line.names}
<1>1. line.names \in Seq(Words) /\ line.fields \in Seq(Words \X FieldNames) /\ line.tag \in STRING
  BY DEF Lines
<1>2. graph.entities \subseteq Entities /\ graph.fields \subseteq Fields
  BY DEF Graphs
<1>3. fields \subseteq graph.fields
  BY DEF Grounds
<1>4. names \subseteq graph.entities
  BY <1>1, GroundedLine DEF NamesIn, NamesOf
<1>5. \A f \in fields : f[1] \in graph.entities
  BY <1>3 DEF GroundedGraph
<1> QED
  BY <1>1, <1>2, <1>3, <1>4, <1>5 DEF MetricOf, Metrics

-----------------------------------------------------------------------------
(* The inductive invariant.                                                *)

\* Which files a run still has: the temporary one from the source extractor
\* to its removal, the other one when it is all that is left to read.
FilesInv ==
  /\ run.pc \in BeforeCommit => (run.framework <=> run.input = "source")
  /\ run.pc \in {"source", "end"} => run.input = "source"
  /\ run.pc \notin {"idle", "source"} /\ run.input = "source" => temp # NoFile
  /\ run.pc \in Reading /\ run.input = "extra" => run.extra # NoFile
  /\ temp # NoFile /\ ~run.stuck =>
       IF run.pc = "idle" THEN run.outcome \in {"no database", "failed", "crashed"}
                          ELSE run.pc # "source" /\ run.input = "source"

\* Until it commits, the transaction holds what the queries so far found,
\* and the graph is empty; a graph that is read has a hash.
BuildInv ==
  /\ run.pc \in {"tables", "columns", "keys", "commit"} => graph = Empty
  /\ run.pc = "tables" => building = Empty
  /\ run.pc \in {"columns", "keys", "commit"} =>
       /\ building.metrics = {} /\ building.entities = EntitiesOf(run.tables)
       /\ \A e \in building.entities : Row("entity", <<e>>, <<>>) \in building.vocabulary
  /\ run.pc = "columns" => building.fields = {} /\ building.edges = {}
  /\ run.pc \in {"keys", "commit"} =>
       /\ building.fields = FieldsOf(run.columns)
       /\ \A f \in building.fields : Row("field", <<>>, <<f>>) \in building.vocabulary
  /\ run.pc \in Reading => graph # NoGraph /\ graph.hash # <<>>

GroundInv == Grounded /\ GroundedGraph(building)

\* What the claims loaded so far make of a word.
ClaimedBefore(w, n) == {e \in graph.entities : \E i \in 1 .. n - 1 : Claims[i] = <<w, e>>}
Settled(w, S) == aliases[w] \in S \cup {Unnamed} /\ \A e \in S : S = {e} => aliases[w] = e

AliasInv ==
  /\ run.pc = "alias" => /\ run.claim \in 1 .. Len(Claims) + 1
                         /\ \A w \in Words : Settled(w, ClaimedBefore(w, run.claim))
  /\ run.pc \in {"line", "row"} => \A w \in Words : Settled(w, Claimants(w))

RowInv == run.pc = "row" => run.rest # <<>> /\ Grounds(Head(run.rest))

EarlyInv ==
  /\ run.pc \in {"source", "connect"} => graph = run.found
  /\ run.pc = "idle" /\ run.outcome \in {"no source", "no database"} => graph = run.found

GraphInv == TypeOK /\ FilesInv /\ BuildInv /\ GroundInv /\ AliasInv /\ RowInv /\ EarlyInv

LEMMA InitInv == Init => GraphInv
<1> SUFFICES ASSUME Init PROVE GraphInv
  OBVIOUS
<1>1. TypeOK
  <2>1. run \in Runs
    BY DEF Init, Runs, Pcs, Outcomes
  <2>2. aliases \in [Words -> Entities \cup {Unnamed}]
    BY DEF Init, NoAliases
  <2> QED
    BY <2>1, <2>2, GraphAssumption, EmptyIsGraph DEF Init, TypeOK
<1>2. FilesInv /\ BuildInv /\ AliasInv /\ RowInv /\ EarlyInv
  BY DEF Init, FilesInv, BuildInv, AliasInv, RowInv, EarlyInv, Reading, BeforeCommit
<1>3. GroundInv
  BY DEF Init, GroundInv, Grounded, GroundedGraph, Empty
<1> QED
  BY <1>1, <1>2, <1>3 DEF GraphInv

-----------------------------------------------------------------------------
(* What the invariant says where the files are read.                       *)

LEMMA WhenReading ==
  ASSUME GraphInv, run.pc \in Reading
  PROVE  graph \in Graphs /\ graph # NoGraph /\ GroundedGraph(graph)
  BY DEF GraphInv, TypeOK, BuildInv, GroundInv, Grounded

LEMMA WhenAtLine ==
  ASSUME GraphInv, run.pc \in {"line", "row"}, run.rest # <<>>
  PROVE  /\ Head(run.rest) \in Lines /\ Tail(run.rest) \in Seq(Lines)
         /\ AliasesInGraph
         /\ graph \in Graphs /\ graph # NoGraph /\ GroundedGraph(graph)
<1>1. run.rest \in Seq(Lines)
  BY DEF GraphInv, TypeOK, Runs
<1>2. AliasesInGraph
  BY DEF GraphInv, AliasInv, Settled, Claimants, AliasesInGraph
<1> QED
  BY <1>1, <1>2, WhenReading DEF Reading

LEMMA WhenAtRow ==
  ASSUME GraphInv, AtRow
  PROVE  run.pc \in {"line", "row"} /\ run.rest # <<>> /\ Grounds(Head(run.rest))
  BY DEF GraphInv, RowInv, AtRow, AtLine

-----------------------------------------------------------------------------
(* Each step preserves the types.                                          *)

LEMMA TypeBegin ==
  ASSUME GraphInv,
         \/ \E framework \in BOOLEAN, extra \in Files \cup {NoFile} : Begin(framework, extra)
         \/ \E file \in Files : SourceExtracted(file)
         \/ \E file \in Files, stuck \in BOOLEAN : SourceFails(file, stuck)
         \/ \E stuck \in BOOLEAN : RemoveTemp(stuck)
  PROVE  TypeOK'
<1>0. TypeOK /\ Files \subseteq Seq(Lines) /\ run \in Runs
  BY GraphAssumption DEF GraphInv, TypeOK
<1>1. ASSUME NEW framework \in BOOLEAN, NEW extra \in Files \cup {NoFile}, Begin(framework, extra)
      PROVE  TypeOK'
  <2>0. extra \in Seq(Lines) \cup {NoFile} /\ <<>> \in Seq(Lines)
    BY <1>0
  <2>a. graph \in Graphs \cup {NoGraph}
    BY <1>0 DEF TypeOK
  <2>b. run' = [pc |-> IF framework THEN "source" ELSE "connect", framework |-> framework,
                input |-> IF framework THEN "source" ELSE "extra",
                source |-> NoFile, extra |-> extra, rest |-> <<>>, claim |-> run.claim,
                tables |-> {}, columns |-> {}, found |-> graph, dropped |-> {},
                stuck |-> FALSE, outcome |-> "none"]
    BY <1>0, <1>1 DEF Begin, Runs
  <2>1. run' \in Runs
    BY <1>0, <2>0, <2>a, <2>b DEF Runs, Pcs, Outcomes
  <2> QED
    BY <2>1, <1>0, <1>1 DEF Begin, TypeOK
<1>2. ASSUME NEW file \in Files, SourceExtracted(file) PROVE TypeOK'
  <2>1. run' \in Runs
    BY <1>0, <1>2 DEF SourceExtracted, Runs, Pcs
  <2> QED
    BY <2>1, <1>0, <1>2 DEF SourceExtracted, TypeOK
<1>3. ASSUME NEW file \in Files, NEW stuck \in BOOLEAN, SourceFails(file, stuck) PROVE TypeOK'
  <2>1. run' \in Runs
    BY <1>0, <1>3 DEF SourceFails, Runs, Pcs, Outcomes
  <2> QED
    BY <2>1, <1>0, <1>3 DEF SourceFails, TypeOK
<1>4. ASSUME NEW stuck \in BOOLEAN, RemoveTemp(stuck) PROVE TypeOK'
  <2>1. run' \in Runs
    BY ZenonT(60), <1>0, <1>4 DEF RemoveTemp, Runs, Pcs, Outcomes
  <2> QED
    BY <2>1, <1>0, <1>4 DEF RemoveTemp, TypeOK
<1> QED
  BY <1>1, <1>2, <1>3, <1>4

LEMMA TypeStop ==
  ASSUME GraphInv, ConnectFails \/ BuildFails \/ IngestFails \/ Crash
  PROVE  TypeOK'
<1>0. TypeOK /\ run \in Runs /\ Empty \in Graphs
  BY EmptyIsGraph DEF GraphInv, TypeOK
<1>1. \E outcome \in Outcomes : Stop(outcome)
  BY DEF ConnectFails, BuildFails, IngestFails, Crash, Outcomes
<1>2. run' \in Runs
  BY <1>0, <1>1, RunStop
<1> QED
  BY <1>0, <1>2 DEF TypeOK, ConnectFails, BuildFails, IngestFails, Crash

LEMMA TypeBuild ==
  ASSUME GraphInv, Build
  PROVE  TypeOK'
<1>0. /\ TypeOK /\ run \in Runs /\ Empty \in Graphs /\ building \in Graphs
      /\ db.tables \subseteq Tables /\ db.columns \subseteq Columns
      /\ db.keys \subseteq Columns \X Columns
      /\ run.tables \subseteq Tables /\ run.columns \subseteq Columns
  BY EmptyIsGraph, GraphAssumption DEF GraphInv, TypeOK, Runs
<1>1. CASE RemoveGraph
  <2>1. run' \in Runs
    BY <1>0, <1>1 DEF RemoveGraph, Runs, Pcs
  <2> QED
    BY <2>1, <1>0, <1>1 DEF RemoveGraph, TypeOK
<1>2. CASE OpenGraph
  <2>1. run' \in Runs
    BY <1>0, <1>2, RunStep DEF OpenGraph, Pcs
  <2> QED
    BY <2>1, <1>0, <1>2 DEF OpenGraph, TypeOK
<1>3. CASE ListTables
  <2>1. run' \in Runs
    BY <1>0, <1>3 DEF ListTables, Runs, Pcs
  <2>2. {Row("entity", <<e>>, <<>>) : e \in EntitiesOf(db.tables)} \subseteq Rows
    BY <1>0, NamesAreEntities, EntityRow
  <2>3. building' \in Graphs
    BY <1>0, <1>3, <2>2, NamesAreEntities DEF ListTables, Graphs
  <2> QED
    BY <2>1, <2>3, <1>0, <1>3 DEF ListTables, TypeOK
<1>4. CASE ListColumns
  <2>1. run' \in Runs
    BY <1>0, <1>4 DEF ListColumns, Runs, Pcs
  <2>2. {Row("field", <<>>, <<f>>) : f \in FieldsOf(db.columns)} \subseteq Rows
    BY <1>0, NamesAreEntities, FieldRow
  <2>3. building' \in Graphs
    BY <1>0, <1>4, <2>2, NamesAreEntities DEF ListColumns, Graphs
  <2> QED
    BY <2>1, <2>3, <1>0, <1>4 DEF ListColumns, TypeOK
<1>5. CASE ListForeignKeys
  <2>1. run' \in Runs
    BY <1>0, <1>5, RunStep DEF ListForeignKeys, Pcs
  <2>2. KeyEdges(db.keys) \cup InferredEdges(run.columns) \subseteq Edges
    BY <1>0, KeyEdgesType, InferredEdgesType
  <2>3. building' \in Graphs
    BY <1>0, <1>5, <2>2 DEF ListForeignKeys, Graphs
  <2> QED
    BY <2>1, <2>3, <1>0, <1>5 DEF ListForeignKeys, TypeOK
<1>6. CASE Commit
  <2>1. run' \in Runs
    BY <1>0, <1>6, RunStep, RunStop DEF Commit, Pcs, Outcomes
  <2>2. <<run.tables, FieldCount(run.columns)>> \in Hashes
    BY <1>0, FieldCountType DEF Hashes
  <2>3. graph' \in Graphs
    BY <1>0, <1>6, <2>2 DEF Commit, Graphs
  <2> QED
    BY <2>1, <2>3, <1>0, <1>6 DEF Commit, TypeOK
<1> QED
  BY <1>1, <1>2, <1>3, <1>4, <1>5, <1>6 DEF Build

LEMMA NextLineType ==
  ASSUME run \in Runs, Tail(run.rest) \in Seq(Lines), NEW dropped \in SUBSET Lines
  PROVE  NextLine \in Runs /\ [NextLine EXCEPT !.dropped = @ \cup dropped] \in Runs
  BY DEF NextLine, Runs, Pcs

LEMMA TypeIngest ==
  ASSUME GraphInv, Ingest
  PROVE  TypeOK'
<1>0. TypeOK /\ run \in Runs
  BY DEF GraphInv, TypeOK
<1>1. CASE ReadFile
  <2>1. run.pc \in Reading /\ run.pc \notin {"idle", "source"}
    BY <1>1 DEF ReadFile, Reading
  <2>2. (IF run.input = "source" THEN temp ELSE run.extra) \in Seq(Lines)
    BY <1>0, <2>1 DEF GraphInv, FilesInv, TypeOK, Runs
  <2>3. run' \in Runs
    BY <1>0, <1>1, <2>2 DEF ReadFile, Runs, Pcs
  <2> QED
    BY <1>0, <1>1, <2>3 DEF ReadFile, TypeOK, NoAliases
<1>2. CASE LoadAlias
  <2>0. run.claim + 1 \in Nat
    BY <1>0 DEF Runs
  <2>1. run' \in Runs
    BY <1>0, <1>2, <2>0 DEF LoadAlias, Runs
  <2>2. Claims[run.claim] \in Words \X Entities
    BY <1>2, GraphAssumption DEF LoadAlias
  <2>3. aliases' \in [Words -> Entities \cup {Unnamed}]
    BY <1>0, <1>2, <2>2 DEF LoadAlias, Claim, TypeOK
  <2> QED
    BY <1>0, <1>2, <2>1, <2>3 DEF LoadAlias, TypeOK
<1>3. CASE AliasesLoaded
  <2>1. run' \in Runs
    BY <1>0, <1>3, RunStep DEF AliasesLoaded, Pcs
  <2> QED
    BY <1>0, <1>3, <2>1 DEF AliasesLoaded, TypeOK
<1>4. CASE SkipLine
  <2>1. run' \in Runs
    BY <1>0, <1>4, WhenAtLine, NextLineType DEF SkipLine, AtLine
  <2> QED
    BY <1>0, <1>4, <2>1 DEF SkipLine, TypeOK
<1>5. CASE InsertEdge
  <2>1. run' \in Runs
    BY <1>0, <1>5, RunStep DEF InsertEdge, Pcs
  <2>2. graph \in Graphs /\ EdgeOf(Head(run.rest)) \in Edges
    BY <1>5, WhenAtLine, GroundedEdge DEF InsertEdge, AtLine
  <2>3. graph' \in Graphs
    BY <1>5, <2>2 DEF InsertEdge, Graphs
  <2> QED
    BY <1>0, <1>5, <2>1, <2>3 DEF InsertEdge, TypeOK
<1>6. CASE InsertRow
  <2> DEFINE line == Head(run.rest)
  <2>1. AtRow /\ line \in Lines /\ Tail(run.rest) \in Seq(Lines) /\ Grounds(line) /\ AliasesInGraph
    BY <1>6, WhenAtLine, WhenAtRow DEF InsertRow
  <2>2. graph \in Graphs /\ RowOf(line) \in Rows /\ MetricOf(line) \in Metrics
    BY <2>1, WhenAtLine, WhenAtRow, GroundedRow, GroundedMetric
  <2>3. graph' \in Graphs
    BY <1>6, <2>2 DEF InsertRow, Graphs
  <2>4. run' \in Runs
    BY <1>0, <1>6, <2>1, NextLineType DEF InsertRow
  <2> QED
    BY <1>0, <1>6, <2>3, <2>4 DEF InsertRow, TypeOK
<1>7. CASE DropRow
  <2>1. AtRow /\ Head(run.rest) \in Lines /\ Tail(run.rest) \in Seq(Lines)
    BY <1>7, WhenAtLine, WhenAtRow DEF DropRow
  <2>2. run' \in Runs
    BY <1>0, <1>7, <2>1, NextLineType DEF DropRow
  <2> QED
    BY <1>0, <1>7, <2>2 DEF DropRow, TypeOK
<1>8. CASE IngestFails
  BY <1>8, TypeStop
<1>9. CASE FileIngested
  <2>1. run' \in Runs
    BY <1>0, <1>9, RunStep, RunStop DEF FileIngested, Pcs, Outcomes
  <2> QED
    BY <1>0, <1>9, <2>1 DEF FileIngested, TypeOK
<1> QED
  BY <1>1, <1>2, <1>3, <1>4, <1>5, <1>6, <1>7, <1>8, <1>9 DEF Ingest

LEMMA TypeStep ==
  ASSUME GraphInv, [Next]_vars
  PROVE  TypeOK'
<1>0. TypeOK
  BY DEF GraphInv
<1>1. CASE ChangeDatabase
  BY <1>0, <1>1, GraphAssumption DEF ChangeDatabase, TypeOK
<1>2. CASE UNCHANGED vars
  BY <1>0, <1>2 DEF vars, TypeOK
<1> QED
  BY <1>1, <1>2, TypeBegin, TypeStop, TypeBuild, TypeIngest DEF Next

-----------------------------------------------------------------------------
(* Each step preserves the rest of the invariant.                          *)

LEMMA FilesStep ==
  ASSUME GraphInv, [Next]_vars
  PROVE  FilesInv'
<1> USE DEF FilesInv, BeforeCommit, Reading
<1>0. FilesInv /\ run \in Runs /\ run.input \in {"source", "extra"} /\ NoFile \notin Files
  BY GraphAssumption DEF GraphInv, TypeOK, Runs
<1>1. CASE UNCHANGED vars \/ ChangeDatabase
  BY <1>0, <1>1 DEF vars, ChangeDatabase
<1>2. ASSUME NEW framework \in BOOLEAN, NEW extra \in Files \cup {NoFile}, Begin(framework, extra)
      PROVE  FilesInv'
  BY ZenonT(60), <1>0, <1>2 DEF Begin, Runs
<1>3. ASSUME NEW file \in Files, SourceExtracted(file) PROVE FilesInv'
  BY <1>0, <1>3 DEF SourceExtracted, Runs
<1>4. ASSUME NEW file \in Files, NEW stuck \in BOOLEAN, SourceFails(file, stuck) PROVE FilesInv'
  BY <1>0, <1>4 DEF SourceFails, Runs
<1>5. ASSUME NEW stuck \in BOOLEAN, RemoveTemp(stuck) PROVE FilesInv'
  <2>1. /\ run'.pc = IF run.extra = NoFile THEN "idle" ELSE "read"
        /\ run'.input = "extra" /\ run'.extra = run.extra /\ run'.stuck = stuck
    BY <1>0, <1>5 DEF RemoveTemp, Runs
  <2>2. ~stuck => temp' = NoFile
    BY <1>5 DEF RemoveTemp
  <2> QED
    BY <2>1, <2>2
<1>6. CASE ConnectFails \/ BuildFails \/ IngestFails \/ Crash
  <2>1. \E outcome \in {"no database", "failed", "crashed"} : Stop(outcome)
    BY <1>6 DEF ConnectFails, BuildFails, IngestFails, Crash
  <2>2. temp' = temp
    BY <1>6 DEF ConnectFails, BuildFails, IngestFails, Crash
  <2> QED
    BY <1>0, <2>1, <2>2, RunStop DEF Outcomes
<1>7. CASE RemoveGraph \/ OpenGraph \/ ListTables \/ ListColumns \/ ListForeignKeys
  <2>1. run.pc \in BeforeCommit \ {"source"} /\ temp' = temp
    BY <1>7 DEF RemoveGraph, OpenGraph, ListTables, ListColumns, ListForeignKeys
  <2>2. /\ run'.pc \in BeforeCommit \ {"source"} /\ run'.framework = run.framework
        /\ run'.input = run.input /\ run'.extra = run.extra /\ run'.stuck = run.stuck
    <3>1. CASE RemoveGraph \/ OpenGraph
      BY ZenonT(60), <1>0, <3>1 DEF RemoveGraph, OpenGraph, Goto, Runs
    <3>2. CASE ListTables
      BY <1>0, <3>2 DEF ListTables, Runs
    <3>3. CASE ListColumns \/ ListForeignKeys
      BY <1>0, <3>3 DEF ListColumns, ListForeignKeys, Goto, Runs
    <3> QED
      BY <1>7, <3>1, <3>2, <3>3
  <2> QED
    BY <1>0, <2>1, <2>2
<1>8. CASE Commit
  BY ZenonT(60), <1>0, <1>8 DEF Commit, Goto, Stop, Runs
<1>9. CASE ReadFile \/ LoadAlias \/ AliasesLoaded
  BY ZenonT(60), <1>0, <1>9 DEF ReadFile, LoadAlias, AliasesLoaded, Goto, Runs
<1>10. CASE SkipLine \/ InsertEdge
  BY <1>0, <1>10 DEF SkipLine, InsertEdge, AtLine, NextLine, Goto, Runs
<1>11. CASE InsertRow \/ DropRow
  <2>1. run.pc \in {"line", "row"}
    BY <1>11, WhenAtRow DEF InsertRow, DropRow
  <2> QED
    BY ZenonT(60), <1>0, <1>11, <2>1 DEF InsertRow, DropRow, NextLine, Runs
<1>12. CASE FileIngested
  BY <1>0, <1>12 DEF FileIngested, Goto, Stop, Runs
<1> QED
  BY <1>1, <1>2, <1>3, <1>4, <1>5, <1>6, <1>7, <1>8, <1>9, <1>10, <1>11, <1>12
  DEF Next, Build, Ingest

LEMMA EarlyStep ==
  ASSUME GraphInv, [Next]_vars
  PROVE  EarlyInv'
<1> USE DEF EarlyInv
<1>0. EarlyInv /\ run \in Runs
  BY DEF GraphInv, TypeOK
<1>1. CASE UNCHANGED vars \/ ChangeDatabase
  BY <1>0, <1>1 DEF vars, ChangeDatabase
<1>2. ASSUME NEW framework \in BOOLEAN, NEW extra \in Files \cup {NoFile}, Begin(framework, extra)
      PROVE  EarlyInv'
  BY <1>0, <1>2 DEF Begin, Runs
<1>3. ASSUME NEW file \in Files, SourceExtracted(file) PROVE EarlyInv'
  BY <1>0, <1>3 DEF SourceExtracted, Runs
<1>4. ASSUME NEW file \in Files, NEW stuck \in BOOLEAN, SourceFails(file, stuck) PROVE EarlyInv'
  BY <1>0, <1>4 DEF SourceFails, Runs
<1>5. ASSUME NEW stuck \in BOOLEAN, RemoveTemp(stuck) PROVE EarlyInv'
  BY <1>0, <1>5 DEF RemoveTemp, Runs
<1>6. CASE ConnectFails
  BY <1>0, <1>6, RunStop DEF ConnectFails, Outcomes
<1>7. CASE BuildFails \/ IngestFails \/ Crash
  <2>1. \E outcome \in {"failed", "crashed"} : Stop(outcome)
    BY <1>7 DEF BuildFails, IngestFails, Crash
  <2> QED
    BY <1>0, <2>1, RunStop DEF Outcomes
<1>8. CASE RemoveGraph \/ OpenGraph \/ ListTables \/ ListColumns \/ ListForeignKeys
  BY <1>0, <1>8 DEF RemoveGraph, OpenGraph, ListTables, ListColumns, ListForeignKeys, Goto, Runs
<1>9. CASE Commit
  BY <1>0, <1>9 DEF Commit, Goto, Stop, Runs
<1>10. CASE ReadFile \/ LoadAlias \/ AliasesLoaded
  BY <1>0, <1>10 DEF ReadFile, LoadAlias, AliasesLoaded, Goto, Runs
<1>11. CASE SkipLine \/ InsertEdge \/ InsertRow \/ DropRow
  BY <1>0, <1>11 DEF SkipLine, InsertEdge, InsertRow, DropRow, NextLine, Goto, Runs
<1>12. CASE FileIngested
  BY <1>0, <1>12 DEF FileIngested, Goto, Stop, Runs
<1> QED
  BY <1>1, <1>2, <1>3, <1>4, <1>5, <1>6, <1>7, <1>8, <1>9, <1>10, <1>11, <1>12
  DEF Next, Build, Ingest

\* The two insertions only add to the graph, and what they add is grounded.
LEMMA Inserted ==
  ASSUME GraphInv, InsertEdge \/ InsertRow
  PROVE  /\ graph \in Graphs /\ graph' \in Graphs /\ GroundedGraph(graph')
         /\ graph'.entities = graph.entities /\ graph'.fields = graph.fields
         /\ graph'.hash = graph.hash /\ graph'.edges \in SUBSET Edges
         /\ graph.edges \subseteq graph'.edges /\ graph.vocabulary \subseteq graph'.vocabulary
         /\ {m.name : m \in graph.metrics} \subseteq {m.name : m \in graph'.metrics}
<1> DEFINE line == Head(run.rest)
<1>0. /\ line \in Lines /\ Grounds(line) /\ AliasesInGraph
      /\ graph \in Graphs /\ GroundedGraph(graph)
  BY WhenAtLine, WhenAtRow DEF InsertEdge, InsertRow, AtLine
<1>1. CASE InsertEdge
  <2>1. /\ EdgeOf(line) \in Edges
        /\ {EdgeOf(line).from, EdgeOf(line).to} \subseteq graph.fields
    BY <1>0, <1>1, GroundedEdge DEF InsertEdge
  <2>2. graph' = [graph EXCEPT !.edges = @ \cup {EdgeOf(line)}]
    BY <1>1 DEF InsertEdge
  <2>3. graph' \in Graphs /\ graph'.edges = graph.edges \cup {EdgeOf(line)}
    BY <1>0, <2>1, <2>2 DEF Graphs
  <2>4. /\ graph'.entities = graph.entities /\ graph'.fields = graph.fields
        /\ graph'.hash = graph.hash
        /\ graph'.vocabulary = graph.vocabulary /\ graph'.metrics = graph.metrics
    BY <1>0, <2>2 DEF Graphs
  <2>5. GroundedGraph(graph')
    BY <1>0, <2>1, <2>3, <2>4 DEF GroundedGraph, NamesIn, FieldsIn
  <2> QED
    BY <1>0, <2>3, <2>4, <2>5 DEF Graphs
<1>2. CASE InsertRow /\ line.kind # "metric"
  <2>1. /\ RowOf(line) \in Rows
        /\ NamesIn(graph, RowOf(line).names) /\ FieldsIn(graph, RowOf(line).fields)
    BY <1>0, GroundedRow
  <2>2. graph' = [graph EXCEPT !.vocabulary = @ \cup {RowOf(line)}]
    BY <1>2 DEF InsertRow
  <2>3. graph' \in Graphs /\ graph'.vocabulary = graph.vocabulary \cup {RowOf(line)}
    BY <1>0, <2>1, <2>2 DEF Graphs
  <2>4. /\ graph'.entities = graph.entities /\ graph'.fields = graph.fields
        /\ graph'.hash = graph.hash
        /\ graph'.edges = graph.edges /\ graph'.metrics = graph.metrics
    BY <1>0, <2>2 DEF Graphs
  <2>5. GroundedGraph(graph')
    BY <1>0, <2>1, <2>3, <2>4 DEF GroundedGraph, NamesIn, FieldsIn
  <2> QED
    BY <1>0, <2>3, <2>4, <2>5 DEF Graphs
<1>3. CASE InsertRow /\ line.kind = "metric"
  <2> DEFINE kept == {m \in graph.metrics : m.name # line.tag}
  <2>1. /\ MetricOf(line) \in Metrics /\ MetricOf(line).names \subseteq graph.entities
        /\ MetricOf(line).fields \subseteq graph.fields /\ MetricOf(line).name = line.tag
    BY <1>0, GroundedMetric DEF MetricOf
  <2>2. graph' = [graph EXCEPT !.metrics = kept \cup {MetricOf(line)}]
    BY <1>3 DEF InsertRow
  <2>3. graph' \in Graphs /\ graph'.metrics = kept \cup {MetricOf(line)}
    BY <1>0, <2>1, <2>2 DEF Graphs
  <2>4. /\ graph'.entities = graph.entities /\ graph'.fields = graph.fields
        /\ graph'.hash = graph.hash
        /\ graph'.edges = graph.edges /\ graph'.vocabulary = graph.vocabulary
    BY <1>0, <2>2 DEF Graphs
  <2>5. GroundedGraph(graph')
    BY <1>0, <2>1, <2>3, <2>4 DEF GroundedGraph, NamesIn, FieldsIn
  <2>6. {m.name : m \in graph.metrics} \subseteq {m.name : m \in graph'.metrics}
    BY <2>1, <2>3
  <2> QED
    BY <1>0, <2>3, <2>4, <2>5, <2>6 DEF Graphs
<1> QED
  BY <1>1, <1>2, <1>3

LEMMA BuildStep ==
  ASSUME GraphInv, [Next]_vars
  PROVE  BuildInv'
<1>0. BuildInv /\ run \in Runs /\ building \in Graphs /\ run.tables \subseteq Tables
      /\ run.columns \subseteq Columns
  BY DEF GraphInv, TypeOK, Runs
<1>1. CASE UNCHANGED vars \/ ChangeDatabase
  BY <1>0, <1>1 DEF vars, ChangeDatabase, BuildInv, Reading
<1>2. ASSUME NEW framework \in BOOLEAN, NEW extra \in Files \cup {NoFile}, Begin(framework, extra)
      PROVE  BuildInv'
  BY <1>0, <1>2 DEF Begin, Runs, BuildInv, Reading
<1>3. ASSUME NEW file \in Files, SourceExtracted(file) PROVE BuildInv'
  BY <1>0, <1>3 DEF SourceExtracted, Runs, BuildInv, Reading
<1>4. ASSUME NEW file \in Files, NEW stuck \in BOOLEAN, SourceFails(file, stuck) PROVE BuildInv'
  BY <1>0, <1>4 DEF SourceFails, Runs, BuildInv, Reading
<1>5. ASSUME NEW stuck \in BOOLEAN, RemoveTemp(stuck) PROVE BuildInv'
  BY <1>0, <1>5 DEF RemoveTemp, Runs, BuildInv, Reading
<1>6. CASE ConnectFails \/ BuildFails \/ IngestFails \/ Crash
  <2>1. \E outcome \in Outcomes : Stop(outcome)
    BY <1>6 DEF ConnectFails, BuildFails, IngestFails, Crash, Outcomes
  <2> QED
    BY <1>0, <2>1, RunStop DEF BuildInv, Reading
<1>7. CASE RemoveGraph \/ OpenGraph
  BY <1>0, <1>7 DEF RemoveGraph, OpenGraph, Goto, Runs, BuildInv, Reading
<1>8. CASE ListTables
  <2>1. /\ graph' = Empty /\ run'.pc = "columns" /\ run'.tables = db.tables
        /\ building.metrics = {} /\ building.fields = {} /\ building.edges = {}
    BY <1>0, <1>8 DEF ListTables, Runs, BuildInv, Empty
  <2>2. /\ building'.entities = EntitiesOf(db.tables)
        /\ building'.vocabulary = {Row("entity", <<e>>, <<>>) : e \in EntitiesOf(db.tables)}
        /\ building'.metrics = {} /\ building'.fields = {} /\ building'.edges = {}
    BY <1>0, <1>8, <2>1 DEF ListTables, Graphs
  <2> QED
    BY <2>1, <2>2 DEF BuildInv, Reading
<1>9. CASE ListColumns
  <2>1. /\ graph' = Empty /\ run'.pc = "keys" /\ run'.columns = db.columns
        /\ run'.tables = run.tables
    BY <1>0, <1>9 DEF ListColumns, Runs, BuildInv
  <2>2. /\ building'.entities = building.entities /\ building'.metrics = building.metrics
        /\ building'.fields = FieldsOf(db.columns)
        /\ building'.vocabulary =
             building.vocabulary \cup {Row("field", <<>>, <<f>>) : f \in FieldsOf(db.columns)}
    BY <1>0, <1>9 DEF ListColumns, Graphs
  <2> QED
    BY <1>0, <1>9, <2>1, <2>2 DEF BuildInv, Reading, ListColumns
<1>10. CASE ListForeignKeys
  <2>1. /\ graph' = Empty /\ run'.pc = "commit" /\ run'.columns = run.columns
        /\ run'.tables = run.tables
    BY <1>0, <1>10, RunStep DEF ListForeignKeys, BuildInv, Pcs
  <2>2. /\ building'.entities = building.entities /\ building'.metrics = building.metrics
        /\ building'.fields = building.fields
        /\ building'.vocabulary = building.vocabulary
    BY <1>0, <1>10 DEF ListForeignKeys, Graphs
  <2> QED
    BY <1>0, <1>10, <2>1, <2>2 DEF BuildInv, Reading, ListForeignKeys
<1>11. CASE Commit
  <2>1. run'.pc \in {"read", "idle"}
    BY <1>0, <1>11, RunStep, RunStop DEF Commit, Pcs, Outcomes
  <2>2. <<run.tables, FieldCount(run.columns)>> \in Hashes
    BY <1>0, FieldCountType DEF Hashes
  <2>3. graph' \in Graphs /\ graph'.hash = <<run.tables, FieldCount(run.columns)>>
    BY <1>0, <1>11, <2>2 DEF Commit, Graphs
  <2>4. graph'.hash # <<>>
    BY <2>3
  <2> QED
    BY <2>1, <2>3, <2>4, NoGraphAssumption DEF BuildInv, Reading
<1>12. CASE InsertEdge \/ InsertRow
  <2>1. run.pc \in Reading
    BY <1>12, WhenAtRow DEF InsertEdge, InsertRow, AtLine, Reading
  <2>2. graph' # NoGraph /\ graph'.hash # <<>>
    BY <1>0, <1>12, <2>1, Inserted, NoGraphAssumption DEF BuildInv
  <2>3. run'.pc \in {"row", "line"}
    BY <1>0, <1>12 DEF InsertEdge, InsertRow, NextLine, Goto, Runs
  <2> QED
    BY <2>2, <2>3 DEF BuildInv, Reading
<1>13. CASE ReadFile \/ LoadAlias \/ AliasesLoaded \/ SkipLine \/ DropRow \/ FileIngested
  <2>1. run.pc \in Reading /\ graph' = graph
    BY <1>13, WhenAtRow
    DEF ReadFile, LoadAlias, AliasesLoaded, SkipLine, DropRow, FileIngested, AtLine, Reading
  <2>2. run'.pc \in Reading \cup {"idle"}
    BY <1>0, <1>13, <2>1
    DEF ReadFile, LoadAlias, AliasesLoaded, SkipLine, DropRow, FileIngested, NextLine, Goto, Stop,
        Runs, Reading
  <2> QED
    BY <1>0, <2>1, <2>2 DEF BuildInv, Reading
<1> QED
  BY <1>1, <1>2, <1>3, <1>4, <1>5, <1>6, <1>7, <1>8, <1>9, <1>10, <1>11, <1>12, <1>13
  DEF Next, Build, Ingest

LEMMA GroundStep ==
  ASSUME GraphInv, [Next]_vars
  PROVE  GroundInv'
<1>0. /\ GroundInv /\ BuildInv /\ building \in Graphs /\ GroundedGraph(Empty)
      /\ db.columns \subseteq Columns /\ run.columns \subseteq Columns
  BY GraphAssumption DEF GraphInv, TypeOK, Runs, GroundedGraph, Empty
<1>1. CASE UNCHANGED <<graph, building>>
  BY <1>0, <1>1 DEF GroundInv, Grounded, GroundedGraph
<1>2. CASE RemoveGraph \/ OpenGraph \/ BuildFails \/ Crash
  <2>1. (graph' = graph \/ graph' \in {NoGraph, Empty}) /\ building' \in {building, Empty}
    BY <1>2 DEF RemoveGraph, OpenGraph, BuildFails, Crash
  <2> QED
    BY <1>0, <2>1 DEF GroundInv, Grounded
<1>3. CASE ListTables
  <2>1. /\ building.metrics = {} /\ building.fields = {} /\ building.edges = {}
        /\ graph' = graph
    BY <1>0, <1>3 DEF ListTables, BuildInv, Empty
  <2>2. /\ building'.entities = EntitiesOf(db.tables)
        /\ building'.vocabulary = {Row("entity", <<e>>, <<>>) : e \in EntitiesOf(db.tables)}
        /\ building'.metrics = {} /\ building'.fields = {} /\ building'.edges = {}
    BY <1>0, <1>3, <2>1 DEF ListTables, Graphs
  <2>3. \A row \in building'.vocabulary :
          NamesIn(building', row.names) /\ FieldsIn(building', row.fields)
    BY <2>2 DEF Row, NamesIn, FieldsIn
  <2> QED
    BY <1>0, <2>1, <2>2, <2>3 DEF GroundInv, Grounded, GroundedGraph
<1>4. CASE ListColumns
  <2>1. building.edges = {} /\ building.metrics = {} /\ building.fields = {} /\ graph' = graph
    BY <1>0, <1>4 DEF ListColumns, BuildInv
  <2>2. /\ building'.entities = building.entities
        /\ building'.edges = {} /\ building'.metrics = {}
        /\ building'.fields = FieldsOf(db.columns)
        /\ building'.vocabulary =
             building.vocabulary \cup {Row("field", <<>>, <<f>>) : f \in FieldsOf(db.columns)}
    BY <1>0, <1>4, <2>1 DEF ListColumns, Graphs
  <2>3. \A row \in building.vocabulary :
          NamesIn(building', row.names) /\ FieldsIn(building', row.fields)
    BY <1>0, <2>1, <2>2 DEF GroundInv, GroundedGraph, NamesIn, FieldsIn
  <2>4. \A f \in FieldsOf(db.columns) :
          /\ NamesIn(building', Row("field", <<>>, <<f>>).names)
          /\ FieldsIn(building', Row("field", <<>>, <<f>>).fields)
    BY <2>2 DEF Row, NamesIn, FieldsIn
  <2>5. \A f \in building'.fields : f[1] \in building'.entities
    BY <1>4, <2>2 DEF ListColumns
  <2> QED
    BY <1>0, <2>1, <2>2, <2>3, <2>4, <2>5 DEF GroundInv, Grounded, GroundedGraph
<1>5. CASE ListForeignKeys
  <2> DEFINE edges == KeyEdges(db.keys) \cup InferredEdges(run.columns)
  <2>1. /\ building.fields = FieldsOf(run.columns) /\ building.metrics = {} /\ graph' = graph
        /\ building' = [building EXCEPT !.edges = edges]
    BY <1>0, <1>5 DEF ListForeignKeys, BuildInv
  <2>2. /\ building'.entities = building.entities /\ building'.fields = building.fields
        /\ building'.edges = edges /\ building'.metrics = {}
        /\ building'.vocabulary = building.vocabulary
    BY <1>0, <2>1 DEF Graphs
  <2>3. \A edge \in InferredEdges(run.columns) :
          {edge.from[1], edge.to[1]} \subseteq building.entities
    BY <1>0, <2>1, InferredEdgesType DEF GroundInv, GroundedGraph
  <2>4. \A edge \in edges : {edge.from[1], edge.to[1]} \subseteq building'.entities
    BY <1>5, <2>2, <2>3 DEF ListForeignKeys
  <2> QED
    BY <1>0, <2>1, <2>2, <2>4 DEF GroundInv, Grounded, GroundedGraph, NamesIn, FieldsIn
<1>6. CASE Commit
  <2> DEFINE stamp == <<run.tables, FieldCount(run.columns)>>
  <2>1. graph' = [building EXCEPT !.hash = stamp] /\ building' = Empty
    BY <1>6 DEF Commit
  <2>2. /\ graph'.entities = building.entities /\ graph'.fields = building.fields
        /\ graph'.edges = building.edges /\ graph'.metrics = building.metrics
        /\ graph'.vocabulary = building.vocabulary
    BY <1>0, <2>1 DEF Graphs
  <2> QED
    BY <1>0, <2>1, <2>2 DEF GroundInv, Grounded, GroundedGraph, NamesIn, FieldsIn
<1>7. CASE InsertEdge \/ InsertRow
  <2>1. building' = building
    BY <1>7 DEF InsertEdge, InsertRow
  <2> QED
    BY <1>0, <1>7, <2>1, Inserted DEF GroundInv, Grounded
<1>8. (UNCHANGED <<graph, building>>) \/ RemoveGraph \/ OpenGraph \/ BuildFails \/ Crash
        \/ ListTables \/ ListColumns \/ ListForeignKeys \/ Commit \/ InsertEdge \/ InsertRow
  BY DEF Next, vars, ChangeDatabase, Begin, SourceExtracted, SourceFails, RemoveTemp, ConnectFails,
         Build, Ingest, ReadFile, LoadAlias, AliasesLoaded, SkipLine, DropRow, IngestFails,
         FileIngested
<1> QED
  BY <1>1, <1>2, <1>3, <1>4, <1>5, <1>6, <1>7, <1>8

\* One more claim on a word.
LEMMA ClaimSettles ==
  ASSUME GraphInv, LoadAlias, NEW w \in Words
  PROVE  Settled(w, ClaimedBefore(w, run.claim))' /\ run'.claim \in 1 .. Len(Claims) + 1
<1> DEFINE n == run.claim
           c == Claims[n]
           S == ClaimedBefore(w, n)
<1>0. /\ run \in Runs /\ n \in 1 .. Len(Claims) /\ Len(Claims) \in Nat /\ Settled(w, S)
      /\ c \in Words \X Entities /\ aliases \in [Words -> Entities \cup {Unnamed}]
      /\ Unnamed \notin Entities
  BY GraphAssumption DEF GraphInv, AliasInv, LoadAlias, TypeOK
<1>1. run'.claim = n + 1 /\ graph' = graph
  BY <1>0 DEF LoadAlias, Runs
<1>2. ClaimedBefore(w, n + 1) = S \cup {e \in graph.entities : c = <<w, e>>}
  <2>1. 1 .. (n + 1) - 1 = (1 .. n - 1) \cup {n}
    BY <1>0
  <2> QED
    BY <2>1 DEF ClaimedBefore
<1>3. ClaimedBefore(w, run.claim)' = ClaimedBefore(w, n + 1)
  BY <1>1 DEF ClaimedBefore
<1>4. CASE c[1] = w /\ c[2] \in graph.entities
  <2>1. ClaimedBefore(w, n + 1) = S \cup {c[2]}
    BY <1>0, <1>2, <1>4
  <2>2. aliases'[w] = IF aliases[w] = Unnamed \/ aliases[w] = c[2] THEN c[2] ELSE Unnamed
    BY <1>0, <1>4 DEF LoadAlias, Claim
  <2>3. ASSUME NEW e \in S \cup {c[2]}, S \cup {c[2]} = {e} PROVE aliases'[w] = e
    <3>1. e = c[2] /\ (S = {} \/ S = {e})
      BY <2>3
    <3>2. aliases[w] \in {Unnamed, e}
      BY <1>0, <3>1 DEF Settled
    <3> QED
      BY <2>2, <3>1, <3>2
  <2> QED
    BY <1>0, <1>1, <1>3, <2>1, <2>2, <2>3 DEF Settled
<1>5. CASE ~(c[1] = w /\ c[2] \in graph.entities)
  <2>1. ClaimedBefore(w, n + 1) = S
    BY <1>2, <1>5
  <2>2. aliases'[w] = aliases[w]
    BY <1>0, <1>5 DEF LoadAlias, Claim
  <2> QED
    BY <1>0, <1>1, <1>3, <2>1, <2>2 DEF Settled
<1> QED
  BY <1>4, <1>5

LEMMA AliasStep ==
  ASSUME GraphInv, [Next]_vars
  PROVE  AliasInv'
<1>0. AliasInv /\ run \in Runs /\ Len(Claims) \in Nat
  BY GraphAssumption DEF GraphInv, TypeOK
<1>1. CASE UNCHANGED vars \/ ChangeDatabase
  BY ZenonT(60), <1>0, <1>1 DEF vars, ChangeDatabase, AliasInv, Settled, ClaimedBefore, Claimants
<1>2. CASE ReadFile
  <2>1. run'.pc = "alias" /\ run'.claim = 1 /\ aliases' = NoAliases
    BY <1>0, <1>2 DEF ReadFile, Runs
  <2>2. \A w \in Words : ClaimedBefore(w, run.claim)' = {}
    BY <2>1 DEF ClaimedBefore
  <2> QED
    BY <1>0, <2>1, <2>2 DEF AliasInv, Settled, NoAliases
<1>3. CASE LoadAlias
  <2>1. run'.pc = "alias" /\ run'.claim = run.claim + 1 /\ run.claim \in 1 .. Len(Claims)
    BY <1>0, <1>3 DEF LoadAlias, Runs
  <2> QED
    BY <1>0, <1>3, <2>1, ClaimSettles DEF AliasInv
<1>4. CASE AliasesLoaded
  <2>1. /\ run'.pc = "line" /\ run.claim = Len(Claims) + 1 /\ graph' = graph /\ aliases' = aliases
        /\ \A w \in Words : Settled(w, ClaimedBefore(w, run.claim))
    BY <1>0, <1>4, RunStep DEF AliasesLoaded, AliasInv, Pcs
  <2>2. \A w \in Words : ClaimedBefore(w, run.claim) = Claimants(w)
    BY SMTT(30), <1>0, <2>1, GraphAssumption DEF ClaimedBefore, Claimants, Range
  <2> QED
    BY <2>1, <2>2 DEF AliasInv, Settled, Claimants
<1>5. CASE InsertEdge \/ InsertRow
  <2>1. run.pc \in {"line", "row"} /\ aliases' = aliases /\ graph'.entities = graph.entities
    BY <1>5, Inserted, WhenAtRow DEF InsertEdge, InsertRow, AtLine
  <2>2. run'.pc \in {"line", "row"}
    BY <1>0, <1>5 DEF InsertEdge, InsertRow, NextLine, Goto, Runs
  <2> QED
    BY <1>0, <2>1, <2>2 DEF AliasInv, Settled, Claimants
<1>6. CASE SkipLine \/ DropRow
  <2>1. run.pc \in {"line", "row"} /\ aliases' = aliases /\ graph' = graph
    BY <1>6, WhenAtRow DEF SkipLine, DropRow, AtLine
  <2>2. run'.pc = "line"
    BY <1>0, <1>6 DEF SkipLine, DropRow, NextLine, Runs
  <2> QED
    BY <1>0, <2>1, <2>2 DEF AliasInv, Settled, Claimants
<1>7. ASSUME run'.pc \notin {"alias", "line", "row"} PROVE AliasInv'
  BY <1>7 DEF AliasInv
<1>8. ASSUME NEW framework \in BOOLEAN, NEW extra \in Files \cup {NoFile}, Begin(framework, extra)
      PROVE  run'.pc \notin {"alias", "line", "row"}
  BY <1>0, <1>8 DEF Begin, Runs
<1>9. ASSUME NEW file \in Files, NEW stuck \in BOOLEAN,
             SourceExtracted(file) \/ SourceFails(file, stuck) \/ RemoveTemp(stuck)
      PROVE  run'.pc \notin {"alias", "line", "row"}
  BY <1>0, <1>9 DEF SourceExtracted, SourceFails, RemoveTemp, Runs
<1>10. ASSUME NEW stuck \in BOOLEAN, RemoveTemp(stuck)
      PROVE  run'.pc \notin {"alias", "line", "row"}
  BY <1>0, <1>10 DEF RemoveTemp, Runs
<1>11. CASE ConnectFails \/ BuildFails \/ IngestFails \/ Crash
  <2>1. \E outcome \in Outcomes : Stop(outcome)
    BY <1>11 DEF ConnectFails, BuildFails, IngestFails, Crash, Outcomes
  <2> QED
    BY <1>0, <1>7, <2>1, RunStop
<1>12. CASE Build \/ FileIngested
  <2>1. run'.pc \notin {"alias", "line", "row"}
    BY <1>0, <1>12 DEF Build, RemoveGraph, OpenGraph, ListTables, ListColumns, ListForeignKeys,
                       Commit, FileIngested, Goto, Stop, Runs
  <2> QED
    BY <1>7, <2>1
<1> QED
  BY <1>1, <1>2, <1>3, <1>4, <1>5, <1>6, <1>7, <1>8, <1>9, <1>10, <1>11, <1>12 DEF Next, Ingest

LEMMA SameGround ==
  ASSUME UNCHANGED aliases, graph'.entities = graph.entities, graph'.fields = graph.fields,
         run.rest # <<>>, run'.rest = run.rest, Grounds(Head(run.rest))
  PROVE  Grounds(Head(run.rest))'
<1> DEFINE line == Head(run.rest)
<1>1. line' = line
  OBVIOUS
<1>2. \A w : Entity(w)' = Entity(w)
  BY DEF Entity
<1>3. \A q : Field(q)' = Field(q)
  BY <1>2 DEF Field
<1>4. NamesOf(line)' = NamesOf(line)
  BY <1>1, <1>2 DEF NamesOf
<1>5. ResolvedFields(line)' = ResolvedFields(line)
  BY <1>1, <1>3 DEF ResolvedFields
<1>6. WellJoined(line)' = WellJoined(line)
  BY <1>1, <1>4, <1>5 DEF WellJoined
<1> QED
  BY <1>1, <1>4, <1>5, <1>6 DEF Grounds

LEMMA RowStep ==
  ASSUME GraphInv, [Next]_vars
  PROVE  RowInv'
<1>0. RowInv /\ run \in Runs
  BY DEF GraphInv, TypeOK
<1>1. CASE UNCHANGED vars \/ ChangeDatabase
  BY <1>0, <1>1, SameGround DEF vars, ChangeDatabase, RowInv
<1>2. CASE InsertEdge
  <2>1. /\ run'.rest = run.rest /\ run.rest # <<>> /\ Grounds(Head(run.rest))
        /\ aliases' = aliases
        /\ graph'.entities = graph.entities /\ graph'.fields = graph.fields
    BY <1>0, <1>2, RunStep, Inserted DEF InsertEdge, AtLine, Pcs
  <2> QED
    BY <2>1, SameGround DEF RowInv
<1>3. ASSUME run'.pc # "row" PROVE RowInv'
  BY <1>3 DEF RowInv
<1>4. ASSUME NEW framework \in BOOLEAN, NEW extra \in Files \cup {NoFile}, Begin(framework, extra)
      PROVE  run'.pc # "row"
  BY <1>0, <1>4 DEF Begin, Runs
<1>5. ASSUME NEW file \in Files, SourceExtracted(file) PROVE run'.pc # "row"
  BY <1>0, <1>5 DEF SourceExtracted, Runs
<1>6. ASSUME NEW file \in Files, NEW stuck \in BOOLEAN, SourceFails(file, stuck)
      PROVE  run'.pc # "row"
  BY <1>0, <1>6 DEF SourceFails, Runs
<1>7. ASSUME NEW stuck \in BOOLEAN, RemoveTemp(stuck) PROVE run'.pc # "row"
  BY <1>0, <1>7 DEF RemoveTemp, Runs
<1>8. CASE ConnectFails \/ BuildFails \/ IngestFails \/ Crash
  <2>1. \E outcome \in Outcomes : Stop(outcome)
    BY <1>8 DEF ConnectFails, BuildFails, IngestFails, Crash, Outcomes
  <2> QED
    BY <1>0, <1>3, <2>1, RunStop
<1>9. CASE Build \/ FileIngested
  <2>1. run'.pc # "row"
    BY <1>0, <1>9 DEF Build, RemoveGraph, OpenGraph, ListTables, ListColumns, ListForeignKeys,
                       Commit, FileIngested, Goto, Stop, Runs
  <2> QED
    BY <1>3, <2>1
<1>10. CASE ReadFile \/ LoadAlias \/ AliasesLoaded \/ SkipLine \/ InsertRow \/ DropRow
  <2>1. run'.pc # "row"
    BY <1>0, <1>10 DEF ReadFile, LoadAlias, AliasesLoaded, SkipLine, InsertRow, DropRow, NextLine,
                       Goto, Runs
  <2> QED
    BY <1>3, <2>1
<1> QED
  BY <1>1, <1>2, <1>3, <1>4, <1>5, <1>6, <1>7, <1>8, <1>9, <1>10 DEF Next, Ingest

-----------------------------------------------------------------------------
(* The theorems.                                                           *)

LEMMA GraphInvariant == Spec => []GraphInv
<1>1. GraphInv /\ [Next]_vars => GraphInv'
  BY TypeStep, FilesStep, BuildStep, GroundStep, AliasStep, RowStep, EarlyStep DEF GraphInv
<1> QED
  BY <1>1, InitInv, PTL DEF Spec

\* Whatever the database, the files and the failures, the state of an
\* extraction keeps its shape.
THEOREM GraphTyping == Spec => []TypeOK
<1>1. GraphInv => TypeOK
  BY DEF GraphInv
<1> QED
  BY <1>1, GraphInvariant, PTL

\* Each row of a .semsql graph that others can see names only entities and
\* fields of that graph, however the database changed between the queries
\* of introspect and whatever ingest_vocab_jsonl was given.
THEOREM RowsAreGrounded == Spec => []Grounded
<1>1. GraphInv => Grounded
  BY DEF GraphInv, GroundInv
<1> QED
  BY <1>1, GraphInvariant, PTL

\* insert_entity_alias leaves a word with an entity that claims it, and
\* with its only claimant if it has one, for every sequence of claims.
THEOREM WordsLeadToClaimants == Spec => []AliasesLeadToClaimants
<1>1. GraphInv => AliasesLeadToClaimants
  BY DEF GraphInv, AliasInv, Settled, AliasesLeadToClaimants
<1> QED
  BY <1>1, GraphInvariant, PTL

\* cmd_extract removes the graph it found only after the source extractor
\* and the connection succeeded, and leaves its temporary file only after a
\* failed removal, or a failure or kill past the source extractor.
THEOREM FailuresAreClean == Spec => []FailuresLeaveNoTrace
<1>1. GraphInv => FailuresLeaveNoTrace
  BY DEF GraphInv, FilesInv, EarlyInv, FailuresLeaveNoTrace
<1> QED
  BY <1>1, GraphInvariant, PTL

LEMMA StepIsPromised ==
  ASSUME GraphInv, [Next]_vars
  PROVE  [Promise!Next]_graph
<1>0. BuildInv /\ building \in Graphs /\ run \in Runs
      /\ run.tables \subseteq Tables /\ run.columns \subseteq Columns
  BY DEF GraphInv, TypeOK, Runs
<1>1. CASE UNCHANGED graph
  BY <1>1
<1>2. CASE RemoveGraph \/ OpenGraph
  BY <1>2 DEF RemoveGraph, OpenGraph, Promise!Next, Promise!Clear
<1>3. CASE Commit
  <2> DEFINE stamp == <<run.tables, FieldCount(run.columns)>>
  <2>1. graph = Empty /\ graph' = [building EXCEPT !.hash = stamp] /\ stamp \in Hashes
    BY <1>0, <1>3, FieldCountType DEF Commit, BuildInv, Hashes
  <2>2. /\ graph' \in Graphs /\ graph'.hash = stamp /\ graph'.entities = building.entities
        /\ graph'.fields = building.fields /\ graph'.vocabulary = building.vocabulary
    BY <1>0, <2>1 DEF Graphs
  <2>3. stamp # <<>> /\ stamp[1] = run.tables
    OBVIOUS
  <2>4. WholeGraph(graph')
    BY <1>0, <1>3, <2>2, <2>3 DEF BuildInv, Commit, WholeGraph
  <2> QED
    BY <2>1, <2>2, <2>4 DEF Promise!Next, Promise!Publish
<1>4. CASE InsertEdge \/ InsertRow
  <2>1. graph # NoGraph /\ graph.hash # <<>>
    BY <1>0, <1>4, WhenAtRow DEF InsertEdge, InsertRow, AtLine, BuildInv, Reading
  <2>2. graph' # NoGraph /\ graph'.hash # <<>>
    BY <1>4, <2>1, Inserted, NoGraphAssumption
  <2>3. graph # Empty /\ graph' # Empty
    BY <2>1, <2>2 DEF Empty
  <2> QED
    BY <1>4, <2>1, <2>2, <2>3, Inserted DEF Promise!Next, Promise!Enrich
<1>5. (UNCHANGED graph) \/ RemoveGraph \/ OpenGraph \/ Commit \/ InsertEdge \/ InsertRow
  BY DEF Next, vars, ChangeDatabase, Begin, SourceExtracted, SourceFails, RemoveTemp, ConnectFails,
         Build, BuildFails, ListTables, ListColumns, ListForeignKeys, Ingest, ReadFile, LoadAlias,
         AliasesLoaded, SkipLine, DropRow, IngestFails, FileIngested, Crash
<1> QED
  BY <1>1, <1>2, <1>3, <1>4, <1>5

\* The extraction implements SemanticGraph: whatever fails or is killed,
\* others see no graph, an empty one, or a whole one with its hash that
\* from then on only grows.
THEOREM SemanticGraphIsImplemented == Spec => ImplementsSemanticGraph
<1>1. Init => Promise!Init
  BY DEF Init, Promise!Init
<1>2. GraphInv /\ [Next]_vars => [Promise!Next]_graph
  BY StepIsPromised
<1> QED
  BY <1>1, <1>2, GraphInvariant, PTL DEF Spec, ImplementsSemanticGraph, Promise!Spec
-----------------------------------------------------------------------------
(* What the aliases come to.                                               *)

\* Induction over the naturals, with a set in place of a predicate.
LEMMA SetInduction ==
  ASSUME NEW T, 0 \in T, \A n \in Nat : n \in T => n + 1 \in T
  PROVE  Nat \subseteq T
<1> DEFINE Out == {n \in Nat : n \notin T}
           R == OpToRel(<, Nat)
<1>1. SUFFICES ASSUME Out # {} PROVE FALSE
  OBVIOUS
<1>2. PICK m \in Out : \A k \in Out : ~ (<<k, m>> \in R)
  <2>1. IsWellFoundedOn(R, Nat)
    BY NatLessThanWellFounded
  <2>2. Out \subseteq Nat
    OBVIOUS
  <2> HIDE DEF R, Out
  <2> QED
    BY <1>1, <2>1, <2>2, WFMin
<1>3. m # 0 /\ m - 1 \in Nat
  OBVIOUS
<1>4. m - 1 \notin T
  <2>1. (m - 1) + 1 = m
    BY <1>3
  <2> QED
    BY <1>3, <2>1
<1>5. <<m - 1, m>> \in R
  BY <1>3 DEF OpToRel
<1> QED
  BY <1>2, <1>3, <1>4, <1>5

\* What claim c makes of the aliases a, in a graph with these entities.
AfterClaim(entities, a, c) ==
  IF c[2] \in entities
    THEN [a EXCEPT ![c[1]] = IF @ = Unnamed \/ @ = c[2] THEN c[2] ELSE Unnamed]
    ELSE a

\* f[i] is what the first i claims lead to.
Loads(entities, f, n) ==
  f[0] = NoAliases /\ \A i \in 1 .. n : f[i] = AfterClaim(entities, f[i - 1], Claims[i])

\* Each file is read with these, loaded anew.
Final(a) == \E f : Loads(graph.entities, f, Len(Claims)) /\ a = f[Len(Claims)]

LEMMA LoadsAgree ==
  ASSUME NEW entities, NEW f, NEW g, NEW n \in Nat, Loads(entities, f, n), Loads(entities, g, n)
  PROVE  f[n] = g[n]
<1> DEFINE T == {i \in Nat : i <= n => f[i] = g[i]}
<1>1. 0 \in T
  BY DEF Loads
<1>2. ASSUME NEW i \in Nat, i \in T PROVE i + 1 \in T
  <2> SUFFICES ASSUME i + 1 <= n PROVE f[i + 1] = g[i + 1]
    OBVIOUS
  <2>1. f[i] = g[i] /\ i + 1 \in 1 .. n /\ (i + 1) - 1 = i
    BY <1>2
  <2> QED
    BY <2>1 DEF Loads
<1> HIDE DEF T
<1>3. Nat \subseteq T
  BY <1>1, <1>2, SetInduction
<1> QED
  BY <1>3 DEF T

LEMMA FinalUnique ==
  ASSUME NEW a, NEW b, Final(a), Final(b)
  PROVE  a = b
  BY GraphAssumption, LoadsAgree DEF Final

LEMMA OneMoreClaim ==
  ASSUME NEW entities, NEW f, NEW n \in Nat, Loads(entities, f, n)
  PROVE  \E g : Loads(entities, g, n + 1) /\ g[n + 1] = AfterClaim(entities, f[n], Claims[n + 1])
<1> DEFINE after == AfterClaim(entities, f[n], Claims[n + 1])
           g == [i \in 0 .. n + 1 |-> IF i = n + 1 THEN after ELSE f[i]]
<1>1. g[n + 1] = after /\ \A i \in 0 .. n : g[i] = f[i]
  OBVIOUS
<1> HIDE DEF g
<1>2. g[0] = NoAliases
  BY <1>1 DEF Loads
<1>3. ASSUME NEW i \in 1 .. n + 1 PROVE g[i] = AfterClaim(entities, g[i - 1], Claims[i])
  <2>1. CASE i = n + 1
    <3>1. i - 1 = n /\ n \in 0 .. n
      BY <2>1
    <3> QED
      BY <1>1, <2>1, <3>1
  <2>2. CASE i # n + 1
    <3>1. i \in 1 .. n /\ i \in 0 .. n /\ i - 1 \in 0 .. n
      BY <2>2
    <3> QED
      BY <1>1, <3>1 DEF Loads
  <2> QED
    BY <2>1, <2>2
<1> HIDE DEF after
<1>4. Loads(entities, g, n + 1)
  BY <1>2, <1>3 DEF Loads
<1> QED
  BY <1>1, <1>4 DEF after

-----------------------------------------------------------------------------
(* Resolution with given aliases: a file read earlier was resolved with    *)
(* aliases that are loaded again for the next one.                         *)

EntityBy(a, w) == IF w \in graph.entities THEN w ELSE a[w]
FieldBy(a, q) == IF q \in graph.fields THEN q ELSE <<EntityBy(a, q[1]), q[2]>>
NamesBy(a, line) == [i \in DOMAIN line.names |-> EntityBy(a, line.names[i])]
FieldsBy(a, line) == [i \in DOMAIN line.fields |-> FieldBy(a, line.fields[i])]

WellJoinedBy(a, line) ==
  line.kind = "relationship" =>
    \/ line.fields = <<>>
    \/ /\ Len(line.fields) = 2
       /\ \A i \in 1 .. 2 : FieldsBy(a, line)[i][1] = NamesBy(a, line)[i]

GroundsBy(a, line) ==
  /\ line.kind # "refused"
  /\ \A i \in DOMAIN line.names : NamesBy(a, line)[i] # Unnamed
  /\ \A i \in DOMAIN line.fields : FieldsBy(a, line)[i] \in graph.fields
  /\ WellJoinedBy(a, line)

EdgeBy(a, line) ==
  LET f == FieldsBy(a, line) IN
  IF line.tag = "one_to_many" THEN Edge(f[2], f[1], "many_to_one")
                              ELSE Edge(f[1], f[2], line.tag)

RowBy(a, line) ==
  Row(line.kind, NamesBy(a, line), IF line.kind = "relationship" THEN <<>> ELSE FieldsBy(a, line))

IngestedBy(a, line) ==
  /\ Joins(line) => EdgeBy(a, line) \in graph.edges
  /\ line \in run.dropped \/ IF line.kind = "metric"
                               THEN \E m \in graph.metrics : m.name = line.tag
                               ELSE RowBy(a, line) \in graph.vocabulary

LEMMA ByTheAliases ==
  ASSUME NEW line
  PROVE  /\ EdgeBy(aliases, line) = EdgeOf(line) /\ RowBy(aliases, line) = RowOf(line)
         /\ GroundsBy(aliases, line) <=> Grounds(line)
         /\ IngestedBy(aliases, line) <=> Ingested(line)
<1>1. \A w : EntityBy(aliases, w) = Entity(w)
  BY DEF EntityBy, Entity
<1>2. \A q : FieldBy(aliases, q) = Field(q)
  BY <1>1 DEF FieldBy, Field
<1>3. NamesBy(aliases, line) = NamesOf(line)
  BY <1>1 DEF NamesBy, NamesOf
<1>4. FieldsBy(aliases, line) = ResolvedFields(line)
  BY <1>2 DEF FieldsBy, ResolvedFields
<1>5. EdgeBy(aliases, line) = EdgeOf(line) /\ RowBy(aliases, line) = RowOf(line)
  BY <1>3, <1>4 DEF EdgeBy, EdgeOf, RowBy, RowOf
<1>6. GroundsBy(aliases, line) <=> Grounds(line)
  BY <1>3, <1>4 DEF GroundsBy, Grounds, WellJoinedBy, WellJoined
<1>7. IngestedBy(aliases, line) <=> Ingested(line)
  BY <1>5 DEF IngestedBy, Ingested
<1> QED
  BY <1>5, <1>6, <1>7

\* What a run can ground of the line is in the graph, or was dropped.
DoneLine(line) == \A a : Final(a) /\ GroundsBy(a, line) => IngestedBy(a, line)
Done(file) == file # NoFile => \A i \in DOMAIN file : DoneLine(file[i])

\* The graph keeps what lines are resolved with, and what they wrote.
Keeps ==
  /\ graph'.entities = graph.entities /\ graph'.fields = graph.fields
  /\ graph.edges \subseteq graph'.edges /\ graph.vocabulary \subseteq graph'.vocabulary
  /\ {m.name : m \in graph.metrics} \subseteq {m.name : m \in graph'.metrics}
  /\ run.dropped \subseteq run'.dropped

LEMMA SameResolution ==
  ASSUME Keeps
  PROVE  /\ \A a : Final(a)' <=> Final(a)
         /\ \A a, line : /\ GroundsBy(a, line)' <=> GroundsBy(a, line)
                         /\ EdgeBy(a, line)' = EdgeBy(a, line)
                         /\ RowBy(a, line)' = RowBy(a, line)
<1>1. \A a : Final(a)' <=> Final(a)
  BY DEF Keeps, Final
<1>2. \A a, q : EntityBy(a, q)' = EntityBy(a, q) /\ FieldBy(a, q)' = FieldBy(a, q)
  BY DEF Keeps, EntityBy, FieldBy
<1>3. \A a, line : NamesBy(a, line)' = NamesBy(a, line) /\ FieldsBy(a, line)' = FieldsBy(a, line)
  BY <1>2 DEF NamesBy, FieldsBy
<1>4. \A a, line : GroundsBy(a, line)' <=> GroundsBy(a, line)
  BY <1>3 DEF Keeps, GroundsBy, WellJoinedBy
<1>5. \A a, line : EdgeBy(a, line)' = EdgeBy(a, line) /\ RowBy(a, line)' = RowBy(a, line)
  BY <1>3 DEF EdgeBy, RowBy
<1> QED
  BY <1>1, <1>4, <1>5

LEMMA DoneKept ==
  ASSUME Keeps
  PROVE  \A line : DoneLine(line) => DoneLine(line)'
<1>1. ASSUME NEW a, NEW line, IngestedBy(a, line) PROVE IngestedBy(a, line)'
  <2>1. Joins(line) => EdgeBy(a, line)' \in graph'.edges
    BY <1>1, SameResolution DEF Keeps, IngestedBy
  <2>2. CASE line \in run.dropped
    BY <2>1, <2>2 DEF Keeps, IngestedBy, Joins
  <2>3. CASE line.kind = "metric" /\ \E m \in graph.metrics : m.name = line.tag
    <3>1. line.tag \in {m.name : m \in graph'.metrics}
      BY <2>3 DEF Keeps
    <3> QED
      BY <2>1, <2>3, <3>1 DEF IngestedBy, Joins
  <2>4. CASE line.kind # "metric" /\ RowBy(a, line) \in graph.vocabulary
    <3>1. RowBy(a, line)' \in graph'.vocabulary
      BY <2>4, SameResolution DEF Keeps
    <3> QED
      BY <2>1, <2>4, <3>1 DEF IngestedBy, Joins
  <2> QED
    BY <1>1, <2>2, <2>3, <2>4 DEF IngestedBy
<1> QED
  BY <1>1, SameResolution DEF DoneLine

LEMMA DoneFileKept ==
  ASSUME Keeps, NEW file, Done(file)
  PROVE  Done(file)'
  BY DoneKept DEF Done
-----------------------------------------------------------------------------
(* The lines of the files.                                                 *)

Current == IF run.input = "source" THEN run.source ELSE run.extra

\* k lines of the file were taken, and the rest is left.
Through(k) ==
  /\ Len(run.rest) = Len(Current) - k
  /\ \A j \in DOMAIN run.rest : run.rest[j] = Current[k + j]
  /\ \A i \in 1 .. k : DoneLine(Current[i])

\* What was taken of a file is done, and the first file wholly before the
\* second is begun.  Loading the aliases anew leads to what they were.
LineInv ==
  /\ run.pc # "idle" /\ run.input = "source" => run.source = temp
  /\ run.pc \in BeforeCommit /\ run.input = "extra" => run.source = NoFile
  /\ run.pc \in Reading /\ run.input = "extra" => Done(run.source)
  /\ run.pc \in {"alias", "line", "row"} => \E k \in 0 .. Len(Current) : Through(k)
  /\ run.pc = "alias" =>
       \E f : Loads(graph.entities, f, run.claim - 1) /\ aliases = f[run.claim - 1]
  /\ run.pc \in {"line", "row", "end"} => Final(aliases)
  /\ run.pc = "row" /\ Joins(Head(run.rest)) => EdgeOf(Head(run.rest)) \in graph.edges
  /\ run.pc = "end" => Done(run.source)
  /\ run.pc = "idle" /\ run.outcome = "ok" =>
       /\ Done(run.source) /\ Done(run.extra)
       /\ run.source # NoFile \/ run.extra # NoFile => Final(aliases)

LEMMA CurrentType ==
  ASSUME GraphInv, LineInv, run.pc \in Reading
  PROVE  Current \in Seq(Lines) /\ Current # NoFile /\ run.rest \in Seq(Lines)
<1>1. run \in Runs /\ temp \in Seq(Lines) \cup {NoFile}
  BY DEF GraphInv, TypeOK
<1>2. Current \in Seq(Lines) \cup {NoFile} /\ run.rest \in Seq(Lines)
  BY <1>1 DEF Runs, Current
<1>3. Current # NoFile
  BY <1>1 DEF GraphInv, FilesInv, LineInv, Current, Reading, Runs
<1> QED
  BY <1>2, <1>3

\* The line is taken.
LEMMA LineTaken ==
  ASSUME GraphInv, LineInv, run.pc \in {"line", "row"}, run.rest # <<>>, Keeps,
         run'.rest = Tail(run.rest), run'.pc = "line", aliases' = aliases,
         UNCHANGED <<run.source, run.extra, run.input, temp>>,
         NEW line, line = Head(run.rest), DoneLine(line)'
  PROVE  LineInv'
<1>1. PICK file, rest : file = Current /\ rest = run.rest
  OBVIOUS
<1>2. /\ Current' = file /\ file \in Seq(Lines) /\ rest \in Seq(Lines) /\ rest # <<>>
      /\ run'.rest = Tail(rest)
  BY <1>1, CurrentType DEF Current, Reading
<1>3. PICK k \in 0 .. Len(file) : /\ Len(rest) = Len(file) - k
                                  /\ \A j \in DOMAIN rest : rest[j] = file[k + j]
                                  /\ \A i \in 1 .. k : DoneLine(file[i])
  BY <1>1 DEF LineInv, Through
<1>4. /\ Len(file) \in Nat /\ Len(rest) \in Nat /\ Len(rest) >= 1 /\ DOMAIN rest = 1 .. Len(rest)
      /\ Len(Tail(rest)) = Len(rest) - 1 /\ DOMAIN Tail(rest) = 1 .. Len(rest) - 1
      /\ \A j \in 1 .. Len(rest) - 1 : Tail(rest)[j] = rest[j + 1]
      /\ Head(rest) = rest[1] /\ k \in Nat
  BY <1>2, <1>3
<1>5. Through(k + 1)'
  <2>1. Len(run'.rest) = Len(file) - (k + 1)
    <3>1. (Len(file) - k) - 1 = Len(file) - (k + 1)
      BY <1>4
    <3>2. Len(run'.rest) = Len(rest) - 1
      BY <1>2, <1>4
    <3> QED
      BY <1>3, <3>1, <3>2
  <2>2. \A j \in DOMAIN run'.rest : run'.rest[j] = file[(k + 1) + j]
    <3>1. ASSUME NEW j \in 1 .. Len(rest) - 1 PROVE Tail(rest)[j] = file[(k + 1) + j]
      <4>1. j + 1 \in DOMAIN rest /\ k + (j + 1) = (k + 1) + j
        BY <1>4
      <4> QED
        BY <1>3, <1>4, <4>1
    <3> QED
      BY <1>2, <1>4, <3>1
  <2>3. ASSUME NEW i \in 1 .. k + 1 PROVE DoneLine(file[i])'
    <3>1. CASE i \in 1 .. k
      BY <1>3, <3>1, DoneKept
    <3>2. CASE i = k + 1
      <4>1. rest[1] = file[k + 1]
        BY <1>3, <1>4
      <4>2. line = rest[1]
        BY <1>1, <1>4
      <4> QED
        BY <3>2, <4>1, <4>2
    <3> QED
      BY <1>4, <3>1, <3>2
  <2> QED
    BY <1>2, <2>1, <2>2, <2>3 DEF Through
<1>6. k + 1 \in 0 .. Len(Current')
  BY <1>2, <1>3, <1>4
<1>7. Final(aliases)'
  <2>1. PICK a : a = aliases
    OBVIOUS
  <2>2. Final(a)
    BY <2>1 DEF LineInv
  <2>3. Final(a)'
    BY <2>2, SameResolution
  <2> QED
    BY <2>1, <2>3
<1>8. run'.input = "extra" => Done(run.source)'
  <2>1. PICK source : source = run.source
    OBVIOUS
  <2>2. run.input = "extra" => Done(source)
    BY <2>1 DEF LineInv, Reading
  <2>3. run.input = "extra" => Done(source)'
    BY <2>2, DoneFileKept
  <2> QED
    BY <2>1, <2>3
<1>9. run'.input = "source" => run'.source = temp'
  BY DEF LineInv
<1> QED
  BY <1>5, <1>6, <1>7, <1>8, <1>9 DEF LineInv, BeforeCommit, Reading

LEMMA SkipLines ==
  ASSUME GraphInv, LineInv, SkipLine \/ InsertRow \/ DropRow
  PROVE  LineInv'
<1> DEFINE line == Head(run.rest)
<1>1. /\ run \in Runs /\ run.pc \in {"line", "row"} /\ run.rest # <<>>
      /\ UNCHANGED <<aliases, temp>> /\ Final(aliases) /\ graph \in Graphs
      /\ run.dropped \subseteq Lines /\ line \in Lines
  BY WhenAtRow, WhenAtLine DEF GraphInv, TypeOK, SkipLine, InsertRow, DropRow, AtLine, LineInv, Runs
<1>2. /\ run'.rest = Tail(run.rest) /\ run'.pc = "line"
      /\ UNCHANGED <<run.source, run.extra, run.input>>
      /\ run.dropped \subseteq run'.dropped
      /\ DropRow => line \in run'.dropped
  <2>1. /\ NextLine.rest = Tail(run.rest) /\ NextLine.pc = "line" /\ NextLine.source = run.source
        /\ NextLine.extra = run.extra /\ NextLine.input = run.input /\ NextLine.dropped = run.dropped
    BY <1>1 DEF NextLine, Runs
  <2>2. CASE run' = NextLine /\ ~DropRow
    BY <2>1, <2>2
  <2>3. CASE DropRow
    <3>1. NextLine \in Runs
      BY <1>1, WhenAtLine, NextLineType
    <3>2. run' = [NextLine EXCEPT !.dropped = @ \cup {line}]
      BY <2>3 DEF DropRow
    <3> QED
      BY <2>1, <3>1, <3>2 DEF Runs
  <2> QED
    BY <2>2, <2>3 DEF SkipLine, InsertRow
<1>3. Keeps
  <2>1. CASE SkipLine \/ DropRow
    BY <1>2, <2>1 DEF SkipLine, DropRow, Keeps
  <2>2. CASE InsertRow
    BY <1>2, <2>2, Inserted DEF Keeps
  <2> QED
    BY <2>1, <2>2
<1>4. Final(aliases)'
  <2>1. PICK a : a = aliases
    OBVIOUS
  <2>2. Final(a)'
    BY <1>1, <1>3, <2>1, SameResolution
  <2> QED
    BY <1>1, <2>1, <2>2
<1>5. PICK l, a : l = line /\ a = aliases
  OBVIOUS
<1>6. GroundsBy(a, l)' => IngestedBy(a, l)'
  <2>1. GroundsBy(a, l)' <=> Grounds(l)
    BY <1>3, <1>5, SameResolution, ByTheAliases
  <2>2. CASE SkipLine
    BY <1>5, <2>1, <2>2 DEF SkipLine
  <2>3. CASE InsertRow \/ DropRow
    <3>1. Joins(l) => EdgeBy(a, l)' \in graph'.edges
      <4>1. Joins(l) => EdgeOf(l) \in graph.edges
        BY <1>5, <2>3 DEF InsertRow, DropRow, AtRow, LineInv
      <4> QED
        BY <1>3, <1>5, <4>1, SameResolution, ByTheAliases DEF Keeps
    <3>2. CASE DropRow
      BY <1>2, <1>5, <3>1, <3>2 DEF IngestedBy, Joins
    <3>3. CASE InsertRow /\ l.kind = "metric"
      <4>1. MetricOf(l) \in graph'.metrics
        BY <1>1, <1>5, <3>3 DEF InsertRow, Graphs
      <4>2. MetricOf(l).name = l.tag
        BY DEF MetricOf
      <4> QED
        BY <3>1, <3>3, <4>1, <4>2 DEF IngestedBy, Joins
    <3>4. CASE InsertRow /\ l.kind # "metric"
      <4>1. RowOf(l) \in graph'.vocabulary
        BY <1>1, <1>5, <3>4 DEF InsertRow, Graphs
      <4>2. RowBy(a, l)' = RowOf(l)
        BY <1>3, <1>5, SameResolution, ByTheAliases
      <4> QED
        BY <3>1, <3>4, <4>1, <4>2 DEF IngestedBy, Joins
    <3> QED
      BY <2>3, <3>2, <3>3, <3>4
  <2> QED
    BY <2>2, <2>3
<1>7. DoneLine(l)'
  <2>1. \A b : Final(b) => b = a
    BY <1>1, <1>5, FinalUnique
  <2>2. \A b : Final(b)' => b = a
    BY <1>3, <2>1, SameResolution
  <2> QED
    BY <1>6, <2>2 DEF DoneLine
<1> QED
  BY <1>1, <1>2, <1>3, <1>5, <1>7, LineTaken
-----------------------------------------------------------------------------
(* The other steps.                                                        *)

LEMMA StillReading ==
  ASSUME LineInv, run.pc # "idle", UNCHANGED <<run.source, run.extra, run.input, temp>>,
         run'.pc \in {"alias", "line", "row"},
         run'.input = "extra" => Done(run.source)',
         NEW k, k \in 0 .. Len(Current'), Through(k)',
         run'.pc = "alias" =>
           \E f : Loads(graph'.entities, f, run'.claim - 1) /\ aliases' = f[run'.claim - 1],
         run'.pc \in {"line", "row"} => Final(aliases)',
         run'.pc = "row" => EdgeOf(Head(run.rest))' \in graph'.edges
  PROVE  LineInv'
<1>1. run'.input = "source" => run'.source = temp'
  BY DEF LineInv
<1>2. run'.pc \notin {"idle", "end"} \cup BeforeCommit /\ run'.source = run.source
  BY DEF BeforeCommit
<1>3. (\E m \in 0 .. Len(Current) : Through(m))'
  OBVIOUS
<1>4. run'.pc = "alias" => (\E f : Loads(graph.entities, f, run.claim - 1) /\ aliases = f[run.claim - 1])'
  BY DEF Loads
<1> QED
  BY <1>1, <1>2, <1>3, <1>4 DEF LineInv

LEMMA FilesChosen ==
  ASSUME GraphInv, LineInv,
         \/ \E framework \in BOOLEAN, extra \in Files \cup {NoFile} : Begin(framework, extra)
         \/ \E file \in Files : SourceExtracted(file)
         \/ \E file \in Files, stuck \in BOOLEAN : SourceFails(file, stuck)
  PROVE  LineInv'
<1>0. run \in Runs
  BY DEF GraphInv, TypeOK
<1>1. ASSUME NEW framework \in BOOLEAN, NEW extra \in Files \cup {NoFile}, Begin(framework, extra)
      PROVE  LineInv'
  <2>1. /\ run'.pc \in {"source", "connect"} /\ run'.source = NoFile /\ temp' = NoFile
    BY <1>0, <1>1 DEF Begin, Runs
  <2> QED
    BY <2>1 DEF LineInv, Reading
<1>2. ASSUME NEW file \in Files, SourceExtracted(file) PROVE LineInv'
  <2>1. run'.pc = "connect" /\ run'.source = file /\ temp' = file /\ run'.input = "source"
    BY <1>0, <1>2 DEF SourceExtracted, Runs, GraphInv, FilesInv
  <2> QED
    BY <2>1 DEF LineInv, Reading
<1>3. ASSUME NEW file \in Files, NEW stuck \in BOOLEAN, SourceFails(file, stuck) PROVE LineInv'
  <2>1. run'.pc = "idle" /\ run'.outcome = "no source"
    BY <1>0, <1>3 DEF SourceFails, Runs
  <2> QED
    BY <2>1 DEF LineInv, Reading, BeforeCommit
<1> QED
  BY <1>1, <1>2, <1>3

LEMMA LineBuild ==
  ASSUME GraphInv, LineInv, Build \/ ConnectFails \/ BuildFails \/ IngestFails \/ Crash
  PROVE  LineInv'
<1>0. run \in Runs /\ run.input \in {"source", "extra"}
  BY DEF GraphInv, TypeOK, Runs
<1>1. CASE ConnectFails \/ BuildFails \/ IngestFails \/ Crash
  <2>1. /\ \E outcome \in {"no database", "failed", "crashed"} : Stop(outcome)
        /\ run.pc # "idle" /\ temp' = temp
    BY <1>1 DEF ConnectFails, BuildFails, IngestFails, Crash, AtLine
  <2>2. /\ run'.pc = "idle" /\ run'.outcome # "ok"
        /\ UNCHANGED <<run.source, run.extra, run.input>>
    BY <1>0, <2>1, RunStop DEF Outcomes
  <2> QED
    BY <2>1, <2>2 DEF LineInv, Reading, BeforeCommit
<1>2. CASE RemoveGraph \/ OpenGraph \/ ListTables \/ ListColumns \/ ListForeignKeys
  <2>1. run.pc \in BeforeCommit /\ temp' = temp
    BY <1>2 DEF RemoveGraph, OpenGraph, ListTables, ListColumns, ListForeignKeys, BeforeCommit
  <2>2. run'.pc \in BeforeCommit /\ UNCHANGED <<run.source, run.extra, run.input>>
    BY <1>0, <1>2 DEF RemoveGraph, OpenGraph, ListTables, ListColumns, ListForeignKeys, BeforeCommit,
                      Goto, Runs
  <2> QED
    BY <2>1, <2>2 DEF LineInv, Reading, BeforeCommit
<1>3. CASE Commit
  <2>1. /\ run'.pc \in {"read", "idle"} /\ temp' = temp /\ run.pc = "commit"
        /\ UNCHANGED <<run.source, run.extra, run.input>>
        /\ run'.pc = "idle" => ~run.framework /\ run.extra = NoFile
    BY <1>0, <1>3, RunStep, RunStop DEF Commit, Pcs, Outcomes
  <2>2. run.input = "extra" => run.source = NoFile
    BY <2>1 DEF LineInv, BeforeCommit
  <2>3. run.framework <=> run.input = "source"
    BY <2>1 DEF GraphInv, FilesInv, BeforeCommit
  <2>4. run'.input = "extra" => Done(run.source)'
    BY <2>1, <2>2 DEF Done
  <2>5. run'.pc = "idle" => run'.source = NoFile /\ run'.extra = NoFile
    BY <1>0, <2>1, <2>2, <2>3
  <2> QED
    BY <2>1, <2>4, <2>5 DEF LineInv, Reading, BeforeCommit, Done
<1> QED
  BY <1>1, <1>2, <1>3 DEF Build

LEMMA KeptAll ==
  ASSUME graph' = graph, run'.dropped = run.dropped PROVE Keeps
  BY DEF Keeps

LEMMA LineLoad ==
  ASSUME GraphInv, LineInv, ReadFile \/ LoadAlias \/ AliasesLoaded
  PROVE  LineInv'
<1>0. /\ run \in Runs /\ run.pc \in Reading /\ run.pc \notin {"idle", "end"} /\ Len(Claims) \in Nat
  BY GraphAssumption DEF GraphInv, TypeOK, ReadFile, LoadAlias, AliasesLoaded, Reading
<1>1. /\ graph' = graph /\ temp' = temp /\ UNCHANGED <<run.source, run.extra, run.input, run.dropped>>
      /\ run'.pc \in {"alias", "line"}
  BY <1>0 DEF ReadFile, LoadAlias, AliasesLoaded, Goto, Runs
<1>2. Keeps
  BY <1>1, KeptAll
<1>3. Current' = Current
  BY <1>1 DEF Current
<1>4. run'.input = "extra" => Done(run.source)'
  <2>1. PICK source : source = run.source
    OBVIOUS
  <2> QED
    BY <1>0, <1>1, <1>2, <2>1, DoneFileKept DEF LineInv
<1>5. CASE ReadFile
  <2>1. run'.pc = "alias" /\ run'.claim = 1 /\ run'.rest = Current /\ aliases' = NoAliases
    BY <1>0, <1>5 DEF ReadFile, Current, LineInv, Runs
  <2>2. Current \in Seq(Lines)
    BY <1>0, CurrentType
  <2>3. Through(0)'
    <3>1. /\ Len(Current) = Len(Current) - 0
          /\ \A j \in DOMAIN Current : 0 + j = j
          /\ 1 .. 0 = {}
      BY <2>2
    <3> QED
      BY <1>3, <2>1, <3>1 DEF Through
  <2>4. Loads(graph.entities, [i \in {0} |-> NoAliases], 0)
    BY DEF Loads
  <2>5. 0 \in 0 .. Len(Current') /\ run'.claim - 1 = 0
    BY <1>3, <2>1, <2>2
  <2>6. \E f : Loads(graph'.entities, f, run'.claim - 1) /\ aliases' = f[run'.claim - 1]
    BY <1>1, <2>1, <2>4, <2>5 DEF Loads
  <2> QED
    BY <1>0, <1>1, <1>4, <2>1, <2>3, <2>5, <2>6, StillReading
<1>6. CASE LoadAlias \/ AliasesLoaded
  <2>1. /\ run.pc = "alias" /\ run'.rest = run.rest /\ run.claim \in 1 .. Len(Claims) + 1
    BY <1>0, <1>6 DEF LoadAlias, AliasesLoaded, Goto, Runs, GraphInv, AliasInv
  <2>2. PICK file, rest : file = Current /\ rest = run.rest
    OBVIOUS
  <2>3. PICK k \in 0 .. Len(file) : /\ Len(rest) = Len(file) - k
                                    /\ \A j \in DOMAIN rest : rest[j] = file[k + j]
                                    /\ \A i \in 1 .. k : DoneLine(file[i])
    BY <2>1, <2>2 DEF LineInv, Through
  <2>4. \A i \in 1 .. k : DoneLine(file[i])'
    BY <1>2, <2>3, DoneKept
  <2>5. Through(k)' /\ k \in 0 .. Len(Current')
    BY <1>3, <2>1, <2>2, <2>3, <2>4 DEF Through
  <2>6. PICK f : Loads(graph.entities, f, run.claim - 1) /\ aliases = f[run.claim - 1]
    BY <2>1 DEF LineInv
  <2>7. CASE LoadAlias
    <3>1. PICK n \in Nat : n + 1 = run.claim
      BY <1>0, <2>1
    <3>2. n = run.claim - 1 /\ run'.claim = (n + 1) + 1 /\ run'.pc = "alias"
      BY <1>0, <2>7, <3>1 DEF LoadAlias, Runs
    <3>3. aliases' = AfterClaim(graph.entities, aliases, Claims[n + 1])
      BY <2>7, <3>1 DEF LoadAlias, Claim, AfterClaim
    <3>4. PICK g : Loads(graph.entities, g, n + 1) /\ g[n + 1] = AfterClaim(graph.entities, f[n], Claims[n + 1])
      BY <2>6, <3>2, OneMoreClaim
    <3>5. run'.claim - 1 = n + 1
      BY <3>2
    <3>6. Loads(graph'.entities, g, run'.claim - 1) /\ aliases' = g[run'.claim - 1]
      BY <1>1, <2>6, <3>2, <3>3, <3>4, <3>5
    <3> QED
      BY <1>0, <1>1, <1>4, <2>5, <3>2, <3>6, StillReading
  <2>8. CASE AliasesLoaded
    <3>1. run.claim = Len(Claims) + 1 /\ aliases' = aliases /\ run'.pc = "line"
      BY <1>0, <2>1, <2>8 DEF AliasesLoaded, Goto, Runs
    <3>2. run.claim - 1 = Len(Claims)
      BY <1>0, <3>1
    <3>3. PICK a : a = aliases
      OBVIOUS
    <3>4. Final(a)
      BY <2>6, <3>2, <3>3 DEF Final
    <3>5. Final(aliases)'
      BY <1>2, <3>1, <3>3, <3>4, SameResolution
    <3> QED
      BY <1>0, <1>1, <1>4, <2>5, <3>1, <3>5, StillReading
  <2> QED
    BY <1>6, <2>7, <2>8
<1> QED
  BY <1>5, <1>6

LEMMA LineEdge ==
  ASSUME GraphInv, LineInv, InsertEdge
  PROVE  LineInv'
<1>0. run \in Runs /\ run.pc = "line" /\ graph \in Graphs /\ run.rest # <<>>
  BY WhenReading DEF GraphInv, TypeOK, InsertEdge, AtLine, Reading
<1>1. /\ UNCHANGED <<temp, aliases, run.source, run.extra, run.input, run.dropped, run.rest>>
      /\ run'.pc = "row"
  BY <1>0 DEF InsertEdge, Goto, Runs
<1>2. Keeps
  BY <1>1, Inserted DEF Keeps
<1>3. PICK file, rest, source, a, line :
        file = Current /\ rest = run.rest /\ source = run.source /\ a = aliases /\ line = Head(run.rest)
  OBVIOUS
<1>4. PICK k \in 0 .. Len(file) : /\ Len(rest) = Len(file) - k
                                  /\ \A j \in DOMAIN rest : rest[j] = file[k + j]
                                  /\ \A i \in 1 .. k : DoneLine(file[i])
  BY <1>0, <1>3 DEF LineInv, Through
<1>5. \A i \in 1 .. k : DoneLine(file[i])'
  BY <1>2, <1>4, DoneKept
<1>6. Current' = file
  BY <1>1, <1>3 DEF Current
<1>7. Through(k)' /\ k \in 0 .. Len(Current')
  BY <1>1, <1>3, <1>4, <1>5, <1>6 DEF Through
<1>8. Final(aliases)'
  <2>1. Final(a)
    BY <1>0, <1>3 DEF LineInv
  <2> QED
    BY <1>1, <1>2, <1>3, <2>1, SameResolution
<1>9. run'.input = "extra" => Done(run.source)'
  BY <1>0, <1>1, <1>2, <1>3, DoneFileKept DEF LineInv, Reading
<1>10. EdgeOf(Head(run.rest))' \in graph'.edges
  <2>1. EdgeOf(line) \in graph'.edges
    BY <1>0, <1>3 DEF InsertEdge, Graphs
  <2>2. graph'.entities = graph.entities /\ graph'.fields = graph.fields
    BY <1>2 DEF Keeps
  <2>3. \A w : Entity(w)' = Entity(w)
    BY <1>1, <2>2 DEF Entity
  <2>4. \A q : Field(q)' = Field(q)
    BY <2>2, <2>3 DEF Field
  <2>5. EdgeOf(line)' = EdgeOf(line)
    BY <2>4 DEF EdgeOf, ResolvedFields
  <2> QED
    BY <1>1, <1>3, <2>1, <2>5
<1> QED
  BY <1>0, <1>1, <1>7, <1>8, <1>9, <1>10, StillReading

LEMMA LineEnd ==
  ASSUME GraphInv, LineInv, FileIngested \/ \E stuck \in BOOLEAN : RemoveTemp(stuck)
  PROVE  LineInv'
<1>0. run \in Runs /\ run.input \in {"source", "extra"}
  BY DEF GraphInv, TypeOK, Runs
<1>1. graph' = graph /\ aliases' = aliases /\ run'.dropped = run.dropped
  BY <1>0 DEF FileIngested, RemoveTemp, Goto, Stop, Runs
<1>2. Keeps
  BY <1>1, KeptAll
<1>3. PICK file, source, a : file = Current /\ source = run.source /\ a = aliases
  OBVIOUS
<1>4. CASE FileIngested
  <2>1. /\ run.pc = "line" /\ run.rest = <<>> /\ temp' = temp
        /\ UNCHANGED <<run.source, run.extra, run.input>>
        /\ run'.pc = IF run.input = "source" THEN "end" ELSE "idle"
    BY <1>0, <1>4 DEF FileIngested, Goto, Stop, Runs
  <2>2. PICK k \in 0 .. Len(file) : /\ Len(run.rest) = Len(file) - k
                                    /\ \A i \in 1 .. k : DoneLine(file[i])
    BY <1>3, <2>1 DEF LineInv, Through
  <2>3. Done(file)
    <3>1. file \in Seq(Lines)
      BY <1>3, <2>1, CurrentType DEF Reading
    <3>2. k = Len(file) /\ DOMAIN file = 1 .. Len(file)
      BY <2>1, <2>2, <3>1
    <3> QED
      BY <2>2, <3>2 DEF Done
  <2>4. Done(file)' /\ Final(a)'
    <3>1. Final(a)
      BY <1>3, <2>1 DEF LineInv
    <3> QED
      BY <1>2, <2>3, <3>1, DoneFileKept, SameResolution
  <2>5. CASE run.input = "source"
    <3>1. Done(run.source)' /\ Final(aliases)'
      BY <1>1, <1>3, <2>1, <2>4, <2>5 DEF Current
    <3> QED
      BY <2>1, <2>5, <3>1 DEF LineInv, BeforeCommit
  <2>6. CASE run.input = "extra"
    <3>1. Done(run.extra)' /\ Final(aliases)'
      BY <1>1, <1>3, <2>1, <2>4, <2>6 DEF Current
    <3>2. Done(source)
      BY <1>3, <2>1, <2>6 DEF LineInv, Reading
    <3>3. Done(run.source)'
      BY <1>2, <1>3, <2>1, <3>2, DoneFileKept
    <3> QED
      BY <2>1, <2>6, <3>1, <3>3 DEF LineInv, BeforeCommit, Reading
  <2> QED
    BY <1>0, <2>5, <2>6
<1>5. ASSUME NEW stuck \in BOOLEAN, RemoveTemp(stuck) PROVE LineInv'
  <2>1. /\ run.pc = "end" /\ UNCHANGED <<run.source, run.extra>> /\ run'.input = "extra"
        /\ run'.pc = IF run.extra = NoFile THEN "idle" ELSE "read"
    BY <1>0, <1>5 DEF RemoveTemp, Runs
  <2>2. Done(source) /\ Final(a)
    BY <1>3, <2>1 DEF LineInv
  <2>3. Done(run.source)' /\ Final(aliases)'
    BY <1>1, <1>2, <1>3, <2>1, <2>2, DoneFileKept, SameResolution
  <2>4. run'.pc = "idle" => Done(run.extra)'
    BY <2>1 DEF Done
  <2> QED
    BY <2>1, <2>3, <2>4 DEF LineInv, BeforeCommit
<1> QED
  BY <1>4, <1>5

LEMMA LineStep ==
  ASSUME GraphInv, LineInv, [Next]_vars
  PROVE  LineInv'
<1>1. CASE UNCHANGED vars \/ ChangeDatabase
  <2>1. UNCHANGED <<graph, temp, aliases, run>>
    BY <1>1 DEF vars, ChangeDatabase
  <2>2. Keeps /\ Current' = Current
    BY <2>1 DEF Keeps, Current
  <2>3. PICK file, source, extra, rest, a :
          /\ file = Current /\ source = run.source /\ extra = run.extra /\ rest = run.rest /\ a = aliases
    OBVIOUS
  <2>4. \A k : Through(k) => Through(k)'
    BY <2>1, <2>2, <2>3, DoneKept DEF Through
  <2>5. (Done(run.source) => Done(run.source)') /\ (Done(run.extra) => Done(run.extra)')
    BY <2>1, <2>2, <2>3, DoneFileKept
  <2>6. Final(aliases) => Final(aliases)'
    BY <2>1, <2>2, <2>3, SameResolution
  <2>7. EdgeOf(Head(run.rest))' = EdgeOf(Head(run.rest))
    BY <2>1 DEF EdgeOf, ResolvedFields, Field, Entity
  <2> QED
    BY <2>1, <2>2, <2>4, <2>5, <2>6, <2>7 DEF LineInv
<1> QED
  BY <1>1, FilesChosen, LineBuild, LineLoad, LineEdge, LineEnd, SkipLines DEF Next, Build, Ingest

\* When `semsql extract` says that all is well, each line of the vocabulary
\* files that ingest_vocab_jsonl can resolve in the graph is in it, or was
\* dropped with a warning, for every file, every sequence of claims on the
\* words and every graph: what the second file adds takes nothing away, and
\* loading the aliases anew resolves the first one's lines as before.
THEOREM NoLineIsLost == Spec => []NothingLost
<1>1. Init => LineInv
  <2> SUFFICES ASSUME Init PROVE LineInv
    OBVIOUS
  <2>1. run.pc = "idle" /\ run.outcome = "none"
    BY DEF Init
  <2> QED
    BY <2>1 DEF LineInv, BeforeCommit, Reading
<1>2. LineInv => NothingLost
  <2> SUFFICES ASSUME LineInv, run.pc = "idle", run.outcome = "ok",
                      NEW file \in {run.source, run.extra} \ {NoFile}, NEW i \in DOMAIN file,
                      Grounds(file[i])
               PROVE  Ingested(file[i])
    BY DEF NothingLost
  <2>1. Done(file) /\ Final(aliases)
    BY DEF LineInv
  <2> QED
    BY <2>1, ByTheAliases DEF Done, DoneLine
<1> QED
  BY <1>1, <1>2, LineStep, GraphInvariant, PTL DEF Spec
=============================================================================
