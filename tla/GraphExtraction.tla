--------------------------- MODULE GraphExtraction ---------------------------
(***************************************************************************)
(* `semsql extract`: a source extractor may first write framework          *)
(* vocabulary to a temporary file; the graph file is then removed, made    *)
(* anew and filled from the database in one transaction; and the           *)
(* vocabulary files are ingested, row by row, into the committed graph.    *)
(*                                                                         *)
(* The database is read in three queries and may change between them.  Any *)
(* step may fail and the command may be killed at any step.  One           *)
(* extraction runs at a time.  A row of the vocabulary is its kind and the *)
(* names it grounds; terms, confidences and sample values are left out.    *)
(***************************************************************************)
EXTENDS FiniteSets, Sequences, Functions, Naturals

CONSTANTS
  Tables,          \* tables as the database names them
  Entities,        \* canonical entity names
  FieldNames,
  Unnamed,         \* no canonical name
  CanonOf,         \* the canonical name of a table, or Unnamed
  Databases,       \* [tables, columns, keys]: what the database may hold
  ReferenceNames,  \* owner_reference_field_names, of [entity, field]
  Generic,         \* field names too generic to refer to an owner
  Words,           \* entity names as a vocabulary file spells them
  Claims,          \* <<word, entity>>: the aliases, in the order of loading
  Files,           \* vocabulary files: sequences of lines
  NoFile, NoGraph, \* an absent file, an absent graph file
  MaxChanges       \* bound: changes of the database

Fields == Entities \X FieldNames
Columns == Tables \X FieldNames

\* `tag` is the cardinality of a relationship and the name of a metric.  A
\* "refused" line names an unknown kind, operator, aggregate or scale; a
\* "malformed" one does not parse.
LineKinds == {"entity", "field", "enum_value", "scope_predicate", "relationship",
              "metric", "refused", "malformed"}
Cardinalities == {"many_to_one", "one_to_many", "one_to_one"}
Lines ==
  {line \in [kind : LineKinds, names : Seq(Words), fields : Seq(Words \X FieldNames), tag : STRING] :
     line.kind = "relationship" => Len(line.names) = 2 /\ line.tag \in Cardinalities}

ASSUME GraphAssumption ==
  /\ CanonOf \in [Tables -> Entities \cup {Unnamed}] /\ Unnamed \notin Entities
  /\ Databases \subseteq [tables : SUBSET Tables, columns : SUBSET Columns,
                          keys : SUBSET (Columns \X Columns)]
  /\ Databases # {} /\ IsFiniteSet(Columns)
  /\ ReferenceNames \in [Fields -> SUBSET FieldNames]
  /\ Entities \subseteq Words
  /\ Claims \in Seq(Words \X Entities)
  /\ Files \subseteq Seq(Lines) /\ NoFile \notin Seq(Lines)
  /\ MaxChanges \in Nat

VARIABLES
  db,        \* the source database
  changes,   \* history: how often it changed
  graph,     \* the .semsql file as others see it
  building,  \* what the open transaction would commit
  temp,      \* the temporary vocabulary file of the latest run
  aliases,   \* entity_aliases of the canonical resolver
  run        \* the latest run of the command

vars == <<db, changes, graph, building, temp, aliases, run>>

Empty == [entities |-> {}, fields |-> {}, edges |-> {}, vocabulary |-> {}, metrics |-> {},
          hash |-> <<>>]

Edges == [from : Fields, to : Fields, kind : {"many_to_one", "one_to_one"}]
Row(kind, names, fields) == [kind |-> kind, names |-> names, fields |-> fields]
Rows == [kind : LineKinds, names : Seq(Entities), fields : Seq(Fields)]
Metrics == [name : STRING, names : SUBSET Entities, fields : SUBSET Fields]

\* The tables found, and the number of field rows written.
Hashes == {<<>>} \cup ((SUBSET Tables) \X Nat)

Graphs == [entities : SUBSET Entities, fields : SUBSET Fields, edges : SUBSET Edges,
           vocabulary : SUBSET Rows, metrics : SUBSET Metrics, hash : Hashes]

ASSUME NoGraphAssumption == NoGraph \notin Graphs

Pcs == {"idle", "source", "connect", "open", "tables", "columns", "keys", "commit",
        "read", "alias", "line", "row", "end"}
Outcomes == {"none", "ok", "no source", "no database", "failed", "crashed"}

Runs == [pc : Pcs, framework : BOOLEAN, input : {"source", "extra"},
         source : Seq(Lines) \cup {NoFile}, extra : Seq(Lines) \cup {NoFile},
         rest : Seq(Lines), claim : Nat,
         tables : SUBSET Tables, columns : SUBSET Columns,
         found : Graphs \cup {NoGraph}, dropped : SUBSET Lines,
         stuck : BOOLEAN, outcome : Outcomes]

NoAliases == [w \in Words |-> Unnamed]

Init ==
  /\ db \in Databases /\ changes = 0
  /\ graph = NoGraph /\ building = Empty
  /\ temp = NoFile
  /\ aliases = NoAliases
  /\ run = [pc |-> "idle", framework |-> FALSE, input |-> "extra",
            source |-> NoFile, extra |-> NoFile, rest |-> <<>>, claim |-> 0,
            tables |-> {}, columns |-> {}, found |-> NoGraph, dropped |-> {},
            stuck |-> FALSE, outcome |-> "none"]

ChangeDatabase ==
  /\ changes < MaxChanges
  /\ db' \in Databases /\ db' # db
  /\ changes' = changes + 1
  /\ UNCHANGED <<graph, building, temp, aliases, run>>

Goto(pc) == run' = [run EXCEPT !.pc = pc]
Stop(outcome) == run' = [run EXCEPT !.pc = "idle", !.outcome = outcome]

-----------------------------------------------------------------------------
(* The command up to the removal of the old graph.                         *)

\* `extra` is the file of --vocab-jsonl, NoFile when the option is absent.
Begin(framework, extra) ==
  /\ run.pc = "idle"
  /\ run' = [run EXCEPT !.pc = IF framework THEN "source" ELSE "connect",
               !.framework = framework, !.input = IF framework THEN "source" ELSE "extra",
               !.source = NoFile, !.extra = extra, !.rest = <<>>,
               !.tables = {}, !.columns = {}, !.found = graph, !.dropped = {},
               !.stuck = FALSE, !.outcome = "none"]
  /\ temp' = NoFile
  /\ UNCHANGED <<db, changes, graph, building, aliases>>

SourceExtracted(file) ==
  /\ run.pc = "source"
  /\ temp' = file
  /\ run' = [run EXCEPT !.pc = "connect", !.source = file]
  /\ UNCHANGED <<db, changes, graph, building, aliases>>

\* The removal's own failure is ignored.
SourceFails(file, stuck) ==
  /\ run.pc = "source"
  /\ temp' = IF stuck THEN file ELSE NoFile
  /\ run' = [run EXCEPT !.pc = "idle", !.outcome = "no source", !.stuck = stuck]
  /\ UNCHANGED <<db, changes, graph, building, aliases>>

\* A bug: the old graph is removed first.
RemovedConnectFails ==
  /\ run.pc = "connect"
  /\ graph' = NoGraph
  /\ Stop("no database")
  /\ UNCHANGED <<db, changes, building, temp, aliases>>

\* No connection, descriptions that do not load, or an old graph that
\* cannot be removed.
ConnectFails ==
  /\ run.pc = "connect"
  /\ Stop("no database")
  /\ UNCHANGED <<db, changes, graph, building, temp, aliases>>

RemoveGraph ==
  /\ run.pc = "connect"
  /\ graph' = NoGraph
  /\ run' = [run EXCEPT !.pc = "open", !.found = NoGraph]
  /\ UNCHANGED <<db, changes, building, temp, aliases>>

OpenGraph ==
  /\ run.pc = "open"
  /\ graph' = Empty /\ building' = Empty
  /\ Goto("tables")
  /\ UNCHANGED <<db, changes, temp, aliases>>

-----------------------------------------------------------------------------
(* The transaction that fills the graph from the database.                 *)

EntitiesOf(tables) == {CanonOf[t] : t \in tables} \ {Unnamed}
FieldsOf(columns) == {<<CanonOf[c[1]], c[2]>> : c \in {c \in columns : CanonOf[c[1]] # Unnamed}}

\* A bug: no transaction is open.
ListTablesAtOnce ==
  /\ run.pc = "tables"
  /\ building' = [building EXCEPT
                    !.entities = EntitiesOf(db.tables),
                    !.vocabulary = {Row("entity", <<e>>, <<>>) : e \in EntitiesOf(db.tables)}]
  /\ graph' = building'
  /\ run' = [run EXCEPT !.pc = "columns", !.tables = db.tables]
  /\ UNCHANGED <<db, changes, temp, aliases>>

ListTables ==
  /\ run.pc = "tables"
  /\ building' = [building EXCEPT
                    !.entities = EntitiesOf(db.tables),
                    !.vocabulary = {Row("entity", <<e>>, <<>>) : e \in EntitiesOf(db.tables)}]
  /\ run' = [run EXCEPT !.pc = "columns", !.tables = db.tables]
  /\ UNCHANGED <<db, changes, graph, temp, aliases>>

\* A field refers to its entity: a column of a table listed too late makes
\* the insertion, and the extraction, fail.
ListColumns ==
  /\ run.pc = "columns"
  /\ \A f \in FieldsOf(db.columns) : f[1] \in building.entities
  /\ building' = [building EXCEPT
                    !.fields = FieldsOf(db.columns),
                    !.vocabulary = @ \cup {Row("field", <<>>, <<f>>) : f \in FieldsOf(db.columns)}]
  /\ run' = [run EXCEPT !.pc = "keys", !.columns = db.columns]
  /\ UNCHANGED <<db, changes, graph, temp, aliases>>

Edge(from, to, kind) == [from |-> from, to |-> to, kind |-> kind]

KeyEdges(keys) ==
  {Edge(<<CanonOf[k[1][1]], k[1][2]>>, <<CanonOf[k[2][1]], k[2][2]>>, "many_to_one") :
     k \in {k \in keys : CanonOf[k[1][1]] # Unnamed /\ CanonOf[k[2][1]] # Unnamed}}

\* The columns of other entities that a field named f of e may refer to.
Owners(columns, e, f) ==
  {c \in columns : /\ CanonOf[c[1]] \notin {Unnamed, e}
                   /\ f \in ReferenceNames[<<CanonOf[c[1]], c[2]>>]}

Refers(columns, f, o) ==
  /\ f[2] \notin Generic
  /\ Cardinality(Owners(columns, f[1], f[2])) = 1
  /\ o \in FieldsOf(Owners(columns, f[1], f[2]))

InferredEdges(columns) ==
  LET pairs == FieldsOf(columns) \X FieldsOf(columns) IN
  {Edge(p[1], p[2], "many_to_one") : p \in {p \in pairs : Refers(columns, p[1], p[2])}}

\* Edges refer to entities, not to fields: a key of a column added late
\* gets in.
ListForeignKeys ==
  /\ run.pc = "keys"
  /\ \A edge \in KeyEdges(db.keys) : {edge.from[1], edge.to[1]} \subseteq building.entities
  /\ building' = [building EXCEPT !.edges = KeyEdges(db.keys) \cup InferredEdges(run.columns)]
  /\ Goto("commit")
  /\ UNCHANGED <<db, changes, graph, temp, aliases>>

FieldCount(columns) == Cardinality({c \in columns : CanonOf[c[1]] # Unnamed})

Commit ==
  /\ run.pc = "commit"
  /\ graph' = [building EXCEPT !.hash = <<run.tables, FieldCount(run.columns)>>]
  /\ building' = Empty
  /\ IF run.framework \/ run.extra # NoFile
       THEN Goto("read") ELSE Stop("ok")
  /\ UNCHANGED <<db, changes, temp, aliases>>

\* Any error rolls back; the temporary file stays.
BuildFails ==
  /\ run.pc \in {"open", "tables", "columns", "keys", "commit"}
  /\ building' = Empty
  /\ Stop("failed")
  /\ UNCHANGED <<db, changes, graph, temp, aliases>>

-----------------------------------------------------------------------------
(* ingest_vocab_jsonl, for the temporary file and then for the other one.  *)

ReadFile ==
  /\ run.pc = "read"
  /\ run' = [run EXCEPT !.pc = "alias", !.claim = 1,
               !.rest = IF run.input = "source" THEN temp ELSE run.extra]
  /\ aliases' = NoAliases
  /\ UNCHANGED <<db, changes, graph, building, temp>>

\* A bug: an entity may not repeat its claim.
ClaimOnce(w, e) ==
  [aliases EXCEPT ![w] = IF @ = Unnamed THEN e ELSE Unnamed]

\* insert_entity_alias: a second entity that claims a word takes it from
\* the first; a claim after that gives it away again.
Claim(w, e) ==
  [aliases EXCEPT ![w] = IF @ = Unnamed \/ @ = e THEN e ELSE Unnamed]

LoadAlias ==
  /\ run.pc = "alias" /\ run.claim \in 1 .. Len(Claims)
  /\ LET c == Claims[run.claim] IN
       aliases' = IF c[2] \in graph.entities THEN Claim(c[1], c[2]) ELSE aliases
  /\ run' = [run EXCEPT !.claim = @ + 1]
  /\ UNCHANGED <<db, changes, graph, building, temp>>

AliasesLoaded ==
  /\ run.pc = "alias" /\ run.claim \notin 1 .. Len(Claims)
  /\ Goto("line")
  /\ UNCHANGED <<db, changes, graph, building, temp, aliases>>

\* resolve_entity and resolve_field
Entity(w) == IF w \in graph.entities THEN w ELSE aliases[w]
Field(q) == IF q \in graph.fields THEN q ELSE <<Entity(q[1]), q[2]>>

NamesOf(line) == [i \in DOMAIN line.names |-> Entity(line.names[i])]
ResolvedFields(line) == [i \in DOMAIN line.fields |-> Field(line.fields[i])]

\* A relationship has both join fields, each of its endpoint, or none.
WellJoined(line) ==
  line.kind = "relationship" =>
    \/ line.fields = <<>>
    \/ /\ Len(line.fields) = 2
       /\ \A i \in 1 .. 2 : ResolvedFields(line)[i][1] = NamesOf(line)[i]

\* A bug: fields are not looked up.
GroundsNames(line) ==
  /\ line.kind # "refused"
  /\ \A i \in DOMAIN line.names : NamesOf(line)[i] # Unnamed
  /\ WellJoined(line)

Grounds(line) ==
  /\ line.kind # "refused"
  /\ \A i \in DOMAIN line.names : NamesOf(line)[i] # Unnamed
  /\ \A i \in DOMAIN line.fields : ResolvedFields(line)[i] \in graph.fields
  /\ WellJoined(line)

Joins(line) == line.kind = "relationship" /\ line.fields # <<>>

\* A bug: no edge is turned round.
EdgeAsIs(line) ==
  LET f == ResolvedFields(line) IN Edge(f[1], f[2], line.tag)

EdgeOf(line) ==
  LET f == ResolvedFields(line) IN
  IF line.tag = "one_to_many" THEN Edge(f[2], f[1], "many_to_one")
                              ELSE Edge(f[1], f[2], line.tag)

RowOf(line) ==
  Row(line.kind, NamesOf(line), IF line.kind = "relationship" THEN <<>> ELSE ResolvedFields(line))

\* The required entities are the named ones and those of the fields.
MetricOf(line) ==
  LET fields == {ResolvedFields(line)[i] : i \in DOMAIN line.fields} IN
  [name |-> line.tag, fields |-> fields,
   names |-> {NamesOf(line)[i] : i \in DOMAIN line.names} \cup {f[1] : f \in fields}]

NextLine == [run EXCEPT !.pc = "line", !.rest = Tail(@)]

AtLine == run.pc = "line" /\ run.rest # <<>> /\ Head(run.rest).kind # "malformed"

\* A bug: the first rejected line ends the file.
SkipRest ==
  /\ AtLine /\ ~Grounds(Head(run.rest))
  /\ run' = [run EXCEPT !.rest = <<>>]
  /\ UNCHANGED <<db, changes, graph, building, temp, aliases>>

\* Rejected with a warning.
SkipLine ==
  /\ AtLine /\ ~Grounds(Head(run.rest))
  /\ run' = NextLine
  /\ UNCHANGED <<db, changes, graph, building, temp, aliases>>

InsertEdge ==
  /\ AtLine /\ Grounds(Head(run.rest)) /\ Joins(Head(run.rest))
  /\ graph' = [graph EXCEPT !.edges = @ \cup {EdgeOf(Head(run.rest))}]
  /\ Goto("row")
  /\ UNCHANGED <<db, changes, building, temp, aliases>>

AtRow == \/ run.pc = "row"
         \/ AtLine /\ Grounds(Head(run.rest)) /\ ~Joins(Head(run.rest))

InsertRow ==
  /\ AtRow
  /\ LET line == Head(run.rest) IN
     graph' = IF line.kind = "metric"
       THEN [graph EXCEPT !.metrics = {m \in @ : m.name # line.tag} \cup {MetricOf(line)}]
       ELSE [graph EXCEPT !.vocabulary = @ \cup {RowOf(line)}]
  /\ run' = NextLine
  /\ UNCHANGED <<db, changes, building, temp, aliases>>

\* A row the writer refuses is dropped with a warning.
DropRow ==
  /\ AtRow
  /\ run' = [NextLine EXCEPT !.dropped = @ \cup {Head(run.rest)}]
  /\ UNCHANGED <<db, changes, graph, building, temp, aliases>>

\* The graph or the file cannot be read, a line does not parse, or an edge
\* is not inserted: what earlier lines wrote stays.
IngestFails ==
  /\ \/ run.pc \in {"read", "alias"}
     \/ run.pc = "line" /\ run.rest # <<>> /\ Head(run.rest).kind = "malformed"
     \/ /\ AtLine /\ Grounds(Head(run.rest)) /\ Joins(Head(run.rest))
        /\ EdgeOf(Head(run.rest)) \notin graph.edges
  /\ Stop("failed")
  /\ UNCHANGED <<db, changes, graph, building, temp, aliases>>

FileIngested ==
  /\ run.pc = "line" /\ run.rest = <<>>
  /\ IF run.input = "source" THEN Goto("end") ELSE Stop("ok")
  /\ UNCHANGED <<db, changes, graph, building, temp, aliases>>

RemoveTemp(stuck) ==
  /\ run.pc = "end"
  /\ temp' = IF stuck THEN temp ELSE NoFile
  /\ run' = [run EXCEPT !.pc = IF run.extra = NoFile THEN "idle" ELSE "read",
               !.outcome = IF run.extra = NoFile THEN "ok" ELSE @,
               !.input = "extra", !.stuck = stuck]
  /\ UNCHANGED <<db, changes, graph, building, aliases>>

\* The process is killed: SQLite drops the open transaction.
Crash ==
  /\ run.pc # "idle"
  /\ building' = Empty
  /\ Stop("crashed")
  /\ UNCHANGED <<db, changes, graph, temp, aliases>>

Build == RemoveGraph \/ OpenGraph \/ ListTables \/ ListColumns \/ ListForeignKeys \/ Commit
Ingest == ReadFile \/ LoadAlias \/ AliasesLoaded \/ SkipLine \/ InsertEdge \/ InsertRow
            \/ DropRow \/ IngestFails \/ FileIngested

Next ==
  \/ ChangeDatabase
  \/ \E framework \in BOOLEAN, extra \in Files \cup {NoFile} : Begin(framework, extra)
  \/ \E file \in Files : SourceExtracted(file)
  \/ \E file \in Files, stuck \in BOOLEAN : SourceFails(file, stuck)
  \/ \E stuck \in BOOLEAN : RemoveTemp(stuck)
  \/ ConnectFails \/ Build \/ BuildFails \/ Ingest \/ Crash

Spec == Init /\ [][Next]_vars

-----------------------------------------------------------------------------
(* Properties.                                                             *)

TypeOK ==
  /\ db \in Databases /\ changes \in 0 .. MaxChanges
  /\ graph \in Graphs \cup {NoGraph}
  /\ building \in Graphs
  /\ temp \in Seq(Lines) \cup {NoFile}
  /\ aliases \in [Words -> Entities \cup {Unnamed}]
  /\ run \in Runs

NamesIn(g, names) == \A i \in DOMAIN names : names[i] \in g.entities
FieldsIn(g, fields) == \A i \in DOMAIN fields : fields[i] \in g.fields

\* Whatever the database did between the three queries, and whatever the
\* vocabulary files name, each row of a graph names only entities and
\* fields of that graph.  An edge names entities of it; its fields it need
\* not have.
GroundedGraph(g) ==
  /\ \A f \in g.fields : f[1] \in g.entities
  /\ \A edge \in g.edges : {edge.from[1], edge.to[1]} \subseteq g.entities
  /\ \A row \in g.vocabulary : NamesIn(g, row.names) /\ FieldsIn(g, row.fields)
  /\ \A m \in g.metrics : m.names \subseteq g.entities /\ m.fields \subseteq g.fields

Grounded == graph # NoGraph => GroundedGraph(graph)

Claimants(w) == {e \in graph.entities : <<w, e>> \in Range(Claims)}

\* When lines are read, a word leads at most to an entity of the graph that
\* claims it, and to that one if no other does, although a claim that
\* clashes removes what was there and the next one brings a word back.
AliasesLeadToClaimants ==
  run.pc \in {"line", "row"} =>
    \A w \in Words : /\ aliases[w] \in Claimants(w) \cup {Unnamed}
                     /\ \A e \in Claimants(w) : Claimants(w) = {e} => aliases[w] = e

\* A failure leaves no more behind than it must: a run that found no source
\* extractor or no database leaves the graph as it found it, and the
\* temporary file outlives a run only when its removal failed or a step
\* after the source extractor did.
FailuresLeaveNoTrace ==
  run.pc = "idle" =>
    /\ run.outcome \in {"no source", "no database"} => graph = run.found
    /\ temp # NoFile => run.stuck \/ run.outcome \in {"no database", "failed", "crashed"}

Ingested(line) ==
  /\ Joins(line) => EdgeOf(line) \in graph.edges
  /\ line \in run.dropped \/ IF line.kind = "metric"
                               THEN \E m \in graph.metrics : m.name = line.tag
                               ELSE RowOf(line) \in graph.vocabulary

\* When a run says that all is well, each line of its files that the graph
\* can ground is in the graph, or was dropped with a warning.
NothingLost ==
  run.pc = "idle" /\ run.outcome = "ok" =>
    \A file \in {run.source, run.extra} \ {NoFile} : \A i \in DOMAIN file :
      Grounds(file[i]) => Ingested(file[i])

WholeGraph(g) ==
  /\ g.hash # <<>> /\ g.entities = EntitiesOf(g.hash[1])
  /\ \A e \in g.entities : Row("entity", <<e>>, <<>>) \in g.vocabulary
  /\ \A f \in g.fields : Row("field", <<>>, <<f>>) \in g.vocabulary

\* Others see the graph absent, empty, or whole with its hash, and from
\* then on it only grows, whichever step fails or is killed.
Promise == INSTANCE SemanticGraph WITH WholeGraphs <- {g \in Graphs : WholeGraph(g)}

ImplementsSemanticGraph == Promise!Spec
=============================================================================
