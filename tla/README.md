# db-claw in TLA+

db-claw (the `semsql` command and its packages) turns a question in natural
language into SQL over a graph extracted from a database.  It answers only when
every piece of the query is backed by evidence; otherwise it fails closed and
leaves a packet from which a user can approve a correction, which later queries
use.  These modules model the parts of it where processes, failures or the order
of steps decide whether that promise holds.

- [The system](#the-system) lists its parts, their state and what makes them correct.
- [Modules](#modules) says how state and actions correspond to the code.
- [Runs](#runs) says what TLC checks, within which bounds.
- [Proofs](#proofs) says what TLAPS proves, and from what.
- [What the code does otherwise](#what-the-code-does-otherwise-than-its-documentation) lists four disagreements, and hazards that no run shows.
- [Not modelled](#not-modelled) and [Plan](#plan) say what is left.

Run a check with `tlc -config loop_serial.cfg MCResolutionLoop` and a proof with
`tlapm ResolutionLoopProofs.tla`.

## The system

| Component | State | Operations |
|---|---|---|
| Graph extraction (`semsql-cli/src/extract.rs`, `main.rs`) | the `.semsql` graph, a SQLite file; a temporary vocabulary file | run a source extractor, remove the old graph, build the new one in a transaction, stamp `schema_hash`, add vocabulary from JSONL |
| Graph store (`semsql-graph`) | tables of entities, fields, relationships, vocabulary, metadata | open and migrate, read, sanitised writes |
| Query (`semsql-cli/src/main.rs`, `semsql-runtime/src/lib.rs`) | a rejection packet file | load graph, contract and memory; route; answer, or write a packet |
| Decision gate (`semsql-runtime/src/lib.rs`) | the frame, the bound plan, the decision report of one question | bind, object, promote, decide |
| Join planner (`semsql-runtime/src/lib.rs`) | the plan of one query | find paths to the required entities, glue them, render the joins |
| Resolution (`resolve.rs`, `context.rs`) | `semsql.memory.yaml` | open a packet, approve a mapping, save it, load it beside a graph |
| Web resolver (`resolve.rs`) | one local port, one connection at a time | accept, read, serve the page, save, stop after a save or fifteen minutes |
| npm launcher (`packages/semsql-cli`) | the cached native binary | find, download, verify, publish, spawn |
| Rewriter, second pass | none between calls | inject policies, validate, sanitise, score |
| Pre-resolver, model stages, NatSQL, renderer | none between calls | text to structure to SQL |
| Extractors and their SDK (`packages/extractor-*`) | none between calls | sources to vocabulary records, merged by layer |
| Sheets, evaluation, training, scripts | in memory, or offline | |

**How they interact.** `extract`, `query` and `resolve` are separate processes.
They share three files, the graph, the memory and the packet, and no lock: only
the extraction's own rows are in a transaction.  Each of them opens the graph, and an
open migrates it.  `query` calls the cascade in its own process, and the cascade the
join planner; the launcher starts the binary and passes its exit code on.

**What is hard.** A command reads several files, or one file more than once, while
another replaces them.  Files are written in place, so a crash leaves them
truncated, and a truncated YAML memory parses.  The launcher's downloads run
concurrently over one directory, and its steps fail one by one.  The gate stops
binding half-way and still has to report what blocked it.  An extraction reads a live
database in three queries, and adds vocabulary to a graph that others may already use.
A migration is a series of statements that commit one by one.  The web resolver meets
requests cut into pieces, browsers that leave and a clock.

**What makes each part correct.**

- *Resolution*: only an explicit approval adds to the memory; an approval that was
  reported as saved is there and is used by later queries on the same schema; no
  answer uses an entry of another schema; an approval never breaks loading.
- *Query and packet*: a packet's candidates and its key belong to one graph; what is approved from
  it is forgotten when its target goes.
- *Gate*: SQL is promoted only from a grounded frame; the report names the slots
  that blocked the rest, each once, handed to whoever the decision turns to.
- *Web resolver*: a browser that is told its mapping is saved finds it saved; whole and
  proper requests never end the session with an error; only a client that never reads keeps it open.
- *Extraction*: other processes see no graph, an empty one or a whole one that only
  grows; every row names only what the graph has; what could be grounded is in the graph.
- *Migration*: opens that do not clash lose no committed row; an undisturbed one has the newest schema and every row.
- *Joins*: a tree from the base, by shortest paths, with no table nobody asked for.
- *Launcher*: what is at the cached path is whole and verified at every moment;
  only an unanswered request keeps a call from settling; what a failed one leaves behind has a cause.
- *Rewriter*: each SELECT gets its scope predicate, once.  *Extractor merge*: the
  highest layer wins, and conflicts within it are reported.

## Modules

### The correction loop

`ResolutionMemory` is data only: an entry, merging an approval
(`save_memory_entry`), selecting what participates (`context::load`).  A target
string keeps what the code looks at: the text before and after its separator.
`IsStale` has the code's precedence (an entry's key, else the file's), and
`Loads` fails on one selected entry that does not validate, as `?` does.

`ResolutionLoop` gives the processes.  Each read or write of a shared file is one
step; what a command does in memory belongs to the step before.

| Variable | Code |
|---|---|
| `graph`, `extracting` | the graph file as other processes see it; the extraction's open transaction. `Empty` is the migrated file before the commit |
| `memory`, `packet` | the two files; `Torn` is the file between truncation and write |
| `query[q]` | one `semsql query`: `rows` (what `load_with_context` read first), `text` (the memory it read), `key` (the `schema_hash` it read after that), then candidates or the answer |
| `resolver[r]` | one `semsql resolve`: the packet it opened, the entry, and the merged file it is about to write |
| `approvals`, `saved`, `spent` | history for the properties, and counters for the bounds |

| Actions | Code |
|---|---|
| `ExtractBegin`, `ExtractCommit`, `ExtractAbort` | `run_db_only_with_options`: remove, open, BEGIN; COMMIT; an error or a crash |
| `QueryLoadRows`, `QueryReadMemory`, `QueryReadKey`, `QueryWithoutMemory` | `Cascade::load_with_context`, `context::load` |
| `QueryExecute` | the Ok branch of `cmd_query`; a stale packet is removed if the run was given `--rejection-packet-json`, which is a choice of each run |
| `QueryRefuse`, `QueryWithoutPacket`, `QueryStamp`, `QueryTruncatePacket`, `QueryWritePacket` | the Err branch, without that option and with it; `rejected_query_packet_payload` reads `schema_hash` again |
| `ResolveOpen`, `ResolveMerge`, `ResolveGiveUp`, `ResolveTruncate`, `ResolveWrite` | `read_packet`, `save_memory_entry` up to the write, a cancelled session, `std::fs::write` in its two halves |
| `QueryCrash`, `ResolveCrash` | a process that is killed, or ends with an I/O error, between two steps |

A crash of the extraction before its commit is `ExtractAbort`.

`ApprovalLog` is the abstract specification: a log that changes by one approval at
a time and loses an entry only to a newer approval of the same mapping.
`ImplementsLog` says the loop implements it, with a write taking effect when it
truncates the file (`Contents`).

What a text match decides is a choice: which entry an answer rests on, among those
that match the question's term and whose target the loaded rows have
(`Backs`).  A target whose field is unknown to the rows is never used, as
`runtime_bound_query_plan_from_trace` refuses unknown fields.

### The web resolver

`WebResolver` is the loop of `run_web`, one connection at a time.  `client[c]` is the far end
of a connection, a slot that is used again once the server has closed it, and `fault` records whether
a client or the disk did something the code gives up on.  A request arrives in three pieces
(first line, headers, body), and the server reads what has been sent in any portions.

| Actions | Code |
|---|---|
| `CheckDeadline`, `WouldBlock`, `Accept`, `AcceptFails` | the loop of `run_web`: the clock is looked at before an accept only |
| `Read`, `ReadEnd`, `ReadFails` | `read_http_request` with its two-second timeout, the 64 KiB limit and the end of the stream |
| `Serve`, `ServeFails`, `Malformed` | the routes of `handle_request` that save nothing |
| `SaveRequested`, `Save`, `SaveFails`, `Confirm`, `ConfirmFails` | the route that saves: body, `save_memory_entry`, `write_http` |
| `Connect`, `Send`, `Leave`, `TimePasses`, `Cancel` | browsers, the clock, Ctrl+C |

`Save` is one step here: its two halves, and the other processes between them, are
`ResolveMerge`, `ResolveTruncate` and `ResolveWrite` of the loop.  `ApprovalSession` is
the abstract session (at most one approval, saved before a good end, none before a timeout), and
`ImplementsSession` says that the server implements it.

### The graph extraction

`GraphExtraction` is `semsql extract` from the source extractor to the last vocabulary
line, over a database that may change between the queries for tables, columns and keys.

| Variable | Code |
|---|---|
| `db`, `changes` | the source database, and how often it changed |
| `graph`, `building` | the file as others see it, and what the open transaction would commit |
| `temp` | the temporary file of framework vocabulary |
| `aliases` | `entity_aliases` of the canonical resolver |
| `run` | the command: where it is, its options and inputs, what it has read, how it ended |

| Actions | Code |
|---|---|
| `Begin`, `SourceExtracted`, `SourceFails`, `RemoveTemp` | `cmd_extract`: the framework extractor and its file |
| `ConnectFails`, `RemoveGraph`, `OpenGraph` | `run_db_only_with_options` up to the transaction |
| `ListTables`, `ListColumns`, `ListForeignKeys`, `Commit`, `BuildFails` | the transaction, with inferred relationships and the hash |
| `ReadFile`, `LoadAlias`, `AliasesLoaded` | the start of `ingest_vocab_jsonl`; `insert_entity_alias` |
| `SkipLine`, `InsertEdge`, `InsertRow`, `DropRow`, `IngestFails`, `FileIngested` | one line of vocabulary: rejected with a warning, written, or an error |
| `Crash`, `ChangeDatabase` | a kill anywhere; the database's own life |

A row is its kind and the names it grounds.  How a database name becomes a canonical one, and
which field names refer to an owner, are constants.  `SemanticGraph` is the abstract file:
cleared, published at once, then enriched; `ImplementsSemanticGraph` shows it through every failure.

### Opening a graph

`GraphMigration` is `semsql_graph::open` as each process runs it, one SQL statement a step:
`CreateVocabulary` and `IndexVocabulary` (the schema of version 1), `ReadVersion`, `VersionUnread` and `NewerGraph`,
`CreateCopy`, `CopyRows`, `DropVocabulary`, `RenameCopy` and `Reindex` (version 2), `CreateMetrics`, `Probe`,
`AddColumn` and `ColumnRefused` (versions 3 to 5), `Stamp`; then `Write` for a writer's transaction,
`Fault` for a statement that fails and `Leave` for a process that is killed or closes the file.
A version that cannot be read or parsed does not fail the open: it counts as 0, and `VersionUnread`
sends the process through version 2 again, on whatever graph, a newer one included.
`version`, `vocabulary`, `vocabulary2` and `metrics` are the file, `proc[o]` the process; `saved`,
`shared` and `mishaps` are history.  A mishap is what can befall a rewriting of the vocabulary:

- `company`: another process had the file open while it went on;
- `clash`: two of them had both taken their copy, or a writer committed between a copy and its drop;
- `cut`: it ended between its drop and its rename, in a graph whose version says it is migrated.  The rows
  then stay in `vocabulary_v2`, which no later open of that graph reads.

`RowsSurvive` says that only a clash can lose a row, `OpensWhole` that without company and cuts every
open file is whole.

### The joins of a query

`JoinPlan` is `graph_join_plan` and `graph_join_plan_from_base` with their breadth-first search, then
`graph_render_joins`.  `task` is the query (base, required entities, relationships, scores),
`todo`, `target`, `joined`, `queue`, `seen`, `here` and `next` the variables of the functions, `plan` the
steps found, `scope` and `joins` the rendered FROM clause.  The search's steps are `Search`, `QueueStart`, `Expand`,
`QueueNeighbor`, `Expanded`, `Found`, `NotFound`; the plan's `SkipTarget`, `AddStep`, `Added`, `Planned`; the renderer's
`RenderStep`, `RenderFails`, `Rendered`.  How well an edge fits the question's words is a parameter, and
no property depends on it.  `JoinTree` is the abstract specification: each join adds one new table over a
relationship with a table already there.

### The binary cache

`BinaryCache` models `ensureSemsqlBinary` and `downloadBytes`.  `name` maps each
path to a file and `content` each file to its bytes, because an open file is
written whatever happens to its name.  `call[c]` is one call.  The steps are the
awaits of the code: `CallCached`, `CallMisses` (the test of `existsSync`), `Redirected`,
`FetchFails`, `ResponseBreaksOff`, `ManifestArrives`, `BodyArrives` (both checks), `OpenTemp`, `OpenFails`,
`WriteBody` and `WriteFails` (`mkdir` and `writeFile`), `Chmod` and `ChmodFails` (outside the try block, so that
nothing is removed), `Rename`, `RenameFails`, `Cleanup` and `CleanupFails` (the catch block).
`Crash` ends a process with all its calls, `Exit` one that only waits for a promise nothing will settle.

### The decision gate

`DecisionGate` follows one question.  The router (`graph_query_frame_trace_with_vocab`)
leaves a frame: here a choice among the frames it can leave.  `BindStart`,
`BindPredicate`, `BindJoin` and `BindOrder` bind one piece per step and stop at the
first they cannot bind; `Object` and `Accept` are the semantic objections;
`Promote`, `FailClosed` and `ModelStages` the gate in `run_with_options`; `Decide` computes
strengths, the effective reason, the decision and the unresolved slots.  A piece is
what the binder tells apart: a predicate with evidence, with none, on an unknown field,
with an unsupported operator, on a date; a join some relationship backs or not.
Scores are percentages with the code's thresholds (0.70 weak, 0.45 for asking the user,
0.25 for asking the model).  Reasons are the code's own strings, because the code
compares and searches them.

## Runs

| Run | Question | Shows |
|---|---|---|
| `loop_concurrent` | a query, two resolvers and an extraction, interleaved | `OnlyApprovedMemory`, `AnswersUseFreshMemory`, `DriftDetected`, `TypeOK` |
| `loop_serial` | one resolver at a time, a command dies anywhere, the graph is replaced meanwhile | `ApprovalsSurvive`, `ReusedOnLaterQueries`, `FailureIsHandWritten`, `ImplementsLog` |
| `web_resolver` | browsers that connect, send in pieces and leave, the disk, the clock | `ToldMeansSaved`, `ErrorsHaveACause`, `ImplementsSession`, `SessionEnds`, `TypeOK` |
| `graph_extraction` | extractions that fail or die anywhere, over a changing database | `Grounded`, `AliasesLeadToClaimants`, `FailuresLeaveNoTrace`, `NothingLost`, `ImplementsSemanticGraph`, `TypeOK` |
| `graph_migration` | three processes open files of every release, whose version may go unread | `OpensWhole`, `RowsSurvive`, `TypeOK` |
| `join_plan` | every graph on five entities, every required set, both planners | `ShortestPaths`, `RefusedWithCause`, `NoUselessJoin`, `ImplementsJoinTree`, `TypeOK` |
| `binary_cache` | two processes install at once, with failures, redirects and two crashes | `CachedIsVerified`, `ReturnedCanBeLaunched`, `TempIsTransient`, `CacheReplacedWhole`, `EveryCallSettles`, `TypeOK` |
| `decision_gate` | every frame through binder, gate and report | `OnlyGroundedSql`, `ExecuteLeavesNothingUnresolved`, `HandoffFollowsDecision`, `MissingEvidenceIsOffered`, `ReasonHasItsSlot`, `TypeOK` |
| `lost_update`, `migration_race`, `poisoned`, `stale_approval` | what the documentation says, against the code | each finds a counterexample, see below |

**Bounds of the loop.** Two schemas, the second with one table renamed, give a graph, its
replacement and a target that goes, and their hashes differ; three fields and one value give every kind
of target.  `MaxExtracts` = 1 is enough for a replacement before, during and after
each other command; two approvals are the fewest that can overwrite one another or
name the same mapping twice; one crash reaches each point between two
steps of one command, and later commands meet what it left.  The memory starts
with a governed alias without a key, a provisional entry out of range and, in
`loop_serial`, a confirmed entry of another schema that would not validate.  The
resolvers of `loop_concurrent` are symmetric; no property of that run is temporal.

**Bounds of the cache.** Two callers, each in a process of its own; a good body, one of
the same size and one too short; manifests with and without the optional size;
files enough for every open to find one; two crashes, so that a process can die,
come back and die again.  The redirect limit is the code's 5.

**Bounds of the web resolver.** Two connections at a time, each reused without limit, so that one is
served while the other waits, leaves or lies open unused; eight requests, of each path, body and
form; two mappings, so that a second save would show.  The process ends, so deadlock is not checked there.

**Bounds of the extraction.** Three databases (two tables that claim one word, one table in two schemas, a
table without a canonical name, with and without foreign keys) and two changes, so that each
pair of queries can see different ones; three files with a line of each kind, as source
and as extra file; any number of runs one after the other.

**Bounds of the migration.** A new file and files of every release, newer ones included; two rows; three processes,
so that two can interfere while a third comes late; any version may go unread, at any open.  `migration_race`
needs two processes and takes every version as it is (`ReadableSpec`), so that what it shows is the race of two
ordinary opens of a version 1 graph.

**Bounds of the joins.** All graphs on five entities, where one pair can have two
relationships and one entity a loop; a path can then have four steps, and two paths can share a part
and enter an entity from two sides.  A planner ends in a step that repeats, and deadlock is checked.

**Bounds of the gate.** Two predicates and one join per routed frame: a binder
that stops has something before and something after the piece it stops at.
The limit of predicates the generic router takes is the code's 3.  The gate stops when
it has reported, so deadlock is not checked there.  In all other runs it is.

**Fairness.** `WebResolver` states weak fairness of the server's thread and of the clock, and
nothing of clients.  A read of a silent connection ends after two seconds; a write has no timeout
(`write_http`, `resolve.rs:532-541`), so a response is only sure to end once its client is gone.  `SessionEnds` therefore
has one exception, `StuckInWrite`: a client that stays for ever without reading keeps the command past its deadline.
`ErrorsHaveACause` is stated for systems on which an accepted socket waits, such as Linux; where it inherits the
listener's non-blocking mode (macOS, Windows) the two seconds do not apply, and a slow sender counts as the cause.

`BinaryCache` states weak fairness of a call's publishing steps, that is, Node runs a continuation that is
ready.  Nothing is assumed of servers: `downloadBytes` sets no timeout, and listens for `data` and `end` only.
`EveryCallSettles` therefore has one exception, `Unanswered`: one and the same request of the call is pending
or broken off from some moment on.  Neither failing file operations nor redirects keep a call from ending.

The commands of the loop are started by people, and no liveness is claimed for them; `ReusedOnLaterQueries`
is stated as safety, of a query that has loaded.

## Proofs

| Theorem | Says, for every value of the constants |
|---|---|
| `Typing` | `Spec => []TypeOK` of `ResolutionLoop` |
| `MemoryIsApproved` | `Spec => []OnlyApprovedMemory` |
| `AnswersAreFresh` | `Spec => []AnswersUseFreshMemory` |
| `DriftIsDetected` | `Spec => []DriftDetected` |
| `FailuresAreHandWritten` | `FreeTargetsParse` gives `Spec => []FailureIsHandWritten` |
| `SavesSurvive`, `SavesAreReused` | `OneResolver` gives `ApprovalsSurvive`, `ReusedOnLaterQueries` |
| `LogIsImplemented` | `OneResolver` gives `Spec => ImplementsLog` |
| `WebTyping`, `ToldIsSaved`, `ErrorsAreCaused` | `TypeOK`, `ToldMeansSaved`, `ErrorsHaveACause` of `WebResolver` |
| `SessionIsImplemented` | `WebResolver` implements `ApprovalSession` |
| `GraphTyping`, `RowsAreGrounded`, `WordsLeadToClaimants`, `FailuresAreClean` | `TypeOK`, `Grounded`, `AliasesLeadToClaimants`, `FailuresLeaveNoTrace` of `GraphExtraction` |
| `NoLineIsLost` | `Spec => []NothingLost`, for every file and sequence of claims |
| `SemanticGraphIsImplemented` | `GraphExtraction` implements `SemanticGraph` |
| `MigrationTyping`, `RowsAreKept`, `OpensAreWhole` | `TypeOK`, `RowsSurvive`, `OpensWhole` of `GraphMigration`, for any number of processes and rows |
| `JoinTyping`, `RefusalsHaveACause` | `TypeOK`, `RefusedWithCause` of `JoinPlan`, for graphs of any size |
| `PathsAreShortest`, `JoinsAreUseful` | `ShortestPaths`, `NoUselessJoin` of `JoinPlan`, for graphs of any size |
| `JoinTreeIsImplemented` | `JoinPlan` implements `JoinTree` |
| `CacheTyping`, `CacheIsVerified`, `ReturnedIsGood`, `TempsAreTransient`, `CachedIsUntouched` | `OneCallPerProcess` gives `TypeOK`, `CachedIsVerified`, `ReturnedCanBeLaunched`, `TempIsTransient`, `CacheReplacedWhole` |
| `PromotedIsGrounded` | `Spec => []OnlyGroundedSql` of `DecisionGate`, for frames of any length |
| `ExecutableIsResolved`, `HandoffIsTheDecisions`, `RefusedValueIsOffered`, `ReasonIsListed` | `ExecuteLeavesNothingUnresolved`, `HandoffFollowsDecision`, `MissingEvidenceIsOffered`, `ReasonHasItsSlot` of `DecisionGate` |
| `GateTyping` | `Spec => []TypeOK` of `DecisionGate` |

They use the assumptions the modules state about their constants, and the three named
here.  `OneCallPerProcess` says that each process makes one call of `ensureSemsqlBinary` at a
time, as the launcher does: two calls in one process share a temporary path, and the one
that renames it can publish a file the other is still writing.  `OneResolver` (no two `semsql resolve` at a time) is
what `lost_update` refutes `SavesSurvive` without, and `FreeTargetsParse` (a relationship typed by hand has
the form the loader parses) what `poisoned` refutes `FailuresAreHandWritten` without.

Of the schema hash, `HashAssumption` says what `compute_schema_hash` covers (`extract.rs:2252`): schemas
with one hash have the same table names and as many fields.  From this alone, `DriftIsDetected` has every
table of an approved target in the graph of a query that uses it, if the packet took its rows and its hash from one graph.
It says nothing of a renamed column, which the hash does not see, and nothing of a packet that was stamped
later than it was filled, which is the run `stale_approval`.

**The loop.** `TypeInv` strengthens `TypeOK` with what a resolver holds at each step
(a session holds a packet, a merge an entry and a file).  `Provenance` is the invariant the
safety theorems need: `OnlyApprovedMemory` speaks of the memory file only, but a
resolver writes back a copy it merged earlier and a query answers from a copy it
read earlier, so each copy has to be backed by approvals too (`CopiesBacked`); each approval
carries its packet's key (`ApprovalsKeyed`); and the entry of an answer was selected
from a backed copy (`UsesBacked`).  Approvals are never withdrawn, so backing is preserved
by every step that copies.

`LoadInv` follows what may be approved: a packet's offers are relationships of the graph or of entries that were
loaded, so they parse, and every approval therefore validates when it is loaded.
`SaveInv` says what one resolver keeps from its read to its write: the file it is about to write has every entry
that is saved and not superseded, the file it read is the one on disk, and between truncation and write the file
is torn.  `ReadInv` carries this to a query that began after a save: the memory it has read still has
the saved entry.  With `SaveInv` the refinement of `ApprovalLog` is one case per step: a write takes effect
when it truncates, a crash in between empties the log, and everything else stutters.

**The cache.** `CacheInv` says that no temporary file is the cached one, that files
being written belong to one call, under its own temporary name, and that a call past its
write has a verified file under that name.  With one call per process a rename
then moves exactly the file its caller verified.  Without these, `CachedIsVerified`
is not inductive: a step could rename any file.

Temporary files are transient because each belongs to a call that has opened it
(`TempInv`), the wait before the open not counting.

**The web resolver.** `SavedLast` says that nothing is approved before the step that confirms it, and that
the one mapping approved then is the served request's, valid and in the memory; this gives
`ToldMeansSaved` and the refinement.  `Blameless` says that as long as nothing has gone wrong no connection is left, all
requests are proper and one that is handled was read to its end; without it `ErrorsHaveACause` is
not inductive, because a request read in part could be handled.

**The extraction.** `Grounded` is strengthened to the transaction's own graph (`building`), whose fields and edges are
checked against entities listed a query earlier, and to the alias map, which must lead into the
graph while lines are read.  `AliasInv` follows the claims in their order: after each, a word is free,
or held by an entity that claimed it, and held by its claimant if there was one only.  The refinement needs that the
open transaction starts from an empty graph that nobody else has touched.

`NothingLost` speaks of the end of a run and of its aliases then, whereas each line was resolved
earlier, with aliases that were loaded anew for the second file.  `Final` says which aliases a run reads
every file with, those all claims lead to, in their order, from none; they are unique and depend only on the
entities, which ingestion leaves alone.  `LineInv` then says that the lines taken so far are done under `Final`
(`DoneLine`), the first file wholly before the second is begun, and `Keeps` that no step takes back what they need: edges, rows and
metric names only grow.

**The migration.** There are two invariants, one per promise.  `RowsInv` holds as long as no two rewritings
have clashed: at most one process is between its copy and its rename, and at the drop its copy has every row of the
vocabulary; so the drop loses nothing, whatever else is killed, fails, has company or takes a current graph for one without a version.
`MigrationInv` holds as long as no rewriting had company or was cut short: the two tables together hold every row, the
copy all of them when the table is dropped, and `vocabulary` alone once the graph is migrated and nobody rewrites it; a
process inside a rewriting is alone; which columns a process at a statement may count on; and that processes that overlap are
recorded as sharing, without which a refused column would have no cause.

**The joins.** The queue's paths are chains from a start over relationships (so the renderer always
finds one side of a step in scope), each required entity that is done is joined, and an exhausted
search leaves `seen` closed under the relationships, which is the witness of a refusal.

`ShortestPaths` needs the levels of the search (`LevelInv`): lengths in the queue are sorted and differ by one at most, all entities nearer than
the head's length were seen, and a queued entity is not in a nearer ball.  `NoUselessJoin` is harder for the planner that starts
every search from the base: two searches may reach one entity twice, and only if they reach it by the
same path do the glued joins form a tree.  They do because ties are broken the same way each time.  `Before` orders paths as the search
queues them; `Canonical` is the first shortest path to an entity in this order, and there is one at most.
`GeodesicInv` says that queued paths are shortest, `OrderInv` that the queue is sorted by `Before` and that a path that is not canonical
comes behind another to its entity, so that the one taken for the target is canonical.  A prefix of a canonical path is canonical, so all chosen steps are of one tree (`TreeInv`).
The search's queue is unbounded and so are the paths: where an argument goes by the length of a path, it is
`SetInduction`, which derives induction over the naturals for a set from the well-foundedness of `<`.

**The gate.** `GateInv` says at each stage which prefix of the frame has been bound
(`StageInv`), that a bound prefix consists of pieces with evidence, and that a valid
plan is the complete frame.  The prefix argument is what makes the theorem hold for any length,
where TLC's run stops at two predicates and one join.

The report (`GateReportProofs`) needs more of the frame and the plan than the gate does, which `ShapeInv`
adds: a routed frame's reason is `routed` and its joins are there if it requires several
entities, no frame blames missing evidence itself, a plan past its projections has them bound, and a plan refused for want
of evidence holds the predicate that has none.  A valid plan then has every strength at 100; and
a forced slot is added only under a name no weak slot has, so that names and slots are in bijection.

The gate's typing has the strengths of a report to bound: each stays between 0 and 100 through the minima and caps that
`Strength` takes, and candidates are a family and a place in the frame.

**Only model-checked.** Liveness: `EveryCallSettles` and `SessionEnds`, which rest on fairness and with it on `ENABLED`, out of the
prover's reach.  Every other property of a passing run is a theorem.  Recursive definitions are proved about
only through invariants and `SetInduction`; the library's induction theorems, which take a predicate, are not used.

## What the code does otherwise than its documentation

1. *Lost approval* (`lost_update`, `ApprovalsSurvive`). `save_memory_entry` reads the whole
   file and writes it back without a lock.  Of two approvals saved at the same time one is gone,
   after both commands said it was saved.  `docs/ARCHITECTURE.md:80`: "`semsql resolve` records
   an explicit user approval with provenance".
2. *Lost vocabulary* (`migration_race`, `NoRowIsLost`). Version 2 copies `vocabulary`, drops it and renames the
   copy, in statements that commit by themselves.  When two processes open a graph of version 1, the
   second DROP can come after the first RENAME and drop the renamed copy.  Readers migrate too.
   `semsql-graph/src/lib.rs:39`: "Migrations are additive only".
3. *An approval that breaks loading* (`poisoned`, `FailureIsHandWritten`). `validate_mapping` accepts
   a relationship `a->b` that `parse_relationship_target` rejects, and then no query
   with that memory loads.  `README.md:95`: "approved corrections are drift-keyed and reused on later queries".
4. *An approval for another graph* (`stale_approval`, `DriftMakesStale`). A packet's candidates come from the graph
   the query loaded, its `schema_hash` from the graph as it is afterwards (`main.rs:905`).  When an extraction replaces the graph in
   between, the approval is keyed to the new graph, and later queries use it although its target is gone.
   `docs/results/v02-app-context-first-direction-v1.md:16`: "drift makes learned facts stale."

Further hazards show in the modules, but no run is spent on them:

- If the extraction has emptied the graph when the packet is stamped, the packet has no hash, and the
  approval no key (`resolve.rs:391-394`): it is never stale.
- `compute_schema_hash` (`extract.rs:2252`) covers counts and table names, so an entry for a renamed column stays fresh.
- Two calls of `ensureSemsqlBinary` in one process share a temporary path (`downloader.ts:140`);
  `OneCallPerProcess` is the assumption this breaks.  The launcher makes one call; other users of the exported
  function may not.
- A version that goes unread in a current graph (`semsql-graph/src/lib.rs:46-54`) makes its vocabulary be rewritten beside
  readers, and lost to every later open if the process ends between DROP and RENAME: the mishaps of `GraphMigration`.
- The date strength searches the reason for "date" (`semsql-runtime/src/lib.rs:3462`) and finds it in
  `missing_value_candidate`, so a question without any date gets a weak `date_time` slot.
- A packet outlives the answer to its question when that run was not given `--rejection-packet-json`.

## Not modelled

- *Text.* Most of the repository's lines, and nearly all of `semsql-runtime/src/lib.rs`, match phrases, score
  candidates, infer with models or parse and print SQL.  They keep no state between calls, and a
  TLA+ definition of them would repeat them.  The modules have a choice of outcome in their place, so
  that what is claimed holds whatever they decide; the share of lines that is modelled is small for this reason.
- The rewriter's policy injection and the second pass: pure functions over one query; what is hard in them is
  reading SQL.  The merge of vocabulary records in the extractor SDK: in memory, in one process.
- Of the extraction: sample values, descriptions, PII marks, enum values and units, and two
  extractions of one file at the same time.
- Of the graph store: conflict rows, enum columns and the readers' fallbacks for old files.
- Of the loop: the semantic contract file, which is read once and never written by the program; the memory file
  disappearing or being edited by hand during a run; a write of it that stops in its middle (a full
  disk).  The model has the file whole, absent or empty, and the empty file parses, because every field of the
  document has a default.
- Of the joins: the repair of joins in generated SQL (`inject_join_if_needed` and its kin), which runs only with diagnostic inputs.
- Evaluation, training, release scripts, demos: not part of the deployed system.

## Plan

Done: the loop, the web resolver, the extraction, the migration, the joins, the cache, the gate, each with its
proofs.  What could follow, in order of importance:

1. Partly written memory files: a prefix of the YAML that still parses can end before an entry's
   `drift_key`, and the entry then takes the key of the file.
2. Two extractions of one file at the same time, over the migration's statements.
3. Two queries at a time over the one packet file: the modules allow it and no run has it.  Which packet stays, and
   what a `resolve` that opens it then approves, would be the question.
