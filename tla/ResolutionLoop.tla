--------------------------- MODULE ResolutionLoop ---------------------------
(***************************************************************************)
(* The correction loop of the CLI: `semsql extract` replaces the graph,    *)
(* `semsql query` loads graph and memory, answers or leaves a rejection    *)
(* packet, `semsql resolve` turns one approval over a packet into an entry *)
(* of the memory file, and later queries load that entry.                  *)
(*                                                                         *)
(* The commands are separate processes that share three files and no lock. *)
(* Each read or write of a shared file is a step of its own (the row       *)
(* queries of one graph load are one); what a command does between two of  *)
(* them belongs to the step before.                                        *)
(***************************************************************************)
EXTENDS ResolutionMemory, Naturals

CONSTANTS
  Queriers, Resolvers,  \* processes running `query`, `resolve`
  Schemas,              \* what an extraction may find in the database
  HashOf, FieldsOf, JoinsOf,  \* functions on Schemas: compute_schema_hash,
                              \* the fields, the relationships
  Tables, TableOf, TablesOf,  \* the table of a field, the tables of a schema
  Values,               \* names used as filter values
  HandWritten,          \* entries of the memory file before the first save
  FirstMemory,          \* the memory file before the first save, or NoFile
  Slots,                \* the kinds of slot a question can leave unresolved
  FreeTargets,          \* [kind, target] choices a user types by hand
  Empty,                \* a graph file with tables and no row
  NoFile, Torn,         \* an absent file; a file truncated and not rewritten
  NoEntry,
  MaxExtracts, MaxApprovals, MaxCrashes   \* bounds of a check

Choices == [kind : Kinds, target : Targets]

ASSUME LoopAssumption ==
  /\ HashOf \in [Schemas -> Hashes]
  /\ FieldsOf \in [Schemas -> SUBSET FieldNames]
  /\ JoinsOf \in [Schemas -> SUBSET {Pair(a, "->", b) : a \in FieldNames, b \in FieldNames}]
  /\ TableOf \in [FieldNames -> Tables]
  /\ TablesOf \in [Schemas -> SUBSET Tables]
  /\ \A s \in Schemas : {TableOf[f] : f \in FieldsOf[s]} \subseteq TablesOf[s]
  /\ Values \subseteq Names
  /\ Slots \subseteq {"projection", "filter_value", "join_path"}
  /\ HandWritten \subseteq Entries
  /\ FreeTargets \subseteq Choices
  /\ Empty \notin Schemas
  /\ NoFile # Torn
  /\ NoEntry \notin Entries
  /\ MaxExtracts \in Nat /\ MaxApprovals \in Nat /\ MaxCrashes \in Nat

\* What compute_schema_hash covers: the names of the tables and how many
\* fields there are, never their names (and 64 bits that do not collide).
ASSUME HashAssumption ==
  \A s, u \in Schemas : HashOf[s] = HashOf[u] =>
    TablesOf[s] = TablesOf[u] /\ Cardinality(FieldsOf[s]) = Cardinality(FieldsOf[u])

ASSUME FirstMemoryAssumption ==
  \/ FirstMemory = NoFile /\ HandWritten = {}
  \/ FirstMemory \in Memories /\ FirstMemory.entries = HandWritten

VARIABLES
  graph,       \* the .semsql file
  extracting,  \* an extraction holds its write transaction
  memory,      \* the resolution-memory file
  packet,      \* the rejection packet file
  query,       \* the run of each querier
  resolver,    \* the run of each resolver
  approvals,   \* history: each approved entry with its packet's rows and key
  saved,       \* history: the entries saved, and not lost in a crash since
  spent        \* history: extractions begun and crashes suffered

vars == <<graph, extracting, memory, packet, query, resolver, approvals, saved, spent>>

Graphs == Schemas \cup {Empty}
Key(g) == IF g = Empty THEN NoKey ELSE HashOf[g]
Fields(g) == IF g = Empty THEN {} ELSE FieldsOf[g]
TablesIn(g) == IF g = Empty THEN {} ELSE TablesOf[g]
Joins(g) == IF g = Empty THEN {} ELSE JoinsOf[g]

MemoryFile == Memories \cup {NoFile, Torn}

\* `rows` is the graph the candidates were computed from, `key` the
\* schema_hash written beside them.
Packets == [term : Terms, rows : Graphs, key : Keys, offers : SUBSET Choices]
PacketFile == Packets \cup {NoFile, Torn}

ASSUME FileAssumption ==
  \A file \in {NoFile, Torn} : file \notin Packets /\ file \notin Memories

QueryPcs == {"idle", "rows", "text", "loaded", "refused", "stamped", "truncated",
             "executed", "failed"}

QueryRuns == [pc : QueryPcs, term : Terms, rows : Graphs, text : MemoryFile, key : Keys,
              offers : SUBSET Choices, used : Entries \cup {NoEntry}, known : SUBSET Entries]

ResolverPcs == {"idle", "session", "merged", "truncated"}
ResolverRuns == [pc : ResolverPcs, packet : PacketFile, entry : Entries \cup {NoEntry},
                 merged : MemoryFile]

IdleResolver == [pc |-> "idle", packet |-> NoFile, entry |-> NoEntry, merged |-> NoFile]

IdleQuery(t) == [pc |-> "idle", term |-> t, rows |-> Empty, text |-> NoFile, key |-> NoKey,
                 offers |-> {}, used |-> NoEntry, known |-> {}]

\* A truncated file is an empty document, which parses to the default, and
\* a query run without --resolution-memory has no entries either.
Parsed(file) == IF file \in {NoFile, Torn} THEN DefaultMemory ELSE file

Overlay(q) == Selected(Parsed(query[q].text), query[q].key)

Init ==
  /\ graph \in Schemas
  /\ extracting = FALSE
  /\ memory = FirstMemory
  /\ packet = NoFile
  /\ query \in [Queriers -> {IdleQuery(t) : t \in Terms}]
  /\ resolver = [r \in Resolvers |-> IdleResolver]
  /\ approvals = {}
  /\ saved = {}
  /\ spent = [extracts |-> 0, crashes |-> 0]

---------------------------------------------------------------------------
(* semsql extract                                                          *)

\* The previous graph is removed and a new one opened and migrated before
\* the write transaction begins; until it commits, others see no rows.
ExtractBegin ==
  /\ ~extracting
  /\ spent.extracts < MaxExtracts
  /\ extracting' = TRUE
  /\ graph' = Empty
  /\ spent' = [spent EXCEPT !.extracts = @ + 1]
  /\ UNCHANGED <<memory, packet, query, resolver, approvals, saved>>

ExtractCommit ==
  /\ extracting
  /\ extracting' = FALSE
  /\ graph' \in Schemas
  /\ UNCHANGED <<memory, packet, query, resolver, approvals, saved, spent>>

\* An introspection error or a crash rolls the transaction back.
ExtractAbort ==
  /\ extracting
  /\ extracting' = FALSE
  /\ UNCHANGED <<graph, memory, packet, query, resolver, approvals, saved, spent>>

---------------------------------------------------------------------------
(* semsql query                                                            *)

\* The fields a target is about.
Named(t) == {t.left} \cup (IF t.sep = "->" THEN {t.right} ELSE {})

Present(g, t) == Named(t) \subseteq Fields(g)

\* The candidates of an unresolved slot, with the kind `resolve` suggests
\* for it.  Approved relationships are merged into the graph's.
OffersOf(slot, g, overlay) ==
  CASE slot = "projection" ->
         [kind : {"field"}, target : {Plain(f) : f \in Fields(g)}]
    [] slot = "filter_value" ->
         [kind : {"enum_value"}, target : {Pair(f, "=", v) : f \in Fields(g), v \in Values}]
    [] slot = "join_path" ->
         [kind : {"relationship"},
          target : Joins(g) \cup {e.target : e \in {x \in overlay : x.kind = "relationship"}}]

\* load_with_context: the rows first ...
QueryLoadRows(q) ==
  /\ query[q].pc \in {"idle", "executed", "failed"}
  /\ \E t \in Terms :
       query' = [query EXCEPT ![q] = [IdleQuery(t) EXCEPT !.pc = "rows", !.rows = graph,
                                                          !.known = saved]]
  /\ UNCHANGED <<graph, extracting, memory, packet, resolver, approvals, saved, spent>>

\* ... without the flag for a memory file, nothing else ...
QueryWithoutMemory(q) ==
  /\ query[q].pc = "rows"
  /\ query' = [query EXCEPT ![q].pc = "loaded"]
  /\ UNCHANGED <<graph, extracting, memory, packet, resolver, approvals, saved, spent>>

\* ... or else the text of the file ...
QueryReadMemory(q) ==
  /\ query[q].pc = "rows"
  /\ query' = [query EXCEPT
       ![q].text = memory,
       ![q].known = @ \cap saved,
       ![q].pc = IF memory = NoFile \/ Parsed(memory).version # 1 THEN "failed" ELSE "text"]
  /\ UNCHANGED <<graph, extracting, memory, packet, resolver, approvals, saved, spent>>

\* ... then the hash the entries are compared with.  One selected entry
\* that does not validate fails the load: no answer and no packet.
QueryReadKey(q) ==
  /\ query[q].pc = "text"
  /\ query' = [query EXCEPT
       ![q].key = Key(graph),
       ![q].pc = IF Loads(Parsed(query[q].text), Key(graph)) THEN "loaded" ELSE "failed"]
  /\ UNCHANGED <<graph, extracting, memory, packet, resolver, approvals, saved, spent>>

Backs(q, e) == e.term = query[q].term /\ Present(query[q].rows, e.target)

Answered(q) ==
  /\ query[q].pc = "loaded"
  /\ \E e \in {NoEntry} \cup {x \in Overlay(q) : Backs(q, x)} :
       query' = [query EXCEPT ![q] = [IdleQuery(@.term) EXCEPT !.pc = "executed", !.used = e,
                                                               !.key = query[q].key]]

\* The question is answered, with or without the help of an overlay entry.
\* The bound plan is valid only when the rows back each name it uses.  The
\* packet of an earlier refusal goes, when the run has the optional flag
\* --rejection-packet-json that names the file, and stays when it has not.
QueryExecute(q) ==
  /\ Answered(q)
  /\ packet' \in {NoFile, packet}
  /\ UNCHANGED <<graph, extracting, memory, resolver, approvals, saved, spent>>

\* The question fails closed with the candidates of an unresolved slot.
QueryRefuse(q) ==
  /\ query[q].pc = "loaded"
  /\ \E slot \in Slots :
       query' = [query EXCEPT ![q] = [IdleQuery(@.term) EXCEPT
                   !.pc = "refused", !.rows = query[q].rows,
                   !.offers = OffersOf(slot, query[q].rows, Overlay(q))]]
  /\ UNCHANGED <<graph, extracting, memory, packet, resolver, approvals, saved, spent>>

\* The packet takes schema_hash from the graph file as it is by now.
QueryStamp(q) ==
  /\ query[q].pc = "refused"
  /\ query' = [query EXCEPT ![q].pc = "stamped", ![q].key = Key(graph)]
  /\ UNCHANGED <<graph, extracting, memory, packet, resolver, approvals, saved, spent>>

\* Without the flag for a packet file the payload is at most printed ...
QueryWithoutPacket(q) ==
  /\ query[q].pc = "stamped"
  /\ query' = [query EXCEPT ![q] = IdleQuery(@.term)]
  /\ UNCHANGED <<graph, extracting, memory, packet, resolver, approvals, saved, spent>>

\* ... with it, the file is written over.
QueryTruncatePacket(q) ==
  /\ query[q].pc = "stamped"
  /\ packet' = Torn
  /\ query' = [query EXCEPT ![q].pc = "truncated"]
  /\ UNCHANGED <<graph, extracting, memory, resolver, approvals, saved, spent>>

QueryWritePacket(q) ==
  /\ query[q].pc = "truncated"
  /\ packet' = [term |-> query[q].term, rows |-> query[q].rows, key |-> query[q].key,
                offers |-> query[q].offers]
  /\ query' = [query EXCEPT ![q] = IdleQuery(@.term)]
  /\ UNCHANGED <<graph, extracting, memory, resolver, approvals, saved, spent>>

---------------------------------------------------------------------------
(* semsql resolve                                                          *)

\* An absent or torn packet ends the command with no effect.
ResolveOpen(r) ==
  /\ resolver[r].pc = "idle"
  /\ packet \in Packets
  /\ resolver' = [resolver EXCEPT ![r].pc = "session", ![r].packet = packet]
  /\ UNCHANGED <<graph, extracting, memory, packet, query, approvals, saved, spent>>

\* What one invocation may put forward: a candidate of the packet, or a
\* target and kind the user types (--choice with --kind, the web form).
Approvable(p) == p.offers \cup FreeTargets

MergeBase(file, key) ==
  IF file = NoFile THEN [DefaultMemory EXCEPT !.drift = key] ELSE Parsed(file)

\* The user approves, the mapping validates, and save_memory_entry reads
\* the file and merges the entry into what it read.
ResolveMerge(r) ==
  /\ resolver[r].pc = "session"
  /\ Cardinality(approvals) < MaxApprovals
  /\ \E c \in Approvable(resolver[r].packet), t \in Terms :
       LET p == resolver[r].packet
           entry == NewEntry(t, c.kind, c.target, p.key)
       IN /\ ValidMapping(c.kind, entry.target)
          /\ approvals' = approvals \cup {[entry |-> entry, rows |-> p.rows, key |-> p.key]}
          /\ resolver' = [resolver EXCEPT ![r] =
               [pc |-> "merged", packet |-> NoFile, entry |-> entry,
                merged |-> Merged(MergeBase(memory, p.key), entry)]]
  /\ UNCHANGED <<graph, extracting, memory, packet, query, saved, spent>>

\* Cancelled, or rejected: json mode, a bad choice, an invalid mapping.
ResolveGiveUp(r) ==
  /\ resolver[r].pc = "session"
  /\ resolver' = [resolver EXCEPT ![r] = IdleResolver]
  /\ UNCHANGED <<graph, extracting, memory, packet, query, approvals, saved, spent>>

\* std::fs::write: open with O_TRUNC, then write.
ResolveTruncate(r) ==
  /\ resolver[r].pc = "merged"
  /\ memory' = Torn
  /\ resolver' = [resolver EXCEPT ![r].pc = "truncated"]
  /\ UNCHANGED <<graph, extracting, packet, query, approvals, saved, spent>>

ResolveWrite(r) ==
  /\ resolver[r].pc = "truncated"
  /\ memory' = resolver[r].merged
  /\ saved' = saved \cup {resolver[r].entry}
  /\ resolver' = [resolver EXCEPT ![r] = IdleResolver]
  /\ UNCHANGED <<graph, extracting, packet, query, approvals, spent>>

---------------------------------------------------------------------------
(* Any command can be killed, or stopped by an I/O error, between two of   *)
(* its steps.                                                              *)

QueryCrash(q) ==
  /\ query[q].pc \notin {"idle", "executed", "failed"}
  /\ spent.crashes < MaxCrashes
  /\ query' = [query EXCEPT ![q] = IdleQuery(query[q].term)]
  /\ spent' = [spent EXCEPT !.crashes = @ + 1]
  /\ UNCHANGED <<graph, extracting, memory, packet, resolver, approvals, saved>>

\* Between truncation and write the file is lost with all it held.
ResolveCrash(r) ==
  /\ resolver[r].pc # "idle"
  /\ spent.crashes < MaxCrashes
  /\ resolver' = [resolver EXCEPT ![r] = IdleResolver]
  /\ saved' = IF resolver[r].pc = "truncated" THEN {} ELSE saved
  /\ spent' = [spent EXCEPT !.crashes = @ + 1]
  /\ UNCHANGED <<graph, extracting, memory, packet, query, approvals>>

Extract == ExtractBegin \/ ExtractCommit \/ ExtractAbort

Query(q) ==
  \/ QueryLoadRows(q) \/ QueryWithoutMemory(q) \/ QueryReadMemory(q) \/ QueryReadKey(q)
  \/ QueryExecute(q) \/ QueryRefuse(q) \/ QueryStamp(q)
  \/ QueryWithoutPacket(q) \/ QueryTruncatePacket(q) \/ QueryWritePacket(q) \/ QueryCrash(q)

Resolve(r) ==
  \/ ResolveOpen(r) \/ ResolveMerge(r) \/ ResolveGiveUp(r)
  \/ ResolveTruncate(r) \/ ResolveWrite(r) \/ ResolveCrash(r)

Next ==
  \/ Extract
  \/ \E q \in Queriers : Query(q)
  \/ \E r \in Resolvers : Resolve(r)

Spec == Init /\ [][Next]_vars

---------------------------------------------------------------------------
(* Properties                                                              *)

\* Each variable keeps the form the code gives it.
TypeOK ==
  /\ graph \in Graphs
  /\ extracting \in BOOLEAN
  /\ memory \in MemoryFile
  /\ packet \in PacketFile
  /\ query \in [Queriers -> QueryRuns]
  /\ resolver \in [Resolvers -> ResolverRuns]
  /\ approvals \subseteq [entry : Entries, rows : Graphs, key : Keys]
  /\ saved \subseteq Entries
  /\ spent \in [extracts : Nat, crashes : Nat]

ApprovedEntries == {a.entry : a \in approvals}

\* Only an explicit approval adds to the memory: whatever commands interleave
\* or die, an entry a query may use was written by hand or approved as it
\* stands, with its drift key (save_memory_entry is the only writer).
OnlyApprovedMemory ==
  memory \notin {NoFile, Torn} =>
    \A e \in memory.entries : e \in HandWritten \/ e \in ApprovedEntries

\* An answer never rests on memory from another schema: the entry it used
\* participates, and is hand-written or was approved over a packet stamped
\* with the very hash this query compared it with.
AnswersUseFreshMemory ==
  \A q \in Queriers :
    LET e == query[q].used
    IN query[q].pc = "executed" /\ e # NoEntry =>
         /\ Participates(e)
         /\ e.drift \in {NoKey, query[q].key}
         /\ e \in HandWritten \/ \E a \in approvals : a.entry = e /\ a.key = e.drift

\* Query q, which read rows and hash of one whole graph, is about to use approval a,
\* whose target was there when its candidates were computed.
Reuses(q, a) ==
  /\ query[q].pc = "loaded"
  /\ query[q].rows # Empty /\ query[q].key = Key(query[q].rows)
  /\ Present(a.rows, a.entry.target)
  /\ a.entry \in Overlay(q)

\* Drift makes an approval stale when a table it names is renamed, dropped or
\* replaced, if its packet read rows and hash of one graph: a query that still
\* uses it has every table of its target.
DriftDetected ==
  \A q \in Queriers, a \in approvals :
    Reuses(q, a) /\ a.key = Key(a.rows) /\ a.entry.drift # NoKey =>
      {TableOf[f] : f \in Named(a.entry.target)} \subseteq TablesIn(query[q].rows)

\* What the documents promise: drift makes learned facts stale, so a query
\* that uses an approval has its target.  A packet stamped while an extraction
\* has the graph emptied gives its approval no key, and one stamped after it
\* the key of a graph its candidates never came from; and a renamed column
\* changes neither the counts nor the tables that are hashed.
DriftMakesStale ==
  \A q \in Queriers, a \in approvals :
    Reuses(q, a) => Present(query[q].rows, a.entry.target)

\* A memory file that loads at all is never made unloadable by an approval:
\* a load that fails has a hand-written entry to blame.
FailureIsHandWritten ==
  \A q \in Queriers :
    query[q].pc = "failed" /\ query[q].text # NoFile /\ Parsed(query[q].text).version = 1 =>
      \E e \in Overlay(q) \cap HandWritten : ~Loadable(e)

Superseded(e) == \E f \in ApprovedEntries : f # e /\ SameMapping(f, e)

\* A completed save is still in the file, unless the same mapping was
\* approved again, a write is under way, or a later one was cut off.
ApprovalsSurvive ==
  memory = Torn \/ \A e \in saved : Superseded(e) \/ (memory # NoFile /\ e \in memory.entries)

\* Approved corrections are reused: a query that starts after a save
\* completed, reads a memory file that is not half-written and finds the
\* graph the approval was keyed to, loads that approval.
ReusedOnLaterQueries ==
  \A q \in Queriers :
    query[q].pc = "loaded" /\ query[q].text \notin {NoFile, Torn} =>
      \A e \in query[q].known :
        e.drift = query[q].key /\ e.drift # NoKey => Superseded(e) \/ e \in Overlay(q)

\* The file as a client sees it, a write taking effect when it truncates.
Writing == {r \in Resolvers : resolver[r].pc = "truncated"}
Contents ==
  IF Writing # {} THEN resolver[CHOOSE r \in Writing : TRUE].merged.entries
  ELSE Parsed(memory).entries

Log == INSTANCE ApprovalLog WITH log <- Contents, crashes <- spent.crashes

\* One resolver at a time keeps the approval log, and a crash leaves it as
\* it is or empty, never something in between.
ImplementsLog == Log!Spec
===========================================================================
