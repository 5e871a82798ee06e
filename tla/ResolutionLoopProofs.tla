------------------------ MODULE ResolutionLoopProofs ------------------------
(***************************************************************************)
(* Proofs about ResolutionLoop, for every set of processes, schemas and    *)
(* hand-written entries: its type invariant, the provenance of the memory  *)
(* a query may use, drift detection, and the approval log.                 *)
(***************************************************************************)
EXTENDS ResolutionLoop, TLAPS

(* What the operators of ResolutionMemory return.                          *)

LEMMA PlainType == ASSUME NEW f \in Texts PROVE Plain(f) \in Targets
  BY DEF Plain, Targets, Texts

LEMMA PairType ==
  ASSUME NEW l \in Texts, NEW s \in {"=", ":", "->"}, NEW r \in Texts
  PROVE  Pair(l, s, r) \in Targets
  BY DEF Pair, Targets, Texts

LEMMA NormalizedType ==
  ASSUME NEW k \in Kinds, NEW t \in Targets
  PROVE  NormalizedTarget(k, t) \in Targets
<1>1. CASE t.sep # "="
  BY <1>1 DEF NormalizedTarget
<1>2. CASE t.sep = "=" /\ k = "enum_value"
  BY <1>2 DEF NormalizedTarget, Targets
<1>3. CASE t.sep = "=" /\ k = "field"
  BY <1>3 DEF NormalizedTarget, Targets, Plain, Texts
<1>4. CASE t.sep = "=" /\ k \notin {"enum_value", "field"}
  BY <1>4 DEF NormalizedTarget
<1> QED
  BY <1>1, <1>2, <1>3, <1>4

LEMMA NewEntryType ==
  ASSUME NEW term \in Terms, NEW k \in Kinds, NEW t \in Targets, NEW key \in Keys
  PROVE  /\ NewEntry(term, k, t, key) \in Entries
         /\ NewEntry(term, k, t, key).drift = key
  BY NormalizedType DEF NewEntry, Entries, Statuses

LEMMA MergedType ==
  ASSUME NEW mem \in Memories, NEW e \in Entries
  PROVE  /\ Merged(mem, e) \in Memories
         /\ Merged(mem, e).entries \subseteq mem.entries \cup {e}
<1>1. e.drift \in Keys
  BY DEF Entries
<1>2. {x \in mem.entries : ~SameMapping(x, e)} \cup {e} \in SUBSET Entries
  BY DEF Memories
<1> QED
  BY <1>1, <1>2 DEF Merged, Memories

LEMMA DefaultMemoryType == DefaultMemory \in Memories /\ DefaultMemory.entries = {}
  BY DEF DefaultMemory, Memories, Keys

LEMMA ParsedType ==
  ASSUME NEW file \in MemoryFile
  PROVE  Parsed(file) \in Memories
  BY DefaultMemoryType DEF Parsed, MemoryFile

LEMMA SelectedType ==
  ASSUME NEW mem \in Memories, NEW hash
  PROVE  Selected(mem, hash) \subseteq mem.entries
  BY DEF Selected

LEMMA KeyType == ASSUME NEW g \in Graphs PROVE Key(g) \in Keys
  BY LoopAssumption DEF Key, Graphs, Keys

LEMMA FieldsType == ASSUME NEW g \in Graphs PROVE Fields(g) \subseteq FieldNames
  BY LoopAssumption DEF Fields, Graphs

LEMMA OffersType ==
  ASSUME NEW slot \in Slots, NEW g \in Graphs, NEW overlay, overlay \subseteq Entries
  PROVE  OffersOf(slot, g, overlay) \subseteq Choices
<1>1. Fields(g) \subseteq Texts /\ Values \subseteq Texts /\ FieldNames \subseteq Texts
  BY FieldsType, LoopAssumption, MemoryAssumption DEF Texts
<1>2. CASE slot = "projection"
  <2>1. {Plain(f) : f \in Fields(g)} \subseteq Targets
    BY <1>1, PlainType
  <2> QED BY <1>2, <2>1 DEF OffersOf, Choices, Kinds, SupportedKinds
<1>3. CASE slot = "filter_value"
  <2>1. {Pair(f, "=", v) : f \in Fields(g), v \in Values} \subseteq Targets
    BY <1>1, PairType
  <2> QED BY <1>3, <2>1 DEF OffersOf, Choices, Kinds, SupportedKinds
<1>4. CASE slot = "join_path"
  <2>1. {Pair(a, "->", b) : a \in FieldNames, b \in FieldNames} \subseteq Targets
    BY <1>1, PairType
  <2>2. Joins(g) \subseteq Targets
    BY <2>1, LoopAssumption DEF Joins, Graphs
  <2>3. {e.target : e \in {x \in overlay : x.kind = "relationship"}} \subseteq Targets
    BY DEF Entries
  <2> QED BY <1>4, <2>2, <2>3 DEF OffersOf, Choices, Kinds, SupportedKinds
<1> QED
  BY <1>2, <1>3, <1>4, LoopAssumption

LEMMA IdleQueryType == ASSUME NEW t \in Terms PROVE IdleQuery(t) \in QueryRuns
  BY DEF IdleQuery, QueryRuns, QueryPcs, Graphs, MemoryFile, Keys

LEMMA IdleResolverType == IdleResolver \in ResolverRuns
  BY DEF IdleResolver, ResolverRuns, ResolverPcs, PacketFile, MemoryFile

LEMMA MergeBaseType ==
  ASSUME NEW file \in MemoryFile, NEW key \in Keys
  PROVE  /\ MergeBase(file, key) \in Memories
         /\ MergeBase(file, key).entries = Parsed(file).entries
  BY ParsedType, DefaultMemoryType DEF MergeBase, Parsed, Memories

LEMMA OverlayType ==
  ASSUME TypeOK, NEW q \in Queriers
  PROVE  Overlay(q) \subseteq Parsed(query[q].text).entries /\ Overlay(q) \subseteq Entries
<1>1. query[q].text \in MemoryFile
  BY DEF TypeOK, QueryRuns
<1>2. Parsed(query[q].text) \in Memories
  BY <1>1, ParsedType
<1> QED
  BY <1>2, SelectedType DEF Overlay, Memories

---------------------------------------------------------------------------
(* Type correctness.                                                       *)

\* TypeOK is not inductive alone: a resolver in a session is about to use
\* the fields of its packet, and one that saves the entry it merged.
Equipped(run) ==
  /\ run.pc = "session" => run.packet \in Packets
  /\ run.pc \in {"merged", "truncated"} => run.entry \in Entries

RunsEquipped == \A r \in Resolvers : Equipped(resolver[r])

TypeInv == TypeOK /\ RunsEquipped

LEMMA InitType == Init => TypeOK
<1> SUFFICES ASSUME Init PROVE TypeOK
  OBVIOUS
<1>1. memory \in MemoryFile
  BY FirstMemoryAssumption DEF Init, MemoryFile
<1>2. query \in [Queriers -> QueryRuns]
  BY IdleQueryType DEF Init
<1>3. resolver \in [Resolvers -> ResolverRuns]
  BY IdleResolverType DEF Init
<1> QED
  BY <1>1, <1>2, <1>3 DEF Init, TypeOK, Graphs, PacketFile

LEMMA QueryStep ==
  ASSUME TypeOK, NEW q \in Queriers, NEW run \in QueryRuns,
         query' = [query EXCEPT ![q] = run]
  PROVE  query' \in [Queriers -> QueryRuns]
  BY DEF TypeOK

LEMMA ResolverStep ==
  ASSUME TypeOK, NEW r \in Resolvers, NEW run \in ResolverRuns,
         resolver' = [resolver EXCEPT ![r] = run]
  PROVE  resolver' \in [Resolvers -> ResolverRuns]
  BY DEF TypeOK

LEMMA ExtractType == TypeOK /\ Extract => TypeOK'
<1> SUFFICES ASSUME TypeOK, Extract PROVE TypeOK'
  OBVIOUS
<1> USE DEF TypeOK
<1>1. CASE ExtractBegin
  BY <1>1 DEF ExtractBegin, Graphs
<1>2. CASE ExtractCommit
  BY <1>2 DEF ExtractCommit, Graphs
<1>3. CASE ExtractAbort
  BY <1>3 DEF ExtractAbort
<1> QED
  BY <1>1, <1>2, <1>3 DEF Extract

LEMMA QueryType ==
  ASSUME TypeOK, NEW q \in Queriers, Query(q)
  PROVE  TypeOK'
<1> DEFINE run == query[q]
<1>0. run \in QueryRuns /\ run.term \in Terms /\ run.rows \in Graphs
  BY DEF TypeOK, QueryRuns
<1>1. CASE QueryLoadRows(q)
  <2>1. PICK t \in Terms : query' = [query EXCEPT ![q] =
                  [IdleQuery(t) EXCEPT !.pc = "rows", !.rows = graph, !.known = saved]]
    BY <1>1 DEF QueryLoadRows
  <2>2. [IdleQuery(t) EXCEPT !.pc = "rows", !.rows = graph, !.known = saved] \in QueryRuns
    <3>1. graph \in Graphs /\ saved \in SUBSET Entries /\ IdleQuery(t) \in QueryRuns
      BY IdleQueryType DEF TypeOK
    <3> QED BY <3>1 DEF QueryRuns, QueryPcs
  <2> QED BY <1>1, <2>1, <2>2, QueryStep DEF QueryLoadRows, TypeOK
<1>2. CASE QueryWithoutMemory(q)
  <2>1. [run EXCEPT !.pc = "loaded"] \in QueryRuns
    BY <1>0 DEF QueryRuns, QueryPcs
  <2> QED BY <1>2, <2>1, QueryStep DEF QueryWithoutMemory, TypeOK
<1>3. CASE QueryReadMemory(q)
  BY <1>3, <1>0 DEF QueryReadMemory, TypeOK, QueryRuns, QueryPcs
<1>4. CASE QueryReadKey(q)
  BY <1>4, <1>0, KeyType DEF QueryReadKey, TypeOK, QueryRuns, QueryPcs
<1>5. CASE QueryExecute(q)
  <2>1. PICK e \in {NoEntry} \cup {x \in Overlay(q) : Backs(q, x)} :
          query' = [query EXCEPT ![q] = [IdleQuery(run.term) EXCEPT
                      !.pc = "executed", !.used = e, !.key = run.key]]
    BY <1>5 DEF QueryExecute, Answered
  <2>2. e \in Entries \cup {NoEntry}
    BY <2>1, OverlayType
  <2>3. [IdleQuery(run.term) EXCEPT !.pc = "executed", !.used = e, !.key = run.key] \in QueryRuns
    BY <1>0, <2>2, IdleQueryType DEF QueryRuns, QueryPcs
  <2> QED BY <1>5, <2>1, <2>3, QueryStep DEF QueryExecute, TypeOK, PacketFile
<1>6. CASE QueryRefuse(q)
  <2>1. PICK slot \in Slots :
          query' = [query EXCEPT ![q] = [IdleQuery(run.term) EXCEPT
             !.pc = "refused", !.rows = run.rows,
             !.offers = OffersOf(slot, run.rows, Overlay(q))]]
    BY <1>6 DEF QueryRefuse
  <2>2. OffersOf(slot, run.rows, Overlay(q)) \subseteq Choices
    BY <1>0, OverlayType, OffersType
  <2>3. [IdleQuery(run.term) EXCEPT !.pc = "refused", !.rows = run.rows,
             !.offers = OffersOf(slot, run.rows, Overlay(q))] \in QueryRuns
    BY <1>0, <2>2, IdleQueryType DEF QueryRuns, QueryPcs
  <2> QED BY <1>6, <2>1, <2>3, QueryStep DEF QueryRefuse, TypeOK
<1>7. CASE QueryStamp(q)
  BY <1>7, <1>0, KeyType DEF QueryStamp, TypeOK, QueryRuns, QueryPcs
<1>8. CASE QueryTruncatePacket(q)
  BY <1>8, <1>0 DEF QueryTruncatePacket, TypeOK, QueryRuns, QueryPcs, PacketFile
<1>9. CASE QueryWritePacket(q)
  <2>1. packet' \in PacketFile
    BY <1>9, <1>0 DEF QueryWritePacket, PacketFile, Packets, QueryRuns
  <2> QED BY <1>9, <1>0, <2>1, IdleQueryType, QueryStep DEF QueryWritePacket, TypeOK
<1>10. CASE QueryWithoutPacket(q)
  BY <1>10, <1>0, IdleQueryType, QueryStep DEF QueryWithoutPacket, TypeOK
<1>11. CASE QueryCrash(q)
  BY <1>11, <1>0, IdleQueryType, QueryStep DEF QueryCrash, TypeOK
<1> QED
  BY <1>1, <1>2, <1>3, <1>4, <1>5, <1>6, <1>7, <1>8, <1>9, <1>10, <1>11 DEF Query

\* The entry an approval adds, and the file it is to be written to.
LEMMA MergeStep ==
  ASSUME TypeInv, NEW r \in Resolvers, ResolveMerge(r)
  PROVE  \E e \in Entries, g \in Graphs, m \in Memories :
           /\ approvals' = approvals \cup {[entry |-> e, rows |-> g, key |-> e.drift]}
           /\ m.entries \subseteq Parsed(memory).entries \cup {e}
           /\ resolver' = [resolver EXCEPT ![r] =
                [pc |-> "merged", packet |-> NoFile, entry |-> e, merged |-> m]]
<1> DEFINE p == resolver[r].packet
<1>1. p \in Packets /\ p.rows \in Graphs /\ p.key \in Keys /\ p.offers \subseteq Choices
  BY DEF ResolveMerge, TypeInv, RunsEquipped, Equipped, Packets
<1>2. PICK c \in Approvable(p), t \in Terms :
        LET entry == NewEntry(t, c.kind, c.target, p.key)
        IN /\ approvals' = approvals \cup {[entry |-> entry, rows |-> p.rows, key |-> p.key]}
           /\ resolver' = [resolver EXCEPT ![r] =
                [pc |-> "merged", packet |-> NoFile, entry |-> entry,
                 merged |-> Merged(MergeBase(memory, p.key), entry)]]
  BY DEF ResolveMerge
<1>3. c.kind \in Kinds /\ c.target \in Targets
  BY <1>1, LoopAssumption DEF Approvable, Choices
<1> DEFINE entry == NewEntry(t, c.kind, c.target, p.key)
           base == MergeBase(memory, p.key)
<1>4. entry \in Entries /\ entry.drift = p.key
  BY <1>1, <1>3, NewEntryType
<1>5. base \in Memories /\ base.entries = Parsed(memory).entries
  BY <1>1, MergeBaseType DEF TypeInv, TypeOK
<1>6. Merged(base, entry) \in Memories /\ Merged(base, entry).entries \subseteq base.entries \cup {entry}
  BY <1>4, <1>5, MergedType
<1> QED
  BY <1>1, <1>2, <1>4, <1>5, <1>6

LEMMA ResolveType ==
  ASSUME TypeInv, NEW r \in Resolvers, Resolve(r)
  PROVE  TypeOK' /\ Equipped(resolver'[r])
<1>0. resolver[r] \in ResolverRuns /\ TypeOK /\ Equipped(resolver[r])
  BY DEF TypeInv, TypeOK, RunsEquipped
<1>i. Equipped(IdleResolver)
  BY DEF Equipped, IdleResolver
<1>1. CASE ResolveOpen(r)
  <2>1. [resolver[r] EXCEPT !.pc = "session", !.packet = packet] \in ResolverRuns
    BY <1>0 DEF ResolverRuns, ResolverPcs, TypeOK
  <2> QED BY <1>0, <1>1, <2>1, ResolverStep DEF ResolveOpen, TypeOK, Equipped
<1>2. CASE ResolveMerge(r)
  <2>1. PICK e \in Entries, g \in Graphs, m \in Memories :
           /\ approvals' = approvals \cup {[entry |-> e, rows |-> g, key |-> e.drift]}
           /\ resolver' = [resolver EXCEPT ![r] =
                [pc |-> "merged", packet |-> NoFile, entry |-> e, merged |-> m]]
    BY <1>2, MergeStep
  <2>2. [pc |-> "merged", packet |-> NoFile, entry |-> e, merged |-> m] \in ResolverRuns
    BY DEF ResolverRuns, ResolverPcs, PacketFile, MemoryFile
  <2>3. [entry |-> e, rows |-> g, key |-> e.drift] \in [entry : Entries, rows : Graphs, key : Keys]
    BY DEF Entries
  <2> QED BY <1>0, <1>2, <2>1, <2>2, <2>3, ResolverStep DEF ResolveMerge, TypeOK, Equipped
<1>3. CASE ResolveGiveUp(r)
  BY <1>0, <1>i, <1>3, IdleResolverType, ResolverStep DEF ResolveGiveUp, TypeOK
<1>4. CASE ResolveTruncate(r)
  <2>1. [resolver[r] EXCEPT !.pc = "truncated"] \in ResolverRuns
    BY <1>0 DEF ResolverRuns, ResolverPcs
  <2> QED BY <1>0, <1>4, <2>1, ResolverStep DEF ResolveTruncate, TypeOK, MemoryFile, Equipped
<1>5. CASE ResolveWrite(r)
  <2>1. memory' \in MemoryFile /\ saved' \subseteq Entries
    BY <1>0, <1>5 DEF ResolveWrite, TypeOK, ResolverRuns, Equipped
  <2> QED BY <1>0, <1>i, <1>5, <2>1, IdleResolverType, ResolverStep DEF ResolveWrite, TypeOK
<1>6. CASE ResolveCrash(r)
  BY <1>0, <1>i, <1>6, IdleResolverType, ResolverStep DEF ResolveCrash, TypeOK
<1> QED
  BY <1>1, <1>2, <1>3, <1>4, <1>5, <1>6 DEF Resolve

LEMMA TypeInvStep == TypeInv /\ [Next]_vars => TypeInv'
<1> SUFFICES ASSUME TypeInv, [Next]_vars PROVE TypeInv'
  OBVIOUS
<1>0. TypeOK /\ RunsEquipped
  BY DEF TypeInv
<1>1. CASE Extract
  <2>1. UNCHANGED resolver
    BY <1>1 DEF Extract, ExtractBegin, ExtractCommit, ExtractAbort
  <2> QED BY <1>0, <1>1, <2>1, ExtractType DEF TypeInv, RunsEquipped
<1>2. ASSUME NEW q \in Queriers, Query(q) PROVE TypeInv'
  <2>1. UNCHANGED resolver
    BY <1>2 DEF Query, QueryLoadRows, QueryWithoutMemory, QueryReadMemory, QueryReadKey,
      QueryExecute, QueryRefuse, QueryStamp, QueryWithoutPacket,
      QueryTruncatePacket, QueryWritePacket, QueryCrash
  <2> QED BY <1>0, <1>2, <2>1, QueryType DEF TypeInv, RunsEquipped
<1>3. ASSUME NEW r \in Resolvers, Resolve(r) PROVE TypeInv'
  <2>1. \A s \in Resolvers \ {r} : resolver'[s] = resolver[s]
    BY <1>0, <1>3, MergeStep DEF Resolve, ResolveOpen, ResolveMerge, ResolveGiveUp,
      ResolveTruncate, ResolveWrite, ResolveCrash, TypeOK
  <2> QED BY <1>0, <1>3, <2>1, ResolveType DEF TypeInv, RunsEquipped
<1>4. CASE UNCHANGED vars
  BY <1>0, <1>4 DEF vars, TypeInv, TypeOK, RunsEquipped
<1> QED
  BY <1>1, <1>2, <1>3, <1>4 DEF Next

LEMMA TypeInvHolds == Spec => []TypeInv
<1>1. Init => TypeInv
  BY InitType DEF Init, TypeInv, RunsEquipped, Equipped, IdleResolver
<1> QED
  BY <1>1, TypeInvStep, PTL DEF Spec

\* Every variable keeps its type, whatever commands run, interleave and die.
THEOREM Typing == Spec => []TypeOK
<1>1. TypeInv => TypeOK
  BY DEF TypeInv
<1> QED
  BY <1>1, TypeInvHolds, PTL

---------------------------------------------------------------------------
(* Where the memory comes from.                                            *)

Backed(e) == e \in HandWritten \/ e \in ApprovedEntries

\* The memory file alone is not an inductive statement: what is written was
\* merged before, and what a query uses was read before.  So every copy of
\* a memory text counts, the one a resolver is about to write included.
CopiesBacked ==
  /\ \A e \in Parsed(memory).entries : Backed(e)
  /\ \A r \in Resolvers : \A e \in Parsed(resolver[r].merged).entries : Backed(e)
  /\ \A q \in Queriers : \A e \in Parsed(query[q].text).entries : Backed(e)

\* An approved entry carries the key of the packet it was approved over.
ApprovalsKeyed == \A a \in approvals : a.key = a.entry.drift

UsesBacked ==
  \A q \in Queriers :
    query[q].pc = "executed" /\ query[q].used # NoEntry =>
      /\ Participates(query[q].used)
      /\ query[q].used.drift \in {NoKey, query[q].key}
      /\ Backed(query[q].used)

Provenance == CopiesBacked /\ ApprovalsKeyed /\ UsesBacked

LEMMA NoFileParsed == Parsed(NoFile).entries = {} /\ Parsed(Torn).entries = {}
  BY DEF Parsed, DefaultMemory

LEMMA BackedMonotone ==
  ASSUME approvals \subseteq approvals', NEW e, Backed(e)
  PROVE  Backed(e)'
  BY DEF Backed, ApprovedEntries

LEMMA ProvenanceUnchanged ==
  ASSUME Provenance, UNCHANGED <<memory, query, resolver, approvals>>
  PROVE  Provenance'
  BY DEF Provenance, CopiesBacked, ApprovalsKeyed, UsesBacked, Backed, ApprovedEntries

LEMMA InitProvenance == Init => Provenance
<1> SUFFICES ASSUME Init PROVE Provenance
  OBVIOUS
<1>1. Parsed(memory).entries \subseteq HandWritten
  BY FirstMemoryAssumption, NoFileParsed DEF Init, Parsed, DefaultMemory
<1>2. \A r \in Resolvers : Parsed(resolver[r].merged).entries = {}
  BY NoFileParsed DEF Init, IdleResolver
<1>3. \A q \in Queriers : query[q].text = NoFile /\ query[q].pc = "idle"
  BY DEF Init, IdleQuery
<1> QED
  BY <1>1, <1>2, <1>3, NoFileParsed
     DEF Init, Provenance, CopiesBacked, ApprovalsKeyed, UsesBacked, Backed

\* What a query may use was read from a text whose entries are all backed,
\* participates, and is not stale against the key the query read.
LEMMA OverlayFacts ==
  ASSUME Provenance, NEW q \in Queriers, NEW e \in Overlay(q)
  PROVE  /\ Participates(e)
         /\ e.drift \in {NoKey, query[q].key}
         /\ Backed(e)
  BY DEF Overlay, Selected, IsStale, EffectiveKey, Provenance, CopiesBacked

LEMMA QueryProvenance ==
  ASSUME TypeInv, Provenance, NEW q \in Queriers, Query(q)
  PROVE  Provenance'
<1> DEFINE run == query[q]
           Good(new) ==
             /\ \A e \in Parsed(new.text).entries : Backed(e)
             /\ new.pc = "executed" /\ new.used # NoEntry =>
                  Participates(new.used) /\ new.used.drift \in {NoKey, new.key} /\ Backed(new.used)
<1>0. TypeOK /\ run \in QueryRuns /\ Good(run)
  BY DEF TypeInv, TypeOK, Provenance, CopiesBacked, UsesBacked
<1>1. UNCHANGED <<memory, resolver, approvals>>
  BY DEF Query, QueryLoadRows, QueryWithoutMemory, QueryReadMemory, QueryReadKey, QueryExecute,
    Answered, QueryRefuse, QueryStamp, QueryWithoutPacket,
    QueryTruncatePacket, QueryWritePacket, QueryCrash
<1>2. \A s \in Queriers \ {q} : query'[s] = query[s]
  BY <1>0 DEF Query, QueryLoadRows, QueryWithoutMemory, QueryReadMemory, QueryReadKey, QueryExecute,
    Answered, QueryRefuse, QueryStamp, QueryWithoutPacket,
    QueryTruncatePacket, QueryWritePacket, QueryCrash, TypeOK
<1>3. Good(query'[q])
  <2> HIDE DEF Good
  <2>1. CASE QueryExecute(q)
    <3>1. PICK e \in {NoEntry} \cup {x \in Overlay(q) : Backs(q, x)} :
            query'[q] = [IdleQuery(run.term) EXCEPT !.pc = "executed", !.used = e, !.key = run.key]
      BY <1>0, <2>1 DEF QueryExecute, Answered, TypeOK
    <3>2. query'[q].text = NoFile /\ query'[q].used = e /\ query'[q].key = run.key
      BY <3>1 DEF IdleQuery
    <3>3. CASE e = NoEntry
      BY <3>2, <3>3, NoFileParsed DEF Good
    <3>4. CASE e \in Overlay(q)
      BY <3>2, <3>4, NoFileParsed, OverlayFacts DEF Good
    <3> QED BY <3>1, <3>3, <3>4
  <2>2. CASE QueryReadMemory(q)
    <3>1. query'[q].text = memory /\ query'[q].pc \in {"failed", "text"}
      BY <1>0, <2>2 DEF QueryReadMemory, TypeOK, QueryRuns
    <3> QED BY <3>1 DEF Good, Provenance, CopiesBacked
  <2>3. CASE \/ QueryLoadRows(q) \/ QueryRefuse(q) \/ QueryWithoutPacket(q)
             \/ QueryWritePacket(q) \/ QueryCrash(q)
    <3>0. query'[q].text = NoFile /\ query'[q].pc # "executed" => Good(query'[q])
      BY NoFileParsed DEF Good
    <3>1. CASE QueryLoadRows(q)
      BY <1>0, <3>0, <3>1 DEF QueryLoadRows, IdleQuery, TypeOK
    <3>2. CASE QueryRefuse(q)
      BY <1>0, <3>0, <3>2 DEF QueryRefuse, IdleQuery, TypeOK
    <3>3. CASE QueryWithoutPacket(q) \/ QueryWritePacket(q) \/ QueryCrash(q)
      BY <1>0, <3>0, <3>3 DEF QueryWithoutPacket, QueryWritePacket, QueryCrash, IdleQuery, TypeOK
    <3> QED BY <2>3, <3>1, <3>2, <3>3
  <2>4. CASE \/ QueryWithoutMemory(q) \/ QueryReadKey(q) \/ QueryStamp(q)
             \/ QueryTruncatePacket(q)
    <3>1. query'[q].text = run.text /\ query'[q].pc # "executed"
      BY <1>0, <2>4 DEF QueryWithoutMemory, QueryReadKey, QueryStamp, QueryTruncatePacket,
        TypeOK, QueryRuns
    <3> QED BY <1>0, <3>1 DEF Good
  <2> QED BY <2>1, <2>2, <2>3, <2>4 DEF Query
<1>4. \A e : Backed(e)' <=> Backed(e)
  BY <1>1 DEF Backed, ApprovedEntries
<1> QED
  BY <1>1, <1>2, <1>3, <1>4 DEF Provenance, CopiesBacked, ApprovalsKeyed, UsesBacked

LEMMA ResolveProvenance ==
  ASSUME TypeInv, Provenance, NEW r \in Resolvers, Resolve(r)
  PROVE  Provenance'
<1>0. TypeOK
  BY DEF TypeInv
<1>1. UNCHANGED query
  BY DEF Resolve, ResolveOpen, ResolveMerge, ResolveGiveUp, ResolveTruncate, ResolveWrite,
    ResolveCrash
<1>2. CASE ResolveMerge(r)
  <2>1. PICK e \in Entries, g \in Graphs, m \in Memories :
           /\ approvals' = approvals \cup {[entry |-> e, rows |-> g, key |-> e.drift]}
           /\ m.entries \subseteq Parsed(memory).entries \cup {e}
           /\ resolver' = [resolver EXCEPT ![r] =
                [pc |-> "merged", packet |-> NoFile, entry |-> e, merged |-> m]]
    BY <1>2, MergeStep
  <2> DEFINE new == [entry |-> e, rows |-> g, key |-> e.drift]
  <2>2a. new.entry = e /\ new.key = e.drift /\ new \in approvals'
    BY <2>1
  <2>2b. ApprovalsKeyed'
    BY <2>1, <2>2a DEF ApprovalsKeyed, Provenance
  <2>2c. Backed(e)'
    BY <2>2a DEF Backed, ApprovedEntries
  <2>2. ApprovalsKeyed' /\ Backed(e)'
    BY <2>2b, <2>2c
  <2>3. \A x : Backed(x) => Backed(x)'
    BY <2>1, BackedMonotone
  <2>4. resolver'[r].merged = m /\ \A s \in Resolvers \ {r} : resolver'[s] = resolver[s]
    BY <1>0, <2>1 DEF TypeOK
  <2>5. Parsed(m).entries \subseteq m.entries
    BY NoFileParsed DEF Parsed, DefaultMemory
  <2>6. \A x \in Parsed(m).entries : Backed(x)'
    BY <2>1, <2>2, <2>3, <2>5 DEF Provenance, CopiesBacked
  <2>7. memory' = memory
    BY <1>2 DEF ResolveMerge
  <2> QED BY <1>1, <2>2, <2>3, <2>4, <2>6, <2>7 DEF Provenance, CopiesBacked, UsesBacked
<1>3. CASE ~ResolveMerge(r)
  <2>1. UNCHANGED approvals /\ \A x : Backed(x)' <=> Backed(x)
    BY <1>3 DEF Resolve, ResolveOpen, ResolveGiveUp, ResolveTruncate, ResolveWrite, ResolveCrash,
      Backed, ApprovedEntries
  <2>2. memory' \in {memory, Torn, resolver[r].merged}
    BY <1>3 DEF Resolve, ResolveOpen, ResolveGiveUp, ResolveTruncate, ResolveWrite, ResolveCrash
  <2>3. \A x \in Parsed(memory').entries : Backed(x)
    BY <2>2, NoFileParsed DEF Provenance, CopiesBacked
  <2>4. \A s \in Resolvers : resolver'[s].merged \in {resolver[s].merged, NoFile}
    BY <1>0, <1>3 DEF Resolve, ResolveOpen, ResolveGiveUp, ResolveTruncate, ResolveWrite,
      ResolveCrash, IdleResolver, TypeOK, ResolverRuns
  <2>5. \A s \in Resolvers : \A x \in Parsed(resolver'[s].merged).entries : Backed(x)
    BY <2>4, NoFileParsed DEF Provenance, CopiesBacked
  <2> QED BY <1>1, <2>1, <2>3, <2>5 DEF Provenance, CopiesBacked, ApprovalsKeyed, UsesBacked
<1> QED
  BY <1>2, <1>3

LEMMA ProvenanceHolds == Spec => [](TypeInv /\ Provenance)
<1>1. TypeInv /\ Provenance /\ [Next]_vars => Provenance'
  <2> SUFFICES ASSUME TypeInv, Provenance, [Next]_vars PROVE Provenance'
    OBVIOUS
  <2>1. CASE Extract
    BY <2>1, ProvenanceUnchanged DEF Extract, ExtractBegin, ExtractCommit, ExtractAbort
  <2>2. CASE UNCHANGED vars
    BY <2>2, ProvenanceUnchanged DEF vars
  <2> QED BY <2>1, <2>2, QueryProvenance, ResolveProvenance DEF Next
<1> QED
  BY <1>1, InitProvenance, TypeInvHolds, PTL DEF Spec

\* An entry of the memory file was written by hand or approved as it stands:
\* no interleaving or crash of the commands that share the file adds another.
THEOREM MemoryIsApproved == Spec => []OnlyApprovedMemory
<1>1. Provenance => OnlyApprovedMemory
  BY DEF Provenance, CopiesBacked, Backed, OnlyApprovedMemory, Parsed
<1> QED
  BY <1>1, ProvenanceHolds, PTL

\* An answer never rests on an entry that does not participate, is keyed to
\* another graph than its query read, or was approved by nobody.
THEOREM AnswersAreFresh == Spec => []AnswersUseFreshMemory
<1>1. TypeInv /\ Provenance => AnswersUseFreshMemory
  BY DEF Provenance, ApprovalsKeyed, UsesBacked, Backed, ApprovedEntries, AnswersUseFreshMemory
<1> QED
  BY <1>1, ProvenanceHolds, PTL

LEMMA NamedType ==
  ASSUME NEW g \in Graphs, NEW t, Present(g, t)
  PROVE  {TableOf[f] : f \in Named(t)} \subseteq TablesIn(g)
<1>1. CASE g = Empty
  BY <1>1 DEF Present, Fields, Named
<1>2. CASE g \in Schemas
  <2>1. {TableOf[f] : f \in FieldsOf[g]} \subseteq TablesOf[g] /\ g # Empty
    BY <1>2, LoopAssumption
  <2>2. Named(t) \subseteq FieldsOf[g]
    BY <2>1 DEF Present, Fields
  <2> QED BY <2>1, <2>2 DEF TablesIn
<1> QED
  BY <1>1, <1>2 DEF Graphs

\* A query uses an approval over coherent evidence only while its graph has
\* every table of the approved target, for any hash of counts and tables.
THEOREM DriftIsDetected == Spec => []DriftDetected
<1>1. TypeInv /\ Provenance => DriftDetected
  <2> SUFFICES ASSUME TypeInv, Provenance, NEW q \in Queriers, NEW a \in approvals,
                      Reuses(q, a), a.key = Key(a.rows), a.entry.drift # NoKey
               PROVE  {TableOf[f] : f \in Named(a.entry.target)} \subseteq TablesIn(query[q].rows)
    BY DEF DriftDetected
  <2>1. Key(a.rows) = Key(query[q].rows) /\ Key(a.rows) # NoKey
    BY OverlayFacts DEF Reuses, Provenance, ApprovalsKeyed
  <2>2. a.rows \in Graphs /\ query[q].rows \in Graphs
    BY DEF TypeInv, TypeOK, QueryRuns
  <2>3. a.rows \in Schemas /\ query[q].rows \in Schemas /\ a.rows # Empty /\ query[q].rows # Empty
    BY <2>1, <2>2 DEF Key, Graphs
  <2>4. TablesIn(a.rows) = TablesIn(query[q].rows)
    BY <2>1, <2>3, HashAssumption DEF Key, TablesIn
  <2>5. {TableOf[f] : f \in Named(a.entry.target)} \subseteq TablesIn(a.rows)
    BY <2>2, NamedType DEF Reuses
  <2> QED BY <2>4, <2>5
<1> QED
  BY <1>1, ProvenanceHolds, PTL
---------------------------------------------------------------------------
(* What an approval can break.                                             *)

\* No relationship typed by hand lacks the form entity.field->entity.field.
\* The code accepts others, and one of them stops every later query.
FreeTargetsParse ==
  \A c \in FreeTargets : c.kind = "relationship" => ParsesAsJoin(c.target)

OfferParses(c) == c.kind = "relationship" => ParsesAsJoin(c.target)

\* Offers are the graph's joins and relationships of an overlay; an overlay
\* that was loaded has only entries that parse.
QuerySound(run) ==
  /\ \A c \in run.offers : OfferParses(c)
  /\ run.pc = "rows" => run.text = NoFile
  /\ run.pc = "loaded" => \A e \in Selected(Parsed(run.text), run.key) : Loadable(e)
  /\ run.pc = "failed" /\ run.text # NoFile /\ Parsed(run.text).version = 1 =>
       \E e \in Selected(Parsed(run.text), run.key) : ~Loadable(e)

ApprovalsLoad == \A a \in approvals : Loadable(a.entry)

PacketSound ==
  /\ packet \in Packets => \A c \in packet.offers : OfferParses(c)
  /\ \A r \in Resolvers : resolver[r].pc = "session" =>
       \A c \in resolver[r].packet.offers : OfferParses(c)

LoadInv == ApprovalsLoad /\ PacketSound /\ \A q \in Queriers : QuerySound(query[q])

LEMMA OffersParse ==
  ASSUME NEW slot \in Slots, NEW g \in Graphs, NEW overlay, \A e \in overlay : Loadable(e),
         NEW c \in OffersOf(slot, g, overlay)
  PROVE  OfferParses(c)
<1>1. CASE slot = "join_path" /\ c.kind = "relationship"
  <2>1. c.target \in Joins(g) \/ \E e \in overlay : e.kind = "relationship" /\ c.target = e.target
    BY <1>1 DEF OffersOf
  <2>2. CASE c.target \in Joins(g)
    <3>1. PICK a \in FieldNames, b \in FieldNames : c.target = Pair(a, "->", b)
      BY <2>2, LoopAssumption DEF Joins, Graphs
    <3> QED BY <3>1 DEF Pair, OfferParses, ParsesAsJoin
  <2> QED BY <2>1, <2>2 DEF OfferParses, Loadable
<1>2. CASE slot # "join_path"
  BY <1>2, LoopAssumption DEF OffersOf, OfferParses
<1> QED
  BY <1>1, <1>2 DEF OfferParses

LEMMA ApprovedLoads ==
  ASSUME NEW t, NEW c, NEW key, OfferParses(c),
         ValidMapping(c.kind, NewEntry(t, c.kind, c.target, key).target)
  PROVE  Loadable(NewEntry(t, c.kind, c.target, key))
<1>1. c.kind = "relationship" => NormalizedTarget(c.kind, c.target) = c.target
  BY DEF OfferParses, ParsesAsJoin, NormalizedTarget
<1> QED
  BY <1>1 DEF NewEntry, Loadable, OfferParses

\* What one approval does.
LEMMA MergeParts ==
  ASSUME NEW r \in Resolvers, ResolveMerge(r)
  PROVE  \E c \in Approvable(resolver[r].packet), t \in Terms :
           LET p == resolver[r].packet
               e == NewEntry(t, c.kind, c.target, p.key)
           IN /\ ValidMapping(c.kind, e.target)
              /\ approvals' = approvals \cup {[entry |-> e, rows |-> p.rows, key |-> p.key]}
              /\ resolver' = [resolver EXCEPT ![r] =
                   [pc |-> "merged", packet |-> NoFile, entry |-> e,
                    merged |-> Merged(MergeBase(memory, p.key), e)]]
  BY DEF ResolveMerge

LEMMA IdleSound ==
  ASSUME NEW run, run.offers = {}, run.pc \notin {"rows", "loaded", "failed"}
  PROVE  QuerySound(run)
  BY DEF QuerySound

LEMMA InitLoad == Init => LoadInv
<1> SUFFICES ASSUME Init PROVE LoadInv
  OBVIOUS
<1>1. \A q \in Queriers : query[q].offers = {} /\ query[q].pc = "idle"
  BY DEF Init, IdleQuery
<1>2. packet \notin Packets
  BY FileAssumption DEF Init
<1> QED
  BY <1>1, <1>2, IdleSound DEF Init, LoadInv, ApprovalsLoad, PacketSound, IdleResolver

LEMMA QueryLoadStep ==
  ASSUME TypeInv, LoadInv, NEW q \in Queriers, Query(q)
  PROVE  LoadInv'
<1> DEFINE run == query[q]
<1>0. TypeOK /\ run \in QueryRuns /\ run.rows \in Graphs /\ run.text \in MemoryFile /\ QuerySound(run)
  BY DEF TypeInv, TypeOK, LoadInv, QueryRuns
<1>1. UNCHANGED <<resolver, approvals>> /\ \A s \in Queriers \ {q} : query'[s] = query[s]
  BY <1>0 DEF Query, QueryLoadRows, QueryWithoutMemory, QueryReadMemory, QueryReadKey, QueryExecute,
    Answered, QueryRefuse, QueryStamp, QueryWithoutPacket,
    QueryTruncatePacket, QueryWritePacket, QueryCrash, TypeOK
<1>2. QuerySound(query'[q])
  <2>1. CASE QueryLoadRows(q)
    BY <1>0, <2>1 DEF QueryLoadRows, IdleQuery, TypeOK, QuerySound
  <2>2. CASE QueryWithoutMemory(q)
    <3>1. query'[q] = [run EXCEPT !.pc = "loaded"] /\ run.text = NoFile
      BY <1>0, <2>2 DEF QueryWithoutMemory, TypeOK, QuerySound
    <3>2. /\ query'[q].pc = "loaded" /\ query'[q].text = NoFile
          /\ query'[q].offers = run.offers /\ query'[q].key = run.key
      BY <1>0, <3>1 DEF QueryRuns
    <3>3. Selected(Parsed(NoFile), run.key) = {}
      BY NoFileParsed DEF Selected
    <3> QED BY <1>0, <3>2, <3>3 DEF QuerySound
  <2>3. CASE QueryReadMemory(q)
    <3>1. /\ query'[q].text = memory /\ query'[q].offers = run.offers
          /\ query'[q].pc = IF memory = NoFile \/ Parsed(memory).version # 1 THEN "failed" ELSE "text"
      BY <1>0, <2>3 DEF QueryReadMemory, TypeOK, QueryRuns
    <3> QED BY <1>0, <3>1 DEF QuerySound
  <2>4. CASE QueryReadKey(q)
    <3>1. /\ query'[q].text = run.text /\ query'[q].offers = run.offers
          /\ query'[q].key = Key(graph)
          /\ query'[q].pc = IF Loads(Parsed(run.text), Key(graph)) THEN "loaded" ELSE "failed"
      BY <1>0, <2>4 DEF QueryReadKey, TypeOK, QueryRuns
    <3> QED BY <1>0, <3>1 DEF QuerySound, Loads
  <2>5. CASE QueryExecute(q)
    <3>1. query'[q].offers = {} /\ query'[q].pc = "executed"
      BY <1>0, <2>5 DEF QueryExecute, Answered, TypeOK, IdleQuery
    <3> QED BY <3>1, IdleSound
  <2>6. CASE QueryRefuse(q)
    <3>1. PICK slot \in Slots :
            query'[q].offers = OffersOf(slot, run.rows, Overlay(q)) /\ query'[q].pc = "refused"
      BY <1>0, <2>6 DEF QueryRefuse, TypeOK, IdleQuery
    <3>2. \A e \in Overlay(q) : Loadable(e)
      BY <1>0, <2>6 DEF QueryRefuse, QuerySound, Overlay
    <3>3. \A c \in query'[q].offers : OfferParses(c)
      BY <1>0, <3>1, <3>2, OffersParse
    <3> QED BY <3>1, <3>3 DEF QuerySound
  <2>7. CASE QueryStamp(q) \/ QueryTruncatePacket(q)
    <3>1. query'[q].offers = run.offers /\ query'[q].pc \in {"stamped", "truncated"}
      BY <1>0, <2>7 DEF QueryStamp, QueryTruncatePacket, TypeOK, QueryRuns
    <3> QED BY <1>0, <3>1 DEF QuerySound
  <2>8. CASE QueryWithoutPacket(q) \/ QueryWritePacket(q) \/ QueryCrash(q)
    <3>1. query'[q].offers = {} /\ query'[q].pc = "idle"
      BY <1>0, <2>8 DEF QueryWithoutPacket, QueryWritePacket, QueryCrash, TypeOK, IdleQuery
    <3> QED BY <3>1, IdleSound
  <2> QED BY <2>1, <2>2, <2>3, <2>4, <2>5, <2>6, <2>7, <2>8 DEF Query
<1>3. packet' \in Packets => \A c \in packet'.offers : OfferParses(c)
  <2>1. CASE QueryWritePacket(q)
    BY <1>0, <2>1 DEF QueryWritePacket, QuerySound
  <2>2. CASE QueryExecute(q) \/ QueryTruncatePacket(q)
    BY <2>2, FileAssumption DEF QueryExecute, QueryTruncatePacket, LoadInv, PacketSound
  <2>3. CASE ~(QueryWritePacket(q) \/ QueryExecute(q) \/ QueryTruncatePacket(q))
    <3>1. packet' = packet
      BY <2>3 DEF Query, QueryLoadRows, QueryWithoutMemory, QueryReadMemory, QueryReadKey,
        QueryRefuse, QueryStamp, QueryWithoutPacket, QueryCrash
    <3> QED BY <3>1 DEF LoadInv, PacketSound
  <2> QED BY <2>1, <2>2, <2>3
<1> QED
  BY <1>1, <1>2, <1>3 DEF LoadInv, ApprovalsLoad, PacketSound

LEMMA ResolveLoadStep ==
  ASSUME FreeTargetsParse, TypeInv, LoadInv, NEW r \in Resolvers, Resolve(r)
  PROVE  LoadInv'
<1>0. TypeOK /\ LoadInv /\ resolver[r] \in ResolverRuns
  BY DEF TypeInv, TypeOK
<1>1. UNCHANGED <<query, packet>>
  BY DEF Resolve, ResolveOpen, ResolveMerge, ResolveGiveUp, ResolveTruncate, ResolveWrite,
    ResolveCrash
<1>2. CASE ResolveMerge(r)
  <2> DEFINE p == resolver[r].packet
  <2>1. PICK c \in Approvable(p), t \in Terms :
          LET e == NewEntry(t, c.kind, c.target, p.key)
          IN /\ ValidMapping(c.kind, e.target)
             /\ approvals' = approvals \cup {[entry |-> e, rows |-> p.rows, key |-> p.key]}
             /\ resolver' = [resolver EXCEPT ![r] =
                  [pc |-> "merged", packet |-> NoFile, entry |-> e,
                   merged |-> Merged(MergeBase(memory, p.key), e)]]
    BY <1>2, MergeParts
  <2>2. OfferParses(c)
    BY <1>0, <1>2 DEF ResolveMerge, LoadInv, PacketSound, Approvable, FreeTargetsParse, OfferParses
  <2>3. Loadable(NewEntry(t, c.kind, c.target, p.key))
    BY <2>1, <2>2, ApprovedLoads
  <2>4. \A a \in approvals' : Loadable(a.entry)
    BY <1>0, <2>1, <2>3 DEF LoadInv, ApprovalsLoad
  <2>5. resolver'[r].pc # "session" /\ \A s \in Resolvers \ {r} : resolver'[s] = resolver[s]
    BY <1>0, <2>1 DEF TypeOK
  <2> QED BY <1>0, <1>1, <2>4, <2>5 DEF LoadInv, ApprovalsLoad, PacketSound
<1>3. CASE ~ResolveMerge(r)
  <2>1. approvals' = approvals /\ \A s \in Resolvers \ {r} : resolver'[s] = resolver[s]
    BY <1>0, <1>3 DEF Resolve, ResolveOpen, ResolveGiveUp, ResolveTruncate, ResolveWrite,
      ResolveCrash, TypeOK
  <2>2. resolver'[r].pc = "session" => resolver'[r].packet = packet /\ packet \in Packets
    BY <1>0, <1>3 DEF Resolve, ResolveOpen, ResolveGiveUp, ResolveTruncate, ResolveWrite,
      ResolveCrash, TypeOK, ResolverRuns, IdleResolver
  <2> QED BY <1>0, <1>1, <2>1, <2>2 DEF LoadInv, ApprovalsLoad, PacketSound
<1> QED
  BY <1>2, <1>3

\* A load that fails on a readable file has an entry to blame that was
\* written by hand: approvals over packets never make the memory unloadable,
\* as long as the relationships typed by hand parse.
THEOREM FailuresAreHandWritten ==
  ASSUME FreeTargetsParse PROVE Spec => []FailureIsHandWritten
<1>1. TypeInv /\ LoadInv /\ [Next]_vars => LoadInv'
  <2> SUFFICES ASSUME TypeInv, LoadInv, [Next]_vars PROVE LoadInv'
    OBVIOUS
  <2>1. CASE Extract
    BY <2>1 DEF Extract, ExtractBegin, ExtractCommit, ExtractAbort, LoadInv, ApprovalsLoad, PacketSound
  <2>2. CASE UNCHANGED vars
    BY <2>2 DEF vars, LoadInv, ApprovalsLoad, PacketSound
  <2> QED BY <2>1, <2>2, QueryLoadStep, ResolveLoadStep DEF Next
<1>2. LoadInv /\ Provenance => FailureIsHandWritten
  <2> SUFFICES ASSUME LoadInv, Provenance, NEW q \in Queriers, query[q].pc = "failed",
                      query[q].text # NoFile, Parsed(query[q].text).version = 1
               PROVE  \E e \in Overlay(q) \cap HandWritten : ~Loadable(e)
    BY DEF FailureIsHandWritten
  <2>1. PICK e \in Overlay(q) : ~Loadable(e)
    BY DEF LoadInv, QuerySound, Overlay
  <2>2. e \notin ApprovedEntries
    BY <2>1 DEF LoadInv, ApprovalsLoad, ApprovedEntries
  <2>3. e \in HandWritten
    BY <2>1, <2>2, OverlayFacts DEF Backed
  <2> QED BY <2>1, <2>3
<1> QED
  BY <1>1, <1>2, InitLoad, ProvenanceHolds, PTL DEF Spec
---------------------------------------------------------------------------
(* What one resolver at a time keeps.                                      *)

OneResolver == \A r, s \in Resolvers : r = s

Kept(S) == \A e \in saved : Superseded(e) \/ e \in S

\* What a resolver is about to write keeps all that is saved and adds a
\* confirmed entry to the file it read, which nobody else changes meanwhile;
\* between truncation and write the file is torn.
Saving(run) ==
  /\ run.pc \in {"merged", "truncated"} =>
       /\ run.entry.status = "confirmed" /\ ValidMapping(run.entry.kind, run.entry.target)
       /\ run.merged \in Memories /\ run.entry \in run.merged.entries
       /\ Kept(run.merged.entries)
  /\ run.pc = "merged" =>
       run.merged.entries =
         {x \in Parsed(memory).entries : ~SameMapping(x, run.entry)} \cup {run.entry}
  /\ run.pc = "truncated" => memory = Torn

\* While nobody is between the two halves of a write, the file has all that
\* was saved; a file left torn by a crash took the saved entries with it.
SaveInv ==
  /\ \A e \in saved : e.status = "confirmed"
  /\ \A r \in Resolvers : Saving(resolver[r])
  /\ (\A r \in Resolvers : resolver[r].pc # "truncated") => Kept(Parsed(memory).entries)

LEMMA SupersededMonotone ==
  ASSUME approvals \subseteq approvals', NEW e, Superseded(e)
  PROVE  Superseded(e)'
  BY DEF Superseded, ApprovedEntries

LEMMA KeptMonotone ==
  ASSUME approvals \subseteq approvals', saved' \subseteq saved, NEW S, Kept(S)
  PROVE  \A e \in saved' : Superseded(e)' \/ e \in S
  BY SupersededMonotone DEF Kept

LEMMA FileParsed == ASSUME NEW m \in Memories PROVE Parsed(m) = m /\ m \notin {NoFile, Torn}
  BY FileAssumption DEF Parsed

LEMMA InitSave == Init => SaveInv
  BY DEF Init, SaveInv, Saving, IdleResolver, Kept

LEMMA SaveUnchanged ==
  ASSUME SaveInv, UNCHANGED <<memory, resolver, approvals, saved>>
  PROVE  SaveInv'
  BY DEF SaveInv, Saving, Kept, Superseded, ApprovedEntries

LEMMA QueryKeepsFile ==
  ASSUME NEW q \in Queriers, Query(q)
  PROVE  UNCHANGED <<memory, resolver, approvals, saved>>
  BY DEF Query, QueryLoadRows, QueryWithoutMemory, QueryReadMemory, QueryReadKey, QueryExecute,
    QueryRefuse, QueryStamp, QueryWithoutPacket, QueryTruncatePacket, QueryWritePacket, QueryCrash

\* The approval as one resolver makes it: what it will write.
LEMMA MergeSaves ==
  ASSUME TypeInv, NEW r \in Resolvers, ResolveMerge(r)
  PROVE  \E e \in Entries, m \in Memories :
           /\ e.status = "confirmed" /\ ValidMapping(e.kind, e.target)
           /\ m.entries = {x \in Parsed(memory).entries : ~SameMapping(x, e)} \cup {e}
           /\ approvals \subseteq approvals' /\ e \in ApprovedEntries'
           /\ resolver' = [resolver EXCEPT ![r] =
                [pc |-> "merged", packet |-> NoFile, entry |-> e, merged |-> m]]
<1> DEFINE p == resolver[r].packet
<1>1. p \in Packets /\ p.rows \in Graphs /\ p.key \in Keys /\ p.offers \subseteq Choices
  BY DEF ResolveMerge, TypeInv, RunsEquipped, Equipped, Packets
<1>2. PICK c \in Approvable(p), t \in Terms :
        LET e == NewEntry(t, c.kind, c.target, p.key)
        IN /\ ValidMapping(c.kind, e.target)
           /\ approvals' = approvals \cup {[entry |-> e, rows |-> p.rows, key |-> p.key]}
           /\ resolver' = [resolver EXCEPT ![r] =
                [pc |-> "merged", packet |-> NoFile, entry |-> e,
                 merged |-> Merged(MergeBase(memory, p.key), e)]]
  BY MergeParts
<1>3. c.kind \in Kinds /\ c.target \in Targets
  BY <1>1, LoopAssumption DEF Approvable, Choices
<1> DEFINE e == NewEntry(t, c.kind, c.target, p.key)
           base == MergeBase(memory, p.key)
           m == Merged(base, e)
<1>4. e \in Entries /\ e.kind = c.kind /\ e.status = "confirmed"
  BY <1>1, <1>3, NewEntryType DEF NewEntry
<1>5. base \in Memories /\ base.entries = Parsed(memory).entries
  BY <1>1, MergeBaseType DEF TypeInv, TypeOK
<1>6. m \in Memories
  BY <1>4, <1>5, MergedType
<1>7. m.entries = {x \in Parsed(memory).entries : ~SameMapping(x, e)} \cup {e}
  BY <1>5 DEF Merged, Memories
<1>8. approvals \subseteq approvals' /\ e \in ApprovedEntries'
  <2> DEFINE a == [entry |-> e, rows |-> p.rows, key |-> p.key]
  <2>1. a.entry = e /\ approvals' = approvals \cup {a}
    BY <1>2
  <2> HIDE DEF a, e
  <2> QED BY <2>1 DEF ApprovedEntries
<1>9. /\ ValidMapping(e.kind, e.target)
      /\ resolver' = [resolver EXCEPT ![r] =
           [pc |-> "merged", packet |-> NoFile, entry |-> e, merged |-> m]]
  BY <1>2, <1>4
<1> HIDE DEF e, base, m
<1> QED
  BY <1>4, <1>6, <1>7, <1>8, <1>9

LEMMA ResolveSaveStep ==
  ASSUME OneResolver, TypeInv, SaveInv, NEW r \in Resolvers, Resolve(r)
  PROVE  SaveInv'
<1>0. /\ TypeOK /\ resolver[r] \in ResolverRuns /\ Saving(resolver[r])
      /\ \A s \in Resolvers : s = r /\ \A e \in saved : e.status = "confirmed"
  BY DEF TypeInv, TypeOK, SaveInv, OneResolver
<1>1. CASE ResolveMerge(r)
  <2>1. PICK e \in Entries, m \in Memories :
           /\ e.status = "confirmed" /\ ValidMapping(e.kind, e.target)
           /\ m.entries = {x \in Parsed(memory).entries : ~SameMapping(x, e)} \cup {e}
           /\ approvals \subseteq approvals' /\ e \in ApprovedEntries'
           /\ resolver' = [resolver EXCEPT ![r] =
                [pc |-> "merged", packet |-> NoFile, entry |-> e, merged |-> m]]
    BY <1>1, MergeSaves
  <2>2. resolver'[r] = [pc |-> "merged", packet |-> NoFile, entry |-> e, merged |-> m]
    BY <1>0, <2>1 DEF TypeOK
  <2>3. UNCHANGED <<memory, saved>> /\ resolver[r].pc = "session"
    BY <1>1 DEF ResolveMerge
  <2>4. Kept(Parsed(memory).entries)
    BY <1>0, <2>3 DEF SaveInv
  <2>5. \A x \in saved' : Superseded(x)' \/ x \in Parsed(memory).entries
    BY <2>1, <2>3, <2>4, KeptMonotone
  <2>6. ASSUME NEW x \in saved' PROVE Superseded(x)' \/ x \in m.entries
    <3>1. CASE SameMapping(x, e) /\ x # e
      BY <2>1, <3>1 DEF Superseded, SameMapping
    <3> QED BY <2>1, <2>5, <3>1
  <2>7. Saving(resolver[r])'
    BY <2>1, <2>2, <2>3, <2>6 DEF Saving, Kept
  <2>8. Kept(Parsed(memory).entries)'
    BY <2>3, <2>5 DEF Kept
  <2> QED BY <1>0, <2>3, <2>7, <2>8 DEF SaveInv
<1>2. CASE ResolveOpen(r) \/ ResolveGiveUp(r)
  <2>1. UNCHANGED <<memory, approvals, saved>> /\ resolver[r].pc # "truncated"
    BY <1>2 DEF ResolveOpen, ResolveGiveUp
  <2>2. resolver'[r].pc \in {"idle", "session"}
    BY <1>0, <1>2 DEF ResolveOpen, ResolveGiveUp, TypeOK, IdleResolver, ResolverRuns
  <2>3. Kept(Parsed(memory).entries)'
    BY <1>0, <2>1 DEF SaveInv, Kept, Superseded, ApprovedEntries
  <2> QED BY <1>0, <2>1, <2>2, <2>3 DEF SaveInv, Saving
<1>3. CASE ResolveTruncate(r)
  <2>1. UNCHANGED <<approvals, saved>> /\ memory' = Torn
    BY <1>3 DEF ResolveTruncate
  <2>2. /\ resolver'[r].pc = "truncated" /\ resolver[r].pc = "merged"
        /\ resolver'[r].entry = resolver[r].entry /\ resolver'[r].merged = resolver[r].merged
    BY <1>0, <1>3 DEF ResolveTruncate, TypeOK, ResolverRuns
  <2> QED BY <1>0, <2>1, <2>2 DEF SaveInv, Saving, Kept, Superseded, ApprovedEntries
<1>4. CASE ResolveWrite(r)
  <2>1. /\ UNCHANGED approvals /\ memory' = resolver[r].merged
        /\ saved' = saved \cup {resolver[r].entry} /\ resolver[r].pc = "truncated"
    BY <1>4 DEF ResolveWrite
  <2>2. resolver'[r].pc = "idle"
    BY <1>0, <1>4 DEF ResolveWrite, TypeOK, IdleResolver
  <2>3. Parsed(memory') = resolver[r].merged
    BY <1>0, <2>1, FileParsed DEF Saving
  <2>4. Kept(Parsed(memory).entries)'
    BY <1>0, <2>1, <2>3 DEF Saving, Kept, Superseded, ApprovedEntries
  <2> QED BY <1>0, <2>1, <2>2, <2>4 DEF SaveInv, Saving
<1>5. CASE ResolveCrash(r)
  <2>1. /\ UNCHANGED <<memory, approvals>>
        /\ saved' = IF resolver[r].pc = "truncated" THEN {} ELSE saved
    BY <1>5 DEF ResolveCrash
  <2>2. resolver'[r].pc = "idle"
    BY <1>0, <1>5 DEF ResolveCrash, TypeOK, IdleResolver
  <2>3. Kept(Parsed(memory).entries)'
    BY <1>0, <2>1 DEF SaveInv, Kept, Superseded, ApprovedEntries
  <2> QED BY <1>0, <2>1, <2>2, <2>3 DEF SaveInv, Saving
<1> QED
  BY <1>1, <1>2, <1>3, <1>4, <1>5 DEF Resolve

LEMMA SaveInvariant == ASSUME OneResolver PROVE Spec => []SaveInv
<1>1. TypeInv /\ SaveInv /\ [Next]_vars => SaveInv'
  <2> SUFFICES ASSUME TypeInv, SaveInv, [Next]_vars PROVE SaveInv'
    OBVIOUS
  <2>1. CASE Extract
    BY <2>1, SaveUnchanged DEF Extract, ExtractBegin, ExtractCommit, ExtractAbort
  <2>2. CASE UNCHANGED vars
    BY <2>2, SaveUnchanged DEF vars
  <2> QED BY <2>1, <2>2, SaveUnchanged, QueryKeepsFile, ResolveSaveStep DEF Next
<1> QED
  BY <1>1, InitSave, TypeInvHolds, PTL DEF Spec

\* One resolver at a time loses no completed save but to a write that a
\* crash cut off, or to a newer approval of the same mapping.
THEOREM SavesSurvive == ASSUME OneResolver PROVE Spec => []ApprovalsSurvive
<1>1. SaveInv => ApprovalsSurvive
  <2> SUFFICES ASSUME SaveInv, memory # Torn, NEW e \in saved
               PROVE  Superseded(e) \/ (memory # NoFile /\ e \in memory.entries)
    BY DEF ApprovalsSurvive
  <2>1. Kept(Parsed(memory).entries)
    BY DEF SaveInv, Saving
  <2> QED BY <2>1, NoFileParsed DEF Kept, Parsed
<1> QED
  BY <1>1, SaveInvariant, PTL
---------------------------------------------------------------------------
(* What a later query finds of it.                                         *)

\* What a query has read of a sound file has every save it knows of.
Reading(run) ==
  /\ \A e \in run.known : e.status = "confirmed"
  /\ run.pc = "rows" => run.text = NoFile
  /\ run.pc \in {"text", "loaded"} /\ run.text \notin {NoFile, Torn} =>
       \A e \in run.known : Superseded(e) \/ e \in run.text.entries

ReadInv == \A q \in Queriers : Reading(query[q])

LEMMA IdleReads ==
  ASSUME NEW run, run.known = {}, run.pc # "rows" PROVE Reading(run)
  BY DEF Reading

LEMMA QueryReadStep ==
  ASSUME TypeInv, SaveInv, ReadInv, NEW q \in Queriers, Query(q)
  PROVE  ReadInv'
<1> DEFINE run == query[q]
<1>0. TypeOK /\ run \in QueryRuns /\ Reading(run)
  BY DEF TypeInv, TypeOK, ReadInv
<1>1. UNCHANGED approvals /\ \A s \in Queriers \ {q} : query'[s] = query[s]
  BY <1>0 DEF Query, QueryLoadRows, QueryWithoutMemory, QueryReadMemory, QueryReadKey, QueryExecute,
    Answered, QueryRefuse, QueryStamp, QueryWithoutPacket,
    QueryTruncatePacket, QueryWritePacket, QueryCrash, TypeOK
<1>2. Reading(query'[q])
  <2>1. CASE QueryLoadRows(q)
    <3>1. query'[q].known = saved /\ query'[q].pc = "rows" /\ query'[q].text = NoFile
      BY <1>0, <2>1 DEF QueryLoadRows, IdleQuery, TypeOK
    <3> QED BY <3>1 DEF Reading, SaveInv
  <2>2. CASE QueryReadMemory(q)
    <3>1. /\ query'[q].text = memory /\ query'[q].known = run.known \cap saved
          /\ query'[q].pc \in {"failed", "text"}
      BY <1>0, <2>2 DEF QueryReadMemory, TypeOK, QueryRuns
    <3>2. memory \notin {NoFile, Torn} => Kept(memory.entries)
      <4> SUFFICES ASSUME memory \notin {NoFile, Torn} PROVE Kept(memory.entries)
        OBVIOUS
      <4>1. \A r \in Resolvers : resolver[r].pc # "truncated"
        BY DEF SaveInv, Saving
      <4> QED BY <4>1 DEF SaveInv, Parsed
    <3> QED BY <1>0, <3>1, <3>2 DEF Reading, Kept
  <2>3. CASE \/ QueryWithoutMemory(q) \/ QueryReadKey(q) \/ QueryStamp(q)
             \/ QueryTruncatePacket(q)
    <3>1. /\ query'[q].text = run.text /\ query'[q].known = run.known
          /\ query'[q].pc # "rows"
          /\ run.pc \in {"rows", "text"} \/ query'[q].pc \notin {"text", "loaded"}
      BY <1>0, <2>3 DEF QueryWithoutMemory, QueryReadKey, QueryStamp, QueryTruncatePacket,
        TypeOK, QueryRuns
    <3> QED BY <1>0, <3>1 DEF Reading
  <2>4. CASE QueryExecute(q) \/ QueryRefuse(q)
    <3>1. query'[q].known = {} /\ query'[q].pc # "rows"
      BY <1>0, <2>4 DEF QueryExecute, Answered, QueryRefuse, IdleQuery, TypeOK
    <3> QED BY <3>1, IdleReads
  <2>5. CASE QueryWithoutPacket(q) \/ QueryWritePacket(q) \/ QueryCrash(q)
    <3>1. query'[q].known = {} /\ query'[q].pc # "rows"
      BY <1>0, <2>5 DEF QueryWithoutPacket, QueryWritePacket, QueryCrash, IdleQuery, TypeOK
    <3> QED BY <3>1, IdleReads
  <2> QED BY <2>1, <2>2, <2>3, <2>4, <2>5 DEF Query
<1> QED
  BY <1>1, <1>2 DEF ReadInv, Reading, Superseded, ApprovedEntries

\* A save that was complete before a query began is in what the query loads
\* of a file that is not half-written, if the graph has the key of it.
THEOREM SavesAreReused == ASSUME OneResolver PROVE Spec => []ReusedOnLaterQueries
<1>1. Init => ReadInv
  BY IdleReads DEF Init, IdleQuery, ReadInv
<1>2. TypeInv /\ SaveInv /\ ReadInv /\ [Next]_vars => ReadInv'
  <2> SUFFICES ASSUME TypeInv, SaveInv, ReadInv, [Next]_vars PROVE ReadInv'
    OBVIOUS
  <2>1. CASE \E q \in Queriers : Query(q)
    BY <2>1, QueryReadStep
  <2>2. CASE ~\E q \in Queriers : Query(q)
    <3>1. query' = query /\ approvals \subseteq approvals'
      BY <2>2 DEF Next, vars, Extract, ExtractBegin, ExtractCommit, ExtractAbort, Resolve,
        ResolveOpen, ResolveMerge, ResolveGiveUp, ResolveTruncate, ResolveWrite, ResolveCrash
    <3> QED BY <3>1, SupersededMonotone DEF ReadInv, Reading
  <2> QED BY <2>1, <2>2
<1>3. TypeInv /\ ReadInv => ReusedOnLaterQueries
  <2> SUFFICES ASSUME TypeInv, ReadInv, NEW q \in Queriers, query[q].pc = "loaded",
                      query[q].text \notin {NoFile, Torn}, NEW e \in query[q].known,
                      e.drift = query[q].key, e.drift # NoKey, ~Superseded(e)
               PROVE  e \in Overlay(q)
    BY DEF ReusedOnLaterQueries
  <2>1. e \in Parsed(query[q].text).entries /\ e.status = "confirmed"
    BY DEF ReadInv, Reading, Parsed
  <2> QED BY <2>1 DEF Overlay, Selected, IsStale, EffectiveKey, Participates
<1> QED
  BY <1>1, <1>2, <1>3, SaveInvariant, TypeInvHolds, PTL DEF Spec

---------------------------------------------------------------------------
(* The approval log.                                                       *)

LEMMA ContentsOpen ==
  ASSUME \A r \in Resolvers : resolver[r].pc # "truncated"
  PROVE  Contents = Parsed(memory).entries
  BY DEF Contents, Writing

LEMMA LogStep ==
  ASSUME OneResolver, TypeInv, SaveInv, [Next]_vars
  PROVE  [Log!LogNext]_<<Contents, spent.crashes>>
<1>0. TypeOK
  BY DEF TypeInv
<1>1. ASSUME NEW r \in Resolvers, Resolve(r)
      PROVE  [Log!LogNext]_<<Contents, spent.crashes>>
  <2> DEFINE run == resolver[r]
  <2>0. \A s \in Resolvers : s = r
    BY <1>1 DEF OneResolver
  <2>1. /\ Contents = IF run.pc = "truncated" THEN run.merged.entries ELSE Parsed(memory).entries
        /\ Contents' = IF resolver'[r].pc = "truncated" THEN resolver'[r].merged.entries
                       ELSE Parsed(memory').entries
    <3>1. /\ Writing = IF run.pc = "truncated" THEN {r} ELSE {}
          /\ Writing' = IF resolver'[r].pc = "truncated" THEN {r} ELSE {}
      BY <2>0 DEF Writing
    <3> QED BY <3>1 DEF Contents
  <2>2. CASE ResolveOpen(r) \/ ResolveGiveUp(r)
    <3>1. UNCHANGED <<memory, spent>> /\ run.pc # "truncated" /\ resolver'[r].pc # "truncated"
      BY <1>0, <2>2 DEF ResolveOpen, ResolveGiveUp, TypeOK, IdleResolver, ResolverRuns
    <3> QED BY <2>1, <3>1
  <2>3. CASE ResolveMerge(r)
    <3>1. UNCHANGED <<memory, spent>> /\ run.pc # "truncated"
      BY <2>3 DEF ResolveMerge
    <3>2. resolver'[r].pc # "truncated"
      BY <1>0, <2>3, MergeSaves DEF TypeOK
    <3> QED BY <2>1, <3>1, <3>2
  <2>4. CASE ResolveTruncate(r)
    <3> DEFINE e == run.entry
    <3>1. /\ run.pc = "merged" /\ resolver'[r].pc = "truncated"
          /\ resolver'[r].merged = run.merged /\ UNCHANGED spent
      BY <1>0, <2>4 DEF ResolveTruncate, TypeOK, ResolverRuns
    <3>2. /\ e.status = "confirmed" /\ ValidMapping(e.kind, e.target) /\ e \in Entries
          /\ run.merged.entries = {x \in Parsed(memory).entries : ~SameMapping(x, e)} \cup {e}
      BY <3>1 DEF SaveInv, Saving, TypeInv, RunsEquipped, Equipped
    <3>3. Contents' = {x \in Contents : ~SameMapping(x, e)} \cup {e}
      BY <2>1, <3>1, <3>2
    <3>4. e \in Contents' /\ Log!Approve(e)
      BY <3>1, <3>2, <3>3 DEF Log!Approve, Log!Entries, Log!ValidMapping, Log!SameMapping,
        Log!IsBlank, Log!Targets, Log!Texts, Log!Keys, Log!Kinds, Log!SupportedKinds,
        Log!Statuses, Entries, ValidMapping, SameMapping, IsBlank, Targets, Texts, Keys,
        Kinds, SupportedKinds, Statuses
    <3> QED BY <3>4 DEF Log!LogNext
  <2>5. CASE ResolveWrite(r)
    <3>1. /\ run.pc = "truncated" /\ memory' = run.merged /\ UNCHANGED spent
          /\ resolver'[r].pc # "truncated" /\ run.merged \in Memories
      BY <1>0, <2>5 DEF ResolveWrite, TypeOK, IdleResolver, SaveInv, Saving
    <3> QED BY <2>1, <3>1, FileParsed
  <2>6. CASE ResolveCrash(r)
    <3>1. /\ memory' = memory /\ spent'.crashes = spent.crashes + 1
          /\ resolver'[r].pc # "truncated" /\ (run.pc = "truncated" => memory = Torn)
      BY <1>0, <2>6 DEF ResolveCrash, TypeOK, IdleResolver, SaveInv, Saving
    <3> QED BY <2>1, <3>1, NoFileParsed DEF Log!LogNext, Log!Lose
  <2> QED BY <1>1, <2>2, <2>3, <2>4, <2>5, <2>6 DEF Resolve
<1>2. ASSUME NEW q \in Queriers, Query(q)
      PROVE  [Log!LogNext]_<<Contents, spent.crashes>>
  <2>1. Contents' = Contents
    <3>1. UNCHANGED <<memory, resolver>>
      BY <1>2, QueryKeepsFile
    <3> QED BY <3>1 DEF Contents, Writing
  <2>2. spent' = spent \/ spent'.crashes = spent.crashes + 1
    BY <1>0, <1>2 DEF Query, QueryLoadRows, QueryWithoutMemory, QueryReadMemory, QueryReadKey,
      QueryExecute, QueryRefuse, QueryStamp, QueryWithoutPacket,
      QueryTruncatePacket, QueryWritePacket, QueryCrash, TypeOK
  <2> QED BY <2>1, <2>2 DEF Log!LogNext, Log!Lose
<1>3. CASE Extract \/ UNCHANGED vars
  <2>1. UNCHANGED <<memory, resolver>> /\ spent'.crashes = spent.crashes
    BY <1>0, <1>3 DEF Extract, ExtractBegin, ExtractCommit, ExtractAbort, vars, TypeOK
  <2> QED BY <2>1 DEF Contents, Writing
<1> QED
  BY <1>1, <1>2, <1>3 DEF Next

\* One resolver implements the approval log: an approval changes the log at
\* once, as a whole, and a crash leaves it as it was or empty.
THEOREM LogIsImplemented == ASSUME OneResolver PROVE Spec => ImplementsLog
<1>1. Init => Log!LogInit
  <2> SUFFICES ASSUME Init PROVE Log!LogInit
    OBVIOUS
  <2>1. Contents = Parsed(FirstMemory).entries
    BY ContentsOpen DEF Init, IdleResolver
  <2>2. Parsed(FirstMemory).entries = HandWritten
    BY FirstMemoryAssumption, NoFileParsed, FileParsed
  <2> QED BY <2>1, <2>2 DEF Init, Log!LogInit
<1>2. TypeInv /\ SaveInv /\ [Next]_vars => [Log!LogNext]_<<Contents, spent.crashes>>
  BY LogStep
<1> QED
  BY <1>1, <1>2, SaveInvariant, TypeInvHolds, PTL DEF Spec, ImplementsLog, Log!Spec
=============================================================================
