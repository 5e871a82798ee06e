------------------------- MODULE ResolutionMemory -------------------------
(***************************************************************************)
(* The resolution-memory sidecar (semsql.memory.yaml) as data: what one    *)
(* entry is, how `semsql resolve` merges an approved mapping into the file *)
(* and which entries a query takes over when it loads the file beside a    *)
(* graph.  No state here; ResolutionLoop gives the processes that read and *)
(* write the file.                                                         *)
(*                                                                         *)
(* A target keeps the shape the code looks at: the text before and after   *)
(* its first separator.  "orders.status=paid" is [left |-> orders.status,  *)
(* sep |-> "=", right |-> paid]; a plain name has sep = "".                *)
(***************************************************************************)
EXTENDS FiniteSets

CONSTANTS
  Terms,        \* natural-language phrases, trimmed and lower-cased
  Names,        \* non-blank texts on either side of a separator
  FieldNames,   \* those of the form `entity.field`
  Blank,        \* a text that is empty once trimmed
  Hashes,       \* values of the graph's schema_hash
  NoKey         \* an absent drift key, or a graph without schema_hash

ASSUME MemoryAssumption ==
  /\ FieldNames \subseteq Names
  /\ Blank \notin Names
  /\ NoKey \notin Hashes

SupportedKinds == {"entity", "field", "enum_value", "relationship", "scope_predicate"}
Kinds == SupportedKinds \cup {"unsupported"}

Texts == Names \cup {Blank}
Targets == [left: Texts, sep: {"", "=", ":", "->"}, right: Texts]

Plain(name) == [left |-> name, sep |-> "", right |-> Blank]
Pair(l, s, r) == [left |-> l, sep |-> s, right |-> r]

Keys == Hashes \cup {NoKey}
Statuses == {"provisional", "confirmed", "governed", "rejected", "stale"}

\* `inRange` says whether the entry's confidence lies in [0, 1].
Entries == [term: Terms, kind: Kinds, target: Targets, status: Statuses,
            inRange: BOOLEAN, drift: Keys]

Memories == [version: {1, 2}, drift: Keys, entries: SUBSET Entries]

\* Every field of the file is `#[serde(default)]`: an empty document parses.
DefaultMemory == [version |-> 1, drift |-> NoKey, entries |-> {}]

---------------------------------------------------------------------------
(* Saving: resolve.rs                                                      *)

IsBlank(t) == t.left = Blank /\ t.sep = ""

\* A filter candidate `field=value` names a value as `field:value`, and the
\* field alone when it is saved as a field.
NormalizedTarget(kind, t) ==
  IF t.sep # "=" THEN t
  ELSE CASE kind = "enum_value" -> [t EXCEPT !.sep = ":"]
         [] kind = "field"      -> Plain(t.left)
         [] OTHER               -> t

ValidMapping(kind, t) == kind \in SupportedKinds /\ ~IsBlank(t)

SameMapping(e, f) == e.term = f.term /\ e.kind = f.kind /\ e.target = f.target

\* A bug: a status the loader does not know.
NewEntryApproved(term, kind, t, key) ==
  [term |-> term, kind |-> kind, target |-> NormalizedTarget(kind, t),
   status |-> "approved", inRange |-> TRUE, drift |-> key]

NewEntry(term, kind, t, key) ==
  [term |-> term, kind |-> kind, target |-> NormalizedTarget(kind, t),
   status |-> "confirmed", inRange |-> TRUE, drift |-> key]

\* A bug the properties must see: the approval also confirms every other
\* entry of the term it approves.
MergedConfirmingTerm(mem, e) ==
  [mem EXCEPT !.drift = IF @ = NoKey THEN e.drift ELSE @,
              !.entries = {IF x.term = e.term THEN [x EXCEPT !.status = "confirmed"] ELSE x :
                             x \in {y \in @ : ~SameMapping(y, e)}} \cup {e}]

\* Another: the new entry replaces every mapping of its term, not its own.
MergedReplacingTerm(mem, e) ==
  [mem EXCEPT !.drift = IF @ = NoKey THEN e.drift ELSE @,
              !.entries = {x \in @ : x.term # e.term} \cup {e}]

\* The approved entry replaces the one with its term, kind and target and
\* leaves the others; a file without a drift key of its own takes this one.
Merged(mem, e) ==
  [mem EXCEPT !.drift = IF @ = NoKey THEN e.drift ELSE @,
              !.entries = {x \in @ : ~SameMapping(x, e)} \cup {e}]

---------------------------------------------------------------------------
(* Loading: context.rs                                                     *)

\* A bug: the file's default key wins over the entry's own.
FileKeyFirst(mem, e) == IF mem.drift # NoKey THEN mem.drift ELSE e.drift

EffectiveKey(mem, e) == IF e.drift # NoKey THEN e.drift ELSE mem.drift

IsStale(mem, e, hash) == EffectiveKey(mem, e) \notin {NoKey, hash}

Participates(e) == e.status \in {"confirmed", "governed"}

\* What an entry must satisfy once it is neither stale nor unapproved; one
\* that does not makes the whole load fail.
ParsesAsJoin(t) == t.sep = "->" /\ t.left \in FieldNames /\ t.right \in FieldNames

Loadable(e) ==
  /\ ValidMapping(e.kind, e.target)
  /\ e.inRange
  /\ e.kind = "relationship" => ParsesAsJoin(e.target)

\* A bug: staleness is not looked at.
EveryParticipant(mem, hash) == {e \in mem.entries : Participates(e)}

Selected(mem, hash) == {e \in mem.entries : ~IsStale(mem, e, hash) /\ Participates(e)}

Loads(mem, hash) == \A e \in Selected(mem, hash) : Loadable(e)
===========================================================================
