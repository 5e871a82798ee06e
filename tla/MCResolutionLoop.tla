-------------------------- MODULE MCResolutionLoop --------------------------
(* Small instances of ResolutionLoop for TLC. *)
EXTENDS ResolutionLoop, TLC

CONSTANTS s1, s2, h1, h2, t1, f1, f2, f3, v1, ta, tb, tc

\* s2 is s1 with its table tb renamed to tc, so that the field f2 is now f3:
\* the hash, of counts and table names, tells them apart.
MCFieldsOf == (s1 :> {f1, f2}) @@ (s2 :> {f1, f3})
MCJoinsOf == (s1 :> {Pair(f1, "->", f2)}) @@ (s2 :> {Pair(f1, "->", f3)})
MCHashOf == (s1 :> h1) @@ (s2 :> h2)
MCTableOf == (f1 :> ta) @@ (f2 :> tb) @@ (f3 :> tc)
MCTablesOf == (s1 :> {ta, tb}) @@ (s2 :> {ta, tc})

Hand(kind, t, status, ok, key) ==
  [term |-> t1, kind |-> kind, target |-> t, status |-> status, inRange |-> ok, drift |-> key]

\* A governed alias without a key and a provisional guess out of range;
\* then also a confirmed entry for the other schema that would not validate.
MCSoundMemory == {
  Hand("field", Plain(f1), "governed", TRUE, NoKey),
  Hand("field", Plain(f2), "provisional", FALSE, h1) }

MCHandWritten == MCSoundMemory \cup {Hand("relationship", Plain(f1), "confirmed", TRUE, h2)}

MCFirstMemory == [version |-> 1, drift |-> h1, entries |-> MCHandWritten]
MCFirstSoundMemory == [version |-> 1, drift |-> h1, entries |-> MCSoundMemory]
NoHandWritten == {}
NoFreeTargets == {}

\* A relationship typed by its entities, as the graph's own vocabulary
\* spells it, and a kind the memory does not know.
MCFreeTargets == {
  [kind |-> "relationship", target |-> Pair(v1, "->", v1)],
  [kind |-> "unsupported", target |-> Plain(f1)] }

Symmetry == Permutations(Resolvers)
=============================================================================
