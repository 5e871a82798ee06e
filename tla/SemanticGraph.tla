--------------------------- MODULE SemanticGraph ---------------------------
(***************************************************************************)
(* What the commands promise about the .semsql file: it is absent, empty   *)
(* or whole.  A whole graph appears at once with its schema_hash; after    *)
(* that it only gains vocabulary, relationships and metrics, until it is   *)
(* cleared for the next extraction.                                        *)
(***************************************************************************)
CONSTANTS NoGraph, Empty, WholeGraphs

VARIABLE graph

Init == graph = NoGraph

Clear == graph' \in {NoGraph, Empty}

Publish == graph = Empty /\ graph' \in WholeGraphs

\* A metric of a name may be redefined; every other row stays.
Enrich ==
  /\ graph \notin {NoGraph, Empty} /\ graph' \notin {NoGraph, Empty}
  /\ graph'.entities = graph.entities
  /\ graph'.fields = graph.fields
  /\ graph'.hash = graph.hash
  /\ graph.edges \subseteq graph'.edges
  /\ graph.vocabulary \subseteq graph'.vocabulary
  /\ {m.name : m \in graph.metrics} \subseteq {m.name : m \in graph'.metrics}

Next == Clear \/ Publish \/ Enrich

Spec == Init /\ [][Next]_graph
=============================================================================
