----------------------------- MODULE MCJoinPlan -----------------------------
(* All graphs on five entities, where two of them have a second            *)
(* relationship and one has a loop; every required set, both planners.     *)
EXTENDS JoinPlan

CONSTANT noentity

Letters == <<"a", "b", "c", "d", "e">>
MCEntities == {Letters[i] : i \in 1 .. 5}
Rank == [e \in MCEntities |-> CHOOSE i \in 1 .. 5 : Letters[i] = e]

Link(name, from, to) == [name |-> name, from |-> from, to |-> to]
Links == {Link("ab", "b", "a"), Link("ac", "a", "c"), Link("ad", "d", "a"), Link("ae", "a", "e"),
          Link("bc", "b", "c"), Link("bd", "d", "b"), Link("be", "b", "e"),
          Link("cd", "c", "d"), Link("ce", "e", "c"), Link("de", "d", "e")}
Twin == Link("dc", "d", "c")
Loop == Link("cc", "c", "c")

MCNames == {s.name : s \in Links \cup {Twin, Loop}}
\* In the order of the relationships, but from d the twin comes first.
Order == <<"ab", "ac", "ad", "ae", "bc", "bd", "be", "cd", "ce", "de", "dc", "cc">>
MCFieldRank ==
  [n \in MCNames \X MCEntities |->
     IF n = <<"dc", "d">> THEN 0 ELSE CHOOSE i \in 1 .. 12 : Order[i] = n[1]]

Liked == [n \in MCNames \X MCEntities |-> IF n[1] \in {"ab", "cd", "ad"} THEN 4 ELSE 0]

AnyTask ==
  [base : {"b"}, required : {R \in SUBSET MCEntities : "b" \in R},
   relationships : {IF Link("cd", "c", "d") \in S THEN S \cup {Twin, Loop} ELSE S : S \in SUBSET Links},
   missing : {{}, {"bc"}}, score : {Liked}, fromBase : BOOLEAN]

MCTasks == {t \in AnyTask : t.fromBase => t.missing = {}}
=============================================================================
