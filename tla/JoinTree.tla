------------------------------ MODULE JoinTree ------------------------------
(***************************************************************************)
(* What the joins of a planned query promise: from the base table on, each *)
(* join brings in a new table over a relationship with a table that is     *)
(* already there; the query is planned only when all required tables are.  *)
(***************************************************************************)

VARIABLES task, scope, joins, outcome   \* task: [base, required, steps]

vars == <<task, scope, joins, outcome>>

Init == scope = {task.base} /\ joins = {} /\ outcome = "open"

Join ==
  /\ outcome = "open"
  /\ \E s \in task.steps : /\ s.from \in scope /\ s.to \notin scope
                           /\ joins' = joins \cup {s}
                           /\ scope' = scope \cup {s.to}
  /\ UNCHANGED <<task, outcome>>

Close ==
  /\ outcome = "open"
  /\ \/ outcome' = "planned" /\ task.required \subseteq scope
     \/ outcome' = "refused"
  /\ UNCHANGED <<task, scope, joins>>

Next == Join \/ Close

Spec == Init /\ [][Next]_vars
=============================================================================
