------------------------------ MODULE JoinPlan ------------------------------
(***************************************************************************)
(* The joins of a query the typed planner renders: for each required       *)
(* entity a shortest path over the relationships, by breadth-first search, *)
(* then the paths' steps as INNER JOINs.                                   *)
(*                                                                         *)
(* One planner lets a search start from every entity joined so far         *)
(* (graph_join_plan), the other always from the base entity                *)
(* (graph_join_plan_from_base).  A relationship is a name for its pair of  *)
(* fields and the two entities.                                            *)
(***************************************************************************)
EXTENDS FiniteSets, Sequences, Naturals

CONSTANTS
  Entities, Names,
  EntityRank,  \* the order of entity names
  FieldRank,   \* of a relationship's fields on a side, then of the relationships
  Tasks,                 \* the queries of a check
  NoEntity

Steps == [name : Names, from : Entities, to : Entities]

\* `missing`: relationships one of whose fields the graph does not have.
\* `score`: how well a relationship, taken to an entity, fits the question.
AllTasks == [base : Entities, required : SUBSET Entities, relationships : SUBSET Steps,
             missing : SUBSET Names, score : [Names \X Entities -> Nat], fromBase : BOOLEAN]

ASSUME JoinAssumption ==
  /\ Tasks \subseteq AllTasks
  /\ IsFiniteSet(Names) /\ IsFiniteSet(Entities)
  /\ EntityRank \in [Entities -> Nat] /\ FieldRank \in [Names \X Entities -> Nat]
  /\ \A e, f \in Entities : EntityRank[e] = EntityRank[f] => e = f
  /\ \A e \in Entities : \A m, n \in Names : FieldRank[<<m, e>>] = FieldRank[<<n, e>>] => m = n
  /\ NoEntity \notin Entities

VARIABLES
  task,    \* the query at hand
  pc,
  todo,    \* required entities not yet looked at
  target,  \* the one being searched
  joined,  \* entities the steps of the plan connect
  queue,   \* of the search: an entity, and the steps that lead to it
  seen,
  here,    \* the element taken from the queue
  next,    \* steps from there to entities not seen, not yet queued
  plan,    \* the steps found
  scope,   \* rendering: the tables of the FROM clause so far
  joins    \* the steps rendered

vars == <<task, pc, todo, target, joined, queue, seen, here, next, plan, scope, joins>>
search == <<target, queue, seen, here, next>>

Directed ==
  task.relationships \cup {[name |-> s.name, from |-> s.to, to |-> s.from] : s \in task.relationships}

Reached == [at : Entities \cup {NoEntity}, path : Seq(Steps)]
Nowhere == [at |-> NoEntity, path |-> <<>>]

Ends == {"planned", "unconnected", "lost", "no field"}
Pcs == {"target", "starts", "search", "expand", "add", "render"} \cup Ends

Init ==
  /\ task \in Tasks
  /\ pc = "target" /\ todo = task.required /\ target = NoEntity
  /\ joined = {task.base}
  /\ queue = <<>> /\ seen = {} /\ here = Nowhere /\ next = {}
  /\ plan = <<>>
  /\ scope = {task.base} /\ joins = {}

-----------------------------------------------------------------------------
(* Planning.                                                               *)

Starts == IF task.fromBase THEN {task.base} ELSE joined

First(S) == {e \in S : \A other \in S : EntityRank[e] <= EntityRank[other]}

SkipTarget ==
  /\ pc = "target"
  /\ \E e \in First(todo) : e \in Starts /\ todo' = todo \ {e}
  /\ UNCHANGED <<task, pc, joined, search, plan, scope, joins>>

Search ==
  /\ pc = "target"
  /\ \E e \in First(todo) : /\ e \notin Starts
                            /\ todo' = todo \ {e} /\ target' = e
  /\ pc' = "starts" /\ queue' = <<>> /\ seen' = {}
  /\ UNCHANGED <<task, joined, here, next, plan, scope, joins>>

QueueStart ==
  /\ pc = "starts"
  /\ \E e \in First(Starts \ seen) :
       /\ queue' = Append(queue, [at |-> e, path |-> <<>>])
       /\ seen' = seen \cup {e}
  /\ pc' = IF seen' = Starts THEN "search" ELSE pc
  /\ UNCHANGED <<task, todo, target, joined, here, next, plan, scope, joins>>

\* A bug: relationships are followed one way.
OneWayNeighbors(e) == {s \in task.relationships : s.from = e /\ s.to \notin seen}

Neighbors(e) == {s \in Directed : s.from = e /\ s.to \notin seen}

Expand ==
  /\ pc = "search" /\ queue # <<>> /\ Head(queue).at # target
  /\ here' = Head(queue) /\ queue' = Tail(queue)
  /\ next' = Neighbors(Head(queue).at)
  /\ pc' = "expand"
  /\ UNCHANGED <<task, todo, target, joined, seen, plan, scope, joins>>

\* A bug: the order of the neighbours depends on the target.
BetterForTarget(s, t) ==
  LET score(u) == task.score[<<u.name, u.to>>]
      rank(u) == IF target \in First(task.required) THEN EntityRank[u.to]
                                                     ELSE 9 - EntityRank[u.to] IN
  \/ score(s) > score(t)
  \/ score(s) = score(t) /\ rank(s) < rank(t)
  \/ score(s) = score(t) /\ s.to = t.to /\ FieldRank[<<s.name, s.from>>] < FieldRank[<<t.name, t.from>>]

\* Best score first, then by name.
Better(s, t) ==
  LET score(u) == task.score[<<u.name, u.to>>] IN
  \/ score(s) > score(t)
  \/ score(s) = score(t) /\ EntityRank[s.to] < EntityRank[t.to]
  \/ score(s) = score(t) /\ s.to = t.to /\ FieldRank[<<s.name, s.from>>] < FieldRank[<<t.name, t.from>>]

\* A bug: depth first.
QueueFirst(s) == <<[at |-> s.to, path |-> Append(here.path, s)]>> \o queue

Queue(s) == Append(queue, [at |-> s.to, path |-> Append(here.path, s)])

\* Two relationships with one entity queue it twice.
QueueNeighbor ==
  /\ pc = "expand"
  /\ \E s \in next : /\ \A t \in next \ {s} : Better(s, t)
                     /\ queue' = Queue(s)
                     /\ seen' = seen \cup {s.to}
                     /\ next' = next \ {s}
  /\ UNCHANGED <<task, pc, todo, target, joined, here, plan, scope, joins>>

Expanded ==
  /\ pc = "expand" /\ next = {}
  /\ pc' = "search"
  /\ UNCHANGED <<task, todo, joined, search, plan, scope, joins>>

\* The path is taken; `here` holds what is left to add of it.
Found ==
  /\ pc = "search" /\ queue # <<>> /\ Head(queue).at = target
  /\ here' = Head(queue)
  /\ pc' = "add"
  /\ UNCHANGED <<task, todo, target, joined, queue, seen, next, plan, scope, joins>>

\* A bug: the steps two paths share are added twice.
AddAlways(s) == Append(plan, s)

Add(s) == IF \E i \in DOMAIN plan : plan[i] = s THEN plan ELSE Append(plan, s)

AddStep ==
  /\ pc = "add" /\ here.path # <<>>
  /\ LET s == Head(here.path) IN
       /\ plan' = Add(s)
       /\ joined' = joined \cup {s.from, s.to}
  /\ here' = [here EXCEPT !.path = Tail(@)]
  /\ UNCHANGED <<task, pc, todo, target, queue, seen, next, scope, joins>>

Added ==
  /\ pc = "add" /\ here.path = <<>>
  /\ pc' = "target"
  /\ UNCHANGED <<task, todo, joined, search, plan, scope, joins>>

\* A bug: a target without a path is left out.
LeaveOut ==
  /\ pc = "search" /\ queue = <<>>
  /\ pc' = "target"
  /\ UNCHANGED <<task, todo, joined, search, plan, scope, joins>>

NotFound ==
  /\ pc = "search" /\ queue = <<>>
  /\ pc' = "unconnected"
  /\ UNCHANGED <<task, todo, joined, search, plan, scope, joins>>

Planned ==
  /\ pc = "target" /\ todo = {}
  /\ pc' = "render"
  /\ UNCHANGED <<task, todo, joined, search, plan, scope, joins>>

-----------------------------------------------------------------------------
(* Rendering.                                                              *)

NextStep == pc = "render" /\ plan # <<>>

\* The step, taken from the side that is in scope.
Oriented(s) ==
  IF s.from \in scope THEN s ELSE [name |-> s.name, from |-> s.to, to |-> s.from]

\* A step between tables that are both in scope adds nothing.
RenderStep ==
  /\ NextStep
  /\ LET s == Oriented(Head(plan)) IN
       /\ s.from \in scope
       /\ s.to \notin scope => s.name \notin task.missing
       /\ joins' = IF s.to \in scope THEN joins ELSE joins \cup {s}
       /\ scope' = scope \cup {s.to}
  /\ plan' = Tail(plan)
  /\ UNCHANGED <<task, pc, todo, joined, search>>

\* Neither side of the step is in scope, or the graph lacks a field of it.
RenderFails ==
  /\ NextStep
  /\ LET s == Oriented(Head(plan)) IN
       /\ s.from \in scope => s.to \notin scope /\ s.name \in task.missing
       /\ pc' = IF s.from \in scope THEN "no field" ELSE "lost"
  /\ UNCHANGED <<task, todo, joined, search, plan, scope, joins>>

Rendered ==
  /\ pc = "render" /\ plan = <<>>
  /\ pc' = "planned"
  /\ UNCHANGED <<task, todo, joined, search, plan, scope, joins>>

\* The planner answers, and nothing else stops it.
Finished == pc \in Ends /\ UNCHANGED vars

Next == SkipTarget \/ Search \/ QueueStart \/ Expand \/ QueueNeighbor \/ Expanded
          \/ Found \/ AddStep \/ Added \/ NotFound \/ Planned \/ RenderStep \/ RenderFails \/ Rendered
          \/ Finished

Spec == Init /\ [][Next]_vars

-----------------------------------------------------------------------------
(* Properties.                                                             *)

\* The plan has no step twice.
TypeOK ==
  /\ task \in AllTasks /\ pc \in Pcs
  /\ todo \subseteq Entities /\ target \in Entities \cup {NoEntity}
  /\ joined \subseteq Entities /\ seen \subseteq Entities
  /\ queue \in Seq(Reached) /\ here \in Reached
  /\ next \subseteq Directed
  /\ plan \in Seq(Directed) /\ \A i, j \in DOMAIN plan : plan[i] = plan[j] => i = j
  /\ scope \subseteq Entities /\ joins \subseteq Directed

Grow(S) == S \cup {s.to : s \in {s \in Directed : s.from \in S}}

\* The entities at most n relationships away from S.
Within(S) ==
  LET ball[n \in Nat] == IF n = 0 THEN S ELSE Grow(ball[n - 1])
  IN ball

\* A path that is taken leads from a start to its target over
\* relationships, and no other has fewer joins, however the scores of the
\* question order the search.
ShortestPaths ==
  pc = "search" /\ queue # <<>> /\ Head(queue).at = target =>
    LET path == Head(queue).path IN
    /\ path # <<>> /\ path[1].from \in Starts /\ path[Len(path)].to = target
    /\ \A i \in DOMAIN path : path[i] \in Directed
    /\ \A i \in 1 .. Len(path) - 1 : path[i].to = path[i + 1].from
    /\ target \notin Within(Starts)[Len(path) - 1]

Closed(S) == Grow(S) = S

\* A query is refused for the joins only when a required entity is not
\* connected with the base, which some set of entities closed under the
\* relationships shows, or the graph lacks a field to join on; the renderer
\* never meets a step that touches no table in scope.
RefusedWithCause ==
  /\ pc # "lost"
  /\ pc = "unconnected" => \E S \in SUBSET Entities :
       task.base \in S /\ Closed(S) /\ ~ (task.required \subseteq S)
  /\ pc = "no field" => \E s \in task.relationships : s.name \in task.missing

\* A table is joined only because it is required or because another join
\* goes through it: an extra join would multiply the rows of the answer.
NoUselessJoin ==
  pc = "planned" =>
    \A s \in joins : s.to \in task.required \/ \E t \in joins : t.from = s.to

Outcome == CASE pc = "planned" -> "planned"
             [] pc \in Ends \ {"planned"} -> "refused"
             [] OTHER -> "open"

\* The joins form a tree that grows from the base, each ON clause names two
\* tables in scope, and a planned query has all its required tables.
Promise == INSTANCE JoinTree WITH
  outcome <- Outcome,
  task <- [base |-> task.base, required |-> task.required, steps |-> Directed]

ImplementsJoinTree == Promise!Spec
=============================================================================
