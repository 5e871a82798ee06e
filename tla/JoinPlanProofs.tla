--------------------------- MODULE JoinPlanProofs ---------------------------
(***************************************************************************)
(* Proofs about JoinPlan, for every graph, question, set of required       *)
(* entities and order of the names: the joins of a planned query form a    *)
(* tree over all required tables, and a query is refused for its joins     *)
(* only for the stated causes.                                             *)
(***************************************************************************)
EXTENDS JoinPlan, SequenceTheorems, WellFoundedInduction, TLAPS

Searching == {"starts", "search", "expand"}
Planning == Searching \cup {"target", "add"}

-----------------------------------------------------------------------------
(* Paths.                                                                  *)

\* Steps from an entity of S to e, one after the other.
Leads(S, path, e) ==
  /\ path \in Seq(Directed)
  /\ IF path = <<>> THEN e \in S
     ELSE /\ path[1].from \in S /\ path[Len(path)].to = e
          /\ \A i \in 1 .. Len(path) - 1 : path[i].to = path[i + 1].from

LEMMA Reversible ==
  ASSUME task \in AllTasks, NEW s \in Directed
  PROVE  [name |-> s.name, from |-> s.to, to |-> s.from] \in Directed
<1>1. task.relationships \subseteq Steps
  BY DEF AllTasks
<1>2. CASE s \in task.relationships
  BY <1>2 DEF Directed
<1>3. ASSUME NEW r \in task.relationships, s = [name |-> r.name, from |-> r.to, to |-> r.from]
      PROVE  [name |-> s.name, from |-> s.to, to |-> s.from] \in Directed
  <2>1. [name |-> s.name, from |-> s.to, to |-> s.from] = r
    BY <1>1, <1>3 DEF Steps
  <2> QED
    BY <2>1 DEF Directed
<1> QED
  BY <1>2, <1>3 DEF Directed

LEMMA DirectedType ==
  ASSUME task \in AllTasks
  PROVE  Directed \subseteq Steps /\ \A s \in Directed : s.from \in Entities /\ s.to \in Entities
  BY DEF Directed, AllTasks, Steps

LEMMA PathExtended ==
  ASSUME NEW S, NEW path, NEW e, Leads(S, path, e), NEW s \in Directed, s.from = e
  PROVE  Leads(S, Append(path, s), s.to)
<1> DEFINE longer == Append(path, s)
<1>1. path \in Seq(Directed) /\ Len(path) \in Nat
  BY DEF Leads
<1>2. /\ longer \in Seq(Directed) /\ longer # <<>> /\ Len(longer) = Len(path) + 1
      /\ longer[Len(path) + 1] = s /\ \A i \in 1 .. Len(path) : longer[i] = path[i]
  BY <1>1
<1>3. CASE path = <<>>
  BY <1>1, <1>2, <1>3 DEF Leads
<1>4. CASE path # <<>>
  <2>1. Len(path) >= 1
    BY <1>1, <1>4
  <2>2. ASSUME NEW i \in 1 .. Len(longer) - 1 PROVE longer[i].to = longer[i + 1].from
    <3>1. CASE i = Len(path)
      BY <1>1, <1>2, <1>4, <2>1, <3>1 DEF Leads
    <3>2. CASE i < Len(path)
      BY <1>1, <1>2, <1>4, <2>1, <3>2 DEF Leads
    <3> QED
      BY <1>1, <1>2, <3>1, <3>2
  <2> QED
    BY <1>1, <1>2, <1>4, <2>1, <2>2 DEF Leads
<1> QED
  BY <1>3, <1>4

LEMMA PathShortened ==
  ASSUME NEW S, NEW path, NEW e, Leads(S, path, e), path # <<>>, NEW T,
         path[1].to \in T
  PROVE  Head(path) \in Directed /\ Head(path).from \in S /\ Leads(T, Tail(path), e)
<1>1. path \in Seq(Directed) /\ Len(path) \in Nat /\ Len(path) >= 1
  BY DEF Leads
<1>2. /\ Head(path) = path[1] /\ Tail(path) \in Seq(Directed) /\ Len(Tail(path)) = Len(path) - 1
      /\ \A i \in 1 .. Len(path) - 1 : Tail(path)[i] = path[i + 1]
  BY <1>1
<1>3. CASE Len(path) = 1
  <2>1. Tail(path) = <<>> /\ e = path[1].to
    <3>1. Len(Tail(path)) = 0
      BY <1>2, <1>3
    <3> QED
      BY <1>1, <1>2, <1>3, <3>1, EmptySeq DEF Leads
  <2> QED
    BY <1>2, <2>1 DEF Leads
<1>4. CASE Len(path) > 1
  <2>1. Tail(path) # <<>> /\ Tail(path)[1] = path[2] /\ path[1].to = path[2].from
    <3>1. Len(Tail(path)) # 0 /\ 1 \in 1 .. Len(path) - 1
      BY <1>1, <1>2, <1>4
    <3>2. Tail(path) # <<>>
      BY <1>2, <3>1, EmptySeq
    <3>3. Tail(path)[1] = path[1 + 1]
      BY <1>2, <3>1
    <3> QED
      BY <1>1, <1>4, <3>1, <3>2, <3>3 DEF Leads
  <2>2. Tail(path)[Len(Tail(path))] = path[Len(path)]
    BY <1>1, <1>2, <1>4
  <2>3. ASSUME NEW i \in 1 .. Len(Tail(path)) - 1
        PROVE  Tail(path)[i].to = Tail(path)[i + 1].from
    BY <1>1, <1>2, <1>4 DEF Leads
  <2> QED
    BY <1>1, <1>2, <2>1, <2>2, <2>3 DEF Leads
<1> QED
  BY <1>1, <1>2, <1>3, <1>4 DEF Leads

-----------------------------------------------------------------------------
(* The inductive invariant.                                                *)

Tos(path) == {path[i].to : i \in DOMAIN path}
InQueue(e) == \E k \in DOMAIN queue : queue[k].at = e

\* Each step of the plan starts from the base, a joined table, or the end of
\* an earlier step; so all that is joined comes into scope, and with it, in
\* the end, all that is required.
PlanInv ==
  /\ task.base \in joined
  /\ pc \in Planning => scope = {task.base} /\ joins = {}
  /\ \A i \in DOMAIN plan : plan[i].from \in scope \cup {plan[j].to : j \in 1 .. i - 1}
  /\ todo \subseteq task.required
  /\ pc \in Planning =>
       /\ joined \subseteq scope \cup Tos(plan)
       /\ \A e \in task.required \ todo : e \in joined \/ (pc # "target" /\ e = target)
  /\ pc \in {"render", "planned"} => task.required \subseteq scope \cup Tos(plan)
  /\ pc = "planned" => plan = <<>>

\* Queued paths lead from the starts; what is left of a path that is added
\* leads from what is joined.
SearchInv ==
  /\ pc \in Searching =>
       /\ target \in task.required \ Starts
       /\ \A k \in DOMAIN queue : Leads(Starts, queue[k].path, queue[k].at)
  /\ pc = "expand" => Leads(Starts, here.path, here.at) /\ \A s \in next : s.from = here.at
  /\ pc = "add" => Leads(joined, here.path, target)

\* A seen entity is queued, or is being expanded, or all its neighbours were
\* seen; a target that was seen is still queued.
ReachInv ==
  /\ pc = "starts" => seen \subseteq Starts /\ \A e \in seen : InQueue(e)
  /\ pc \in {"search", "expand"} =>
       /\ Starts \subseteq seen
       /\ target \in seen => InQueue(target)
       /\ \A e \in seen : \/ InQueue(e)
                          \/ pc = "expand" /\ e = here.at
                          \/ \A s \in Directed : s.from = e => s.to \in seen
  /\ pc = "expand" => \A s \in Directed : s.from = here.at => s.to \in seen \/ s \in next

JoinInv == TypeOK /\ PlanInv /\ SearchInv /\ ReachInv /\ RefusedWithCause

LEMMA TaskType ==
  /\ Tasks \subseteq AllTasks
  /\ \A t \in AllTasks : t.base \in Entities /\ t.required \subseteq Entities
  BY JoinAssumption DEF AllTasks

LEMMA InitInv == Init => JoinInv
<1> SUFFICES ASSUME Init PROVE JoinInv
  OBVIOUS
<1>1. task \in AllTasks /\ task.base \in Entities /\ task.required \subseteq Entities
  BY TaskType DEF Init
<1>2. TypeOK
  BY <1>1 DEF Init, TypeOK, Pcs, Reached, Nowhere
<1>3. PlanInv
  BY DEF Init, PlanInv, Planning, Searching, Tos
<1> QED
  BY <1>2, <1>3 DEF Init, JoinInv, SearchInv, ReachInv, RefusedWithCause, Searching

LEMMA TypeStep ==
  ASSUME JoinInv, [Next]_vars
  PROVE  TypeOK'
<1>0. /\ TypeOK /\ task \in AllTasks /\ task.base \in Entities /\ task.required \subseteq Entities
      /\ task' = task /\ Starts \subseteq Entities
      /\ Directed \subseteq Steps /\ \A s \in Directed : s.from \in Entities /\ s.to \in Entities
  BY TaskType, DirectedType
  DEF JoinInv, TypeOK, Next, vars, SkipTarget, Search, QueueStart, Expand, QueueNeighbor, Expanded,
      Found, AddStep, Added, NotFound, Planned, RenderStep, RenderFails, Rendered, Finished, Starts
<1>1. Directed' = Directed
  BY <1>0 DEF Directed
<1>2. CASE UNCHANGED vars \/ Finished
  BY <1>0, <1>1, <1>2 DEF vars, Finished, TypeOK
<1>3. CASE SkipTarget
  BY <1>0, <1>1, <1>3 DEF SkipTarget, search, TypeOK
<1>4. CASE Search
  BY <1>0, <1>1, <1>4 DEF Search, First, TypeOK, Pcs
<1>5. CASE QueueStart
  <2>1. PICK e \in First(Starts \ seen) :
          queue' = Append(queue, [at |-> e, path |-> <<>>]) /\ seen' = seen \cup {e}
    BY <1>5 DEF QueueStart
  <2>2. e \in Entities /\ [at |-> e, path |-> <<>>] \in Reached
    BY <1>0, <2>1 DEF First, Reached
  <2>3. queue' \in Seq(Reached)
    BY <1>0, <2>1, <2>2 DEF TypeOK
  <2> QED
    BY <1>0, <1>1, <1>5, <2>1, <2>2, <2>3 DEF QueueStart, TypeOK, Pcs
<1>6. CASE Expand
  <2>1. Head(queue) \in Reached /\ Tail(queue) \in Seq(Reached)
    BY <1>0, <1>6 DEF Expand, TypeOK
  <2>2. Neighbors(Head(queue).at) \subseteq Directed
    BY DEF Neighbors
  <2> QED
    BY <1>0, <1>1, <1>6, <2>1, <2>2 DEF Expand, TypeOK, Pcs
<1>7. CASE QueueNeighbor
  <2>1. PICK s \in next : queue' = Queue(s) /\ seen' = seen \cup {s.to} /\ next' = next \ {s}
    BY <1>7 DEF QueueNeighbor
  <2>2. s \in Steps /\ s.to \in Entities /\ here.path \in Seq(Steps)
    BY <1>0, <2>1 DEF TypeOK, Reached
  <2>3. [at |-> s.to, path |-> Append(here.path, s)] \in Reached
    BY <2>2 DEF Reached
  <2>4. queue' \in Seq(Reached)
    BY <1>0, <2>1, <2>3 DEF TypeOK, Queue
  <2> QED
    BY <1>0, <1>1, <1>7, <2>1, <2>2, <2>4 DEF QueueNeighbor, TypeOK, Pcs
<1>8. CASE Expanded \/ Added \/ NotFound \/ Planned \/ Rendered \/ RenderFails
  BY <1>0, <1>1, <1>8
  DEF Expanded, Added, NotFound, Planned, Rendered, RenderFails, search, TypeOK, Pcs, Ends
<1>9. CASE Found
  <2>1. Head(queue) \in Reached
    BY <1>0, <1>9 DEF Found, TypeOK
  <2> QED
    BY <1>0, <1>1, <1>9, <2>1 DEF Found, TypeOK, Pcs
<1>10. CASE AddStep
  <2> DEFINE s == Head(here.path)
  <2>1. s \in Directed /\ Tail(here.path) \in Seq(Directed) /\ here.path # <<>>
    BY <1>10, <1>0 DEF AddStep, JoinInv, SearchInv, Leads
  <2>2. here' \in Reached
    <3>1. Tail(here.path) \in Seq(Steps) /\ here \in Reached
      BY <1>0, <2>1 DEF TypeOK, Reached
    <3> QED
      BY <1>10, <3>1 DEF AddStep, Reached
  <2>3. plan' \in Seq(Directed) /\ \A i, j \in DOMAIN plan' : plan'[i] = plan'[j] => i = j
    <3>1. plan \in Seq(Directed) /\ \A i, j \in DOMAIN plan : plan[i] = plan[j] => i = j
      BY <1>0 DEF TypeOK
    <3>2. CASE \E i \in DOMAIN plan : plan[i] = s
      BY <1>10, <3>1, <3>2 DEF AddStep, Add
    <3>3. CASE ~ \E i \in DOMAIN plan : plan[i] = s
      <4>1. plan' = Append(plan, s)
        BY <1>10, <3>3 DEF AddStep, Add
      <4> QED
        BY <2>1, <3>1, <3>3, <4>1
    <3> QED
      BY <3>2, <3>3
  <2> QED
    BY <1>0, <1>1, <1>10, <2>1, <2>2, <2>3 DEF AddStep, TypeOK
<1>11. CASE RenderStep
  <2> DEFINE s == Oriented(Head(plan))
  <2>1. plan \in Seq(Directed) /\ plan # <<>> /\ Head(plan) \in Directed
    BY <1>0, <1>11 DEF RenderStep, NextStep, TypeOK
  <2>2. s \in Directed /\ s.to \in Entities
    BY <1>0, <2>1, Reversible DEF Oriented
  <2>3. /\ Tail(plan) \in Seq(Directed)
        /\ \A i, j \in DOMAIN Tail(plan) : Tail(plan)[i] = Tail(plan)[j] => i = j
    BY <1>0, <2>1 DEF TypeOK
  <2> QED
    BY <1>0, <1>1, <1>11, <2>2, <2>3 DEF RenderStep, search, TypeOK
<1> QED
  BY <1>2, <1>3, <1>4, <1>5, <1>6, <1>7, <1>8, <1>9, <1>10, <1>11 DEF Next

LEMMA TaskKept ==
  ASSUME [Next]_vars
  PROVE  task' = task /\ Directed' = Directed
<1>1. task' = task
  BY DEF Next, vars, SkipTarget, Search, QueueStart, Expand, QueueNeighbor, Expanded, Found, AddStep,
         Added, NotFound, Planned, RenderStep, RenderFails, Rendered, Finished
<1> QED
  BY <1>1 DEF Directed

\* Adding a step that leaves what is joined keeps the plan in order.
LEMMA StepAdded ==
  ASSUME JoinInv, AddStep
  PROVE  PlanInv'
<1> DEFINE s == Head(here.path)
<1>0. /\ pc = "add" /\ PlanInv /\ plan \in Seq(Directed) /\ Leads(joined, here.path, target)
      /\ here.path # <<>>
      /\ UNCHANGED <<task, pc, todo, target, scope, joins>>
  BY DEF JoinInv, TypeOK, SearchInv, AddStep
<1>1. s.from \in joined /\ joined' = joined \cup {s.from, s.to} /\ plan' = Add(s)
  <2>1. here.path[1].to \in {here.path[1].to}
    OBVIOUS
  <2>2. s.from \in joined
    BY <1>0, <2>1, PathShortened
  <2> QED
    BY <2>2 DEF AddStep
<1>2. joined \subseteq scope \cup Tos(plan)
  BY <1>0 DEF PlanInv, Planning
<1>3. CASE \E i \in DOMAIN plan : plan[i] = s
  <2>1. plan' = plan /\ s.to \in Tos(plan)
    BY <1>1, <1>3 DEF Add, Tos
  <2> QED
    BY <1>0, <1>1, <1>2, <2>1 DEF PlanInv, Planning, Searching, Tos
<1>4. CASE ~ \E i \in DOMAIN plan : plan[i] = s
  <2>1. /\ plan' = Append(plan, s) /\ Len(plan) \in Nat /\ DOMAIN plan = 1 .. Len(plan)
        /\ DOMAIN plan' = 1 .. Len(plan) + 1
        /\ plan'[Len(plan) + 1] = s /\ \A i \in DOMAIN plan : plan'[i] = plan[i]
    BY <1>0, <1>1, <1>4 DEF Add
  <2>2. Tos(plan') = Tos(plan) \cup {s.to}
    BY <2>1 DEF Tos
  <2>3. ASSUME NEW i \in DOMAIN plan'
        PROVE  plan'[i].from \in scope' \cup {plan'[j].to : j \in 1 .. i - 1}
    <3>1. CASE i \in DOMAIN plan
      <4>1. plan[i].from \in scope \cup {plan[j].to : j \in 1 .. i - 1}
        BY <1>0, <3>1 DEF PlanInv
      <4>2. \A j \in 1 .. i - 1 : j \in DOMAIN plan
        BY <2>1, <3>1
      <4> QED
        BY <1>0, <2>1, <3>1, <4>1, <4>2
    <3>2. CASE i = Len(plan) + 1
      <4>1. {plan'[j].to : j \in 1 .. i - 1} = Tos(plan)
        BY <2>1, <3>2 DEF Tos
      <4> QED
        BY <1>0, <1>1, <1>2, <2>1, <3>2, <4>1
    <3> QED
      BY <2>1, <3>1, <3>2
  <2>4. joined' \subseteq scope' \cup Tos(plan')
    BY <1>0, <1>1, <1>2, <2>2
  <2> QED
    BY <1>0, <1>1, <2>3, <2>4 DEF PlanInv, Planning, Searching, Tos
<1> QED
  BY <1>3, <1>4

\* Rendering the first step of the plan brings its end into scope.
LEMMA StepRendered ==
  ASSUME JoinInv, NextStep
  PROVE  /\ Head(plan) \in Directed /\ Head(plan).from \in scope
         /\ Oriented(Head(plan)) = Head(plan)
<1>1. plan \in Seq(Directed) /\ plan # <<>> /\ 1 \in DOMAIN plan /\ Head(plan) = plan[1]
  BY DEF JoinInv, TypeOK, NextStep
<1>2. plan[1].from \in scope \cup {plan[j].to : j \in 1 .. 1 - 1}
  BY <1>1 DEF JoinInv, PlanInv
<1>3. 1 .. 1 - 1 = {}
  OBVIOUS
<1> QED
  BY <1>1, <1>2, <1>3 DEF Oriented

LEMMA PlanStep ==
  ASSUME JoinInv, [Next]_vars
  PROVE  PlanInv'
<1>0. PlanInv /\ task' = task /\ plan \in Seq(Directed)
  BY TaskKept DEF JoinInv, TypeOK
<1> USE DEF Planning, Searching
<1>1. CASE UNCHANGED vars \/ Finished \/ QueueStart \/ Expand \/ QueueNeighbor \/ Expanded \/ Found
  BY SMTT(30), <1>0, <1>1 DEF vars, Finished, QueueStart, Expand, QueueNeighbor, Expanded, Found, search,
                    PlanInv, Tos
<1>2. CASE SkipTarget
  <2>1. PICK e \in First(todo) : e \in Starts /\ todo' = todo \ {e}
    BY <1>2 DEF SkipTarget
  <2>2. e \in joined
    BY <1>0, <2>1 DEF Starts, PlanInv
  <2> QED
    BY <1>0, <1>2, <2>1, <2>2 DEF SkipTarget, search, PlanInv, Tos
<1>3. CASE Search
  BY <1>0, <1>3 DEF Search, PlanInv, Tos
<1>4. CASE AddStep
  BY <1>4, StepAdded
<1>5. CASE Added
  <2>1. target \in joined
    BY <1>5 DEF Added, JoinInv, SearchInv, Leads
  <2> QED
    BY <1>0, <1>5, <2>1 DEF Added, search, PlanInv, Tos
<1>6. CASE NotFound \/ RenderFails
  <2>1. pc' \in {"unconnected", "no field", "lost"} /\ UNCHANGED <<todo, joined, plan, scope, joins>>
    BY <1>6 DEF NotFound, RenderFails
  <2> QED
    BY <1>0, <2>1 DEF PlanInv, Tos
<1>7. CASE Planned
  BY <1>0, <1>7 DEF Planned, search, PlanInv, Tos
<1>8. CASE RenderStep
  <2> DEFINE s == Head(plan)
  <2>1. /\ pc = "render" /\ pc' = pc /\ plan # <<>> /\ plan' = Tail(plan) /\ s = plan[1]
        /\ scope' = scope \cup {s.to} /\ UNCHANGED <<task, todo, joined>>
    BY <1>0, <1>8, StepRendered DEF RenderStep, NextStep, search
  <2>2. /\ Len(plan) \in Nat /\ Len(plan) >= 1 /\ DOMAIN plan = 1 .. Len(plan)
        /\ DOMAIN plan' = 1 .. Len(plan) - 1
        /\ \A i \in DOMAIN plan' : plan'[i] = plan[i + 1]
    BY <1>0, <2>1
  <2>3. ASSUME NEW i \in DOMAIN plan'
        PROVE  plan'[i].from \in scope' \cup {plan'[j].to : j \in 1 .. i - 1}
    <3>1. plan[i + 1].from \in scope \cup {plan[j].to : j \in 1 .. (i + 1) - 1}
      BY <1>0, <2>2 DEF PlanInv
    <3>2. ASSUME NEW j \in 1 .. (i + 1) - 1
          PROVE  plan[j].to \in scope' \cup {plan'[k].to : k \in 1 .. i - 1}
      <4>1. CASE j = 1
        BY <2>1, <4>1
      <4>2. CASE j # 1
        <5>1. j - 1 \in 1 .. i - 1 /\ plan'[j - 1] = plan[j]
          BY <2>2, <4>2
        <5> QED
          BY <5>1
      <4> QED
        BY <4>1, <4>2
    <3> QED
      BY <2>1, <2>2, <3>1, <3>2
  <2>4. Tos(plan) \subseteq {s.to} \cup Tos(plan')
    <3>1. ASSUME NEW i \in DOMAIN plan PROVE plan[i].to \in {s.to} \cup Tos(plan')
      <4>1. CASE i = 1
        BY <2>1, <4>1
      <4>2. CASE i # 1
        <5>1. i - 1 \in DOMAIN plan' /\ plan'[i - 1] = plan[i]
          BY <2>2, <4>2
        <5> QED
          BY <5>1 DEF Tos
      <4> QED
        BY <4>1, <4>2
    <3> QED
      BY <3>1 DEF Tos
  <2> QED
    BY <1>0, <2>1, <2>3, <2>4 DEF PlanInv, Tos
<1>9. CASE Rendered
  BY <1>0, <1>9 DEF Rendered, search, PlanInv, Tos
<1> QED
  BY <1>1, <1>2, <1>3, <1>4, <1>5, <1>6, <1>7, <1>8, <1>9 DEF Next

LEMMA StartsKept ==
  ASSUME task' = task, joined' = joined
  PROVE  Starts' = Starts
  BY DEF Starts

LEMMA SearchStep ==
  ASSUME JoinInv, [Next]_vars
  PROVE  SearchInv'
<1>0. /\ SearchInv /\ PlanInv /\ task' = task /\ Directed' = Directed
      /\ queue \in Seq(Reached) /\ todo \subseteq task.required
  BY TaskKept DEF JoinInv, TypeOK, PlanInv
<1> USE DEF Searching
<1>1. CASE UNCHANGED vars \/ Finished
  BY <1>0, <1>1, StartsKept DEF vars, Finished, SearchInv, Leads
<1>2. CASE SkipTarget \/ Added \/ NotFound \/ Planned \/ RenderStep \/ RenderFails \/ Rendered
  <2>1. pc' \notin {"starts", "search", "expand", "add"}
    BY <1>2 DEF SkipTarget, Added, NotFound, Planned, RenderStep, RenderFails, Rendered, NextStep
  <2> QED
    BY <2>1 DEF SearchInv
<1>3. CASE Search
  <2>1. target' \in task.required \ Starts /\ pc' = "starts" /\ queue' = <<>> /\ Starts' = Starts
    BY <1>0, <1>3, StartsKept DEF Search, First
  <2> QED
    BY <1>0, <2>1 DEF SearchInv
<1>4. CASE QueueStart
  <2>1. PICK e \in First(Starts \ seen) : queue' = Append(queue, [at |-> e, path |-> <<>>])
    BY <1>4 DEF QueueStart
  <2>2. /\ pc = "starts" /\ pc' \in {"starts", "search"} /\ target' = target /\ Starts' = Starts
        /\ e \in Starts
    BY <1>0, <1>4, <2>1, StartsKept DEF QueueStart, First
  <2>3. ASSUME NEW k \in DOMAIN queue' PROVE Leads(Starts, queue'[k].path, queue'[k].at)
    <3>1. CASE k \in DOMAIN queue
      BY <1>0, <2>1, <2>2, <3>1 DEF SearchInv
    <3>2. CASE k = Len(queue) + 1
      BY <1>0, <2>1, <2>2, <3>2 DEF Leads
    <3> QED
      BY <1>0, <2>1, <3>1, <3>2
  <2> QED
    BY <1>0, <2>2, <2>3 DEF SearchInv, Leads
<1>5. CASE Expand
  <2>1. /\ pc = "search" /\ pc' = "expand" /\ target' = target /\ Starts' = Starts
        /\ here' = queue[1] /\ queue' = Tail(queue) /\ queue # <<>>
        /\ next' = Neighbors(queue[1].at)
    BY <1>0, <1>5, StartsKept DEF Expand
  <2>2. ASSUME NEW k \in DOMAIN queue' PROVE Leads(Starts, queue'[k].path, queue'[k].at)
    <3>1. k + 1 \in DOMAIN queue /\ queue'[k] = queue[k + 1]
      BY <1>0, <2>1
    <3> QED
      BY <1>0, <2>1, <3>1 DEF SearchInv
  <2>3. Leads(Starts, here'.path, here'.at)
    BY <1>0, <2>1 DEF SearchInv
  <2>4. \A s \in next' : s.from = here'.at
    BY <2>1 DEF Neighbors
  <2> QED
    BY <1>0, <2>1, <2>2, <2>3, <2>4 DEF SearchInv, Leads
<1>6. CASE QueueNeighbor
  <2>1. PICK s \in next : queue' = Queue(s) /\ next' = next \ {s}
    BY <1>6 DEF QueueNeighbor
  <2>2. /\ pc = "expand" /\ pc' = "expand" /\ target' = target /\ Starts' = Starts /\ here' = here
        /\ s \in Directed /\ s.from = here.at
    BY <1>0, <1>6, <2>1, StartsKept DEF QueueNeighbor, SearchInv, JoinInv, TypeOK
  <2>3. Leads(Starts, Append(here.path, s), s.to)
    BY <1>0, <2>2, PathExtended DEF SearchInv
  <2>4. ASSUME NEW k \in DOMAIN queue' PROVE Leads(Starts, queue'[k].path, queue'[k].at)
    <3>1. CASE k \in DOMAIN queue
      BY <1>0, <2>1, <2>2, <3>1 DEF SearchInv, Queue
    <3>2. CASE k = Len(queue) + 1
      BY <1>0, <2>1, <2>3, <3>2 DEF Queue
    <3> QED
      BY <1>0, <2>1, <3>1, <3>2 DEF Queue
  <2> QED
    BY <1>0, <2>1, <2>2, <2>4 DEF SearchInv, Leads
<1>7. CASE Expanded
  <2>1. /\ pc = "expand" /\ pc' = "search" /\ target' = target /\ Starts' = Starts /\ queue' = queue
    BY <1>0, <1>7, StartsKept DEF Expanded, search
  <2> QED
    BY <1>0, <2>1 DEF SearchInv, Leads
<1>8. CASE Found
  <2>1. /\ pc = "search" /\ pc' = "add" /\ target' = target /\ joined' = joined
        /\ here' = queue[1] /\ queue[1].at = target /\ 1 \in DOMAIN queue
    BY <1>0, <1>8 DEF Found
  <2>2. Leads(Starts, queue[1].path, target) /\ Starts \subseteq joined
    BY <1>0, <2>1 DEF SearchInv, PlanInv, Starts
  <2> QED
    BY <1>0, <2>1, <2>2 DEF SearchInv, Leads
<1>9. CASE AddStep
  <2> DEFINE s == Head(here.path)
  <2>1. /\ pc = "add" /\ pc' = "add" /\ target' = target /\ here.path # <<>>
        /\ here'.path = Tail(here.path)
        /\ joined' = joined \cup {s.from, s.to}
    BY <1>9 DEF AddStep, JoinInv, TypeOK, Reached
  <2>2. Leads(joined, here.path, target) /\ s = here.path[1] /\ s.to \in joined'
    BY <1>0, <2>1 DEF SearchInv, Leads
  <2>3. Leads(joined', Tail(here.path), target)
    BY <2>1, <2>2, PathShortened
  <2> QED
    BY <1>0, <2>1, <2>3 DEF SearchInv, Leads
<1> QED
  BY <1>1, <1>2, <1>3, <1>4, <1>5, <1>6, <1>7, <1>8, <1>9 DEF Next

LEMMA ReachStep ==
  ASSUME JoinInv, [Next]_vars
  PROVE  ReachInv'
<1>0. /\ ReachInv /\ SearchInv /\ task' = task /\ Directed' = Directed /\ queue \in Seq(Reached)
  BY TaskKept DEF JoinInv, TypeOK
<1>1. CASE UNCHANGED vars \/ Finished
  BY <1>0, <1>1, StartsKept DEF vars, Finished, ReachInv, InQueue
<1>2. CASE \/ SkipTarget \/ Found \/ AddStep \/ Added \/ NotFound \/ Planned
           \/ RenderStep \/ RenderFails \/ Rendered
  <2>1. pc' \notin {"starts", "search", "expand"}
    BY <1>2 DEF SkipTarget, Found, AddStep, Added, NotFound, Planned, RenderStep, RenderFails,
                Rendered, NextStep
  <2> QED
    BY <2>1 DEF ReachInv
<1>3. CASE Search
  BY <1>3 DEF Search, ReachInv
<1>4. CASE QueueStart
  <2>1. PICK e \in First(Starts \ seen) :
          queue' = Append(queue, [at |-> e, path |-> <<>>]) /\ seen' = seen \cup {e}
    BY <1>4 DEF QueueStart
  <2>2. /\ pc = "starts" /\ Starts' = Starts /\ e \in Starts /\ target' = target
        /\ pc' = IF seen' = Starts THEN "search" ELSE "starts"
    BY <1>0, <1>4, <2>1, StartsKept DEF QueueStart, First
  <2>3. \A f \in seen' : InQueue(f)'
    <3>1. ASSUME NEW f \in seen PROVE InQueue(f)'
      <4>1. PICK k \in DOMAIN queue : queue[k].at = f
        BY <1>0, <2>2 DEF ReachInv, InQueue
      <4>2. k \in DOMAIN queue' /\ queue'[k] = queue[k]
        BY <1>0, <2>1, <4>1
      <4> QED
        BY <4>1, <4>2 DEF InQueue
    <3>2. InQueue(e)'
      <4>1. Len(queue) + 1 \in DOMAIN queue' /\ queue'[Len(queue) + 1].at = e
        BY <1>0, <2>1
      <4> QED
        BY <4>1 DEF InQueue
    <3> QED
      BY <2>1, <3>1, <3>2
  <2>4. seen' \subseteq Starts /\ target \notin Starts
    BY <1>0, <2>1, <2>2 DEF ReachInv, SearchInv, Searching
  <2> QED
    BY <1>0, <2>2, <2>3, <2>4 DEF ReachInv
<1>5. CASE Expand
  <2>1. /\ pc = "search" /\ pc' = "expand" /\ target' = target /\ Starts' = Starts /\ seen' = seen
        /\ here' = queue[1] /\ queue' = Tail(queue) /\ queue # <<>> /\ queue[1].at # target
        /\ next' = Neighbors(queue[1].at)
    BY <1>0, <1>5, StartsKept DEF Expand
  <2>2. ASSUME NEW e, InQueue(e), e # queue[1].at PROVE InQueue(e)'
    <3>1. PICK k \in DOMAIN queue : queue[k].at = e
      BY <2>2 DEF InQueue
    <3>2. k # 1
      BY <2>2, <3>1
    <3>3. /\ Len(queue) \in Nat /\ k \in 1 .. Len(queue) /\ Len(queue') = Len(queue) - 1
          /\ \A i \in 1 .. Len(queue) - 1 : queue'[i] = queue[i + 1]
          /\ queue' \in Seq(Reached)
      BY <1>0, <2>1, <3>1
    <3>4. k - 1 \in DOMAIN queue' /\ queue'[k - 1] = queue[k]
      BY <3>2, <3>3
    <3> QED
      BY <3>1, <3>4 DEF InQueue
  <2>3. \A s \in Directed : s.from = here'.at => s.to \in seen' \/ s \in next'
    BY <2>1 DEF Neighbors
  <2> QED
    BY <1>0, <2>1, <2>2, <2>3 DEF ReachInv
<1>6. CASE QueueNeighbor
  <2>1. PICK s \in next : /\ queue' = Queue(s) /\ seen' = seen \cup {s.to} /\ next' = next \ {s}
    BY <1>6 DEF QueueNeighbor
  <2>2. /\ pc = "expand" /\ pc' = "expand" /\ target' = target /\ Starts' = Starts /\ here' = here
    BY <1>0, <1>6, StartsKept DEF QueueNeighbor
  <2>3. ASSUME NEW e, InQueue(e) PROVE InQueue(e)'
    <3>1. PICK k \in DOMAIN queue : queue[k].at = e
      BY <2>3 DEF InQueue
    <3>2. k \in DOMAIN queue' /\ queue'[k] = queue[k]
      BY <1>0, <2>1, <3>1 DEF Queue
    <3> QED
      BY <3>1, <3>2 DEF InQueue
  <2>4. InQueue(s.to)'
    <3>1. Len(queue) + 1 \in DOMAIN queue' /\ queue'[Len(queue) + 1].at = s.to
      BY <1>0, <2>1 DEF Queue
    <3> QED
      BY <3>1 DEF InQueue
  <2> QED
    BY <1>0, <2>1, <2>2, <2>3, <2>4 DEF ReachInv
<1>7. CASE Expanded
  <2>1. /\ pc = "expand" /\ pc' = "search" /\ next = {} /\ Starts' = Starts
        /\ UNCHANGED <<target, queue, seen, here>>
    BY <1>0, <1>7, StartsKept DEF Expanded, search
  <2>2. \A e : InQueue(e)' <=> InQueue(e)
    BY <2>1 DEF InQueue
  <2> QED
    BY <1>0, <2>1, <2>2 DEF ReachInv
<1> QED
  BY <1>1, <1>2, <1>3, <1>4, <1>5, <1>6, <1>7 DEF Next

LEMMA CauseStep ==
  ASSUME JoinInv, [Next]_vars
  PROVE  RefusedWithCause'
<1>0. /\ RefusedWithCause /\ task' = task /\ Directed' = Directed
      /\ task \in AllTasks /\ Directed \subseteq Steps
      /\ \A s \in Directed : s.to \in Entities
      /\ seen \subseteq Entities /\ task.base \in joined
  BY TaskKept, DirectedType DEF JoinInv, TypeOK, PlanInv
<1>1. \A S : Closed(S)' <=> Closed(S)
  BY <1>0 DEF Closed, Grow
<1>2. CASE UNCHANGED pc
  BY <1>0, <1>1, <1>2 DEF RefusedWithCause
<1>3. CASE NotFound
  <2>1. /\ pc = "search" /\ queue = <<>> /\ pc' = "unconnected"
        /\ Starts \subseteq seen /\ target \in task.required
        /\ \A e : ~InQueue(e)
    BY <1>3 DEF NotFound, JoinInv, ReachInv, SearchInv, Searching, InQueue
  <2>2. task.base \in seen /\ target \notin seen
    BY <1>0, <1>3, <2>1 DEF JoinInv, ReachInv, Starts
  <2>3. \A e \in seen : \A s \in Directed : s.from = e => s.to \in seen
    BY <2>1 DEF JoinInv, ReachInv
  <2>4. Closed(seen)
    BY <2>3 DEF Closed, Grow
  <2>5. \E S \in SUBSET Entities : task.base \in S /\ Closed(S) /\ ~ (task.required \subseteq S)
    BY <1>0, <2>1, <2>2, <2>4
  <2> QED
    BY <1>0, <1>1, <2>1, <2>5 DEF RefusedWithCause
<1>4. CASE RenderFails
  <2> DEFINE s == Head(plan)
  <2>1. s \in Directed /\ s.from \in scope /\ Oriented(s) = s
    BY <1>4, StepRendered DEF RenderFails
  <2>2. pc' = "no field" /\ s.name \in task.missing
    BY <1>4, <2>1 DEF RenderFails
  <2>3. \E r \in task.relationships : r.name = s.name
    BY <2>1 DEF Directed
  <2> QED
    BY <1>0, <2>2, <2>3 DEF RefusedWithCause
<1>5. CASE \/ Search \/ QueueStart \/ Expand \/ Expanded \/ Found \/ Added \/ Planned \/ Rendered
  <2>1. pc' \notin {"unconnected", "lost", "no field"}
    BY <1>5 DEF Search, QueueStart, Expand, Expanded, Found, Added, Planned, Rendered
  <2> QED
    BY <2>1 DEF RefusedWithCause
<1> QED
  BY <1>2, <1>3, <1>4, <1>5
  DEF Next, vars, SkipTarget, QueueNeighbor, AddStep, RenderStep, Finished

-----------------------------------------------------------------------------
(* The theorems.                                                           *)

LEMMA JoinInvariant == Spec => []JoinInv
<1>1. JoinInv /\ [Next]_vars => JoinInv'
  BY TypeStep, PlanStep, SearchStep, ReachStep, CauseStep DEF JoinInv
<1> QED
  BY <1>1, InitInv, PTL DEF Spec

\* graph_join_plan and graph_join_plan_from_base keep their types, and no
\* plan has a step twice.
THEOREM JoinTyping == Spec => []TypeOK
<1>1. JoinInv => TypeOK
  BY DEF JoinInv
<1> QED
  BY <1>1, JoinInvariant, PTL

\* graph_shortest_join_path fails only for a target that is not connected
\* with the base, and graph_render_joins only for a field the graph lacks,
\* for every graph and every order of the search.
THEOREM RefusalsHaveACause == Spec => []RefusedWithCause
<1>1. JoinInv => RefusedWithCause
  BY DEF JoinInv
<1> QED
  BY <1>1, JoinInvariant, PTL

LEMMA StepIsPromised ==
  ASSUME JoinInv, [Next]_vars
  PROVE  [Promise!Next]_(Promise!vars)
<1>0. /\ task' = task /\ Directed' = Directed /\ task \in AllTasks
      /\ plan \in Seq(Directed)
  BY TaskKept DEF JoinInv, TypeOK
<1>1. CASE RenderStep
  <2> DEFINE s == Head(plan)
  <2>1. /\ s \in Directed /\ s.from \in scope /\ pc = "render" /\ pc' = pc
        /\ scope' = scope \cup {s.to}
        /\ joins' = IF s.to \in scope THEN joins ELSE joins \cup {s}
    BY <1>1, StepRendered DEF RenderStep, NextStep
  <2>2. Outcome = "open" /\ Outcome' = "open"
    BY <2>1 DEF Outcome, Ends
  <2>3. CASE s.to \in scope
    <3>1. scope' = scope /\ joins' = joins
      BY <2>1, <2>3
    <3> QED
      BY <1>0, <2>2, <3>1 DEF Promise!vars
  <2>4. CASE s.to \notin scope
    BY <1>0, <2>1, <2>2, <2>4 DEF Promise!Next, Promise!Join
  <2> QED
    BY <2>3, <2>4
<1>2. CASE Rendered
  <2>1. /\ pc = "render" /\ pc' = "planned" /\ plan = <<>> /\ UNCHANGED <<scope, joins>>
        /\ task.required \subseteq scope \cup Tos(plan)
    BY <1>2 DEF Rendered, JoinInv, PlanInv
  <2>2. Outcome = "open" /\ Outcome' = "planned" /\ task.required \subseteq scope
    BY <2>1 DEF Outcome, Ends, Tos
  <2> QED
    BY <1>0, <2>1, <2>2 DEF Promise!Next, Promise!Close
<1>3. CASE NotFound \/ RenderFails
  <2>1. /\ pc \in {"search", "render"} /\ pc' \in {"unconnected", "lost", "no field"}
        /\ UNCHANGED <<scope, joins>>
    BY <1>3 DEF NotFound, RenderFails, NextStep
  <2>2. Outcome = "open" /\ Outcome' = "refused"
    BY <2>1 DEF Outcome, Ends
  <2> QED
    BY <1>0, <2>1, <2>2 DEF Promise!Next, Promise!Close
<1>4. CASE \/ SkipTarget \/ Search \/ QueueStart \/ Expand \/ QueueNeighbor \/ Expanded \/ Found
           \/ AddStep \/ Added \/ Planned
  <2>1. pc \notin Ends /\ pc' \notin Ends /\ UNCHANGED <<scope, joins>>
    BY <1>4 DEF SkipTarget, Search, QueueStart, Expand, QueueNeighbor, Expanded, Found, AddStep,
                Added, Planned, Ends
  <2>2. Outcome = "open" /\ Outcome' = "open"
    BY <2>1 DEF Outcome, Ends
  <2> QED
    BY <1>0, <2>1, <2>2 DEF Promise!vars
<1>5. CASE UNCHANGED vars \/ Finished
  BY <1>0, <1>5 DEF vars, Finished, Outcome, Ends, Promise!vars
<1> QED
  BY <1>1, <1>2, <1>3, <1>4, <1>5 DEF Next

\* The two planners and the renderer implement JoinTree: every join brings
\* in a new table over a relationship with one in scope, and what is planned
\* has all its required tables.
THEOREM JoinTreeIsImplemented == Spec => ImplementsJoinTree
<1>1. Init => Promise!Init
  BY DEF Init, Promise!Init, Outcome, Ends
<1>2. JoinInv /\ [Next]_vars => [Promise!Next]_(Promise!vars)
  BY StepIsPromised
<1> QED
  BY <1>1, <1>2, JoinInvariant, PTL DEF Spec, ImplementsJoinTree, Promise!Spec

-----------------------------------------------------------------------------
(* Distances.                                                              *)

\* Induction over the naturals, with a set in place of a predicate.
LEMMA SetInduction ==
  ASSUME NEW T, 0 \in T, \A n \in Nat : n \in T => n + 1 \in T
  PROVE  Nat \subseteq T
<1> DEFINE Out == {n \in Nat : n \notin T}
           R == OpToRel(<, Nat)
<1>1. SUFFICES ASSUME Out # {} PROVE FALSE
  OBVIOUS
<1>2. PICK m \in Out : \A k \in Out : ~ (<<k, m>> \in R)
  <2>1. IsWellFoundedOn(R, Nat)
    BY NatLessThanWellFounded
  <2>2. Out \subseteq Nat
    OBVIOUS
  <2> HIDE DEF R, Out
  <2> QED
    BY <1>1, <2>1, <2>2, WFMin
<1>3. m # 0 /\ m - 1 \in Nat
  OBVIOUS
<1>4. m - 1 \notin T
  <2>1. (m - 1) + 1 = m
    BY <1>3
  <2> QED
    BY <1>3, <2>1
<1>5. <<m - 1, m>> \in R
  BY <1>3 DEF OpToRel
<1> QED
  BY <1>2, <1>3, <1>4, <1>5

\* The first n + 1 sets of entities around S.
Rings(S, n, f) == f[0] = S /\ \A i \in 1 .. n : f[i] = Grow(f[i - 1])

LEMMA RingsExist == ASSUME NEW S PROVE \A n \in Nat : \E f : Rings(S, n, f)
<1> DEFINE T == {n \in Nat : \E f : Rings(S, n, f)}
<1>1. 0 \in T
  <2>1. Rings(S, 0, [i \in {0} |-> S])
    BY DEF Rings
  <2> QED
    BY <2>1
<1>2. ASSUME NEW n \in Nat, n \in T PROVE n + 1 \in T
  <2>1. PICK f : Rings(S, n, f)
    BY <1>2
  <2> DEFINE g == [i \in 0 .. n + 1 |-> IF i = n + 1 THEN Grow(f[n]) ELSE f[i]]
  <2>2. Rings(S, n + 1, g)
    <3>1. g[0] = S
      BY <2>1 DEF Rings
    <3>2. ASSUME NEW i \in 1 .. n + 1 PROVE g[i] = Grow(g[i - 1])
      <4>1. CASE i = n + 1
        BY <4>1
      <4>2. CASE i # n + 1
        <5>1. /\ i \in 1 .. n /\ i \in 0 .. n + 1 /\ i - 1 \in 0 .. n + 1
              /\ i - 1 # n + 1
          BY <4>2
        <5>2. g[i] = f[i] /\ g[i - 1] = f[i - 1]
          BY <4>2, <5>1
        <5> HIDE DEF g
        <5> QED
          BY <2>1, <5>1, <5>2 DEF Rings
      <4> QED
        BY <4>1, <4>2
    <3> HIDE DEF g
    <3> QED
      BY <3>1, <3>2 DEF Rings
  <2> HIDE DEF g
  <2> QED
    BY <2>2
<1> HIDE DEF T
<1>3. Nat \subseteq T
  BY <1>1, <1>2, SetInduction
<1> QED
  BY <1>3 DEF T

LEMMA RingsAgree ==
  ASSUME NEW S, NEW m \in Nat, NEW n \in Nat, NEW f, NEW g, Rings(S, m, f), Rings(S, n, g)
  PROVE  \A i \in Nat : i <= m /\ i <= n => f[i] = g[i]
<1> DEFINE T == {i \in Nat : i <= m /\ i <= n => f[i] = g[i]}
<1>1. 0 \in T
  BY DEF Rings
<1>2. ASSUME NEW i \in Nat, i \in T PROVE i + 1 \in T
  <2> SUFFICES ASSUME i + 1 <= m, i + 1 <= n PROVE f[i + 1] = g[i + 1]
    OBVIOUS
  <2>1. i + 1 \in 1 .. m /\ i + 1 \in 1 .. n /\ (i + 1) - 1 = i
    OBVIOUS
  <2>2. f[i] = g[i]
    BY <1>2
  <2> QED
    BY <2>1, <2>2 DEF Rings
<1> HIDE DEF T
<1>3. Nat \subseteq T
  BY <1>1, <1>2, SetInduction
<1> QED
  BY <1>3 DEF T

\* The recursion of Within is one that a function satisfies.
LEMMA WithinUnfolds ==
  ASSUME NEW S
  PROVE  Within(S) = [n \in Nat |-> IF n = 0 THEN S ELSE Grow(Within(S)[n - 1])]
<1> DEFINE ring(n) == CHOOSE f : Rings(S, n, f)
           ball == [n \in Nat |-> ring(n)[n]]
<1>1. \A n \in Nat : Rings(S, n, ring(n))
  BY RingsExist
<1> HIDE DEF ring
<1>2. ASSUME NEW n \in Nat PROVE ball[n] = IF n = 0 THEN S ELSE Grow(ball[n - 1])
  <2>1. CASE n = 0
    BY <1>1, <2>1 DEF Rings
  <2>2. CASE n # 0
    <3>1. n - 1 \in Nat /\ n - 1 <= n /\ n \in 1 .. n
      BY <2>2
    <3>2. ring(n)[n] = Grow(ring(n)[n - 1])
      BY <1>1, <3>1 DEF Rings
    <3>3. ring(n)[n - 1] = ring(n - 1)[n - 1]
      BY <1>1, <3>1, RingsAgree
    <3> QED
      BY <2>2, <3>1, <3>2, <3>3
  <2> QED
    BY <2>1, <2>2
<1>3. ball = [n \in Nat |-> IF n = 0 THEN S ELSE Grow(ball[n - 1])]
  <2>1. ball = [n \in Nat |-> ball[n]]
    OBVIOUS
  <2> HIDE DEF ball
  <2> QED
    BY <1>2, <2>1
<1> HIDE DEF ball
<1> QED
  BY <1>3 DEF Within

LEMMA WithinGrows ==
  ASSUME NEW S
  PROVE  Within(S)[0] = S /\ \A n \in Nat : Within(S)[n + 1] = Grow(Within(S)[n])
<1> DEFINE W == Within(S)
<1>1. W = [n \in Nat |-> IF n = 0 THEN S ELSE Grow(W[n - 1])]
  BY WithinUnfolds
<1> HIDE DEF W
<1>2. \A n \in Nat : W[n] = IF n = 0 THEN S ELSE Grow(W[n - 1])
  BY <1>1
<1>3. \A n \in Nat : n + 1 \in Nat /\ n + 1 # 0 /\ (n + 1) - 1 = n
  OBVIOUS
<1> QED
  BY <1>2, <1>3 DEF W

-----------------------------------------------------------------------------
(* The levels of the search.                                               *)

Length(k) == Len(queue[k].path)

\* The queue holds entities of two adjacent levels, the nearer ones first,
\* and all that is nearer still was seen.
Level(l) ==
  /\ \A k \in DOMAIN queue : Length(k) = l \/ Length(k) = l + 1
  /\ \A j, k \in DOMAIN queue : j < k => Length(j) <= Length(k)
  /\ Within(Starts)[l] \subseteq seen
  /\ \A k \in DOMAIN queue : Length(k) # 0 => queue[k].at \notin Within(Starts)[Length(k) - 1]

LevelInv ==
  /\ pc = "starts" => \A k \in DOMAIN queue : queue[k].path = <<>>
  /\ pc = "search" /\ queue # <<>> => Level(Length(1))
  /\ pc = "expand" => /\ Level(Len(here.path))
                      /\ \A s \in next : s.to \notin Within(Starts)[Len(here.path)]

LEMMA LengthType ==
  ASSUME TypeOK PROVE Len(here.path) \in Nat /\ \A k \in DOMAIN queue : Length(k) \in Nat
  BY DEF TypeOK, Reached, Length

LEMMA WithinKept ==
  ASSUME [Next]_vars, Starts' = Starts PROVE Within(Starts)' = Within(Starts)
<1>1. Directed' = Directed
  BY TaskKept
<1> QED
  BY <1>1 DEF Within, Grow

LEMMA ExpandLevel ==
  ASSUME JoinInv, LevelInv, [Next]_vars, Expand
  PROVE  LevelInv'
<1>0. PICK l : l = Length(1)
  OBVIOUS
<1>1. /\ pc = "search" /\ pc' = "expand" /\ seen' = seen /\ Starts' = Starts /\ queue # <<>>
      /\ here' = queue[1] /\ queue' = Tail(queue) /\ next' = Neighbors(queue[1].at)
      /\ queue \in Seq(Reached)
  BY StartsKept DEF Expand, JoinInv, TypeOK
<1>2. Level(l) /\ Len(here'.path) = l
  BY <1>0, <1>1 DEF LevelInv, Length
<1>3. \A k \in DOMAIN queue' : k \in Nat /\ k + 1 \in DOMAIN queue /\ queue'[k] = queue[k + 1]
  BY <1>1
<1>4. Within(Starts)' = Within(Starts)
  BY <1>1, WithinKept
<1>5. \A k \in DOMAIN queue' : Length(k)' = Length(k + 1)
  BY <1>3 DEF Length
<1>6. Level(l)'
  <2>1. \A k \in DOMAIN queue' : Length(k)' = l \/ Length(k)' = l + 1
    BY <1>2, <1>3, <1>5 DEF Level
  <2>2. \A j, k \in DOMAIN queue' : j < k => Length(j)' <= Length(k)'
    BY <1>2, <1>3, <1>5 DEF Level
  <2> QED
    BY <1>1, <1>2, <1>3, <1>4, <1>5, <2>1, <2>2 DEF Level
<1>7. \A s \in next' : s.to \notin Within(Starts)'[l]
  BY <1>1, <1>2, <1>4 DEF Neighbors, Level
<1> QED
  BY <1>1, <1>2, <1>6, <1>7 DEF LevelInv

LEMMA NeighborLevel ==
  ASSUME JoinInv, LevelInv, [Next]_vars, QueueNeighbor
  PROVE  LevelInv'
<1>0. PICK l, n : l = Len(here.path) /\ n = Len(queue) + 1
  OBVIOUS
<1>1. PICK s \in next : queue' = Queue(s) /\ seen' = seen \cup {s.to} /\ next' = next \ {s}
  BY DEF QueueNeighbor
<1>2. /\ pc = "expand" /\ pc' = "expand" /\ Starts' = Starts /\ here' = here
      /\ queue \in Seq(Reached) /\ l \in Nat /\ here.path \in Seq(Steps)
      /\ s \in Steps
  BY <1>0, StartsKept, LengthType, <1>1, DirectedType DEF QueueNeighbor, JoinInv, TypeOK, Reached
<1>3. Level(l) /\ \A t \in next : t.to \notin Within(Starts)[l]
  BY <1>0, <1>2 DEF LevelInv
<1>4. Within(Starts)' = Within(Starts)
  BY <1>2, WithinKept
<1>5. /\ Len(queue) \in Nat /\ DOMAIN queue = 1 .. Len(queue) /\ DOMAIN queue' = 1 .. n
      /\ \A k \in DOMAIN queue : queue'[k] = queue[k]
      /\ queue'[n] = [at |-> s.to, path |-> Append(here.path, s)]
  BY <1>0, <1>1, <1>2 DEF Queue
<1>6. (\A k \in DOMAIN queue : Length(k)' = Length(k)) /\ Length(n)' = l + 1
  <2>1. Len(Append(here.path, s)) = l + 1
    BY <1>0, <1>2
  <2> QED
    BY <1>5, <2>1 DEF Length
<1>7. \A k \in DOMAIN queue : Length(k) = l \/ Length(k) = l + 1
  BY <1>3 DEF Level
<1>8. s.to \notin Within(Starts)[l]
  BY <1>3
<1>9. Level(l)'
  <2>1. \A k \in DOMAIN queue' : k \in DOMAIN queue \/ k = n
    BY <1>0, <1>5
  <2>2. \A k \in DOMAIN queue' : Length(k)' = l \/ Length(k)' = l + 1
    BY <1>6, <1>7, <2>1
  <2>3. ASSUME NEW j \in DOMAIN queue', NEW k \in DOMAIN queue', j < k
        PROVE  Length(j)' <= Length(k)'
    <3>1. CASE k \in DOMAIN queue
      <4>1. j \in DOMAIN queue
        BY <1>0, <1>5, <2>3, <3>1
      <4> QED
        BY <1>3, <1>6, <2>3, <3>1, <4>1 DEF Level
    <3>2. CASE k = n
      BY <1>2, <1>6, <2>2, <3>2
    <3> QED
      BY <2>1, <3>1, <3>2
  <2>4. Within(Starts)'[l] \subseteq seen'
    BY <1>1, <1>3, <1>4 DEF Level
  <2>5. ASSUME NEW k \in DOMAIN queue', Length(k)' # 0
        PROVE  queue'[k].at \notin Within(Starts)'[Length(k)' - 1]
    <3>1. CASE k \in DOMAIN queue
      BY <1>3, <1>4, <1>5, <1>6, <2>5, <3>1 DEF Level
    <3>2. CASE k = n
      <4>1. queue'[k].at = s.to /\ Length(k)' - 1 = l
        BY <1>2, <1>5, <1>6, <3>2
      <4> QED
        BY <1>4, <1>8, <4>1
    <3> QED
      BY <2>1, <3>1, <3>2
  <2> QED
    BY <2>2, <2>3, <2>4, <2>5 DEF Level
<1>10. \A t \in next' : t.to \notin Within(Starts)'[l]
  BY <1>1, <1>3, <1>4
<1> QED
  BY <1>0, <1>2, <1>9, <1>10 DEF LevelInv

\* When the nearer level is done, what is one step from it was seen: each of
\* its entities was seen, and is no longer queued.
LEMMA ExpandedLevel ==
  ASSUME JoinInv, LevelInv, [Next]_vars, Expanded
  PROVE  LevelInv'
<1> DEFINE l == Len(here.path)
           m == Length(1)
<1>1. /\ pc = "expand" /\ pc' = "search" /\ next = {} /\ Starts' = Starts
      /\ UNCHANGED <<queue, seen>> /\ l \in Nat /\ queue \in Seq(Reached)
  BY StartsKept, LengthType DEF Expanded, search, JoinInv, TypeOK
<1>2. Within(Starts)' = Within(Starts) /\ \A k : Length(k)' = Length(k)
  BY <1>1, WithinKept DEF Length
<1>3. Level(l)
  BY <1>1 DEF LevelInv
<1> SUFFICES ASSUME queue # <<>> PROVE Level(m)
  BY <1>1, <1>2 DEF LevelInv, Level
<1>4. 1 \in DOMAIN queue /\ DOMAIN queue \subseteq Nat /\ \A k \in DOMAIN queue : k = 1 \/ 1 < k
  BY <1>1
<1>5. m = l \/ m = l + 1
  BY <1>3, <1>4 DEF Level
<1> HIDE DEF l, m
<1>6. CASE m = l
  BY <1>3, <1>6
<1>7. CASE m = l + 1
  <2>1. \A k \in DOMAIN queue : Length(k) = l + 1
    <3>1. ASSUME NEW k \in DOMAIN queue, 1 < k PROVE Length(1) <= Length(k)
      BY <1>3, <1>4, <3>1 DEF Level
    <3> QED
      BY <1>1, <1>3, <1>4, <1>7, <3>1 DEF Level, m
  <2>2. \A k \in DOMAIN queue : queue[k].at \notin Within(Starts)[l]
    <3>1. l + 1 # 0 /\ (l + 1) - 1 = l
      BY <1>1
    <3> QED
      BY <1>3, <2>1, <3>1 DEF Level
  <2>3. Within(Starts)[m] = Grow(Within(Starts)[l])
    BY <1>1, <1>7, WithinGrows
  <2>4. Within(Starts)[l] \subseteq seen
    BY <1>3 DEF Level
  <2>5. ASSUME NEW s \in Directed, s.from \in Within(Starts)[l] PROVE s.to \in seen
    <3>1. s.from \in seen /\ ~InQueue(s.from)
      BY <2>2, <2>4, <2>5 DEF InQueue
    <3>2. s.from = here.at => s.to \in seen
      BY <1>1 DEF JoinInv, ReachInv
    <3> QED
      BY <1>1, <3>1, <3>2 DEF JoinInv, ReachInv
  <2>6. Within(Starts)[m] \subseteq seen
    BY <2>3, <2>4, <2>5 DEF Grow
  <2>7. \A k \in DOMAIN queue : Length(k) = m
    BY <1>7, <2>1
  <2> QED
    BY <1>3, <1>1, <1>7, <2>6, <2>7 DEF Level
<1> QED
  BY <1>5, <1>6, <1>7

LEMMA LevelStep ==
  ASSUME JoinInv, LevelInv, [Next]_vars
  PROVE  LevelInv'
<1>1. CASE UNCHANGED vars \/ Finished
  <2>1. UNCHANGED vars
    BY <1>1 DEF Finished
  <2>2. UNCHANGED <<pc, queue, seen, here, next>> /\ Starts' = Starts
    BY <2>1 DEF vars, Starts
  <2>3. Within(Starts)' = Within(Starts) /\ \A k : Length(k)' = Length(k)
    BY <2>2, WithinKept DEF Length
  <2> QED
    BY <2>2, <2>3 DEF LevelInv, Level
<1>2. CASE \/ SkipTarget \/ Found \/ AddStep \/ Added \/ NotFound \/ Planned
           \/ RenderStep \/ RenderFails \/ Rendered
  <2>1. pc' \notin {"starts", "search", "expand"}
    BY <1>2 DEF SkipTarget, Found, AddStep, Added, NotFound, Planned, RenderStep, RenderFails,
                Rendered, NextStep
  <2> QED
    BY <2>1 DEF LevelInv
<1>3. CASE Search
  BY <1>3 DEF Search, LevelInv
<1>4. CASE QueueStart
  <2>1. PICK e \in First(Starts \ seen) :
          queue' = Append(queue, [at |-> e, path |-> <<>>]) /\ seen' = seen \cup {e}
    BY <1>4 DEF QueueStart
  <2>2. /\ pc = "starts" /\ Starts' = Starts /\ queue \in Seq(Reached)
        /\ pc' = IF seen' = Starts THEN "search" ELSE "starts"
    BY <1>4, StartsKept DEF QueueStart, JoinInv, TypeOK
  <2>3. \A k \in DOMAIN queue' : queue'[k].path = <<>>
    <3>1. ASSUME NEW k \in DOMAIN queue' PROVE queue'[k].path = <<>>
      <4>1. CASE k \in DOMAIN queue
        BY <2>1, <2>2, <4>1 DEF LevelInv
      <4>2. CASE k = Len(queue) + 1
        BY <2>1, <2>2, <4>2
      <4> QED
        BY <2>1, <2>2, <4>1, <4>2
    <3> QED
      BY <3>1
  <2>4. CASE pc' = "starts"
    BY <2>3, <2>4 DEF LevelInv
  <2>5. CASE pc' = "search"
    <3>1. seen' = Starts
      BY <2>2, <2>5
    <3>2. Within(Starts)' = Within(Starts) /\ Within(Starts)[0] = Starts
      BY <2>2, WithinKept, WithinGrows
    <3>3. \A k \in DOMAIN queue' : Length(k)' = 0
      BY <2>3 DEF Length
    <3>4. Level(0)'
      BY <3>1, <3>2, <3>3 DEF Level
    <3>5. queue' # <<>> => Length(1)' = 0
      <4>1. queue' \in Seq(Reached)
        BY TypeStep DEF TypeOK
      <4> QED
        BY <3>3, <4>1
    <3> QED
      BY <2>5, <3>4, <3>5 DEF LevelInv
  <2> QED
    BY <2>2, <2>4, <2>5
<1> QED
  BY <1>1, <1>2, <1>3, <1>4, ExpandLevel, NeighborLevel, ExpandedLevel DEF Next

\* graph_shortest_join_path returns a path with as few joins as any, for
\* every graph, both planners and every order of the scores: its queue holds
\* two levels at a time.
THEOREM PathsAreShortest == Spec => []ShortestPaths
<1>1. Init => LevelInv
  BY DEF Init, LevelInv
<1>2. JoinInv /\ LevelInv => ShortestPaths
  <2> SUFFICES ASSUME JoinInv, LevelInv, pc = "search", queue # <<>>, Head(queue).at = target
               PROVE  LET path == Head(queue).path IN
                      /\ path # <<>> /\ path[1].from \in Starts /\ path[Len(path)].to = target
                      /\ \A i \in DOMAIN path : path[i] \in Directed
                      /\ \A i \in 1 .. Len(path) - 1 : path[i].to = path[i + 1].from
                      /\ target \notin Within(Starts)[Len(path) - 1]
    BY DEF ShortestPaths
  <2> DEFINE path == queue[1].path
  <2>1. 1 \in DOMAIN queue /\ Head(queue) = queue[1] /\ queue[1].at = target
    BY DEF JoinInv, TypeOK
  <2>2. Leads(Starts, path, target) /\ target \notin Starts
    BY <2>1 DEF JoinInv, SearchInv, Searching
  <2>3. path \in Seq(Directed) /\ path # <<>>
    BY <2>2 DEF Leads
  <2>4. Length(1) = Len(path) /\ Len(path) # 0
    BY <2>3 DEF Length
  <2>5. target \notin Within(Starts)[Len(path) - 1]
    BY <2>1, <2>4 DEF LevelInv, Level
  <2>6. \A i \in DOMAIN path : path[i] \in Directed
    BY <2>3
  <2> HIDE DEF path
  <2> QED
    BY <2>1, <2>2, <2>3, <2>5, <2>6 DEF Leads, path
<1> QED
  BY <1>1, <1>2, LevelStep, JoinInvariant, PTL DEF Spec

-----------------------------------------------------------------------------
(* Shortest paths, and the first of them.                                  *)

LEMMA WithinMonotone ==
  ASSUME NEW S, NEW m \in Nat, NEW n \in Nat, m <= n
  PROVE  Within(S)[m] \subseteq Within(S)[n]
<1> DEFINE W == Within(S)
           T == {d \in Nat : W[m] \subseteq W[m + d]}
<1>1. 0 \in T
  <2>1. m + 0 = m
    OBVIOUS
  <2> HIDE DEF W
  <2> QED
    BY <2>1
<1>2. ASSUME NEW d \in Nat, d \in T PROVE d + 1 \in T
  <2>1. m + (d + 1) = (m + d) + 1 /\ m + d \in Nat
    OBVIOUS
  <2>2. W[(m + d) + 1] = Grow(W[m + d])
    BY <2>1, WithinGrows
  <2> HIDE DEF W
  <2> QED
    BY <1>2, <2>1, <2>2 DEF Grow
<1> HIDE DEF T
<1>3. Nat \subseteq T
  BY <1>1, <1>2, SetInduction
<1>4. n - m \in Nat /\ m + (n - m) = n
  OBVIOUS
<1> HIDE DEF W
<1>5. W[m] \subseteq W[m + (n - m)]
  BY <1>3, <1>4 DEF T
<1> QED
  BY <1>4, <1>5 DEF W

LEMMA LeadsWithin ==
  ASSUME NEW S, NEW path, NEW e, Leads(S, path, e), NEW i \in DOMAIN path
  PROVE  path[i].to \in Within(S)[i]
<1> DEFINE W == Within(S)
           T == {n \in Nat : n + 1 \in DOMAIN path => path[n + 1].to \in W[n + 1]}
<1>0. /\ path \in Seq(Directed) /\ path # <<>> /\ DOMAIN path = 1 .. Len(path) /\ Len(path) \in Nat
      /\ path[1].from \in S
      /\ \A k \in 1 .. Len(path) - 1 : path[k].to = path[k + 1].from
  BY DEF Leads
<1>1. W[0] = S /\ \A n \in Nat : W[n + 1] = Grow(W[n])
  BY WithinGrows
<1> HIDE DEF W
<1>2. 0 \in T
  <2>1. W[1] = Grow(S)
    <3>1. 0 + 1 = 1 /\ 0 \in Nat
      OBVIOUS
    <3> QED
      BY <1>1, <3>1
  <2>2. path[1] \in Directed
    BY <1>0
  <2>3. path[1].to \in W[1]
    BY <1>0, <2>1, <2>2 DEF Grow
  <2>4. 0 + 1 = 1
    OBVIOUS
  <2> QED
    BY <2>3, <2>4
<1>3. ASSUME NEW n \in Nat, n \in T PROVE n + 1 \in T
  <2> SUFFICES ASSUME (n + 1) + 1 \in DOMAIN path PROVE path[(n + 1) + 1].to \in W[(n + 1) + 1]
    OBVIOUS
  <2>1. /\ n + 1 \in DOMAIN path /\ n + 1 \in 1 .. Len(path) - 1
        /\ path[n + 1].to = path[(n + 1) + 1].from
    BY <1>0
  <2>2. path[(n + 1) + 1].from \in W[n + 1] /\ path[(n + 1) + 1] \in Directed
    BY <1>0, <1>3, <2>1
  <2> QED
    BY <1>1, <2>2 DEF Grow
<1> HIDE DEF T
<1>4. Nat \subseteq T
  BY <1>2, <1>3, SetInduction
<1>5. i - 1 \in Nat /\ (i - 1) + 1 = i
  BY <1>0
<1> QED
  BY <1>4, <1>5 DEF T, W

\* Each step leads one relationship farther from the starts.
Geodesic(path, e) ==
  /\ Leads(Starts, path, e)
  /\ \A i \in DOMAIN path : path[i].to \notin Within(Starts)[i - 1]

LEMMA GeodesicEnd ==
  ASSUME NEW p, NEW e, Geodesic(p, e)
  PROVE  /\ p \in Seq(Directed) /\ Len(p) \in Nat
         /\ e \in Within(Starts)[Len(p)]
         /\ p # <<>> => e \notin Within(Starts)[Len(p) - 1]
<1>1. p \in Seq(Directed) /\ Len(p) \in Nat /\ Leads(Starts, p, e)
  BY DEF Geodesic, Leads
<1>2. CASE p = <<>>
  BY <1>1, <1>2, WithinGrows DEF Leads
<1>3. CASE p # <<>>
  <2>1. Len(p) \in DOMAIN p /\ p[Len(p)].to = e
    BY <1>1, <1>3 DEF Leads
  <2> QED
    BY <1>1, <2>1, LeadsWithin DEF Geodesic
<1> QED
  BY <1>1, <1>2, <1>3

LEMMA GeodesicLength ==
  ASSUME NEW p, NEW q, NEW e, Geodesic(p, e), Geodesic(q, e)
  PROVE  Len(p) = Len(q)
<1>1. ASSUME NEW a, NEW b, Geodesic(a, e), Geodesic(b, e), Len(a) < Len(b) PROVE FALSE
  <2>1. /\ Len(a) \in Nat /\ Len(b) \in Nat /\ b \in Seq(Directed)
        /\ e \in Within(Starts)[Len(a)] /\ (b # <<>> => e \notin Within(Starts)[Len(b) - 1])
    BY <1>1, GeodesicEnd
  <2>2. b # <<>> /\ Len(b) - 1 \in Nat /\ Len(a) <= Len(b) - 1
    BY <1>1, <2>1
  <2>3. Within(Starts)[Len(a)] \subseteq Within(Starts)[Len(b) - 1]
    BY <2>1, <2>2, WithinMonotone
  <2> QED
    BY <2>1, <2>2, <2>3
<1>2. Len(p) \in Nat /\ Len(q) \in Nat
  BY GeodesicEnd
<1> QED
  BY <1>1, <1>2

\* A path with each of its entities once, and none of the starts.
LEMMA GeodesicApart ==
  ASSUME NEW p, NEW e, Geodesic(p, e)
  PROVE  /\ \A i \in DOMAIN p : p[i].to \notin Starts
         /\ \A i, j \in DOMAIN p : p[i].to = p[j].to => i = j
<1> DEFINE W == Within(Starts)
<1>1. DOMAIN p \subseteq Nat /\ \A i \in DOMAIN p : i - 1 \in Nat
  BY DEF Geodesic, Leads
<1>2. \A i \in DOMAIN p : p[i].to \in W[i] /\ p[i].to \notin W[i - 1]
  BY LeadsWithin DEF Geodesic
<1>3. W[0] = Starts
  BY WithinGrows
<1>4. \A i \in DOMAIN p : W[0] \subseteq W[i - 1]
  BY <1>1, WithinMonotone
<1>5. ASSUME NEW i \in DOMAIN p, NEW j \in DOMAIN p, i < j PROVE p[i].to # p[j].to
  <2>1. W[i] \subseteq W[j - 1]
    BY <1>1, <1>5, WithinMonotone
  <2> HIDE DEF W
  <2> QED
    BY <1>2, <2>1
<1> HIDE DEF W
<1>6. \A i \in DOMAIN p : p[i].to \notin Starts
  BY <1>2, <1>3, <1>4
<1>7. ASSUME NEW i \in DOMAIN p, NEW j \in DOMAIN p, p[i].to = p[j].to PROVE i = j
  BY <1>1, <1>5, <1>7
<1> QED
  BY <1>6, <1>7

\* The order of the search: at the first difference, the better step.
Before(p, q) ==
  \E i \in DOMAIN p \cap DOMAIN q :
    Better(p[i], q[i]) /\ \A j \in 1 .. i - 1 : p[j] = q[j]

RankTypes ==
  /\ EntityRank \in [Entities -> Nat] /\ FieldRank \in [Names \X Entities -> Nat]
  /\ task.score \in [Names \X Entities -> Nat]

LEMMA BetterIsAnOrder ==
  ASSUME task \in AllTasks
  PROVE  /\ \A s, t \in Steps : Better(s, t) => ~Better(t, s)
         /\ \A s, t, u \in Steps : Better(s, t) /\ Better(t, u) => Better(s, u)
         /\ \A s, t \in Steps : s.from = t.from /\ s # t => Better(s, t) \/ Better(t, s)
<1>1. ASSUME NEW s \in Steps
      PROVE  /\ task.score[<<s.name, s.to>>] \in Nat /\ EntityRank[s.to] \in Nat
             /\ FieldRank[<<s.name, s.from>>] \in Nat
             /\ s.name \in Names /\ s.from \in Entities /\ s.to \in Entities
             /\ s = [name |-> s.name, from |-> s.from, to |-> s.to]
  BY JoinAssumption DEF AllTasks, Steps
<1> DEFINE score(s) == task.score[<<s.name, s.to>>]
           field(s) == FieldRank[<<s.name, s.from>>]
<1>2. \A s, t \in Steps : Better(s, t) <=>
        \/ score(s) > score(t)
        \/ score(s) = score(t) /\ EntityRank[s.to] < EntityRank[t.to]
        \/ score(s) = score(t) /\ s.to = t.to /\ field(s) < field(t)
  BY DEF Better
<1>3. \A s \in Steps : score(s) \in Nat /\ EntityRank[s.to] \in Nat /\ field(s) \in Nat
  BY <1>1
<1>4. ASSUME NEW s \in Steps, NEW t \in Steps, s.from = t.from, s # t,
             score(s) = score(t)
      PROVE  \/ EntityRank[s.to] # EntityRank[t.to]
             \/ s.to = t.to /\ field(s) # field(t)
  <2>1. CASE s.to = t.to
    <3>1. s.name # t.name
      BY <1>1, <1>4, <2>1
    <3> QED
      BY <1>1, <1>4, <2>1, <3>1, JoinAssumption
  <2>2. CASE s.to # t.to
    BY <1>1, <2>2, JoinAssumption
  <2> QED
    BY <2>1, <2>2
<1> HIDE DEF score, field
<1>5. \A s, t \in Steps : Better(s, t) => ~Better(t, s)
  BY <1>2, <1>3
<1>6. \A s, t, u \in Steps : Better(s, t) /\ Better(t, u) => Better(s, u)
  BY <1>2, <1>3
<1>7. \A s, t \in Steps : s.from = t.from /\ s # t => Better(s, t) \/ Better(t, s)
  BY <1>2, <1>3, <1>4
<1> QED
  BY <1>5, <1>6, <1>7

LEMMA BeforeTransitive ==
  ASSUME task \in AllTasks, NEW p \in Seq(Directed), NEW q \in Seq(Directed), NEW r \in Seq(Directed),
         Before(p, q), Before(q, r)
  PROVE  Before(p, r)
<1>0. Directed \subseteq Steps
  BY DirectedType
<1>1. PICK i \in DOMAIN p \cap DOMAIN q :
        Better(p[i], q[i]) /\ \A j \in 1 .. i - 1 : p[j] = q[j]
  BY DEF Before
<1>2. PICK k \in DOMAIN q \cap DOMAIN r :
        Better(q[k], r[k]) /\ \A j \in 1 .. k - 1 : q[j] = r[j]
  BY DEF Before
<1>3. /\ Len(p) \in Nat /\ Len(q) \in Nat /\ Len(r) \in Nat
      /\ DOMAIN p = 1 .. Len(p) /\ DOMAIN q = 1 .. Len(q) /\ DOMAIN r = 1 .. Len(r)
  OBVIOUS
<1>4. CASE i < k
  <2>1. i \in 1 .. k - 1 /\ i \in DOMAIN p \cap DOMAIN r /\ \A j \in 1 .. i - 1 : j \in 1 .. k - 1
    BY <1>1, <1>2, <1>3, <1>4
  <2> QED
    BY <1>1, <1>2, <2>1 DEF Before
<1>5. CASE k < i
  <2>1. k \in 1 .. i - 1 /\ k \in DOMAIN p \cap DOMAIN r /\ \A j \in 1 .. k - 1 : j \in 1 .. i - 1
    BY <1>1, <1>2, <1>3, <1>5
  <2> QED
    BY <1>1, <1>2, <2>1 DEF Before
<1>6. CASE i = k
  <2>1. p[i] \in Steps /\ q[i] \in Steps /\ r[i] \in Steps
    BY <1>0, <1>1, <1>2, <1>3, <1>6
  <2>2. Better(p[i], r[i])
    BY <1>1, <1>2, <1>6, <2>1, BetterIsAnOrder
  <2> QED
    BY <1>1, <1>2, <1>6, <2>2 DEF Before
<1> QED
  BY <1>1, <1>2, <1>3, <1>4, <1>5, <1>6

\* Of the shortest paths to an entity, the one no other comes before.
Canonical(p, e) ==
  Geodesic(p, e) /\ \A q : Geodesic(q, e) => ~Before(q, p)

Prefix(p, k) == [i \in 1 .. k |-> p[i]]

LEMMA PrefixGeodesic ==
  ASSUME NEW p, NEW e, Geodesic(p, e), NEW k \in DOMAIN p
  PROVE  /\ Prefix(p, k) \in Seq(Directed) /\ Len(Prefix(p, k)) = k
         /\ Geodesic(Prefix(p, k), p[k].to)
<1>1. /\ p \in Seq(Directed) /\ DOMAIN p = 1 .. Len(p) /\ Len(p) \in Nat /\ p # <<>> /\ k \in Nat
      /\ p[1].from \in Starts /\ \A i \in 1 .. Len(p) - 1 : p[i].to = p[i + 1].from
      /\ \A i \in DOMAIN p : p[i].to \notin Within(Starts)[i - 1]
  <2>1. p \in Seq(Directed)
    BY DEF Geodesic, Leads
  <2>2. DOMAIN p = 1 .. Len(p) /\ Len(p) \in Nat /\ p # <<>> /\ k \in Nat
    BY <2>1
  <2> QED
    BY <2>1, <2>2 DEF Geodesic, Leads
<1> DEFINE a == Prefix(p, k)
<1>2. /\ a \in Seq(Directed) /\ Len(a) = k /\ DOMAIN a = 1 .. k /\ a # <<>>
      /\ \A i \in 1 .. k : a[i] = p[i]
  <2>1. a \in [1 .. k -> Directed]
    BY <1>1 DEF Prefix
  <2>2. a \in Seq(Directed) /\ Len(a) = k
    BY <1>1, <2>1
  <2>3. \A i \in 1 .. k : a[i] = p[i]
    BY DEF Prefix
  <2> HIDE DEF a
  <2> QED
    BY <1>1, <2>1, <2>2, <2>3
<1> HIDE DEF a
<1>3. 1 \in 1 .. k /\ k \in 1 .. k /\ \A i \in 1 .. k - 1 : i \in 1 .. k /\ i + 1 \in 1 .. k /\ i \in 1 .. Len(p) - 1
  BY <1>1
<1>4. Leads(Starts, a, p[k].to)
  BY <1>1, <1>2, <1>3 DEF Leads
<1>5. \A i \in DOMAIN a : a[i].to \notin Within(Starts)[i - 1]
  BY <1>1, <1>2
<1> QED
  BY <1>2, <1>4, <1>5 DEF Geodesic, a

\* Another way to the k-th entity of a path, and on as the path goes.
LEMMA Detour ==
  ASSUME NEW p, NEW e, Geodesic(p, e), NEW k \in DOMAIN p, NEW q, Geodesic(q, p[k].to), Len(q) = k,
         Before(q, Prefix(p, k))
  PROVE  \E r : Geodesic(r, e) /\ Before(r, p)
<1>1. /\ p \in Seq(Directed) /\ DOMAIN p = 1 .. Len(p) /\ Len(p) \in Nat /\ p # <<>> /\ k \in 1 .. Len(p)
      /\ p[Len(p)].to = e /\ \A i \in 1 .. Len(p) - 1 : p[i].to = p[i + 1].from
      /\ \A i \in DOMAIN p : p[i].to \notin Within(Starts)[i - 1]
  BY DEF Geodesic, Leads
<1>2. /\ q \in Seq(Directed) /\ DOMAIN q = 1 .. k /\ q # <<>>
      /\ q[1].from \in Starts /\ q[k].to = p[k].to /\ \A i \in 1 .. k - 1 : q[i].to = q[i + 1].from
      /\ \A i \in DOMAIN q : q[i].to \notin Within(Starts)[i - 1]
  <2>1. q # <<>>
    BY <1>1
  <2> QED
    BY <2>1 DEF Geodesic, Leads
<1> DEFINE r == [i \in 1 .. Len(p) |-> IF i <= k THEN q[i] ELSE p[i]]
<1>3. /\ r \in Seq(Directed) /\ Len(r) = Len(p) /\ DOMAIN r = 1 .. Len(p) /\ r # <<>>
      /\ \A i \in 1 .. k : r[i] = q[i]
      /\ \A i \in 1 .. Len(p) : k < i => r[i] = p[i]
  <2>1. r \in [1 .. Len(p) -> Directed]
    <3>1. \A i \in 1 .. Len(p) : i <= k => i \in 1 .. k
      BY <1>1
    <3> QED
      BY <1>1, <1>2, <3>1
  <2>2. r \in Seq(Directed) /\ Len(r) = Len(p)
    BY <1>1, <2>1
  <2>3. \A i \in 1 .. k : r[i] = q[i]
    BY <1>1
  <2>4. \A i \in 1 .. Len(p) : k < i => r[i] = p[i]
    BY <1>1
  <2> HIDE DEF r
  <2> QED
    BY <1>1, <2>1, <2>2, <2>3, <2>4
<1> HIDE DEF r
<1>4. r[1].from \in Starts
  BY <1>1, <1>2, <1>3
<1>5. r[Len(r)].to = e
  <2>1. CASE k = Len(p)
    BY <1>1, <1>2, <1>3, <2>1
  <2>2. CASE k < Len(p)
    BY <1>1, <1>3, <2>2
  <2> QED
    BY <1>1, <2>1, <2>2
<1>6. ASSUME NEW i \in 1 .. Len(r) - 1 PROVE r[i].to = r[i + 1].from
  <2>1. CASE i < k
    <3>1. i \in 1 .. k /\ i + 1 \in 1 .. k /\ i \in 1 .. k - 1
      BY <1>1, <2>1
    <3> QED
      BY <1>2, <1>3, <3>1
  <2>2. CASE i = k
    <3>1. k \in 1 .. k /\ k < i + 1 /\ i + 1 \in 1 .. Len(p) /\ i \in 1 .. Len(p) - 1
      BY <1>1, <1>3, <2>2
    <3> QED
      BY <1>1, <1>2, <1>3, <2>2, <3>1
  <2>3. CASE k < i
    <3>1. i \in 1 .. Len(p) /\ k < i + 1 /\ i + 1 \in 1 .. Len(p) /\ i \in 1 .. Len(p) - 1
      BY <1>1, <1>3, <2>3
    <3> QED
      BY <1>1, <1>3, <2>3, <3>1
  <2> QED
    BY <1>1, <2>1, <2>2, <2>3
<1>7. ASSUME NEW i \in DOMAIN r PROVE r[i].to \notin Within(Starts)[i - 1]
  <2>1. CASE i <= k
    <3>1. i \in 1 .. k
      BY <1>1, <1>3, <2>1
    <3> QED
      BY <1>2, <1>3, <3>1
  <2>2. CASE k < i
    BY <1>1, <1>3, <2>2
  <2> QED
    BY <1>1, <1>3, <2>1, <2>2
<1>8. Geodesic(r, e)
  BY <1>3, <1>4, <1>5, <1>6, <1>7 DEF Geodesic, Leads
<1>9. Before(r, p)
  <2>1. PICK i \in DOMAIN q \cap DOMAIN Prefix(p, k) :
          Better(q[i], Prefix(p, k)[i]) /\ \A j \in 1 .. i - 1 : q[j] = Prefix(p, k)[j]
    BY DEF Before
  <2>2. i \in 1 .. k /\ i \in DOMAIN r \cap DOMAIN p /\ \A j \in 1 .. i - 1 : j \in 1 .. k
    BY <1>1, <1>2, <1>3, <2>1
  <2>3. \A j \in 1 .. k : Prefix(p, k)[j] = p[j]
    BY DEF Prefix
  <2>4. Better(r[i], p[i]) /\ \A j \in 1 .. i - 1 : r[j] = p[j]
    BY <1>3, <2>1, <2>2, <2>3
  <2> QED
    BY <2>2, <2>4 DEF Before
<1> QED
  BY <1>8, <1>9

LEMMA PrefixCanonical ==
  ASSUME NEW p, NEW e, Canonical(p, e), NEW k \in DOMAIN p
  PROVE  Canonical(Prefix(p, k), p[k].to)
<1>1. Geodesic(p, e) /\ \A r : Geodesic(r, e) => ~Before(r, p)
  BY DEF Canonical
<1>2. Geodesic(Prefix(p, k), p[k].to) /\ Len(Prefix(p, k)) = k
  BY <1>1, PrefixGeodesic
<1>3. ASSUME NEW q, Geodesic(q, p[k].to), Before(q, Prefix(p, k)) PROVE FALSE
  <2>1. Len(q) = k
    BY <1>2, <1>3, GeodesicLength
  <2> QED
    BY <1>1, <1>3, <2>1, Detour
<1> QED
  BY <1>2, <1>3 DEF Canonical

LEMMA FirstDifference ==
  ASSUME NEW p \in Seq(Directed), NEW q \in Seq(Directed), Len(p) = Len(q), p # q
  PROVE  \E i \in DOMAIN p : p[i] # q[i] /\ \A j \in 1 .. i - 1 : p[j] = q[j]
<1> SUFFICES ASSUME \A i \in DOMAIN p : p[i] = q[i] \/ ~(\A j \in 1 .. i - 1 : p[j] = q[j])
             PROVE  FALSE
  OBVIOUS
<1> DEFINE T == {n \in Nat : \A j \in 1 .. n : j \in DOMAIN p => p[j] = q[j]}
<1>1. 0 \in T
  OBVIOUS
<1>2. ASSUME NEW n \in Nat, n \in T PROVE n + 1 \in T
  <2> SUFFICES ASSUME NEW j \in 1 .. n + 1, j \in DOMAIN p PROVE p[j] = q[j]
    OBVIOUS
  <2>1. CASE j \in 1 .. n
    BY <1>2, <2>1
  <2>2. CASE j = n + 1
    <3>1. \A i \in 1 .. j - 1 : i \in DOMAIN p /\ i \in 1 .. n
      BY <2>2
    <3> QED
      BY <1>2, <2>2, <3>1
  <2> QED
    BY <2>1, <2>2
<1> HIDE DEF T
<1>3. Nat \subseteq T
  BY <1>1, <1>2, SetInduction
<1>4. Len(p) \in T /\ DOMAIN p = 1 .. Len(p) /\ DOMAIN q = 1 .. Len(p)
  BY <1>3
<1>5. \A j \in 1 .. Len(p) : p[j] = q[j]
  BY <1>4 DEF T
<1> QED
  BY <1>4, <1>5, SeqEqual

\* From one start, there is one such path to an entity.
LEMMA CanonicalUnique ==
  ASSUME task \in AllTasks, NEW b, Starts = {b},
         NEW p, NEW q, NEW e, Canonical(p, e), Canonical(q, e)
  PROVE  p = q
<1> SUFFICES ASSUME p # q PROVE FALSE
  OBVIOUS
<1>1. /\ p \in Seq(Directed) /\ q \in Seq(Directed) /\ Len(p) = Len(q) /\ Geodesic(p, e) /\ Geodesic(q, e)
      /\ ~Before(p, q) /\ ~Before(q, p)
  BY GeodesicEnd, GeodesicLength DEF Canonical
<1>2. PICK i \in DOMAIN p : p[i] # q[i] /\ \A j \in 1 .. i - 1 : p[j] = q[j]
  BY <1>1, FirstDifference
<1>3. /\ DOMAIN p = 1 .. Len(p) /\ DOMAIN q = 1 .. Len(p) /\ Len(p) \in Nat
      /\ p[i] \in Directed /\ q[i] \in Directed
  BY <1>1, <1>2
<1>4. p[i].from = q[i].from
  <2>0. p # <<>> /\ q # <<>>
    BY <1>1, <1>2, <1>3
  <2>1. CASE i = 1
    BY <1>1, <2>0, <2>1 DEF Geodesic, Leads
  <2>2. CASE i # 1
    <3>1. i - 1 \in 1 .. Len(p) - 1 /\ (i - 1) + 1 = i /\ i - 1 \in 1 .. i - 1
      BY <1>2, <1>3, <2>2
    <3>2. p[i - 1].to = p[i].from /\ q[i - 1].to = q[i].from
      BY <1>1, <2>0, <3>1 DEF Geodesic, Leads
    <3> QED
      BY <1>2, <3>1, <3>2
  <2> QED
    BY <2>1, <2>2
<1>5. Better(p[i], q[i]) \/ Better(q[i], p[i])
  BY <1>2, <1>3, <1>4, DirectedType, BetterIsAnOrder
<1>6. i \in DOMAIN p \cap DOMAIN q /\ \A j \in 1 .. i - 1 : q[j] = p[j]
  BY <1>2, <1>3
<1> QED
  BY <1>1, <1>2, <1>5, <1>6 DEF Before

\* The steps of these paths form a tree: one leads to each entity but the
\* start.
OnTree(s) == \E p, e : Canonical(p, e) /\ \E i \in DOMAIN p : s = p[i]

LEMMA TreeSteps ==
  ASSUME task \in AllTasks, NEW b, Starts = {b}, NEW s, NEW t, OnTree(s), OnTree(t)
  PROVE  s.to # b /\ (s.to = t.to => s = t)
<1>1. PICK p, e : Canonical(p, e) /\ \E i \in DOMAIN p : s = p[i]
  BY DEF OnTree
<1>2. PICK i \in DOMAIN p : s = p[i]
  BY <1>1
<1>3. PICK q, f : Canonical(q, f) /\ \E j \in DOMAIN q : t = q[j]
  BY DEF OnTree
<1>4. PICK j \in DOMAIN q : t = q[j]
  BY <1>3
<1>5. Geodesic(p, e) /\ Geodesic(q, f)
  BY <1>1, <1>3 DEF Canonical
<1>6. s.to # b
  BY <1>2, <1>5, GeodesicApart
<1>7. ASSUME s.to = t.to PROVE s = t
  <2>1. Canonical(Prefix(p, i), s.to) /\ Canonical(Prefix(q, j), s.to)
    BY <1>1, <1>2, <1>3, <1>4, <1>7, PrefixCanonical
  <2>2. Prefix(p, i) = Prefix(q, j)
    BY <2>1, CanonicalUnique
  <2>3. Len(Prefix(p, i)) = i /\ Len(Prefix(q, j)) = j
    BY <1>2, <1>4, <1>5, PrefixGeodesic
  <2>4. i = j /\ i \in 1 .. i /\ j \in 1 .. j
    <3>1. i \in Nat /\ 1 <= i
      BY <1>2, <1>5 DEF Geodesic, Leads
    <3> QED
      BY <2>2, <2>3, <3>1
  <2>5. Prefix(p, i)[i] = s /\ Prefix(q, j)[j] = t
    BY <1>2, <1>4, <2>4 DEF Prefix
  <2> QED
    BY <2>2, <2>4, <2>5
<1> QED
  BY <1>6, <1>7

-----------------------------------------------------------------------------
(* The order of the search.                                                *)

\* Queued paths, and the one being expanded, are shortest ones.
GeodesicInv ==
  /\ pc \in Searching => \A k \in DOMAIN queue : Geodesic(queue[k].path, queue[k].at)
  /\ pc = "expand" => Geodesic(here.path, here.at)

\* A queued path is the canonical one to its entity, or comes after another
\* path to it, which may have been expanded already; never so the target's.
Settled(k) ==
  \/ Canonical(queue[k].path, queue[k].at)
  \/ \E j \in DOMAIN queue : j < k /\ queue[j].at = queue[k].at
  \/ /\ queue[k].at # target
     /\ \/ pc = "expand" /\ queue[k].at = here.at
        \/ \A s \in Directed : s.from = queue[k].at => s.to \in seen

\* When the search starts from the base, the paths of a level are queued in
\* their order, those of the next level before what is left of this one.
OrderInv ==
  /\ pc = "starts" => queue = <<>>
  /\ pc \in {"search", "expand"} =>
       /\ \A k \in DOMAIN queue : Settled(k)
       /\ \A j, k \in DOMAIN queue : j < k /\ Length(j) = Length(k) => Before(queue[j].path, queue[k].path)
       /\ \A j, k \in DOMAIN queue : Length(j) < Length(k) => Before(queue[k].path, queue[j].path)
  /\ pc = "expand" =>
       /\ next # {} => Canonical(here.path, here.at)
       /\ \A j \in DOMAIN queue : Length(j) = Len(here.path) => Before(here.path, queue[j].path)
       /\ \A k \in DOMAIN queue : Length(k) > Len(here.path) =>
            \A s \in next : Before(queue[k].path, Append(here.path, s))

FromBaseInv == task.fromBase => OrderInv

LEMMA GeodesicKept ==
  ASSUME [Next]_vars, Starts' = Starts
  PROVE  /\ \A p, e : Geodesic(p, e)' <=> Geodesic(p, e)
         /\ \A p, e : Canonical(p, e)' <=> Canonical(p, e)
         /\ \A p, q : Before(p, q)' <=> Before(p, q)
<1>1. Directed' = Directed /\ task' = task /\ Within(Starts)' = Within(Starts)
  BY TaskKept, WithinKept
<1>2. \A p, e : Geodesic(p, e)' <=> Geodesic(p, e)
  BY <1>1 DEF Geodesic, Leads
<1>3. \A p, q : Before(p, q)' <=> Before(p, q)
  BY <1>1 DEF Before, Better
<1> QED
  BY <1>2, <1>3 DEF Canonical

LEMMA GeodesicExtended ==
  ASSUME NEW p, NEW e, Geodesic(p, e), NEW s \in Directed, s.from = e,
         s.to \notin Within(Starts)[Len(p)]
  PROVE  Geodesic(Append(p, s), s.to)
<1>0. Leads(Starts, p, e)
  BY DEF Geodesic
<1>1. Leads(Starts, Append(p, s), s.to) /\ p \in Seq(Directed) /\ Len(p) \in Nat
  <2>1. Leads(Starts, Append(p, s), s.to)
    BY <1>0, PathExtended
  <2>2. p \in Seq(Directed)
    BY <1>0 DEF Leads
  <2> QED
    BY <2>1, <2>2
<1> DEFINE a == Append(p, s)
           n == Len(p) + 1
<1>2. DOMAIN a = 1 .. n /\ a[n] = s /\ \A i \in 1 .. Len(p) : a[i] = p[i]
  BY <1>1
<1>3. n - 1 = Len(p) /\ \A i \in 1 .. n : i = n \/ i \in 1 .. Len(p)
  BY <1>1
<1> HIDE DEF a, n
<1>4. DOMAIN p = 1 .. Len(p)
  BY <1>1
<1>5. ASSUME NEW i \in DOMAIN a PROVE a[i].to \notin Within(Starts)[i - 1]
  <2>1. CASE i = n
    BY <1>2, <1>3, <2>1
  <2>2. CASE i \in 1 .. Len(p)
    BY <1>2, <1>4, <2>2 DEF Geodesic
  <2> QED
    BY <1>2, <1>3, <1>5, <2>1, <2>2
<1> QED
  BY <1>1, <1>5 DEF Geodesic, a

LEMMA GeodesicStep ==
  ASSUME JoinInv, LevelInv, GeodesicInv, [Next]_vars
  PROVE  GeodesicInv'
<1>0. queue \in Seq(Reached)
  BY DEF JoinInv, TypeOK
<1> USE DEF Searching
<1>1. CASE UNCHANGED vars \/ Finished
  <2>1. UNCHANGED <<pc, queue, here>> /\ Starts' = Starts
    BY <1>1 DEF vars, Finished, Starts
  <2>2. \A p, e : Geodesic(p, e)' <=> Geodesic(p, e)
    BY <2>1, GeodesicKept
  <2> QED
    BY <2>1, <2>2 DEF GeodesicInv
<1>2. CASE \/ SkipTarget \/ Found \/ AddStep \/ Added \/ NotFound \/ Planned
           \/ RenderStep \/ RenderFails \/ Rendered
  <2>1. pc' \notin {"starts", "search", "expand"}
    BY <1>2 DEF SkipTarget, Found, AddStep, Added, NotFound, Planned, RenderStep, RenderFails,
                Rendered, NextStep
  <2> QED
    BY <2>1 DEF GeodesicInv
<1>3. CASE Search
  <2>1. pc' = "starts" /\ queue' = <<>>
    BY <1>3 DEF Search
  <2> QED
    BY <2>1 DEF GeodesicInv
<1>4. CASE QueueStart
  <2>1. PICK e \in First(Starts \ seen) : queue' = Append(queue, [at |-> e, path |-> <<>>])
    BY <1>4 DEF QueueStart
  <2>2. /\ pc = "starts" /\ Starts' = Starts /\ e \in Starts /\ pc' \in {"starts", "search"}
    BY <1>4, <2>1, StartsKept DEF QueueStart, First
  <2>3. Geodesic(<<>>, e)
    BY <2>2 DEF Geodesic, Leads
  <2>4. ASSUME NEW k \in DOMAIN queue' PROVE Geodesic(queue'[k].path, queue'[k].at)
    <3>1. CASE k \in DOMAIN queue
      BY <1>0, <2>1, <2>2, <3>1 DEF GeodesicInv
    <3>2. CASE k = Len(queue) + 1
      BY <1>0, <2>1, <2>3, <3>2
    <3> QED
      BY <1>0, <2>1, <3>1, <3>2
  <2> QED
    BY <2>2, <2>4, GeodesicKept DEF GeodesicInv
<1>5. CASE Expand
  <2>1. /\ pc = "search" /\ pc' = "expand" /\ Starts' = Starts
        /\ here' = queue[1] /\ queue' = Tail(queue) /\ queue # <<>>
    BY <1>0, <1>5, StartsKept DEF Expand
  <2>2. \A k \in DOMAIN queue' : k + 1 \in DOMAIN queue /\ queue'[k] = queue[k + 1]
    BY <1>0, <2>1
  <2>3. 1 \in DOMAIN queue
    BY <1>0, <2>1
  <2> QED
    BY <2>1, <2>2, <2>3, GeodesicKept DEF GeodesicInv
<1>6. CASE QueueNeighbor
  <2>1. PICK s \in next : queue' = Queue(s)
    BY <1>6 DEF QueueNeighbor
  <2>2. /\ pc = "expand" /\ pc' = "expand" /\ Starts' = Starts /\ here' = here
        /\ s \in Directed /\ s.from = here.at /\ s.to \notin Within(Starts)[Len(here.path)]
    BY <1>6, <2>1, StartsKept DEF QueueNeighbor, JoinInv, SearchInv, TypeOK, LevelInv
  <2>3. Geodesic(Append(here.path, s), s.to)
    BY <2>2, GeodesicExtended DEF GeodesicInv
  <2>4. ASSUME NEW k \in DOMAIN queue' PROVE Geodesic(queue'[k].path, queue'[k].at)
    <3>1. CASE k \in DOMAIN queue
      BY <1>0, <2>1, <2>2, <3>1 DEF GeodesicInv, Queue
    <3>2. CASE k = Len(queue) + 1
      BY <1>0, <2>1, <2>3, <3>2 DEF Queue
    <3> QED
      BY <1>0, <2>1, <3>1, <3>2 DEF Queue
  <2> QED
    BY <2>2, <2>4, GeodesicKept DEF GeodesicInv
<1>7. CASE Expanded
  <2>1. pc = "expand" /\ pc' = "search" /\ Starts' = Starts /\ queue' = queue
    BY <1>7, StartsKept DEF Expanded, search
  <2> QED
    BY <2>1, GeodesicKept DEF GeodesicInv
<1> QED
  BY <1>1, <1>2, <1>3, <1>4, <1>5, <1>6, <1>7 DEF Next

\* A path comes before what extends a path it comes before.
LEMMA BeforeAppended ==
  ASSUME NEW p \in Seq(Directed), NEW q \in Seq(Directed), NEW s \in Directed
  PROVE  /\ Before(p, q) => Before(Append(p, s), q) /\ Before(p, Append(q, s))
         /\ \A t \in Directed : Better(s, t) => Before(Append(p, s), Append(p, t))
         /\ \A t \in Directed :
              Before(Append(q, t), Append(p, s)) /\ Len(q) = Len(p) =>
                Before(q, p) \/ (q = p /\ Better(t, s))
<1>1. /\ Len(p) \in Nat /\ Len(q) \in Nat /\ DOMAIN p = 1 .. Len(p) /\ DOMAIN q = 1 .. Len(q)
  OBVIOUS
<1>2. \A a \in Seq(Directed), t \in Directed :
        /\ DOMAIN Append(a, t) = 1 .. Len(a) + 1 /\ Append(a, t)[Len(a) + 1] = t
        /\ \A i \in 1 .. Len(a) : Append(a, t)[i] = a[i]
  OBVIOUS
<1>3. Before(p, q) => Before(Append(p, s), q) /\ Before(p, Append(q, s))
  <2> SUFFICES ASSUME Before(p, q) PROVE Before(Append(p, s), q) /\ Before(p, Append(q, s))
    OBVIOUS
  <2> DEFINE ps == Append(p, s)
             qs == Append(q, s)
  <2>1. PICK i \in DOMAIN p \cap DOMAIN q :
          Better(p[i], q[i]) /\ \A j \in 1 .. i - 1 : p[j] = q[j]
    BY DEF Before
  <2>2. /\ i \in 1 .. Len(p) /\ i \in 1 .. Len(q) /\ i \in DOMAIN ps /\ i \in DOMAIN qs
        /\ \A j \in 1 .. i - 1 : j \in 1 .. Len(p) /\ j \in 1 .. Len(q)
    BY <1>1, <1>2, <2>1
  <2>3. /\ \A j \in 1 .. Len(p) : ps[j] = p[j]
        /\ \A j \in 1 .. Len(q) : qs[j] = q[j]
    BY <1>2
  <2> HIDE DEF ps, qs
  <2>4. Before(ps, q) /\ Before(p, qs)
    BY <2>1, <2>2, <2>3 DEF Before
  <2> QED
    BY <2>4 DEF ps, qs
<1>4. ASSUME NEW t \in Directed, Better(s, t) PROVE Before(Append(p, s), Append(p, t))
  <2> DEFINE n == Len(p) + 1
             ps == Append(p, s)
             pt == Append(p, t)
  <2>1. n \in 1 .. n /\ \A j \in 1 .. n - 1 : j \in 1 .. Len(p)
    BY <1>1
  <2>2. DOMAIN ps = 1 .. n /\ DOMAIN pt = 1 .. n /\ ps[n] = s /\ pt[n] = t
    BY <1>2
  <2>3. \A j \in 1 .. Len(p) : ps[j] = p[j] /\ pt[j] = p[j]
    BY <1>2
  <2> HIDE DEF n, ps, pt
  <2>4. Before(ps, pt)
    BY <1>4, <2>1, <2>2, <2>3 DEF Before
  <2> QED
    BY <2>4 DEF ps, pt
<1>5. ASSUME NEW t \in Directed, Before(Append(q, t), Append(p, s)), Len(q) = Len(p)
      PROVE  Before(q, p) \/ (q = p /\ Better(t, s))
  <2> DEFINE n == Len(p) + 1
             qt == Append(q, t)
             ps == Append(p, s)
  <2>1. /\ DOMAIN ps = 1 .. n /\ DOMAIN qt = 1 .. n /\ ps[n] = s /\ qt[n] = t
        /\ \A j \in 1 .. Len(p) : ps[j] = p[j] /\ qt[j] = q[j]
    BY <1>2, <1>5
  <2>2. Before(qt, ps)
    BY <1>5
  <2>3. n \in Nat /\ \A j \in 1 .. n : j = n \/ j \in 1 .. Len(p)
    BY <1>1
  <2>4. \A j \in 1 .. n - 1 : j \in 1 .. Len(p)
    BY <1>1
  <2>5. n - 1 = Len(p)
    BY <1>1
  <2> HIDE DEF n, qt, ps
  <2>6. PICK i \in DOMAIN qt \cap DOMAIN ps :
          Better(qt[i], ps[i]) /\ \A j \in 1 .. i - 1 : qt[j] = ps[j]
    BY <2>2 DEF Before
  <2>7. CASE i = n
    <3>1. \A j \in 1 .. Len(p) : q[j] = p[j]
      BY <2>1, <2>5, <2>6, <2>7
    <3>2. q = p
      BY <1>1, <1>5, <3>1, SeqEqual
    <3> QED
      BY <2>1, <2>6, <2>7, <3>2
  <2>8. CASE i \in 1 .. Len(p)
    <3>1. \A j \in 1 .. i - 1 : j \in 1 .. Len(p)
      BY <1>1, <2>8
    <3>2. i \in DOMAIN q \cap DOMAIN p
      BY <1>1, <1>5, <2>8
    <3>3. Better(q[i], p[i])
      BY <2>1, <2>6, <2>8
    <3>4. \A j \in 1 .. i - 1 : q[j] = p[j]
      BY <2>1, <2>6, <3>1
    <3>5. Before(q, p)
      BY <3>2, <3>3, <3>4 DEF Before
    <3> QED
      BY <3>5
  <2> QED
    BY <2>1, <2>3, <2>6, <2>7, <2>8
<1> QED
  BY <1>3, <1>4, <1>5
LEMMA LastStep ==
  ASSUME NEW q, NEW e, Geodesic(q, e), q # <<>>
  PROVE  \E f, t : /\ f \in Seq(Directed) /\ t \in Directed /\ q = Append(f, t)
                   /\ Len(f) = Len(q) - 1 /\ t.to = e /\ Geodesic(f, t.from)
<1>1. /\ q \in Seq(Directed) /\ Len(q) \in Nat /\ Len(q) >= 1 /\ DOMAIN q = 1 .. Len(q)
  <2>1. q \in Seq(Directed)
    BY GeodesicEnd
  <2> QED
    BY <2>1
<1>2. /\ q[1].from \in Starts /\ q[Len(q)].to = e
      /\ \A i \in 1 .. Len(q) - 1 : q[i].to = q[i + 1].from
  BY DEF Geodesic, Leads
<1>0. PICK n \in Nat : n + 1 = Len(q)
  <2>1. Len(q) - 1 \in Nat /\ (Len(q) - 1) + 1 = Len(q)
    BY <1>1
  <2> QED
    BY <2>1
<1> DEFINE f == Prefix(q, n)
           t == q[n + 1]
<1>3. n \in Nat /\ n + 1 = Len(q) /\ t \in Directed /\ t.to = e
  BY <1>0, <1>1, <1>2
<1>4. f \in Seq(Directed) /\ Len(f) = n /\ \A i \in 1 .. n : f[i] = q[i]
  <2>1. f \in [1 .. n -> Directed]
    BY <1>1, <1>3 DEF Prefix
  <2>2. \A i \in 1 .. n : f[i] = q[i]
    BY DEF Prefix
  <2> HIDE DEF f
  <2> QED
    BY <1>3, <2>1, <2>2
<1> HIDE DEF f, t
<1>5. q = Append(f, t)
  <2>1. Append(f, t) \in Seq(Directed) /\ Len(Append(f, t)) = n + 1
    BY <1>3, <1>4
  <2>2. ASSUME NEW i \in 1 .. Len(q) PROVE q[i] = Append(f, t)[i]
    <3>1. CASE i = n + 1
      BY <1>4, <3>1 DEF t
    <3>2. CASE i # n + 1
      <4>1. i \in 1 .. n
        BY <1>3, <3>2
      <4> QED
        BY <1>4, <4>1
    <3> QED
      BY <3>1, <3>2
  <2> QED
    BY <1>1, <1>3, <2>1, <2>2, SeqEqual
<1>6. Geodesic(f, t.from)
  <2>1. CASE n = 0
    <3>1. f = <<>>
      BY <1>4, <2>1, EmptySeq
    <3>2. t.from \in Starts
      BY <1>2, <1>3, <2>1 DEF t
    <3> QED
      BY <3>1, <3>2 DEF Geodesic, Leads
  <2>2. CASE n # 0
    <3>1. n \in DOMAIN q /\ n \in 1 .. Len(q) - 1
      BY <1>1, <1>3, <2>2
    <3>2. q[n].to = t.from
      BY <1>2, <3>1 DEF t
    <3> QED
      BY <3>1, <3>2, PrefixGeodesic DEF f
  <2> QED
    BY <2>1, <2>2
<1>7. Len(f) = Len(q) - 1
  BY <1>3, <1>4
<1> QED
  BY <1>3, <1>4, <1>5, <1>6, <1>7

LEMMA LeastIndex ==
  ASSUME NEW I \in SUBSET Nat, I # {}
  PROVE  \E k \in I : \A j \in I : ~(j < k)
<1> DEFINE R == OpToRel(<, Nat)
<1>1. PICK k \in I : \A j \in I : ~(<<j, k>> \in R)
  <2>1. IsWellFoundedOn(R, Nat)
    BY NatLessThanWellFounded
  <2> HIDE DEF R
  <2> QED
    BY <2>1, WFMin
<1>2. \A j \in I : j < k => <<j, k>> \in R
  BY DEF OpToRel
<1> QED
  BY <1>1, <1>2

LEMMA PathTypes ==
  ASSUME JoinInv, GeodesicInv, pc \in {"search", "expand"}
  PROVE  /\ queue \in Seq(Reached)
         /\ \A k \in DOMAIN queue : queue[k].path \in Seq(Directed) /\ Length(k) \in Nat
         /\ pc = "expand" => here.path \in Seq(Directed) /\ Len(here.path) \in Nat
<1>1. queue \in Seq(Reached)
  BY DEF JoinInv, TypeOK
<1>2. ASSUME NEW k \in DOMAIN queue PROVE queue[k].path \in Seq(Directed) /\ Length(k) \in Nat
  BY GeodesicEnd DEF GeodesicInv, Searching, Length
<1>3. ASSUME pc = "expand" PROVE here.path \in Seq(Directed) /\ Len(here.path) \in Nat
  BY <1>3, GeodesicEnd DEF GeodesicInv
<1> QED
  BY <1>1, <1>2, <1>3

LEMMA ExpandOrder ==
  ASSUME JoinInv, LevelInv, GeodesicInv, OrderInv, [Next]_vars, Expand
  PROVE  OrderInv'
<1>1. /\ pc = "search" /\ pc' = "expand" /\ seen' = seen /\ target' = target /\ Starts' = Starts
      /\ queue # <<>> /\ here' = queue[1] /\ queue' = Tail(queue) /\ next' = Neighbors(queue[1].at)
      /\ queue[1].at # target /\ queue \in Seq(Reached)
  BY StartsKept DEF Expand, JoinInv, TypeOK
<1>2. /\ 1 \in DOMAIN queue
      /\ DOMAIN queue \subseteq Nat /\ DOMAIN queue' \subseteq Nat
      /\ \A k \in DOMAIN queue' : k + 1 \in DOMAIN queue /\ 1 < k + 1 /\ queue'[k] = queue[k + 1]
      /\ \A k \in DOMAIN queue : k # 1 => k - 1 \in DOMAIN queue' /\ queue'[k - 1] = queue[k]
  BY <1>1
<1>3. \A k \in DOMAIN queue' : Length(k)' = Length(k + 1)
  BY <1>2 DEF Length
<1>4. Directed' = Directed
  BY TaskKept
<1>5. \A k \in DOMAIN queue : queue[k].path \in Seq(Directed)
  BY <1>1, PathTypes
<1>6. ASSUME NEW k \in DOMAIN queue' PROVE Settled(k)'
  <2>1. Settled(k + 1)
    BY <1>1, <1>2 DEF OrderInv
  <2>2. CASE Canonical(queue[k + 1].path, queue[k + 1].at)
    BY <1>1, <1>2, <2>2, GeodesicKept DEF Settled
  <2>3. ASSUME NEW j \in DOMAIN queue, j < k + 1, queue[j].at = queue[k + 1].at PROVE Settled(k)'
    <3>1. CASE j = 1
      BY <1>1, <1>2, <2>3, <3>1 DEF Settled
    <3>2. CASE j # 1
      <4>1. j - 1 \in DOMAIN queue' /\ j - 1 < k /\ queue'[j - 1].at = queue'[k].at
        BY <1>2, <2>3, <3>2
      <4> QED
        BY <4>1 DEF Settled
    <3> QED
      BY <3>1, <3>2
  <2>4. CASE /\ queue[k + 1].at # target
             /\ \A s \in Directed : s.from = queue[k + 1].at => s.to \in seen
    BY <1>1, <1>2, <1>4, <2>4 DEF Settled
  <2> QED
    BY <1>1, <2>1, <2>2, <2>3, <2>4 DEF Settled
<1>7. ASSUME NEW j \in DOMAIN queue', NEW k \in DOMAIN queue', j < k, Length(j)' = Length(k)'
      PROVE  Before(queue[j + 1].path, queue[k + 1].path)
  <2>1. j + 1 < k + 1 /\ Length(j + 1) = Length(k + 1)
    BY <1>2, <1>3, <1>7
  <2> QED
    BY <1>1, <1>2, <2>1 DEF OrderInv
<1>8. ASSUME NEW j \in DOMAIN queue', NEW k \in DOMAIN queue', Length(j)' < Length(k)'
      PROVE  Before(queue[k + 1].path, queue[j + 1].path)
  <2>1. Length(j + 1) < Length(k + 1)
    BY <1>3, <1>8
  <2> QED
    BY <1>1, <1>2, <2>1 DEF OrderInv
<1>9. next' # {} => Canonical(queue[1].path, queue[1].at)
  <2>1. Settled(1)
    BY <1>1, <1>2 DEF OrderInv
  <2>2. ~ \E j \in DOMAIN queue : j < 1 /\ queue[j].at = queue[1].at
    BY <1>1
  <2>3. next' # {} => \E s \in Directed : s.from = queue[1].at /\ s.to \notin seen
    BY <1>1 DEF Neighbors
  <2> QED
    BY <1>1, <2>1, <2>2, <2>3 DEF Settled
<1>10. ASSUME NEW j \in DOMAIN queue', Length(j)' = Len(queue[1].path)
       PROVE  Before(queue[1].path, queue[j + 1].path)
  <2>1. 1 < j + 1 /\ Length(1) = Length(j + 1)
    BY <1>2, <1>3, <1>10 DEF Length
  <2> QED
    BY <1>1, <1>2, <2>1 DEF OrderInv
<1>11. ASSUME NEW k \in DOMAIN queue', Length(k)' > Len(queue[1].path), NEW s \in next'
       PROVE  Before(queue[k + 1].path, Append(queue[1].path, s))
  <2>1. Length(1) < Length(k + 1)
    <3>1. Length(1) \in Nat /\ Length(k + 1) \in Nat
      BY <1>1, <1>2, PathTypes
    <3> QED
      BY <1>3, <1>11, <3>1 DEF Length
  <2>2. Before(queue[k + 1].path, queue[1].path)
    BY <1>1, <1>2, <2>1 DEF OrderInv
  <2>3. s \in Directed
    BY <1>1, <1>11 DEF Neighbors
  <2> QED
    BY <1>2, <1>5, <2>2, <2>3, BeforeAppended
<1> QED
  BY <1>1, <1>2, <1>6, <1>7, <1>8, <1>9, <1>10, <1>11, GeodesicKept DEF OrderInv

LEMMA ExpandedOrder ==
  ASSUME JoinInv, OrderInv, [Next]_vars, Expanded
  PROVE  OrderInv'
<1>1. /\ pc = "expand" /\ pc' = "search" /\ next = {} /\ Starts' = Starts
      /\ UNCHANGED <<queue, seen, target>>
  BY StartsKept DEF Expanded, search
<1>2. Directed' = Directed
  BY TaskKept
<1>3. \A s \in Directed : s.from = here.at => s.to \in seen
  BY <1>1 DEF JoinInv, ReachInv
<1>4. ASSUME NEW k \in DOMAIN queue PROVE Settled(k)'
  <2>1. Settled(k)
    BY <1>1 DEF OrderInv
  <2> QED
    BY <1>1, <1>2, <1>3, <2>1, GeodesicKept DEF Settled
<1>5. \A k : Length(k)' = Length(k)
  BY <1>1 DEF Length
<1> QED
  BY <1>1, <1>4, <1>5, GeodesicKept DEF OrderInv
\* No path to a new entity comes before the one found: its last step starts
\* where the path just taken ends, or where a later one of its level does.
LEMMA NeighborCanonical ==
  ASSUME JoinInv, LevelInv, GeodesicInv, OrderInv, pc = "expand",
         NEW s \in next, \A t \in next \ {s} : Better(s, t), s.to \notin seen,
         Geodesic(Append(here.path, s), s.to)
  PROVE  Canonical(Append(here.path, s), s.to)
<1> DEFINE p == here.path
<1> SUFFICES ASSUME NEW q, Geodesic(q, s.to), Before(q, Append(p, s)) PROVE FALSE
  BY DEF Canonical
<1>1. /\ p \in Seq(Directed) /\ Len(p) \in Nat /\ s \in Directed
      /\ queue \in Seq(Reached) /\ task \in AllTasks
      /\ \A k \in DOMAIN queue : queue[k].path \in Seq(Directed)
  BY PathTypes DEF JoinInv, TypeOK
<1>2. Len(q) = Len(p) + 1 /\ q # <<>>
  <2>1. Len(q) = Len(Append(p, s))
    BY GeodesicLength
  <2>2. Len(q) = Len(p) + 1
    BY <1>1, <2>1
  <2>3. q # <<>>
    BY <1>1, <2>2
  <2> QED
    BY <2>2, <2>3
<1>3. PICK f, t : /\ f \in Seq(Directed) /\ t \in Directed /\ q = Append(f, t)
                  /\ Len(f) = Len(q) - 1 /\ t.to = s.to /\ Geodesic(f, t.from)
  BY <1>2, LastStep
<1>4. Len(f) = Len(p)
  BY <1>1, <1>2, <1>3
<1>5. Before(f, p) \/ (f = p /\ Better(t, s))
  <2>1. Before(Append(f, t), Append(p, s))
    BY <1>3
  <2> QED
    BY <1>1, <1>3, <1>4, <2>1, BeforeAppended
<1>6. t.from \in seen
  <2>1. t.from \in Within(Starts)[Len(f)]
    BY <1>3, GeodesicEnd
  <2> QED
    BY <1>4, <2>1 DEF LevelInv, Level
<1>7. ~ \A u \in Directed : u.from = t.from => u.to \in seen
  BY <1>3
<1>8. ASSUME t.from = here.at PROVE FALSE
  <2>1. Canonical(p, here.at)
    BY DEF OrderInv
  <2>2. ~Before(f, p)
    BY <1>3, <1>8, <2>1 DEF Canonical
  <2>3. Better(t, s)
    BY <1>5, <2>2
  <2>4. t \in next
    BY <1>3, <1>8 DEF JoinInv, ReachInv
  <2>5. s \in Steps /\ t \in Steps
    BY <1>1, <1>3, DirectedType
  <2>6. ~Better(s, t)
    BY <1>1, <2>3, <2>5, BetterIsAnOrder
  <2> QED
    BY <2>3, <2>4, <2>6
<1>9. ASSUME InQueue(t.from) PROVE FALSE
  <2> DEFINE I == {k \in DOMAIN queue : queue[k].at = t.from}
  <2>1. I \in SUBSET Nat /\ I # {}
    BY <1>1, <1>9 DEF InQueue
  <2>2. PICK k \in I : \A j \in I : ~(j < k)
    <3> HIDE DEF I
    <3> QED
      BY <2>1, LeastIndex
  <2>3. k \in DOMAIN queue /\ queue[k].at = t.from
    OBVIOUS
  <2>4. ~ \E j \in DOMAIN queue : j < k /\ queue[j].at = queue[k].at
    BY <2>2, <2>3
  <2> HIDE DEF I
  <2>5. Canonical(queue[k].path, t.from)
    <3>1. Settled(k)
      BY <2>3 DEF OrderInv
    <3> QED
      BY <1>7, <1>8, <2>3, <2>4, <3>1 DEF Settled
  <2>6. ~Before(f, queue[k].path)
    BY <1>3, <2>5 DEF Canonical
  <2>7. Length(k) = Len(p)
    <3>1. Geodesic(queue[k].path, t.from)
      BY <2>5 DEF Canonical
    <3>2. Len(queue[k].path) = Len(f)
      BY <1>3, <3>1, GeodesicLength
    <3> QED
      BY <1>4, <3>2 DEF Length
  <2>8. Before(p, queue[k].path)
    BY <2>3, <2>7 DEF OrderInv
  <2>9. CASE Before(f, p)
    <3>1. queue[k].path \in Seq(Directed)
      BY <1>1, <2>3
    <3> HIDE DEF p
    <3> QED
      BY <1>1, <1>3, <2>6, <2>8, <2>9, <3>1, BeforeTransitive
  <2>10. CASE f = p
    BY <2>6, <2>8, <2>10
  <2> QED
    BY <1>5, <2>9, <2>10
<1> QED
  BY <1>6, <1>7, <1>8, <1>9 DEF JoinInv, ReachInv

LEMMA NeighborOrder ==
  ASSUME JoinInv, LevelInv, GeodesicInv, OrderInv, [Next]_vars, QueueNeighbor
  PROVE  OrderInv'
<1>0. PICK l, n, p, Q : l = Len(here.path) /\ n = Len(queue) + 1 /\ p = here.path /\ Q = queue
  OBVIOUS
<1>1. PICK s \in next : /\ \A t \in next \ {s} : Better(s, t)
                        /\ queue' = Queue(s) /\ seen' = seen \cup {s.to} /\ next' = next \ {s}
  BY DEF QueueNeighbor
<1>2. /\ pc = "expand" /\ pc' = "expand" /\ Starts' = Starts /\ here' = here /\ target' = target
      /\ Directed' = Directed /\ s \in Directed /\ next \subseteq Directed
  BY StartsKept, TaskKept, <1>1 DEF QueueNeighbor, JoinInv, TypeOK
<1>3. /\ Q \in Seq(Reached) /\ l \in Nat /\ p \in Seq(Directed)
      /\ \A k \in DOMAIN Q : Q[k].path \in Seq(Directed) /\ Length(k) \in Nat
      /\ \A k \in DOMAIN Q : Length(k) = l \/ Length(k) = l + 1
  BY <1>0, <1>2, PathTypes DEF LevelInv, Level
<1>4. /\ DOMAIN Q = 1 .. Len(Q) /\ Len(Q) \in Nat /\ DOMAIN queue' = 1 .. n
      /\ \A k \in DOMAIN Q : k \in DOMAIN queue' /\ k < n /\ queue'[k] = Q[k]
      /\ \A k \in DOMAIN queue' : k \in DOMAIN Q \/ k = n
      /\ queue'[n] = [at |-> s.to, path |-> Append(p, s)] /\ n \in DOMAIN queue'
  BY <1>0, <1>1, <1>3 DEF Queue
<1>5. queue'[n].at = s.to /\ queue'[n].path = Append(p, s) /\ Len(Append(p, s)) = l + 1
  BY <1>0, <1>2, <1>3, <1>4
<1>6. (\A k \in DOMAIN Q : Length(k)' = Length(k)) /\ Length(n)' = l + 1
  BY <1>0, <1>4, <1>5 DEF Length
<1>7. ASSUME NEW k \in DOMAIN Q PROVE Settled(k)'
  <2>1. Settled(k)
    BY <1>0, <1>2 DEF OrderInv
  <2>2. CASE Canonical(Q[k].path, Q[k].at)
    BY <1>2, <1>4, <2>2, GeodesicKept DEF Settled
  <2>3. CASE \E j \in DOMAIN Q : j < k /\ Q[j].at = Q[k].at
    BY <1>4, <2>3 DEF Settled
  <2>4. CASE /\ Q[k].at # target
             /\ Q[k].at = here.at \/ \A r \in Directed : r.from = Q[k].at => r.to \in seen
    BY <1>1, <1>2, <1>4, <2>4 DEF Settled
  <2> QED
    BY <1>0, <2>1, <2>2, <2>3, <2>4 DEF Settled
<1>8. Settled(n)'
  <2>1. CASE s.to \in seen
    <3>1. CASE InQueue(s.to)
      <4>1. PICK j \in DOMAIN Q : Q[j].at = s.to
        BY <1>0, <3>1 DEF InQueue
      <4>2. j \in DOMAIN queue' /\ j < n /\ queue'[j].at = queue'[n].at
        BY <1>4, <1>5, <4>1
      <4> QED
        BY <4>2 DEF Settled
    <3>2. CASE s.to = here.at
      <4>1. s.to \in Within(Starts)[Len(here.path)]
        BY <1>2, <3>2, GeodesicEnd DEF GeodesicInv
      <4> QED
        BY <1>2, <4>1 DEF LevelInv
    <3>3. CASE ~InQueue(s.to) /\ \A r \in Directed : r.from = s.to => r.to \in seen
      <4>1. s.to # target
        BY <1>2, <2>1, <3>3 DEF JoinInv, ReachInv
      <4> QED
        BY <1>1, <1>2, <1>5, <3>3, <4>1 DEF Settled
    <3> QED
      BY <1>2, <2>1, <3>1, <3>2, <3>3 DEF JoinInv, ReachInv
  <2>2. CASE s.to \notin seen
    <3>1. Geodesic(Append(p, s), s.to)
      <4>1. GeodesicInv'
        BY GeodesicStep
      <4>2. \A k \in DOMAIN queue' : Geodesic(queue[k].path, queue[k].at)'
        BY <1>2, <4>1 DEF GeodesicInv, Searching
      <4>3. Geodesic(Append(p, s), s.to)'
        BY <1>4, <1>5, <4>2
      <4> QED
        BY <1>2, <4>3, GeodesicKept
    <3>2. Canonical(Append(p, s), s.to)
      BY <1>0, <1>1, <1>2, <2>2, <3>1, NeighborCanonical
    <3> QED
      BY <1>2, <1>5, <3>2, GeodesicKept DEF Settled
  <2> QED
    BY <2>1, <2>2
<1>9. /\ \A j, k \in DOMAIN Q : j < k /\ Length(j) = Length(k) => Before(Q[j].path, Q[k].path)
      /\ \A j, k \in DOMAIN Q : Length(j) < Length(k) => Before(Q[k].path, Q[j].path)
      /\ next # {} => Canonical(p, here.at)
      /\ \A j \in DOMAIN Q : Length(j) = l => Before(p, Q[j].path)
      /\ \A k \in DOMAIN Q : Length(k) > l => \A t \in next : Before(Q[k].path, Append(p, t))
  BY <1>0, <1>2 DEF OrderInv
<1>10. ASSUME NEW j \in DOMAIN queue', NEW k \in DOMAIN queue', j < k, Length(j)' = Length(k)'
       PROVE  Before(queue'[j].path, queue'[k].path)
  <2>1. CASE k \in DOMAIN Q
    <3>1. j \in DOMAIN Q
      BY <1>4, <1>10, <2>1
    <3> QED
      BY <1>4, <1>6, <1>9, <1>10, <2>1, <3>1
  <2>2. CASE k = n
    <3>1. j \in DOMAIN Q
      BY <1>4, <1>10, <2>2
    <3>2. Length(j) > l
      BY <1>3, <1>6, <1>10, <2>2, <3>1
    <3> QED
      BY <1>1, <1>4, <1>5, <1>9, <2>2, <3>1, <3>2
  <2> QED
    BY <1>4, <2>1, <2>2
<1>11. ASSUME NEW j \in DOMAIN queue', NEW k \in DOMAIN queue', Length(j)' < Length(k)'
       PROVE  Before(queue'[k].path, queue'[j].path)
  <2>1. CASE j \in DOMAIN Q /\ k \in DOMAIN Q
    BY <1>4, <1>6, <1>9, <1>11, <2>1
  <2>2. CASE j \in DOMAIN Q /\ k = n
    <3>1. Length(j) = l
      BY <1>3, <1>6, <1>11, <2>2
    <3>2. Before(p, Q[j].path) /\ Q[j].path \in Seq(Directed)
      BY <1>3, <1>9, <2>2, <3>1
    <3>3. Before(Append(p, s), Q[j].path)
      BY <1>2, <1>3, <3>2, BeforeAppended
    <3> QED
      BY <1>4, <1>5, <2>2, <3>3
  <2>3. CASE j = n
    <3>1. Length(k)' = l \/ Length(k)' = l + 1
      BY <1>3, <1>4, <1>6
    <3> QED
      BY <1>3, <1>6, <1>11, <2>3, <3>1
  <2> QED
    BY <1>4, <2>1, <2>2, <2>3
<1>12. ASSUME NEW j \in DOMAIN queue', Length(j)' = l PROVE Before(p, queue'[j].path)
  <2>1. j \in DOMAIN Q
    BY <1>3, <1>4, <1>6, <1>12
  <2> QED
    BY <1>4, <1>6, <1>9, <1>12, <2>1
<1>13. ASSUME NEW k \in DOMAIN queue', Length(k)' > l, NEW t \in next'
       PROVE  Before(queue'[k].path, Append(p, t))
  <2>1. t \in next /\ t \in Directed /\ Better(s, t)
    BY <1>1, <1>2
  <2>2. CASE k \in DOMAIN Q
    BY <1>4, <1>6, <1>9, <1>13, <2>1, <2>2
  <2>3. CASE k = n
    <3>1. Before(Append(p, s), Append(p, t))
      BY <1>2, <1>3, <2>1, BeforeAppended
    <3> QED
      BY <1>5, <2>3, <3>1
  <2> QED
    BY <1>4, <2>2, <2>3
<1>14. next' # {} => Canonical(p, here.at)
  BY <1>1, <1>9
<1>15. \A k \in DOMAIN queue' : Settled(k)'
  BY <1>4, <1>7, <1>8
<1> QED
  BY <1>0, <1>2, <1>10, <1>11, <1>12, <1>13, <1>14, <1>15, GeodesicKept DEF OrderInv

LEMMA OrderStep ==
  ASSUME JoinInv, LevelInv, GeodesicInv, FromBaseInv, [Next]_vars
  PROVE  FromBaseInv'
<1> SUFFICES ASSUME task.fromBase PROVE OrderInv'
  <2>1. task' = task
    BY TaskKept
  <2> QED
    BY <2>1 DEF FromBaseInv
<1>0. OrderInv /\ Starts = {task.base} /\ task' = task /\ Starts' = Starts /\ Directed' = Directed
  BY TaskKept DEF FromBaseInv, Starts
<1>1. CASE UNCHANGED vars \/ Finished
  <2>1. UNCHANGED <<pc, queue, seen, here, next, target>>
    BY <1>1 DEF vars, Finished
  <2>2. \A k : (Settled(k)' <=> Settled(k)) /\ Length(k)' = Length(k)
    BY <1>0, <2>1, GeodesicKept DEF Settled, Length
  <2> QED
    BY <1>0, <2>1, <2>2, GeodesicKept DEF OrderInv
<1>2. CASE \/ SkipTarget \/ Found \/ AddStep \/ Added \/ NotFound \/ Planned
           \/ RenderStep \/ RenderFails \/ Rendered
  <2>1. pc' \notin {"starts", "search", "expand"}
    BY <1>2 DEF SkipTarget, Found, AddStep, Added, NotFound, Planned, RenderStep, RenderFails,
                Rendered, NextStep
  <2> QED
    BY <2>1 DEF OrderInv
<1>3. CASE Search
  <2>1. pc' = "starts" /\ queue' = <<>>
    BY <1>3 DEF Search
  <2> QED
    BY <2>1 DEF OrderInv
<1>4. CASE QueueStart
  <2>1. PICK e \in First(Starts \ seen) :
          queue' = Append(queue, [at |-> e, path |-> <<>>]) /\ seen' = seen \cup {e}
    BY <1>4 DEF QueueStart
  <2>2. pc = "starts" /\ pc' = IF seen' = Starts THEN "search" ELSE pc
    BY <1>4 DEF QueueStart
  <2>3. queue = <<>> /\ seen = {} /\ e = task.base
    <3>1. queue = <<>>
      BY <1>0, <2>2 DEF OrderInv
    <3>2. \A x \in seen : InQueue(x)
      BY <2>2 DEF JoinInv, ReachInv
    <3> QED
      BY <1>0, <2>1, <3>1, <3>2 DEF InQueue, First
  <2>4. pc' = "search"
    BY <1>0, <2>1, <2>2, <2>3
  <2>5. /\ DOMAIN queue' = {1} /\ queue'[1] = [at |-> e, path |-> <<>>]
    BY <2>1, <2>3
  <2>6. queue'[1].at = e /\ queue'[1].path = <<>>
    BY <2>5
  <2>7. Canonical(<<>>, e)
    <3>1. Geodesic(<<>>, e)
      BY <1>0, <2>3 DEF Geodesic, Leads
    <3>2. \A q : ~Before(q, <<>>)
      BY DEF Before
    <3> QED
      BY <3>1, <3>2 DEF Canonical
  <2>8. Settled(1)'
    BY <1>0, <2>6, <2>7, GeodesicKept DEF Settled
  <2>9. \A j, k \in DOMAIN queue' : ~(j < k) /\ ~(Length(j)' < Length(k)')
    <3>1. \A j \in DOMAIN queue' : Length(j)' = 0 /\ j = 1
      BY <2>5, <2>6 DEF Length
    <3> QED
      BY <3>1
  <2> QED
    BY <2>4, <2>5, <2>8, <2>9 DEF OrderInv
<1>5. CASE Expand \/ QueueNeighbor \/ Expanded
  BY <1>0, <1>5, ExpandOrder, NeighborOrder, ExpandedOrder
<1> QED
  BY <1>1, <1>2, <1>3, <1>4, <1>5 DEF Next
-----------------------------------------------------------------------------
(* The plan is a tree without useless branches.                            *)

Chosen == joins \cup {plan[i] : i \in DOMAIN plan}

\* Required, or a step goes on from there, or the next step to add does.
Used(e) ==
  \/ e \in task.required
  \/ \E t \in Chosen : t.from = e
  \/ pc = "add" /\ here.path # <<>> /\ here.path[1].from = e

\* Two chosen steps never lead to one entity: from the base they are steps of
\* one tree, and otherwise a path only ends where no other did.
TreeInv ==
  /\ \A s \in Chosen : Used(s.to)
  /\ \A i, j \in DOMAIN plan : plan[i].to = plan[j].to => i = j
  /\ \A i \in DOMAIN plan : plan[i].to \notin scope
  /\ pc \in Planning => /\ Tos(plan) \subseteq joined
                        /\ task.fromBase => \A i \in DOMAIN plan : OnTree(plan[i])
  /\ pc = "add" =>
       /\ target \in task.required
       /\ task.fromBase => \A i \in DOMAIN here.path : OnTree(here.path[i])
       /\ ~task.fromBase => /\ \A i \in DOMAIN here.path : here.path[i].to \notin joined
                            /\ \A i, j \in DOMAIN here.path : here.path[i].to = here.path[j].to => i = j

LEMMA TreeKept ==
  ASSUME [Next]_vars, task.fromBase
  PROVE  Starts = {task.base} /\ \A s : OnTree(s)' <=> OnTree(s)
<1>1. Starts = {task.base} /\ Starts' = Starts
  BY TaskKept DEF Starts
<1>2. \A p, e : Canonical(p, e)' <=> Canonical(p, e)
  BY <1>1, GeodesicKept
<1> QED
  BY <1>1, <1>2 DEF OnTree

\* What has not changed in most steps.
LEMMA TreeUnchanged ==
  ASSUME [Next]_vars, TreeInv, UNCHANGED <<plan, scope, joins>>,
         pc' \in Planning => pc \in Planning /\ joined' = joined,
         ~(pc = "add" /\ here.path # <<>>),
         pc' # "add"
  PROVE  TreeInv'
<1>1. task' = task /\ Chosen' = Chosen
  BY TaskKept DEF Chosen
<1>2. \A s \in Chosen' : Used(s.to)'
  BY <1>1 DEF TreeInv, Used
<1>3. pc' \in Planning => Tos(plan') \subseteq joined'
  BY DEF TreeInv, Tos
<1>4. ASSUME pc' \in Planning, task.fromBase PROVE \A i \in DOMAIN plan : OnTree(plan[i])'
  BY <1>4, TreeKept DEF TreeInv
<1> QED
  BY <1>1, <1>2, <1>3, <1>4 DEF TreeInv, Tos

LEMMA FoundTree ==
  ASSUME JoinInv, GeodesicInv, FromBaseInv, TreeInv, [Next]_vars, Found
  PROVE  TreeInv'
<1>1. /\ pc = "search" /\ pc' = "add" /\ queue # <<>> /\ queue[1].at = target /\ here' = queue[1]
      /\ UNCHANGED <<target, joined, plan, scope, joins>> /\ 1 \in DOMAIN queue
      /\ DOMAIN queue \subseteq Nat \ {0}
  BY DEF Found, JoinInv, TypeOK
<1>2. PICK p : p = queue[1].path
  OBVIOUS
<1>3. task' = task /\ Chosen' = Chosen /\ here'.path = p
  BY <1>1, <1>2, TaskKept DEF Chosen
<1>4. \A s \in Chosen' : Used(s.to)'
  BY <1>1, <1>3 DEF TreeInv, Used
<1>5. target \in task.required
  BY <1>1 DEF JoinInv, SearchInv, Searching
<1>6. ASSUME task.fromBase
      PROVE  (\A i \in DOMAIN plan : OnTree(plan[i])') /\ \A i \in DOMAIN p : OnTree(p[i])'
  <2>1. \A s : OnTree(s)' <=> OnTree(s)
    BY <1>6, TreeKept
  <2>2. \A i \in DOMAIN plan : OnTree(plan[i])
    BY <1>1, <1>6 DEF TreeInv, Planning, Searching
  <2>3. Settled(1) /\ ~ \E j \in DOMAIN queue : j < 1 /\ queue[j].at = queue[1].at
    BY <1>1, <1>6 DEF FromBaseInv, OrderInv
  <2>4. Canonical(p, target)
    BY <1>1, <1>2, <2>3 DEF Settled
  <2>5. \A i \in DOMAIN p : OnTree(p[i])
    BY <2>4 DEF OnTree
  <2> QED
    BY <1>1, <2>1, <2>2, <2>5
<1>7. ASSUME ~task.fromBase
      PROVE  /\ \A i \in DOMAIN p : p[i].to \notin joined
             /\ \A i, j \in DOMAIN p : p[i].to = p[j].to => i = j
  <2>1. Geodesic(p, target) /\ Starts = joined
    BY <1>1, <1>2, <1>7 DEF GeodesicInv, Searching, Starts
  <2> QED
    BY <2>1, GeodesicApart
<1>8. Tos(plan') \subseteq joined'
  BY <1>1 DEF TreeInv, Planning, Searching, Tos
<1> QED
  BY <1>1, <1>3, <1>4, <1>5, <1>6, <1>7, <1>8 DEF TreeInv, Tos

LEMMA AddTree ==
  ASSUME JoinInv, TreeInv, [Next]_vars, AddStep
  PROVE  TreeInv'
<1>1. PICK s, p, rest : s = Head(here.path) /\ p = here.path /\ rest = Tail(here.path)
  OBVIOUS
<1>2. /\ pc = "add" /\ pc' = "add" /\ p # <<>> /\ plan' = Add(s) /\ joined' = joined \cup {s.from, s.to}
      /\ here' = [here EXCEPT !.path = rest] /\ UNCHANGED <<task, target, scope, joins>>
      /\ plan \in Seq(Directed) /\ here \in Reached /\ Leads(joined, p, target)
      /\ scope = {task.base} /\ joins = {} /\ task.base \in joined /\ task \in AllTasks
  BY <1>1 DEF AddStep, JoinInv, TypeOK, SearchInv, PlanInv, Planning
<1>3. p \in Seq(Directed) /\ Len(p) \in Nat /\ Len(p) >= 1
  <2>1. p \in Seq(Directed)
    BY <1>2 DEF Leads
  <2> QED
    BY <1>2, <2>1
<1>4. /\ s = p[1] /\ DOMAIN p = 1 .. Len(p) /\ 1 \in DOMAIN p
      /\ rest \in Seq(Directed) /\ Len(rest) = Len(p) - 1 /\ DOMAIN rest = 1 .. Len(p) - 1
      /\ \A i \in DOMAIN rest : i + 1 \in DOMAIN p /\ i + 1 # 1 /\ rest[i] = p[i + 1]
  BY <1>1, <1>3
<1>5. here'.path = rest
  BY <1>2 DEF Reached
<1>6. s \in Directed /\ s.from \in joined
  <2>1. p[1].to \in {p[1].to}
    OBVIOUS
  <2> QED
    BY <1>1, <1>2, <2>1, PathShortened
<1>7. s.to \in task.required \/ (rest # <<>> /\ rest[1].from = s.to)
  <2>1. CASE rest = <<>>
    <3>1. Len(p) = 1
      BY <1>3, <1>4, <2>1
    <3> QED
      BY <1>2, <1>4, <3>1 DEF Leads, TreeInv
  <2>2. CASE rest # <<>>
    <3>1. 1 \in 1 .. Len(p) - 1 /\ 1 \in DOMAIN rest
      BY <1>3, <1>4, <2>2
    <3>2. p[1].to = p[1 + 1].from /\ rest[1] = p[1 + 1]
      BY <1>2, <1>4, <3>1 DEF Leads
    <3> QED
      BY <1>4, <2>2, <3>2
  <2> QED
    BY <2>1, <2>2
<1>8. /\ s \in Chosen' /\ Chosen \subseteq Chosen'
      /\ \A r \in Chosen' : r \in Chosen \/ r = s
  <2>1. CASE \E i \in DOMAIN plan : plan[i] = s
    BY <1>2, <2>1 DEF Chosen, Add
  <2>2. CASE ~ \E i \in DOMAIN plan : plan[i] = s
    <3>1. plan' = Append(plan, s)
      BY <1>2, <2>2 DEF Add
    <3>2. /\ \A i \in DOMAIN plan' : (i \in DOMAIN plan /\ plan'[i] = plan[i]) \/ plan'[i] = s
          /\ \A i \in DOMAIN plan : i \in DOMAIN plan' /\ plan'[i] = plan[i]
          /\ Len(plan) + 1 \in DOMAIN plan' /\ plan'[Len(plan) + 1] = s
      BY <1>2, <3>1
    <3> QED
      BY <1>2, <3>2 DEF Chosen
  <2> QED
    BY <2>1, <2>2
<1>9. ASSUME NEW r \in Chosen' PROVE Used(r.to)'
  <2>1. CASE r = s
    BY <1>2, <1>5, <1>7, <2>1 DEF Used
  <2>2. CASE r \in Chosen
    <3>1. r.to \in task.required \/ (\E t \in Chosen : t.from = r.to) \/ s.from = r.to
      BY <1>1, <1>4, <2>2 DEF TreeInv, Used
    <3> QED
      BY <1>2, <1>8, <3>1 DEF Used
  <2> QED
    BY <1>8, <2>1, <2>2
<1>10. ASSUME task.fromBase
       PROVE  /\ OnTree(s) /\ \A i \in DOMAIN rest : OnTree(rest[i])'
              /\ \A i \in DOMAIN plan : OnTree(plan[i])
              /\ \A r : OnTree(r)' <=> OnTree(r)
  <2>1. /\ \A i \in DOMAIN p : OnTree(p[i])
        /\ \A i \in DOMAIN plan : OnTree(plan[i])
    BY <1>1, <1>2, <1>10 DEF TreeInv, Planning
  <2>2. \A r : OnTree(r)' <=> OnTree(r)
    BY <1>10, TreeKept
  <2> QED
    BY <1>4, <2>1, <2>2
<1>11. ASSUME ~task.fromBase
       PROVE  /\ s.to \notin joined
              /\ \A i \in DOMAIN rest : rest[i].to \notin joined'
              /\ \A i, j \in DOMAIN rest : rest[i].to = rest[j].to => i = j
  <2>1. /\ \A i \in DOMAIN p : p[i].to \notin joined
        /\ \A i, j \in DOMAIN p : p[i].to = p[j].to => i = j
    BY <1>1, <1>2, <1>11 DEF TreeInv
  <2>2. joined' = joined \cup {s.to}
    BY <1>2, <1>6
  <2>3. \A i, j \in DOMAIN rest : rest[i].to = rest[j].to => i = j
    <3>1. ASSUME NEW i \in DOMAIN rest, NEW j \in DOMAIN rest, rest[i].to = rest[j].to PROVE i = j
      <4>1. i + 1 = j + 1 /\ i \in Nat /\ j \in Nat
        BY <1>4, <2>1, <3>1
      <4> QED
        BY <4>1
    <3> QED
      BY <3>1
  <2> QED
    BY <1>4, <2>1, <2>2, <2>3
<1>12. Tos(plan) \subseteq joined /\ \A i, j \in DOMAIN plan : plan[i].to = plan[j].to => i = j
  BY <1>2 DEF TreeInv, Planning
<1>13. /\ \A i, j \in DOMAIN plan' : plan'[i].to = plan'[j].to => i = j
       /\ \A i \in DOMAIN plan' : plan'[i].to \notin scope'
       /\ Tos(plan') \subseteq joined'
       /\ task.fromBase => \A i \in DOMAIN plan' : OnTree(plan'[i])
  <2>1. CASE \E i \in DOMAIN plan : plan[i] = s
    <3>1. plan' = plan
      BY <1>2, <2>1 DEF Add
    <3> QED
      BY <1>2, <1>10, <1>12, <3>1 DEF TreeInv, Tos
  <2>2. CASE ~ \E i \in DOMAIN plan : plan[i] = s
    <3>1. plan' = Append(plan, s)
      BY <1>2, <2>2 DEF Add
    <3>2. /\ DOMAIN plan = 1 .. Len(plan) /\ Len(plan) \in Nat /\ DOMAIN plan' = 1 .. Len(plan) + 1
          /\ plan'[Len(plan) + 1] = s /\ \A i \in DOMAIN plan : plan'[i] = plan[i]
          /\ \A i \in DOMAIN plan' : i \in DOMAIN plan \/ i = Len(plan) + 1
      BY <1>2, <3>1
    <3>3. s.to # task.base /\ \A i \in DOMAIN plan : plan[i].to # s.to
      <4>1. CASE task.fromBase
        BY <1>2, <1>10, <2>2, <4>1, TreeKept, TreeSteps
      <4>2. CASE ~task.fromBase
        BY <1>2, <1>11, <1>12, <4>2 DEF Tos
      <4> QED
        BY <4>1, <4>2
    <3>4. \A i \in DOMAIN plan : plan[i].to \notin scope
      BY DEF TreeInv
    <3>5. \A i, j \in DOMAIN plan' : plan'[i].to = plan'[j].to => i = j
      BY <1>12, <3>2, <3>3
    <3>6. \A i \in DOMAIN plan' : plan'[i].to \notin scope'
      BY <1>2, <3>2, <3>3, <3>4
    <3>7. Tos(plan') \subseteq joined'
      BY <1>2, <1>12, <3>2 DEF Tos
    <3>8. task.fromBase => \A i \in DOMAIN plan' : OnTree(plan'[i])
      BY <1>10, <3>2
    <3> QED
      BY <3>5, <3>6, <3>7, <3>8
  <2> QED
    BY <2>1, <2>2
<1>14. task.fromBase => \A i \in DOMAIN plan' : OnTree(plan[i])'
  <2>1. PICK P : P = plan'
    OBVIOUS
  <2>2. task.fromBase => \A i \in DOMAIN P : OnTree(P[i])'
    BY <1>10, <1>13, <2>1
  <2> QED
    BY <2>1, <2>2
<1> QED
  BY <1>2, <1>5, <1>9, <1>10, <1>11, <1>13, <1>14 DEF TreeInv, Tos

LEMMA RenderTree ==
  ASSUME JoinInv, TreeInv, [Next]_vars, RenderStep
  PROVE  TreeInv'
<1>1. PICK s : s = Head(plan)
  OBVIOUS
<1>2. /\ pc = "render" /\ pc' = "render" /\ plan # <<>> /\ plan' = Tail(plan) /\ plan \in Seq(Directed)
      /\ Oriented(s) = s /\ task' = task /\ scope' = scope \cup {s.to}
      /\ joins' = IF s.to \in scope THEN joins ELSE joins \cup {s}
  BY <1>1, StepRendered DEF RenderStep, NextStep, JoinInv, TypeOK
<1>3. /\ s = plan[1] /\ 1 \in DOMAIN plan /\ DOMAIN plan \subseteq Nat /\ DOMAIN plan' \subseteq Nat
      /\ \A i \in DOMAIN plan' : i + 1 \in DOMAIN plan /\ i + 1 # 1 /\ plan'[i] = plan[i + 1]
      /\ \A i \in DOMAIN plan : i # 1 => i - 1 \in DOMAIN plan' /\ plan'[i - 1] = plan[i]
  BY <1>1, <1>2
<1>4. joins' = joins \cup {s}
  BY <1>2, <1>3 DEF TreeInv
<1>5. Chosen' = Chosen
  <2>1. \A i \in DOMAIN plan : plan[i] = s \/ \E j \in DOMAIN plan' : plan'[j] = plan[i]
    BY <1>3
  <2>2. \A j \in DOMAIN plan' : \E i \in DOMAIN plan : plan[i] = plan'[j]
    BY <1>3
  <2> QED
    BY <1>3, <1>4, <2>1, <2>2 DEF Chosen
<1>6. \A r \in Chosen' : Used(r.to)'
  BY <1>2, <1>5 DEF TreeInv, Used
<1>7. ASSUME NEW i \in DOMAIN plan', NEW j \in DOMAIN plan', plan'[i].to = plan'[j].to PROVE i = j
  <2>1. i + 1 = j + 1 /\ i \in Nat /\ j \in Nat
    BY <1>3, <1>7 DEF TreeInv
  <2> QED
    BY <2>1
<1>8. \A i \in DOMAIN plan' : plan'[i].to \notin scope'
  BY <1>2, <1>3 DEF TreeInv
<1> QED
  BY <1>2, <1>6, <1>7, <1>8 DEF TreeInv, Planning, Searching

LEMMA TreeStep ==
  ASSUME JoinInv, GeodesicInv, FromBaseInv, TreeInv, [Next]_vars
  PROVE  TreeInv'
<1> USE DEF Planning, Searching
<1>1. CASE UNCHANGED vars \/ Finished
  <2>1. UNCHANGED <<pc, target, joined, here, plan, scope, joins>> /\ task' = task /\ Chosen' = Chosen
    BY <1>1 DEF vars, Finished, Chosen
  <2>2. task.fromBase => \A s : OnTree(s)' <=> OnTree(s)
    BY TreeKept
  <2>3. \A s \in Chosen' : Used(s.to)'
    BY <2>1 DEF TreeInv, Used
  <2> QED
    BY <2>1, <2>2, <2>3 DEF TreeInv, Tos
<1>2. CASE SkipTarget \/ Search \/ QueueStart \/ Expand \/ QueueNeighbor \/ Expanded \/ Added
             \/ NotFound \/ Planned \/ RenderFails \/ Rendered
  <2>1. /\ UNCHANGED <<plan, scope, joins>>
        /\ pc' \in Planning => pc \in Planning /\ joined' = joined
        /\ ~(pc = "add" /\ here.path # <<>>) /\ pc' # "add"
    BY <1>2 DEF SkipTarget, Search, QueueStart, Expand, QueueNeighbor, Expanded, Added, NotFound,
                Planned, RenderFails, Rendered, NextStep
  <2> QED
    BY <2>1, TreeUnchanged
<1>3. CASE Found \/ AddStep \/ RenderStep
  BY <1>3, FoundTree, AddTree, RenderTree
<1> QED
  BY <1>1, <1>2, <1>3 DEF Next

\* Each join of a planned query leads to a required table, or another join
\* goes on from there, for every graph and score and both planners: no join
\* multiplies the rows for nothing.  The paths from the base are each the
\* first, in the order of the search, of the shortest ones, so that together
\* they form a tree.
THEOREM JoinsAreUseful == Spec => []NoUselessJoin
<1>1. Init => LevelInv /\ GeodesicInv /\ FromBaseInv /\ TreeInv
  BY DEF Init, LevelInv, GeodesicInv, FromBaseInv, OrderInv, TreeInv, Chosen, Tos, Searching
<1>2. JoinInv /\ TreeInv => NoUselessJoin
  <2> SUFFICES ASSUME JoinInv, TreeInv, pc = "planned", NEW s \in joins
               PROVE  s.to \in task.required \/ \E t \in joins : t.from = s.to
    BY DEF NoUselessJoin
  <2>1. plan = <<>>
    BY DEF JoinInv, PlanInv
  <2>2. Chosen = joins
    BY <2>1 DEF Chosen
  <2> QED
    BY <2>2 DEF TreeInv, Used
<1> QED
  BY <1>1, <1>2, LevelStep, GeodesicStep, OrderStep, TreeStep, JoinInvariant, PTL DEF Spec
=============================================================================
