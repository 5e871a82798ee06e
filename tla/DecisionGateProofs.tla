-------------------------- MODULE DecisionGateProofs --------------------------
(***************************************************************************)
(* That promoted SQL is grounded, for every bound on the frames.           *)
(*                                                                         *)
(* The property speaks of promoted SQL; why it holds is spread over the    *)
(* binder's loops.  The inductive invariant says what each stage may rely  *)
(* on: while the binder works, the plan is a checked prefix of the frame,  *)
(* and a stage is reached only when the one before took everything.        *)
(***************************************************************************)
EXTENDS DecisionGate, SequenceTheorems, TLAPS

FrameOK(f) ==
  /\ f.predicates \in Seq(PredicateKinds) /\ f.joins \in Seq(BOOLEAN)
  /\ f.projection \in Projections /\ f.order \in Orders
  /\ f.routed \in BOOLEAN /\ f.readOnly \in BOOLEAN

PlanOf(valid, reason, projections, predicates, joins) ==
  [valid |-> valid, reason |-> reason, projections |-> projections,
   predicates |-> predicates, joins |-> joins]
PlanOK(p) ==
  \E valid \in BOOLEAN, predicates \in Seq(PredicateKinds), joins \in Seq({TRUE}) :
    \E reason, projections : p = PlanOf(valid, reason, projections, predicates, joins)

PredicatesTaken ==
  /\ Len(plan.predicates) <= Len(trace.predicates)
  /\ \A i \in 1..Len(plan.predicates) :
       plan.predicates[i] = trace.predicates[i] /\ trace.predicates[i] \in Evidenced

JoinsTaken ==
  /\ Len(plan.joins) <= Len(trace.joins)
  /\ \A i \in 1..Len(plan.joins) : trace.joins[i]

Binding == {"predicates", "joins", "order", "objections"}

StageInv ==
  /\ pc \in {"ask", "route", "start"} => plan = NoPlan
  /\ pc \in Binding =>
       /\ ~plan.valid /\ plan.reason = ""
       /\ trace.routed /\ trace.readOnly /\ trace.projection = "backed"
       /\ PredicatesTaken /\ JoinsTaken
  /\ pc \in Binding \ {"predicates"} => Len(plan.predicates) = Len(trace.predicates)
  /\ pc \in {"order", "objections"} => Len(plan.joins) = Len(trace.joins)
  /\ pc = "objections" => trace.order \in {"none", "backed"}

Complete ==
  /\ Grounded
  /\ plan.reason = ""
  /\ plan.predicates = trace.predicates /\ plan.joins = trace.joins

GateInv ==
  /\ pc \in Pcs
  /\ FrameOK(trace)
  /\ PlanOK(plan)
  /\ StageInv
  /\ plan.valid => pc \in {"gate", "decide", "done"} /\ Complete
  /\ outcome = "sql" => pc \in {"decide", "done"} /\ plan.valid

---------------------------------------------------------------------------
(* Frames.                                                                 *)

LEMMA SeqsAreSeqs ==
  ASSUME NEW S, NEW n \in Nat PROVE SeqsUpTo(S, n) \subseteq Seq(S)
  BY DEF SeqsUpTo

LEMMA DeclinedOK == ASSUME NEW reason PROVE FrameOK(Declined(reason))
  BY DEF FrameOK, Declined, NoFrame, Projections, Orders

LEMMA PathsOK == ASSUME NEW many \in BOOLEAN PROVE {<<>>} \cup JoinPaths(many) \subseteq Seq(BOOLEAN)
  <1>1. SeqsUpTo(BOOLEAN, JoinBound) \subseteq Seq(BOOLEAN)
    BY SeqsAreSeqs, GateAssumption
  <1>2. <<>> \in Seq(BOOLEAN)
    OBVIOUS
  <1>3. JoinPaths(many) \subseteq {<<>>} \cup SeqsUpTo(BOOLEAN, JoinBound)
    BY DEF JoinPaths
  <1> QED  BY <1>1, <1>2, <1>3

LEMMA FramesOK ==
  ASSUME NEW reason, NEW p \in Pieces, NEW many \in BOOLEAN, NEW joins \in Seq(BOOLEAN)
  PROVE  /\ FrameOK(Frame(reason, p, many, joins))
         /\ \A b \in BOOLEAN :
              FrameOK([Frame(reason, p, many, joins) EXCEPT !.routed = TRUE, !.readOnly = b])
  <1>1. /\ p.predicates \in Seq(PredicateKinds)
        /\ p.projection \in Projections /\ p.order \in Orders
    BY SeqsAreSeqs, GateAssumption DEF Pieces
  <1> QED  BY <1>1 DEF FrameOK, Frame, Declined, NoFrame

LEMMA RoutesLeaveFrames == ASSUME Route PROVE FrameOK(trace')
  <1>1. CASE RouteNothing
    BY <1>1, DeclinedOK DEF RouteNothing, LeaveFrame
  <1>2. CASE RouteWithoutProjection
    <2>1. ASSUME NEW reason, NEW preds \in Seq(PredicateKinds)
          PROVE  FrameOK([Declined(reason) EXCEPT !.predicates = preds])
      BY <2>1 DEF FrameOK, Declined, NoFrame, Projections, Orders
    <2>2. [i \in 1..(MaxPredicates + 1) |-> "value"] \in Seq(PredicateKinds)
      BY GateAssumption DEF PredicateKinds
    <2>3. SeqsUpTo(PredicateKinds, PredicateBound) \subseteq Seq(PredicateKinds)
      BY SeqsAreSeqs, GateAssumption
    <2> QED
      BY ZenonT(60), <1>2, <2>1, <2>2, <2>3, DeclinedOK DEF RouteWithoutProjection, LeaveFrame
  <1>3. CASE RouteWithProjection
    <2>1. PICK p \in Pieces, many \in BOOLEAN :
            \E joins \in {<<>>} \cup JoinPaths(many) :
              \E reason : trace' = Frame(reason, p, many, joins)
      BY <1>3 DEF RouteWithProjection, LeaveFrame
    <2>2. PICK joins \in {<<>>} \cup JoinPaths(many) :
            \E reason : trace' = Frame(reason, p, many, joins)
      BY <2>1
    <2>3. joins \in Seq(BOOLEAN)
      BY PathsOK
    <2>4. PICK reason : trace' = Frame(reason, p, many, joins)
      BY <2>2
    <2> QED  BY <2>3, <2>4, FramesOK
  <1>4. CASE RouteRendered
    <2>1. PICK p \in Pieces, many \in BOOLEAN, b \in BOOLEAN :
            \E joins \in JoinPaths(many) :
              trace' = [Frame("routed", p, many, joins) EXCEPT !.routed = TRUE, !.readOnly = b]
      BY <1>4 DEF RouteRendered, LeaveFrame
    <2>2. PICK joins \in JoinPaths(many) :
            trace' = [Frame("routed", p, many, joins) EXCEPT !.routed = TRUE, !.readOnly = b]
      BY <2>1
    <2>3. joins \in Seq(BOOLEAN)
      BY PathsOK
    <2> QED  BY <2>2, <2>3, FramesOK
  <1> QED  BY <1>1, <1>2, <1>3, <1>4 DEF Route

---------------------------------------------------------------------------
(* Plans.                                                                  *)

\* A plan keeps its form whichever of its fields a step sets.
LEMMA PlansOK ==
  ASSUME NEW valid \in BOOLEAN, NEW reason, NEW projections,
         NEW preds \in Seq(PredicateKinds), NEW joins \in Seq({TRUE})
  PROVE  PlanOK(PlanOf(valid, reason, projections, preds, joins))
  BY DEF PlanOK

LEMMA PlanParts ==
  ASSUME NEW p, PlanOK(p)
  PROVE  p.valid \in BOOLEAN /\ p.predicates \in Seq(PredicateKinds) /\ p.joins \in Seq({TRUE})
  BY DEF PlanOK, PlanOf

LEMMA ReasonSet ==
  ASSUME NEW p, PlanOK(p), NEW reason
  PROVE  LET q == [p EXCEPT !.reason = reason]
         IN PlanOK(q) /\ q.valid = p.valid
  <1>1. PICK v \in BOOLEAN, ps \in Seq(PredicateKinds), js \in Seq({TRUE}) :
          \E r, b : p = PlanOf(v, r, b, ps, js)
    BY DEF PlanOK
  <1>2. PICK r, b : p = PlanOf(v, r, b, ps, js)
    BY <1>1
  <1>3. [p EXCEPT !.reason = reason] = PlanOf(v, reason, b, ps, js)
    BY <1>2 DEF PlanOf
  <1>4. PlanOK(PlanOf(v, reason, b, ps, js))
    BY PlansOK
  <1>5. p.valid = v /\ p.reason = r /\ p.predicates = ps /\ p.joins = js
    BY <1>2 DEF PlanOf
  <1> DEFINE q == PlanOf(v, reason, b, ps, js)
  <1>6. q.valid = v
    BY DEF PlanOf
  <1> QED  BY <1>3, <1>4, <1>5, <1>6

LEMMA ProjectionsSet ==
  ASSUME NEW p, PlanOK(p), NEW c
  PROVE  LET q == [p EXCEPT !.projections = c]
         IN PlanOK(q) /\ q.valid = p.valid /\ q.reason = p.reason
            /\ q.predicates = p.predicates /\ q.joins = p.joins
  <1>1. PICK v \in BOOLEAN, ps \in Seq(PredicateKinds), js \in Seq({TRUE}) :
          \E r, b : p = PlanOf(v, r, b, ps, js)
    BY DEF PlanOK
  <1>2. PICK r, b : p = PlanOf(v, r, b, ps, js)
    BY <1>1
  <1>3. [p EXCEPT !.projections = c] = PlanOf(v, r, c, ps, js)
    BY <1>2 DEF PlanOf
  <1>4. PlanOK(PlanOf(v, r, c, ps, js))
    BY PlansOK
  <1>5. p.valid = v /\ p.reason = r /\ p.predicates = ps /\ p.joins = js
    BY <1>2 DEF PlanOf
  <1> DEFINE q == PlanOf(v, r, c, ps, js)
  <1>6. q.valid = v /\ q.reason = r /\ q.predicates = ps /\ q.joins = js
    BY DEF PlanOf
  <1> QED  BY <1>3, <1>4, <1>5, <1>6

LEMMA PredicatesSet ==
  ASSUME NEW p, PlanOK(p), NEW preds \in Seq(PredicateKinds)
  PROVE  LET q == [p EXCEPT !.predicates = preds]
         IN PlanOK(q) /\ q.valid = p.valid /\ q.reason = p.reason
            /\ q.predicates = preds /\ q.joins = p.joins
  <1>1. PICK v \in BOOLEAN, ps \in Seq(PredicateKinds), js \in Seq({TRUE}) :
          \E r, b : p = PlanOf(v, r, b, ps, js)
    BY DEF PlanOK
  <1>2. PICK r, b : p = PlanOf(v, r, b, ps, js)
    BY <1>1
  <1>3. [p EXCEPT !.predicates = preds] = PlanOf(v, r, b, preds, js)
    BY <1>2 DEF PlanOf
  <1>4. PlanOK(PlanOf(v, r, b, preds, js))
    BY PlansOK
  <1>5. p.valid = v /\ p.reason = r /\ p.predicates = ps /\ p.joins = js
    BY <1>2 DEF PlanOf
  <1> DEFINE q == PlanOf(v, r, b, preds, js)
  <1>6. q.valid = v /\ q.reason = r /\ q.predicates = preds /\ q.joins = js
    BY DEF PlanOf
  <1> QED  BY <1>3, <1>4, <1>5, <1>6

LEMMA JoinsSet ==
  ASSUME NEW p, PlanOK(p), NEW joins \in Seq({TRUE})
  PROVE  LET q == [p EXCEPT !.joins = joins]
         IN PlanOK(q) /\ q.valid = p.valid /\ q.reason = p.reason
            /\ q.predicates = p.predicates /\ q.joins = joins
  <1>1. PICK v \in BOOLEAN, ps \in Seq(PredicateKinds), js \in Seq({TRUE}) :
          \E r, b : p = PlanOf(v, r, b, ps, js)
    BY DEF PlanOK
  <1>2. PICK r, b : p = PlanOf(v, r, b, ps, js)
    BY <1>1
  <1>3. [p EXCEPT !.joins = joins] = PlanOf(v, r, b, ps, joins)
    BY <1>2 DEF PlanOf
  <1>4. PlanOK(PlanOf(v, r, b, ps, joins))
    BY PlansOK
  <1>5. p.valid = v /\ p.reason = r /\ p.predicates = ps /\ p.joins = js
    BY <1>2 DEF PlanOf
  <1> DEFINE q == PlanOf(v, r, b, ps, joins)
  <1>6. q.valid = v /\ q.reason = r /\ q.predicates = ps /\ q.joins = joins
    BY DEF PlanOf
  <1> QED  BY <1>3, <1>4, <1>5, <1>6

LEMMA ValidSet ==
  ASSUME NEW p, PlanOK(p), NEW c \in BOOLEAN
  PROVE  LET q == [p EXCEPT !.valid = c]
         IN PlanOK(q) /\ q.valid = c /\ q.reason = p.reason
            /\ q.predicates = p.predicates /\ q.joins = p.joins
  <1>1. PICK v \in BOOLEAN, ps \in Seq(PredicateKinds), js \in Seq({TRUE}) :
          \E r, b : p = PlanOf(v, r, b, ps, js)
    BY DEF PlanOK
  <1>2. PICK r, b : p = PlanOf(v, r, b, ps, js)
    BY <1>1
  <1>3. [p EXCEPT !.valid = c] = PlanOf(c, r, b, ps, js)
    BY <1>2 DEF PlanOf
  <1>4. PlanOK(PlanOf(c, r, b, ps, js))
    BY PlansOK
  <1>5. p.valid = v /\ p.reason = r /\ p.predicates = ps /\ p.joins = js
    BY <1>2 DEF PlanOf
  <1> DEFINE q == PlanOf(c, r, b, ps, js)
  <1>6. q.valid = c /\ q.reason = r /\ q.predicates = ps /\ q.joins = js
    BY DEF PlanOf
  <1> QED  BY <1>3, <1>4, <1>5, <1>6

---------------------------------------------------------------------------
(* The binder.                                                             *)

\* A plan that stops at a reason asks nothing of the stages.
LEMMA StopKeepsInv ==
  ASSUME GateInv, pc \in {"start"} \cup Binding,
         NEW p, PlanOK(p), NEW reason, ~p.valid, Unbound(p, reason)
  PROVE  GateInv'
  <1>1. /\ pc' = "gate" /\ UNCHANGED <<trace, outcome>>
        /\ plan' = [p EXCEPT !.reason = reason]
    BY DEF Unbound, Bind
  <1>2. PlanOK(plan') /\ ~plan'.valid
    BY <1>1, ReasonSet
  <1>3. outcome # "sql"
    BY DEF GateInv, Binding
  <1> QED  BY <1>1, <1>2, <1>3 DEF GateInv, StageInv, Binding, Pcs

LEMMA StartKeepsInv == ASSUME GateInv, BindStart PROVE GateInv'
  <1>1. pc = "start" /\ plan = NoPlan /\ PlanOK(plan) /\ FrameOK(trace) /\ outcome # "sql"
    BY DEF BindStart, GateInv, StageInv
  <1>2. /\ ~plan.valid /\ plan.predicates = <<>> /\ plan.joins = <<>> /\ plan.reason = ""
    BY <1>1 DEF NoPlan
  <1> DEFINE p == [plan EXCEPT !.projections = TRUE]
  <1>3. /\ PlanOK(p) /\ ~p.valid /\ p.reason = "" /\ p.predicates = <<>> /\ p.joins = <<>>
    <2>1. \A c : LET q == [plan EXCEPT !.projections = c]
                IN /\ PlanOK(q) /\ q.valid = plan.valid /\ q.reason = plan.reason
                   /\ q.predicates = plan.predicates /\ q.joins = plan.joins
      BY <1>1, ProjectionsSet
    <2> QED  BY <1>2, <2>1, Zenon
  <1>4. \/ \E reason : Unbound(plan, reason)
        \/ \E reason : Unbound(p, reason)
        \/ /\ trace.routed /\ trace.readOnly /\ trace.projection = "backed"
           /\ Bind("predicates", p)
    BY <1>1 DEF BindStart, FrameOK, Projections
  <1> HIDE DEF p
  <1>5. CASE \E reason : Unbound(plan, reason)
    <2>1. PICK reason : Unbound(plan, reason)
      BY <1>5
    <2> QED  BY <1>1, <1>2, <2>1, StopKeepsInv
  <1>6. CASE \E reason : Unbound(p, reason)
    <2>1. PICK reason : Unbound(p, reason)
      BY <1>6
    <2> QED  BY <1>1, <1>3, <2>1, StopKeepsInv
  <1>7. CASE /\ trace.routed /\ trace.readOnly /\ trace.projection = "backed"
             /\ Bind("predicates", p)
    <2>1. pc' = "predicates" /\ plan' = p /\ UNCHANGED <<trace, outcome>>
      BY <1>7 DEF Bind
    <2>2. PlanOK(plan') /\ ~plan'.valid /\ plan'.reason = ""
      BY <1>3, <2>1
    <2>3. PredicatesTaken' /\ JoinsTaken'
      <3>1. Len(plan'.predicates) = 0 /\ Len(plan'.joins) = 0
        BY <1>3, <2>1
      <3>2. Len(trace.predicates) \in Nat /\ Len(trace.joins) \in Nat
        BY <1>1 DEF FrameOK
      <3> QED  BY <2>1, <3>1, <3>2 DEF PredicatesTaken, JoinsTaken
    <2> QED
      BY <1>1, <1>7, <2>1, <2>2, <2>3 DEF GateInv, StageInv, Binding, Pcs
  <1> QED  BY <1>4, <1>5, <1>6, <1>7

LEMMA PredicateKeepsInv == ASSUME GateInv, BindPredicate PROVE GateInv'
  <1>1. /\ pc = "predicates" /\ PlanOK(plan) /\ FrameOK(trace) /\ outcome # "sql"
        /\ ~plan.valid /\ plan.reason = ""
        /\ trace.routed /\ trace.readOnly /\ trace.projection = "backed"
        /\ PredicatesTaken /\ JoinsTaken
    BY DEF BindPredicate, GateInv, StageInv, Binding
  <1>2. pc \in Binding /\ plan.predicates \in Seq(PredicateKinds)
    BY <1>1, PlanParts DEF Binding
  <1>0. /\ trace.predicates \in Seq(PredicateKinds)
        /\ Len(plan.predicates) \in Nat /\ Len(trace.predicates) \in Nat
        /\ Len(plan.predicates) <= Len(trace.predicates)
    <2>1. trace.predicates \in Seq(PredicateKinds)
      BY <1>1 DEF FrameOK
    <2>2. Len(plan.predicates) <= Len(trace.predicates)
      BY <1>1 DEF PredicatesTaken
    <2> QED  BY <1>2, <2>1, <2>2
  <1>3. CASE Len(plan.predicates) = Len(trace.predicates)
    <2>1. pc' = "joins" /\ plan' = plan /\ UNCHANGED <<trace, outcome>>
      BY <1>1, <1>3 DEF BindPredicate, Bind
    <2> QED
      BY <1>1, <1>3, <2>1
      DEF GateInv, StageInv, Binding, Pcs, PredicatesTaken, JoinsTaken
  <1>4. CASE Len(plan.predicates) # Len(trace.predicates)
    <2> DEFINE n == Len(plan.predicates)
               kind == trace.predicates[n + 1]
               grown == [plan EXCEPT !.predicates = Append(@, kind)]
    <2>1. n \in Nat /\ n + 1 \in 1..Len(trace.predicates) /\ kind \in PredicateKinds
      BY <1>0, <1>4
    <2>2. /\ grown.predicates = Append(plan.predicates, kind) /\ grown.joins = plan.joins
          /\ ~grown.valid /\ grown.reason = "" /\ PlanOK(grown)
      <3>1. Append(plan.predicates, kind) \in Seq(PredicateKinds)
        BY <1>2, <2>1
      <3> QED  BY <1>1, <3>1, PredicatesSet
    <2>3. \/ \E reason : Unbound(plan, reason)
          \/ \E reason : Unbound(grown, reason)
          \/ kind \in Evidenced /\ Bind("predicates", grown)
      BY <1>1, <1>4 DEF BindPredicate
    <2>4. CASE \E reason : Unbound(plan, reason)
      <3>1. PICK reason : Unbound(plan, reason)
        BY <2>4
      <3> QED  BY <1>1, <1>2, <3>1, StopKeepsInv
    <2>5. CASE \E reason : Unbound(grown, reason)
      <3> HIDE DEF grown
      <3>1. PICK reason : Unbound(grown, reason)
        BY <2>5
      <3> QED  BY <1>2, <2>2, <3>1, StopKeepsInv
    <2>6. CASE kind \in Evidenced /\ Bind("predicates", grown)
      <3>1. pc' = "predicates" /\ plan' = grown /\ UNCHANGED <<trace, outcome>>
        BY <2>6 DEF Bind
      <3>2. plan'.predicates = Append(plan.predicates, kind)
        BY <2>2, <3>1
      <3> HIDE DEF grown, kind
      <3>3. /\ Len(plan'.predicates) = n + 1
            /\ \A i \in 1..n : plan'.predicates[i] = plan.predicates[i]
            /\ plan'.predicates[n + 1] = kind
        BY <1>2, <2>1, <3>2
      <3>4. PredicatesTaken'
        <4>1. n + 1 <= Len(trace.predicates) /\ Len(trace.predicates) \in Nat
          BY <1>0, <2>1
        <4>2. ASSUME NEW i \in 1..(n + 1)
              PROVE  plan'.predicates[i] = trace.predicates[i] /\ trace.predicates[i] \in Evidenced
          <5>1. CASE i \in 1..n
            BY <1>1, <3>3, <5>1 DEF PredicatesTaken
          <5>2. CASE i = n + 1
            BY <2>6, <3>3, <5>2 DEF kind
          <5> QED  BY <2>1, <5>1, <5>2
        <4> QED  BY <3>1, <3>3, <4>1, <4>2 DEF PredicatesTaken
      <3>5. JoinsTaken'
        BY <1>1, <2>2, <3>1 DEF JoinsTaken
      <3> QED
        BY <1>1, <2>2, <3>1, <3>4, <3>5 DEF GateInv, StageInv, Binding, Pcs
    <2> QED  BY <2>3, <2>4, <2>5, <2>6
  <1> QED  BY <1>3, <1>4

LEMMA JoinKeepsInv == ASSUME GateInv, BindJoin PROVE GateInv'
  <1>1. /\ pc = "joins" /\ PlanOK(plan) /\ FrameOK(trace) /\ outcome # "sql"
        /\ ~plan.valid /\ plan.reason = ""
        /\ trace.routed /\ trace.readOnly /\ trace.projection = "backed"
        /\ PredicatesTaken /\ JoinsTaken /\ Len(plan.predicates) = Len(trace.predicates)
    BY DEF BindJoin, GateInv, StageInv, Binding
  <1>2. pc \in Binding /\ plan.joins \in Seq({TRUE})
    BY <1>1, PlanParts DEF Binding
  <1>3. /\ Len(plan.joins) \in Nat /\ Len(trace.joins) \in Nat
        /\ Len(plan.joins) <= Len(trace.joins)
    <2>1. trace.joins \in Seq(BOOLEAN)
      BY <1>1 DEF FrameOK
    <2>2. Len(plan.joins) <= Len(trace.joins)
      BY <1>1 DEF JoinsTaken
    <2> QED  BY <1>2, <2>1, <2>2
  <1>4. CASE Len(plan.joins) = Len(trace.joins)
    <2>1. pc' = "order" /\ plan' = plan /\ UNCHANGED <<trace, outcome>>
      BY <1>1, <1>4 DEF BindJoin, Bind
    <2> QED
      BY <1>1, <1>4, <2>1
      DEF GateInv, StageInv, Binding, Pcs, PredicatesTaken, JoinsTaken
  <1>5. CASE Len(plan.joins) # Len(trace.joins)
    <2> DEFINE n == Len(plan.joins)
               yes == Append(plan.joins, TRUE)
               grown == [plan EXCEPT !.joins = yes]
    <2>1. yes \in Seq({TRUE}) /\ Len(yes) = n + 1
      BY <1>2
    <2>2. grown.predicates = plan.predicates /\ grown.joins = yes
          /\ ~grown.valid /\ grown.reason = "" /\ PlanOK(grown)
      <3> HIDE DEF yes
      <3> QED  BY <1>1, <2>1, JoinsSet
    <2>3. \/ \E reason : Unbound(plan, reason)
          \/ trace.joins[n + 1] /\ Bind("joins", grown)
      BY <1>1, <1>5 DEF BindJoin
    <2>4. CASE \E reason : Unbound(plan, reason)
      <3>1. PICK reason : Unbound(plan, reason)
        BY <2>4
      <3> QED  BY <1>1, <1>2, <3>1, StopKeepsInv
    <2>5. CASE trace.joins[n + 1] /\ Bind("joins", grown)
      <3>1. pc' = "joins" /\ plan' = grown /\ UNCHANGED <<trace, outcome>>
        BY <2>5 DEF Bind
      <3> HIDE DEF grown, yes
      <3>2. JoinsTaken'
        <4>1. Len(plan'.joins) = n + 1
          BY <2>1, <2>2, <3>1
        <4>3. n + 1 <= Len(trace.joins)
          BY <1>3, <1>5
        <4>2. ASSUME NEW i \in 1..(n + 1) PROVE trace.joins[i]
          <5>1. CASE i \in 1..n
            BY <1>1, <5>1 DEF JoinsTaken
          <5>2. CASE i = n + 1
            BY <2>5, <5>2
          <5> QED  BY <1>3, <5>1, <5>2
        <4> QED  BY <3>1, <4>1, <4>2, <4>3 DEF JoinsTaken
      <3>3. PredicatesTaken' /\ Len(plan'.predicates) = Len(trace'.predicates)
        BY <1>1, <2>2, <3>1 DEF PredicatesTaken
      <3> QED
        BY <1>1, <2>2, <3>1, <3>2, <3>3 DEF GateInv, StageInv, Binding, Pcs
    <2> QED  BY <2>3, <2>4, <2>5
  <1> QED  BY <1>4, <1>5

LEMMA OrderKeepsInv == ASSUME GateInv, BindOrder PROVE GateInv'
  <1>1. pc = "order" /\ PlanOK(plan) /\ FrameOK(trace) /\ outcome # "sql" /\ ~plan.valid
    BY DEF BindOrder, GateInv, StageInv, Binding
  <1>2. pc \in Binding
    BY <1>1 DEF Binding
  <1>3. \/ \E reason : Unbound(plan, reason)
        \/ trace.order \in {"none", "backed"} /\ Bind("objections", plan)
    BY <1>1 DEF BindOrder, FrameOK, Orders
  <1>4. CASE \E reason : Unbound(plan, reason)
    <2>1. PICK reason : Unbound(plan, reason)
      BY <1>4
    <2> QED  BY <1>1, <1>2, <2>1, StopKeepsInv
  <1>5. CASE trace.order \in {"none", "backed"} /\ Bind("objections", plan)
    <2>1. pc' = "objections" /\ UNCHANGED <<plan, trace, outcome>>
      BY <1>5 DEF Bind
    <2> QED
      BY <1>1, <1>2, <1>5, <2>1
      DEF GateInv, StageInv, Binding, Pcs, PredicatesTaken, JoinsTaken
  <1> QED  BY <1>3, <1>4, <1>5

LEMMA ObjectKeepsInv == ASSUME GateInv, Object PROVE GateInv'
  <1>1. pc \in Binding /\ PlanOK(plan) /\ ~plan.valid
    BY DEF Object, GateInv, StageInv, Binding
  <1>2. PICK reason \in Objections : Unbound(plan, reason)
    BY DEF Object
  <1> QED  BY <1>1, <1>2, StopKeepsInv

\* The plan took every piece in turn, so the plan of the whole frame is the
\* frame's.
LEMMA AcceptKeepsInv == ASSUME GateInv, Accept PROVE GateInv'
  <1>1. /\ pc = "objections" /\ PlanOK(plan) /\ FrameOK(trace) /\ outcome # "sql"
        /\ plan.reason = ""
        /\ trace.routed /\ trace.readOnly /\ trace.projection = "backed"
        /\ PredicatesTaken /\ JoinsTaken
        /\ Len(plan.predicates) = Len(trace.predicates)
        /\ Len(plan.joins) = Len(trace.joins)
        /\ trace.order \in {"none", "backed"}
    BY DEF Accept, GateInv, StageInv, Binding
  <1>2. /\ pc' = "gate" /\ UNCHANGED <<trace, outcome>>
        /\ plan' = [plan EXCEPT !.valid = TRUE]
    BY DEF Accept, Bind
  <1>3. /\ PlanOK(plan') /\ plan'.reason = ""
        /\ plan'.predicates = plan.predicates /\ plan'.joins = plan.joins
    <2>1. \A c \in BOOLEAN :
            LET q == [plan EXCEPT !.valid = c]
            IN /\ PlanOK(q) /\ q.reason = plan.reason
               /\ q.predicates = plan.predicates /\ q.joins = plan.joins
      BY <1>1, ValidSet
    <2>2. LET q == [plan EXCEPT !.valid = TRUE]
          IN /\ PlanOK(q) /\ q.reason = plan.reason
             /\ q.predicates = plan.predicates /\ q.joins = plan.joins
      BY <2>1, Zenon
    <2> QED  BY <1>1, <1>2, <2>2, Zenon
  <1>4. plan.predicates = trace.predicates
    <2>1. plan.predicates \in Seq(PredicateKinds) /\ trace.predicates \in Seq(PredicateKinds)
      BY <1>1, PlanParts DEF FrameOK
    <2>2. \A i \in 1..Len(plan.predicates) : plan.predicates[i] = trace.predicates[i]
      BY <1>1 DEF PredicatesTaken
    <2> QED  BY <1>1, <2>1, <2>2, SeqEqual
  <1>5. plan.joins = trace.joins
    <2>1. plan.joins \in Seq({TRUE}) /\ trace.joins \in Seq(BOOLEAN)
      BY <1>1, PlanParts DEF FrameOK
    <2>2. ASSUME NEW i \in 1..Len(plan.joins) PROVE plan.joins[i] = trace.joins[i]
      <3>1. plan.joins[i] = TRUE
        <4>1. plan.joins[i] \in {TRUE}
          BY <2>1, ElementOfSeq
        <4> QED  BY <4>1, Zenon
      <3>2. trace.joins[i] \in BOOLEAN
        BY <1>1, <2>1, ElementOfSeq, Zenon
      <3>3. trace.joins[i]
        BY <1>1 DEF JoinsTaken
      <3>4. trace.joins[i] = TRUE
        BY <3>2, <3>3, Zenon
      <3> QED  BY <3>1, <3>4, Zenon
    <2>3. plan.joins \in Seq(BOOLEAN)
      <3>1. Len(plan.joins) \in Nat /\ plan.joins \in [1..Len(plan.joins) -> {TRUE}]
        BY <2>1, LenProperties
      <3>2. plan.joins \in [1..Len(plan.joins) -> BOOLEAN]
        BY <3>1, Zenon
      <3> QED  BY <3>1, <3>2, IsASeq
    <2> QED  BY <1>1, <2>1, <2>2, <2>3, SeqEqual
  <1>6. AllEvidenced(trace.predicates)
    BY <1>1 DEF PredicatesTaken, AllEvidenced
  <1>7. Complete'
    BY <1>1, <1>2, <1>3, <1>4, <1>5, <1>6 DEF Complete, Grounded, JoinsTaken, AllEvidenced
  <1> QED
    BY <1>1, <1>2, <1>3, <1>7 DEF GateInv, StageInv, Binding, Pcs

---------------------------------------------------------------------------
(* Every step.                                                             *)

LEMMA InitGate == Init => GateInv
  <1> SUFFICES ASSUME Init PROVE GateInv
    OBVIOUS
  <1>1. FrameOK(NoFrame)
    BY DEF FrameOK, NoFrame, Projections, Orders
  <1>2. PlanOK(NoPlan) /\ NoPlan.valid = FALSE
    <2>1. NoPlan = PlanOf(FALSE, "", FALSE, <<>>, <<>>)
      BY DEF NoPlan, PlanOf
    <2>2. <<>> \in Seq(PredicateKinds) /\ <<>> \in Seq({TRUE})
      OBVIOUS
    <2> QED  BY <2>1, <2>2, PlansOK DEF NoPlan
  <1> QED  BY <1>1, <1>2 DEF Init, GateInv, StageInv, Binding, Pcs

LEMMA ConcludeKeepsInv ==
  ASSUME GateInv, NEW o \in Outcomes, Conclude(o), o = "sql" => plan.valid PROVE GateInv'
  <1>1. /\ pc = "gate" /\ pc' = "decide" /\ outcome' = o /\ UNCHANGED <<trace, plan>>
    BY DEF Conclude
  <1> QED
    BY <1>1 DEF GateInv, StageInv, Binding, Pcs, Complete, Grounded, AllEvidenced

LEMMA NextKeepsInv == GateInv /\ [Next]_vars => GateInv'
  <1> SUFFICES ASSUME GateInv, [Next]_vars PROVE GateInv'
    OBVIOUS
  <1>1. CASE PreResolve \/ RefuseEarly \/ NeedModel
    <2>1. plan = NoPlan
      BY <1>1 DEF PreResolve, RefuseEarly, NeedModel, GateInv, StageInv
    <2>2. /\ pc' \in {"done", "route"} /\ outcome' # "sql" /\ UNCHANGED <<plan, trace>>
      BY <1>1 DEF PreResolve, RefuseEarly, NeedModel, GateInv
    <2>3. ~plan.valid
      BY <2>1 DEF NoPlan
    <2> QED  BY <2>1, <2>2, <2>3 DEF GateInv, StageInv, Binding, Pcs
  <1>2. CASE Route
    <2>1. FrameOK(trace')
      BY <1>2, RoutesLeaveFrames
    <2>2. pc = "route" /\ pc' = "start" /\ UNCHANGED <<plan, outcome>>
      BY <1>2 DEF Route, RouteNothing, RouteWithoutProjection, RouteWithProjection,
                  RouteRendered, LeaveFrame
    <2>3. plan = NoPlan /\ outcome # "sql"
      BY <2>2 DEF GateInv, StageInv
    <2>4. ~plan.valid
      BY <2>3 DEF NoPlan
    <2> QED  BY <2>1, <2>2, <2>3, <2>4 DEF GateInv, StageInv, Binding, Pcs
  <1>3. CASE BindStart      BY <1>3, StartKeepsInv
  <1>4. CASE BindPredicate  BY <1>4, PredicateKeepsInv
  <1>5. CASE BindJoin       BY <1>5, JoinKeepsInv
  <1>6. CASE BindOrder      BY <1>6, OrderKeepsInv
  <1>7. CASE Object         BY <1>7, ObjectKeepsInv
  <1>8. CASE Accept         BY <1>8, AcceptKeepsInv
  <1>9. CASE Promote
    BY <1>9, ConcludeKeepsInv DEF Promote, Outcomes
  <1>10. CASE FailClosed \/ ModelStages
    BY <1>10, ConcludeKeepsInv DEF FailClosed, ModelStages, Outcomes
  <1>11. CASE Decide
    <2>1. pc = "decide" /\ pc' = "done" /\ UNCHANGED <<trace, plan, outcome>>
      BY <1>11 DEF Decide
    <2> QED
      BY <2>1 DEF GateInv, StageInv, Binding, Pcs, Complete, Grounded, AllEvidenced
  <1>12. CASE UNCHANGED vars
    BY <1>12 DEF vars, GateInv, StageInv, Binding, Complete, Grounded, AllEvidenced,
                 PredicatesTaken, JoinsTaken
  <1> QED
    BY <1>1, <1>2, <1>3, <1>4, <1>5, <1>6, <1>7, <1>8, <1>9, <1>10, <1>11, <1>12 DEF Next

LEMMA GateInvariant == Spec => []GateInv
  <1> QED  BY InitGate, NextKeepsInv, PTL DEF Spec

\* SQL is promoted only from a plan that is the whole frame, each piece of it
\* backed by the graph, and that met no objection, however long the frame:
\* runtime_bound_query_plan_from_trace stops at the first piece it cannot bind
\* and final_sql_allowed asks for a valid plan.
THEOREM PromotedIsGrounded == Spec => []OnlyGroundedSql
  <1>1. GateInv => OnlyGroundedSql
    BY DEF GateInv, OnlyGroundedSql, Complete
  <1> QED  BY <1>1, GateInvariant, PTL
===============================================================================
