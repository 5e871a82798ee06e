--------------------------- MODULE GateReportProofs ---------------------------
(***************************************************************************)
(* What the decision report of a question promises, for frames of any      *)
(* length: that an executable plan leaves no slot unresolved, to whom each *)
(* slot is handed, and that what blocked the plan is listed.               *)
(*                                                                         *)
(* A report is made once, from the frame and the plan.  The properties     *)
(* need more of these two than the gate does: which reasons a frame can    *)
(* have, that a bound plan has its projections, and that a plan refused    *)
(* for want of evidence holds the predicate that has none.                 *)
(***************************************************************************)
EXTENDS DecisionGateProofs, FiniteSetTheorems

FrameShape(f) ==
  /\ f.reason # "missing_value_evidence"
  /\ f.routed => f.reason = "routed" /\ (f.many => f.joins # <<>>)

\* A predicate without evidence is in the plan.
Bare(p) ==
  \E i \in 1..Len(p.predicates) :
    i \in 1..Len(trace.predicates) /\ trace.predicates[i] \notin Evidenced

PlanShape ==
  /\ pc \in Binding \/ plan.valid => plan.projections = TRUE
  /\ plan.reason = "missing_value_evidence" => Bare(plan)

\* What holds of a question before it has a report.
ShapeInv ==
  /\ GateInv
  /\ FrameShape(trace) /\ PlanShape

---------------------------------------------------------------------------
(* Frames.                                                                 *)

Declines ==
  {"not_routed_no_graph", "not_routed_large_schema_grouped_metric_needs_typed_proposal",
   "not_routed_grouped_metric_topk_unresolved", "not_routed_complex_shape",
   "not_routed_no_predicates", "not_routed_too_many_predicates", "not_routed_graph_mapping",
   "not_routed_no_projection", "not_routed_ambiguous_physical_table_family",
   "not_routed_no_join_path", "not_routed_render_error"}

LEMMA DeclineReasons ==
  ASSUME NEW reason \in Declines PROVE reason # "missing_value_evidence"
  BY DEF Declines

LEMMA DeclinedShape == ASSUME NEW reason \in Declines PROVE FrameShape(Declined(reason))
  BY DeclineReasons DEF FrameShape, Declined, NoFrame

LEMMA PredicatesShape ==
  ASSUME NEW reason \in Declines, NEW preds
  PROVE  FrameShape([Declined(reason) EXCEPT !.predicates = preds])
  BY DeclineReasons DEF FrameShape, Declined, NoFrame

LEMMA FrameParts ==
  ASSUME NEW reason \in Declines, NEW p \in Pieces, NEW many \in BOOLEAN, NEW joins
  PROVE  FrameShape(Frame(reason, p, many, joins))
  BY DeclineReasons DEF FrameShape, Frame, Declined, NoFrame

LEMMA RenderedShape ==
  ASSUME NEW p \in Pieces, NEW many \in BOOLEAN, NEW b \in BOOLEAN, NEW joins \in JoinPaths(many)
  PROVE  FrameShape([Frame("routed", p, many, joins) EXCEPT !.routed = TRUE, !.readOnly = b])
  <1>1. many => joins # <<>>
    BY DEF JoinPaths
  <1> QED
    BY <1>1 DEF FrameShape, Frame, Declined, NoFrame

LEMMA RoutesLeaveShapes == ASSUME Route PROVE FrameShape(trace')
  <1>1. CASE RouteNothing
    <2>1. \E reason \in Declines : trace' = Declined(reason)
      BY ZenonT(60), <1>1 DEF RouteNothing, LeaveFrame, Declines
    <2> QED  BY <2>1, DeclinedShape
  <1>2. CASE RouteWithoutProjection
    <2>1. \/ \E reason \in Declines : trace' = Declined(reason)
          \/ \E reason \in Declines : \E preds :
               trace' = [Declined(reason) EXCEPT !.predicates = preds]
      BY ZenonT(60), <1>2 DEF RouteWithoutProjection, LeaveFrame, Declines
    <2> QED  BY Zenon, <2>1, DeclinedShape, PredicatesShape
  <1>3. CASE RouteWithProjection
    <2>1. \E p \in Pieces : \E many \in BOOLEAN : \E reason \in Declines : \E joins :
            trace' = Frame(reason, p, many, joins)
      BY ZenonT(60), <1>3 DEF RouteWithProjection, LeaveFrame, Declines
    <2> QED  BY Zenon, <2>1, FrameParts
  <1>4. CASE RouteRendered
    <2>1. PICK p \in Pieces, many \in BOOLEAN, b \in BOOLEAN :
            \E joins \in JoinPaths(many) :
              trace' = [Frame("routed", p, many, joins) EXCEPT !.routed = TRUE, !.readOnly = b]
      BY <1>4 DEF RouteRendered, LeaveFrame
    <2>2. PICK joins \in JoinPaths(many) :
            trace' = [Frame("routed", p, many, joins) EXCEPT !.routed = TRUE, !.readOnly = b]
      BY <2>1
    <2>3. FrameShape([Frame("routed", p, many, joins) EXCEPT !.routed = TRUE, !.readOnly = b])
      BY RenderedShape
    <2> QED  BY <2>2, <2>3
  <1> QED  BY <1>1, <1>2, <1>3, <1>4 DEF Route

---------------------------------------------------------------------------
(* Plans.                                                                  *)

\* Each step of the binder sets one field of the plan.
LEMMA PlanFields ==
  ASSUME NEW p, PlanOK(p), NEW value
  PROVE  /\ LET q == [p EXCEPT !.reason = value]
            IN q.reason = value /\ q.projections = p.projections /\ q.predicates = p.predicates
         /\ LET q == [p EXCEPT !.projections = value]
            IN q.projections = value
         /\ LET q == [p EXCEPT !.predicates = value]
            IN q.projections = p.projections
         /\ LET q == [p EXCEPT !.joins = value]
            IN q.projections = p.projections
         /\ LET q == [p EXCEPT !.valid = value]
            IN q.projections = p.projections
  <1>1. PICK v \in BOOLEAN, ps \in Seq(PredicateKinds), js \in Seq({TRUE}) :
          \E r, b : p = PlanOf(v, r, b, ps, js)
    BY DEF PlanOK
  <1>2. PICK r : \E b : p = PlanOf(v, r, b, ps, js)
    BY <1>1
  <1>3. PICK b : p = PlanOf(v, r, b, ps, js)
    BY <1>2
  <1>4. [p EXCEPT !.reason = value] = PlanOf(v, value, b, ps, js)
    BY <1>3 DEF PlanOf
  <1>5. [p EXCEPT !.projections = value] = PlanOf(v, r, value, ps, js)
    BY <1>3 DEF PlanOf
  <1>6. [p EXCEPT !.predicates = value] = PlanOf(v, r, b, value, js)
    BY <1>3 DEF PlanOf
  <1>7. [p EXCEPT !.joins = value] = PlanOf(v, r, b, ps, value)
    BY <1>3 DEF PlanOf
  <1>8. [p EXCEPT !.valid = value] = PlanOf(value, r, b, ps, js)
    BY <1>3 DEF PlanOf
  <1>9. p.projections = b /\ p.predicates = ps
    BY <1>3 DEF PlanOf
  <1>10. /\ PlanOf(v, value, b, ps, js).reason = value
         /\ PlanOf(v, value, b, ps, js).projections = b
         /\ PlanOf(v, value, b, ps, js).predicates = ps
         /\ PlanOf(v, r, value, ps, js).projections = value
         /\ PlanOf(v, r, b, value, js).projections = b
         /\ PlanOf(v, r, b, ps, value).projections = b
         /\ PlanOf(value, r, b, ps, js).projections = b
    BY DEF PlanOf
  <1> HIDE DEF PlanOf
  <1> QED
    BY <1>4, <1>5, <1>6, <1>7, <1>8, <1>9, <1>10

LEMMA StopKeepsShape ==
  ASSUME PlanShape, NEW p, PlanOK(p), ~p.valid, NEW reason, Unbound(p, reason),
         reason = "missing_value_evidence" => Bare(p)
  PROVE  PlanShape'
  <1>1. pc' = "gate" /\ trace' = trace /\ plan' = [p EXCEPT !.reason = reason]
    BY DEF Unbound, Bind
  <1>2. ~plan'.valid
    BY <1>1, ReasonSet
  <1>3. plan'.reason = reason /\ plan'.predicates = p.predicates
    BY <1>1, PlanFields
  <1> QED
    BY <1>1, <1>2, <1>3 DEF PlanShape, Bare, Binding

LEMMA StartKeepsShape == ASSUME ShapeInv, BindStart PROVE PlanShape'
  <1>1. /\ pc = "start" /\ plan = NoPlan /\ PlanOK(plan) /\ FrameOK(trace) /\ PlanShape
        /\ trace.reason # "missing_value_evidence"
    BY DEF BindStart, ShapeInv, GateInv, StageInv, FrameShape
  <1>2. ~plan.valid /\ plan.reason = ""
    BY <1>1 DEF NoPlan
  <1> DEFINE p == [plan EXCEPT !.projections = TRUE]
  <1>3. PlanOK(p) /\ ~p.valid /\ p.reason = "" /\ p.projections = TRUE
    <2>1. \A c : LET q == [plan EXCEPT !.projections = c]
                 IN PlanOK(q) /\ q.valid = plan.valid /\ q.reason = plan.reason
      BY <1>1, ProjectionsSet
    <2>2. \A c : LET q == [plan EXCEPT !.projections = c] IN q.projections = c
      BY <1>1, PlanFields
    <2> QED  BY <1>2, <2>1, <2>2, Zenon
  <1>4. \/ \E reason : reason # "missing_value_evidence" /\ Unbound(plan, reason)
        \/ \E reason : reason # "missing_value_evidence" /\ Unbound(p, reason)
        \/ Bind("predicates", p)
    BY <1>1 DEF BindStart, FrameOK, Projections
  <1> HIDE DEF p
  <1>5. CASE \E reason : reason # "missing_value_evidence" /\ Unbound(plan, reason)
    BY <1>1, <1>2, <1>5, StopKeepsShape
  <1>6. CASE \E reason : reason # "missing_value_evidence" /\ Unbound(p, reason)
    BY <1>1, <1>3, <1>6, StopKeepsShape
  <1>7. CASE Bind("predicates", p)
    BY <1>3, <1>7 DEF Bind, PlanShape
  <1> QED  BY <1>4, <1>5, <1>6, <1>7

LEMMA PredicateKeepsShape == ASSUME ShapeInv, BindPredicate PROVE PlanShape'
  <1>1. /\ pc = "predicates" /\ PlanOK(plan) /\ ~plan.valid /\ plan.reason = ""
        /\ FrameOK(trace) /\ PredicatesTaken /\ PlanShape /\ plan.projections = TRUE
    BY DEF BindPredicate, ShapeInv, GateInv, StageInv, Binding, PlanShape
  <1>2. plan.predicates \in Seq(PredicateKinds) /\ trace.predicates \in Seq(PredicateKinds)
    BY <1>1, PlanParts DEF FrameOK
  <1>3. CASE Len(plan.predicates) = Len(trace.predicates)
    BY <1>1, <1>3 DEF BindPredicate, Bind, PlanShape
  <1>4. CASE Len(plan.predicates) # Len(trace.predicates)
    <2> DEFINE n == Len(plan.predicates)
               kind == trace.predicates[n + 1]
               grown == [plan EXCEPT !.predicates = Append(@, kind)]
    <2>1. n + 1 \in 1..Len(trace.predicates) /\ kind \in PredicateKinds
      <3>1. n <= Len(trace.predicates)
        BY <1>1 DEF PredicatesTaken
      <3>2. n \in Nat /\ Len(trace.predicates) \in Nat
        BY <1>2
      <3>3. n + 1 \in 1..Len(trace.predicates)
        BY <1>4, <3>1, <3>2
      <3> QED  BY <1>2, <3>3
    <2>2. /\ PlanOK(grown) /\ ~grown.valid /\ grown.reason = ""
          /\ grown.predicates = Append(plan.predicates, kind) /\ grown.projections = TRUE
      <3>1. Append(plan.predicates, kind) \in Seq(PredicateKinds)
        BY <1>2, <2>1
      <3>2. /\ PlanOK(grown) /\ ~grown.valid /\ grown.reason = ""
            /\ grown.predicates = Append(plan.predicates, kind)
        BY <1>1, <3>1, PredicatesSet
      <3>3. \A value : [plan EXCEPT !.predicates = value].projections = plan.projections
        <4>1. PlanOK(plan)
          BY <1>1
        <4>2. \A value : LET q == [plan EXCEPT !.predicates = value]
                         IN q.projections = plan.projections
          BY <4>1, PlanFields, Zenon
        <4> QED  BY <4>2, Zenon
      <3>4. grown.projections = TRUE
        BY <1>1, <3>3
      <3> QED  BY <3>2, <3>4
    <2>3. \/ \E reason : reason # "missing_value_evidence" /\ Unbound(plan, reason)
          \/ kind \notin Evidenced /\ Unbound(grown, "missing_value_evidence")
          \/ Bind("predicates", grown)
      BY <1>1, <1>4 DEF BindPredicate
    <2>4. CASE \E reason : reason # "missing_value_evidence" /\ Unbound(plan, reason)
      BY <1>1, <2>4, StopKeepsShape
    <2>5. CASE kind \notin Evidenced /\ Unbound(grown, "missing_value_evidence")
      <3>1. Len(Append(plan.predicates, kind)) = n + 1
        BY <1>2, <2>1
      <3> HIDE DEF grown
      <3>2. n + 1 \in 1..Len(grown.predicates)
        <4>1. Len(grown.predicates) = n + 1
          BY <2>2, <3>1
        <4>2. n \in Nat
          BY <1>2
        <4> QED  BY <4>1, <4>2
      <3>3. trace.predicates[n + 1] \notin Evidenced
        BY <2>5
      <3> HIDE DEF n, kind
      <3>4. Bare(grown)
        BY Zenon, <2>1, <3>2, <3>3 DEF Bare
      <3> QED  BY <1>1, <2>2, <2>5, <3>4, StopKeepsShape
    <2>6. CASE Bind("predicates", grown)
      <3> HIDE DEF grown
      <3> QED  BY <2>2, <2>6 DEF Bind, PlanShape
    <2> QED  BY <2>3, <2>4, <2>5, <2>6
  <1> QED  BY <1>3, <1>4

LEMMA JoinKeepsShape == ASSUME ShapeInv, BindJoin PROVE PlanShape'
  <1>1. /\ pc = "joins" /\ PlanOK(plan) /\ ~plan.valid /\ plan.reason = ""
        /\ PlanShape /\ plan.projections = TRUE
    BY DEF BindJoin, ShapeInv, GateInv, StageInv, Binding, PlanShape
  <1> DEFINE grown == [plan EXCEPT !.joins = Append(@, TRUE)]
  <1>2. /\ ~grown.valid /\ grown.reason = "" /\ grown.projections = TRUE
    <2> DEFINE yes == Append(plan.joins, TRUE)
    <2>1. yes \in Seq({TRUE})
      <3>1. plan.joins \in Seq({TRUE})
        BY <1>1, PlanParts
      <3> QED  BY <3>1
    <2> HIDE DEF yes
    <2>2. LET q == [plan EXCEPT !.joins = yes] IN ~q.valid /\ q.reason = ""
      BY <1>1, <2>1, JoinsSet
    <2>3. [plan EXCEPT !.joins = yes].projections = plan.projections
      <3>1. PlanOK(plan)
        BY <1>1
      <3>2. \A value : LET q == [plan EXCEPT !.joins = value] IN q.projections = plan.projections
        BY <3>1, PlanFields, Zenon
      <3> QED  BY <3>2, Zenon
    <2>4. [plan EXCEPT !.joins = yes].projections = TRUE
      BY <1>1, <2>3
    <2> QED  BY <2>2, <2>4 DEF yes
  <1>3. \/ \E reason : reason # "missing_value_evidence" /\ Unbound(plan, reason)
        \/ Bind("joins", grown)
        \/ Bind("order", plan)
    BY <1>1 DEF BindJoin
  <1> HIDE DEF grown
  <1>4. CASE \E reason : reason # "missing_value_evidence" /\ Unbound(plan, reason)
    BY <1>1, <1>4, StopKeepsShape
  <1>5. CASE Bind("joins", grown) \/ Bind("order", plan)
    BY <1>1, <1>2, <1>5 DEF Bind, PlanShape
  <1> QED  BY <1>3, <1>4, <1>5

LEMMA OrderKeepsShape == ASSUME ShapeInv, BindOrder PROVE PlanShape'
  <1>1. /\ pc = "order" /\ PlanOK(plan) /\ ~plan.valid /\ plan.reason = ""
        /\ PlanShape /\ plan.projections = TRUE
    BY DEF BindOrder, ShapeInv, GateInv, StageInv, Binding, PlanShape
  <1>2. \/ \E reason : reason # "missing_value_evidence" /\ Unbound(plan, reason)
        \/ Bind("objections", plan)
    BY DEF BindOrder
  <1>3. CASE \E reason : reason # "missing_value_evidence" /\ Unbound(plan, reason)
    BY <1>1, <1>3, StopKeepsShape
  <1>4. CASE Bind("objections", plan)
    BY <1>1, <1>4 DEF Bind, PlanShape
  <1> QED  BY <1>2, <1>3, <1>4

LEMMA ObjectKeepsShape == ASSUME ShapeInv, Object PROVE PlanShape'
  <1>1. PlanOK(plan) /\ ~plan.valid /\ PlanShape
    BY DEF Object, ShapeInv, GateInv, StageInv, Binding
  <1>2. PICK reason \in Objections : Unbound(plan, reason)
    BY DEF Object
  <1>3. reason # "missing_value_evidence"
    BY DEF Objections
  <1> QED  BY <1>1, <1>2, <1>3, StopKeepsShape

LEMMA AcceptKeepsShape == ASSUME ShapeInv, Accept PROVE PlanShape'
  <1>1. PlanOK(plan) /\ plan.reason = "" /\ plan.projections = TRUE
    BY DEF Accept, ShapeInv, GateInv, StageInv, Binding, PlanShape
  <1>2. plan' = [plan EXCEPT !.valid = TRUE]
    BY DEF Accept, Bind
  <1>3. plan'.reason = "" /\ plan'.projections = TRUE
    <2>1. \A c \in BOOLEAN : [plan EXCEPT !.valid = c].reason = ""
      BY <1>1, ValidSet
    <2>2. \A c : [plan EXCEPT !.valid = c].projections = plan.projections
      <3>1. PlanOK(plan)
        BY <1>1
      <3>2. \A c : LET q == [plan EXCEPT !.valid = c] IN q.projections = plan.projections
        BY <3>1, PlanFields, Zenon
      <3> QED  BY <3>2, Zenon
    <2>3. [plan EXCEPT !.valid = TRUE].reason = ""
      BY <2>1, Zenon
    <2>4. [plan EXCEPT !.valid = TRUE].projections = plan.projections
      BY <2>2, Zenon
    <2> QED  BY <1>1, <1>2, <2>3, <2>4, Zenon
  <1> QED  BY <1>3 DEF PlanShape

LEMMA NoPlanShape == NoPlan.valid = FALSE /\ NoPlan.reason = ""
  BY DEF NoPlan

LEMMA InitShape == Init => ShapeInv
  <1>1. Init => FrameShape(trace)
    BY DEF Init, FrameShape, NoFrame
  <1>2. Init => PlanShape
    BY NoPlanShape DEF Init, PlanShape, Binding
  <1> QED  BY <1>1, <1>2, InitGate DEF ShapeInv

\* After the binder the frame and the plan stay.
LEMMA BoundStays ==
  ASSUME PlanShape, UNCHANGED <<trace, plan>>, pc' \notin Binding PROVE PlanShape'
  BY DEF PlanShape, Bare

LEMMA NextKeepsShape == ShapeInv /\ [Next]_vars => ShapeInv'
  <1> SUFFICES ASSUME ShapeInv, [Next]_vars PROVE ShapeInv'
    OBVIOUS
  <1>0. GateInv' /\ GateInv /\ PlanShape /\ FrameShape(trace)
    BY NextKeepsInv DEF ShapeInv
  <1>1. CASE PreResolve \/ RefuseEarly \/ NeedModel
    <2>1. pc' \in {"done", "route"} /\ UNCHANGED <<trace, plan>>
      BY <1>1 DEF PreResolve, RefuseEarly, NeedModel
    <2> QED  BY <1>0, <2>1, BoundStays DEF ShapeInv, Binding
  <1>2. CASE Route
    <2>1. pc = "route" /\ pc' = "start" /\ plan' = plan
      BY <1>2 DEF Route, RouteNothing, RouteWithoutProjection, RouteWithProjection,
                  RouteRendered, LeaveFrame
    <2>2. plan' = NoPlan
      BY <1>0, <2>1 DEF GateInv, StageInv
    <2>3. PlanShape'
      BY <2>1, <2>2, NoPlanShape DEF PlanShape, Binding
    <2> QED  BY <1>0, <1>2, <2>3, RoutesLeaveShapes DEF ShapeInv
  <1>3. CASE BindStart \/ BindPredicate \/ BindJoin \/ BindOrder \/ Object \/ Accept
    <2>1. trace' = trace
      BY <1>3 DEF BindStart, BindPredicate, BindJoin, BindOrder, Object, Accept, Unbound, Bind
    <2>2. PlanShape'
      BY <1>3, StartKeepsShape, PredicateKeepsShape, JoinKeepsShape, OrderKeepsShape,
         ObjectKeepsShape, AcceptKeepsShape
    <2> QED  BY <1>0, <2>1, <2>2 DEF ShapeInv
  <1>4. CASE Promote \/ FailClosed \/ ModelStages \/ Decide
    <2>1. pc' \in {"decide", "done"} /\ UNCHANGED <<trace, plan>>
      BY <1>4 DEF Promote, FailClosed, ModelStages, Conclude, Decide
    <2> QED  BY <1>0, <2>1, BoundStays DEF ShapeInv, Binding
  <1>5. CASE UNCHANGED vars
    BY <1>0, <1>5 DEF vars, ShapeInv, PlanShape, Bare
  <1> QED  BY <1>1, <1>2, <1>3, <1>4, <1>5 DEF Next

---------------------------------------------------------------------------
(* The report.                                                             *)

\* A property of the report holds for good if it holds of none, of the one
\* the pre-resolver gives and of the one that is decided.
ReportStays == pc # "done" => report = NoReport

LEMMA NextKeepsReport == ReportStays /\ [Next]_vars => ReportStays'
  <1> SUFFICES ASSUME ReportStays, [Next]_vars PROVE ReportStays'
    OBVIOUS
  <1>1. CASE PreResolve \/ Decide
    BY <1>1 DEF PreResolve, Decide, ReportStays
  <1>2. CASE RefuseEarly \/ NeedModel
    BY <1>2 DEF RefuseEarly, NeedModel, ReportStays
  <1>3. CASE Route
    BY <1>3 DEF Route, RouteNothing, RouteWithoutProjection, RouteWithProjection,
                RouteRendered, LeaveFrame, ReportStays
  <1>4. CASE BindStart \/ BindPredicate \/ BindJoin \/ BindOrder \/ Object \/ Accept
    <2>1. pc # "done" /\ report' = report
      BY <1>4 DEF BindStart, BindPredicate, BindJoin, BindOrder, Object, Accept, Unbound, Bind
    <2> QED  BY <2>1 DEF ReportStays
  <1>5. CASE Promote \/ FailClosed \/ ModelStages
    BY <1>5 DEF Promote, FailClosed, ModelStages, Conclude, ReportStays
  <1>6. CASE UNCHANGED vars
    BY <1>6 DEF vars, ReportStays
  <1> QED  BY <1>1, <1>2, <1>3, <1>4, <1>5, <1>6 DEF Next

\* Who makes a report.
LEMMA ReportSteps ==
  ASSUME ReportStays, [Next]_vars, ~PreResolve, ~Decide
  PROVE  report' = report /\ (report = NoReport \/ UNCHANGED vars)
  <1>1. CASE RefuseEarly \/ NeedModel
    BY <1>1 DEF RefuseEarly, NeedModel, ReportStays
  <1>2. CASE Route
    BY <1>2 DEF Route, RouteNothing, RouteWithoutProjection, RouteWithProjection,
                RouteRendered, LeaveFrame, ReportStays
  <1>3. CASE BindStart \/ BindPredicate \/ BindJoin \/ BindOrder \/ Object \/ Accept
    <2>1. pc # "done" /\ report' = report
      BY <1>3 DEF BindStart, BindPredicate, BindJoin, BindOrder, Object, Accept, Unbound, Bind
    <2> QED  BY <2>1 DEF ReportStays
  <1>4. CASE Promote \/ FailClosed \/ ModelStages
    BY <1>4 DEF Promote, FailClosed, ModelStages, Conclude, ReportStays
  <1>5. CASE UNCHANGED vars
    BY <1>5 DEF vars
  <1> QED  BY <1>1, <1>2, <1>3, <1>4, <1>5 DEF Next

LEMMA SlotParts ==
  ASSUME NEW n, NEW score, NEW strength
  PROVE  /\ Slot(n, score, strength).slot = n
         /\ Slot(n, score, strength).strength = score
         /\ Slot(n, score, strength).handoff = Handoff(EffectiveReason, Overall(strength))
         /\ Slot(n, score, strength).candidates = Candidates(n)
  BY DEF Slot

Weak(strength) == {n \in SlotNames : strength[n] < 70}

LEMMA WeakNames == ASSUME NEW strength PROVE Named(WeakSlots(strength)) = Weak(strength)
  BY SlotParts DEF Named, WeakSlots, Weak

\* Every unresolved slot is a weak one or a forced one, never both.
LEMMA UnresolvedSlots ==
  ASSUME NEW strength, NEW s \in Unresolved(strength)
  PROVE  \/ \E n \in Weak(strength) : s = Slot(n, strength[n], strength)
         \/ \E n \in ForcedSlots(EffectiveReason) \ Weak(strength) : s = Slot(n, 25, strength)
  BY Zenon, WeakNames DEF Unresolved, WeakSlots, Weak

LEMMA UnresolvedNames ==
  ASSUME NEW strength
  PROVE  Named(Unresolved(strength)) = Weak(strength) \cup ForcedSlots(EffectiveReason)
  <1>1. ASSUME NEW n \in Weak(strength) \cup ForcedSlots(EffectiveReason)
        PROVE  n \in Named(Unresolved(strength))
    <2>1. CASE n \in Weak(strength)
      <3>1. Slot(n, strength[n], strength) \in Unresolved(strength)
        BY Zenon, <2>1 DEF Unresolved, WeakSlots, Weak
      <3> QED  BY <3>1, SlotParts DEF Named
    <2>2. CASE n \notin Weak(strength)
      <3>1. Slot(n, 25, strength) \in Unresolved(strength)
        BY Zenon, <2>2, WeakNames DEF Unresolved
      <3> QED  BY <3>1, SlotParts DEF Named
    <2> QED  BY <2>1, <2>2
  <1>2. ASSUME NEW n \in Named(Unresolved(strength))
        PROVE  n \in Weak(strength) \cup ForcedSlots(EffectiveReason)
    <2>1. PICK s \in Unresolved(strength) : n = s.slot
      BY DEF Named
    <2> QED  BY <2>1, UnresolvedSlots, SlotParts
  <1> QED  BY <1>1, <1>2

LEMMA Decided ==
  ASSUME Decide
  PROVE  /\ report'.decision = DecisionOf(EffectiveReason, Overall(Strength))
         /\ report'.reason = IF plan.valid THEN "bound_plan_valid" ELSE EffectiveReason
         /\ report'.slots = Unresolved(Strength)
         /\ pc = "decide" /\ UNCHANGED <<trace, plan>>
  BY DEF Decide

---------------------------------------------------------------------------
(* Who is asked.                                                           *)

LEMMA Consistent ==
  ASSUME NEW reason, NEW overall
  PROVE  /\ DecisionOf(reason, overall) = "ask_user" => Handoff(reason, overall) = "user"
         /\ DecisionOf(reason, overall) = "ask_llm" => Handoff(reason, overall) = "llm"
  <1>1. reason \in UserReasons => reason \notin ModelReasons /\ reason \notin HardRejects
    BY DEF UserReasons, ModelReasons, HardRejects
  <1>2. DecisionOf(reason, overall) = "ask_user" =>
          reason \notin HardRejects /\ ~PrefersModel(reason, overall)
    BY <1>1 DEF DecisionOf, PrefersModel
  <1>3. DecisionOf(reason, overall) = "ask_llm" =>
          reason \notin HardRejects /\ PrefersModel(reason, overall)
    BY DEF DecisionOf
  <1> QED
    BY <1>2, <1>3 DEF Handoff

LEMMA NoReportParts ==
  NoReport.decision = "none" /\ NoReport.reason = "" /\ NoReport.slots = {}
  BY DEF NoReport

LEMMA DecideHandsOff == ASSUME Decide PROVE HandoffFollowsDecision'
  <1>1. ASSUME NEW s \in report'.slots
        PROVE  s.handoff = Handoff(EffectiveReason, Overall(Strength))
    <2>1. s \in Unresolved(Strength)
      BY Decided
    <2> QED  BY <2>1, UnresolvedSlots, SlotParts
  <1> QED
    BY <1>1, Decided, Consistent DEF HandoffFollowsDecision

\* decide_resolution and the slots' handoff classify the reason apart from
\* each other, and never turn to different parties.
THEOREM HandoffIsTheDecisions == Spec => []HandoffFollowsDecision
  <1>1. Init => ReportStays /\ HandoffFollowsDecision
    BY NoReportParts DEF Init, ReportStays, HandoffFollowsDecision
  <1>2. ReportStays /\ HandoffFollowsDecision /\ [Next]_vars => (ReportStays /\ HandoffFollowsDecision)'
    <2> SUFFICES ASSUME ReportStays, HandoffFollowsDecision, [Next]_vars
                 PROVE  HandoffFollowsDecision'
      BY NextKeepsReport
    <2>1. CASE PreResolve
      BY <2>1 DEF PreResolve, HandoffFollowsDecision
    <2>2. CASE Decide
      BY <2>2, DecideHandsOff
    <2>3. CASE ~PreResolve /\ ~Decide
      BY <2>3, ReportSteps DEF HandoffFollowsDecision
    <2> QED  BY <2>1, <2>2, <2>3
  <1> QED  BY <1>1, <1>2, PTL DEF Spec
---------------------------------------------------------------------------
(* What an executable plan leaves, and what a refused one offers.          *)

LEMMA ShapeInvariant == Spec => []ShapeInv
  BY InitShape, NextKeepsShape, PTL DEF Spec

LEMMA ValidFilter == ASSUME ShapeInv, plan.valid PROVE FilterStrength = 100
  <1>1. /\ plan.reason = "" /\ plan.predicates = trace.predicates
        /\ AllEvidenced(trace.predicates)
    BY DEF ShapeInv, GateInv, Complete, Grounded
  <1> QED  BY <1>1 DEF FilterStrength

LEMMA ValidDates == ASSUME ShapeInv, plan.valid
  PROVE  \A i \in TimeWindows : trace.predicates[i] = "date"
  <1>1. AllEvidenced(trace.predicates) /\ trace.routed
    BY DEF ShapeInv, GateInv, Complete, Grounded
  <1> QED  BY <1>1 DEF TimeWindows, AllEvidenced, DateLike, Evidenced

LEMMA ValidStrength ==
  ASSUME ShapeInv, plan.valid, NEW n \in SlotNames PROVE Strength[n] = 100
  <1>1. /\ plan.reason = "" /\ plan.joins = trace.joins /\ plan.projections = TRUE
        /\ trace.projection = "backed" /\ trace.routed
        /\ trace.reason = "routed" /\ (trace.many => trace.joins # <<>>)
    BY DEF ShapeInv, GateInv, Complete, Grounded, PlanShape, FrameShape
  <1>2. plan.reason \notin DateTexts
    BY <1>1 DEF DateTexts
  <1>3. \/ TimeWindows = {} /\ plan.reason \notin DateTexts
        \/ TimeWindows # {} /\ \A i \in TimeWindows : trace.predicates[i] = "date"
    BY <1>2, ValidDates
  <1>4. CASE n = "subject"
    BY <1>1, <1>4 DEF Strength, SlotNames
  <1>5. CASE n = "projection"
    BY <1>1, <1>5 DEF Strength, SlotNames
  <1>6. CASE n = "filter_value"
    BY <1>6, ValidFilter DEF Strength, SlotNames
  <1>7. CASE n = "join_path"
    BY <1>1, <1>7 DEF Strength, SlotNames
  <1>8. CASE n = "metric"
    BY <1>8 DEF Strength, SlotNames
  <1>9. CASE n = "date_time"
    BY <1>3, <1>9 DEF Strength, SlotNames
  <1>10. CASE n = "table_family"
    BY <1>1, <1>10 DEF Strength, SlotNames
  <1>11. CASE n = "result_shape"
    BY <1>11 DEF Strength, SlotNames
  <1> QED
    BY <1>4, <1>5, <1>6, <1>7, <1>8, <1>9, <1>10, <1>11 DEF SlotNames

LEMMA ValidReason ==
  ASSUME ShapeInv, plan.valid PROVE ForcedSlots(EffectiveReason) = {}
  <1>1. plan.reason = "" /\ trace.reason = "routed"
    BY DEF ShapeInv, GateInv, Complete, Grounded, FrameShape
  <1>2. EffectiveReason = "routed"
    BY <1>1 DEF EffectiveReason
  <1> QED  BY <1>2 DEF ForcedSlots

LEMMA DecideExecutes == ASSUME ShapeInv, Decide PROVE ExecuteLeavesNothingUnresolved'
  <1> SUFFICES ASSUME report'.decision = "execute" PROVE report'.slots = {}
    BY DEF ExecuteLeavesNothingUnresolved
  <1>1. plan.valid
    BY Decided DEF DecisionOf
  <1>2. Weak(Strength) = {}
    <2>1. \A n \in SlotNames : ~(Strength[n] < 70)
      BY <1>1, ValidStrength
    <2> QED  BY <2>1 DEF Weak
  <1>3. Unresolved(Strength) = {}
    BY <1>1, <1>2, ValidReason, UnresolvedSlots
  <1> QED  BY <1>3, Decided

\* The plan and the report come to it apart: a valid plan has every strength
\* at 100 and a reason that is about no slot, for frames of any length.
THEOREM ExecutableIsResolved == Spec => []ExecuteLeavesNothingUnresolved
  <1>1. Init => ReportStays /\ ExecuteLeavesNothingUnresolved
    BY NoReportParts DEF Init, ReportStays, ExecuteLeavesNothingUnresolved
  <1>2. ShapeInv /\ ReportStays /\ ExecuteLeavesNothingUnresolved /\ [Next]_vars
          => (ReportStays /\ ExecuteLeavesNothingUnresolved)'
    <2> SUFFICES ASSUME ShapeInv, ReportStays, ExecuteLeavesNothingUnresolved, [Next]_vars
                 PROVE  ExecuteLeavesNothingUnresolved'
      BY NextKeepsReport
    <2>1. CASE PreResolve
      BY <2>1 DEF PreResolve, ExecuteLeavesNothingUnresolved
    <2>2. CASE Decide
      BY <2>2, DecideExecutes
    <2>3. CASE ~PreResolve /\ ~Decide
      BY <2>3, ReportSteps DEF ExecuteLeavesNothingUnresolved
    <2> QED  BY <2>1, <2>2, <2>3
  <1> QED  BY <1>1, <1>2, ShapeInvariant, PTL DEF Spec

LEMMA EvidenceReason ==
  ASSUME FrameShape(trace), EffectiveReason = "missing_value_evidence"
  PROVE  plan.reason = "missing_value_evidence"
  <1>1. trace.reason # "missing_value_evidence"
    BY DEF FrameShape
  <1> QED  BY <1>1 DEF EffectiveReason

LEMMA DecideOffers == ASSUME ShapeInv, Decide PROVE MissingEvidenceIsOffered'
  <1> SUFFICES ASSUME report'.reason = "missing_value_evidence"
               PROVE  \E s \in report'.slots, i \in 1..Len(trace.predicates) :
                        /\ s.slot = "filter_value" /\ <<"predicate", i>> \in s.candidates
                        /\ trace.predicates[i] \notin Evidenced
    BY Decided DEF MissingEvidenceIsOffered
  <1>1. EffectiveReason = "missing_value_evidence"
    BY Decided
  <1>2. Bare(plan)
    BY <1>1, EvidenceReason DEF ShapeInv, PlanShape
  <1>3. PICK i \in 1..Len(plan.predicates) :
          i \in 1..Len(trace.predicates) /\ trace.predicates[i] \notin Evidenced
    BY <1>2 DEF Bare
  <1>4. "filter_value" \in Named(Unresolved(Strength))
    BY <1>1, UnresolvedNames DEF ForcedSlots
  <1>5. PICK s \in Unresolved(Strength) : s.slot = "filter_value"
    BY <1>4 DEF Named
  <1>6. s.candidates = Candidates("filter_value")
    BY <1>5, UnresolvedSlots, SlotParts
  <1>7. plan.predicates # <<>>
    <2>1. Len(<<>>) = 0
      OBVIOUS
    <2> QED  BY <1>3, <2>1
  <1>8. <<"predicate", i>> \in Candidates("filter_value")
    BY <1>3, <1>7 DEF Candidates
  <1> QED  BY <1>3, <1>5, <1>6, <1>8, Decided

\* The binder records the predicate it refuses before it gives up, so the
\* packet can offer it, at whatever place of the frame it stood.
THEOREM RefusedValueIsOffered == Spec => []MissingEvidenceIsOffered
  <1>1. Init => ReportStays /\ MissingEvidenceIsOffered
    BY NoReportParts DEF Init, ReportStays, MissingEvidenceIsOffered
  <1>2. ShapeInv /\ ReportStays /\ MissingEvidenceIsOffered /\ [Next]_vars
          => (ReportStays /\ MissingEvidenceIsOffered)'
    <2> SUFFICES ASSUME ShapeInv, ReportStays, MissingEvidenceIsOffered, [Next]_vars
                 PROVE  MissingEvidenceIsOffered'
      BY NextKeepsReport
    <2>1. CASE PreResolve
      BY <2>1 DEF PreResolve, MissingEvidenceIsOffered
    <2>2. CASE Decide
      BY <2>2, DecideOffers
    <2>3. CASE ~PreResolve /\ ~Decide
      BY <2>3, ReportSteps, NoReportParts DEF MissingEvidenceIsOffered, vars
    <2> QED  BY <2>1, <2>2, <2>3
  <1> QED  BY <1>1, <1>2, ShapeInvariant, PTL DEF Spec

---------------------------------------------------------------------------
(* What blocked the plan.                                                  *)

LEMMA OneSlotPerName ==
  ASSUME NEW strength
  PROVE  Cardinality(Named(Unresolved(strength))) = Cardinality(Unresolved(strength))
  <1> DEFINE U == Unresolved(strength)
             slotOf == [n \in Named(U) |-> CHOOSE s \in U : s.slot = n]
  <1>1. ASSUME NEW s \in U, NEW t \in U, s.slot = t.slot PROVE s = t
    BY <1>1, UnresolvedSlots, SlotParts
  <1>2. \A s \in U : s.slot \in Named(U) /\ slotOf[s.slot] = s
    BY <1>1 DEF Named
  <1>3. \A n \in Named(U) : slotOf[n] \in U /\ slotOf[n].slot = n
    BY DEF Named
  <1>4. IsFiniteSet(Named(U))
    <2>1. Named(U) \subseteq SlotNames \cup {"order_field"}
      BY UnresolvedNames DEF Weak, ForcedSlots, SlotNames
    <2>2. IsFiniteSet(SlotNames \cup {"order_field"})
      <3>1. IsFiniteSet({"subject", "projection", "filter_value", "join_path", "metric",
                         "date_time", "table_family", "result_shape"})
        <4>1. IsFiniteSet({})
          BY FS_EmptySet
        <4> HIDE DEF slotOf, U
        <4>2. \A S, x : IsFiniteSet(S) => IsFiniteSet(S \cup {x})
          BY FS_AddElement
        <4>3. IsFiniteSet((((((((({} \cup {"subject"}) \cup {"projection"})
                \cup {"filter_value"}) \cup {"join_path"}) \cup {"metric"})
                \cup {"date_time"}) \cup {"table_family"}) \cup {"result_shape"}))
          BY Zenon, <4>1, <4>2
        <4>4. (((((((({} \cup {"subject"}) \cup {"projection"})
                \cup {"filter_value"}) \cup {"join_path"}) \cup {"metric"})
                \cup {"date_time"}) \cup {"table_family"}) \cup {"result_shape"})
              = {"subject", "projection", "filter_value", "join_path", "metric",
                 "date_time", "table_family", "result_shape"}
          OBVIOUS
        <4> QED  BY <4>3, <4>4, Zenon
      <3> QED  BY <3>1, FS_AddElement DEF SlotNames
    <2> QED  BY <2>1, <2>2, FS_Subset
  <1>5. slotOf \in Bijection(Named(U), U)
    <2>1. slotOf \in [Named(U) -> U]
      BY <1>3
    <2> HIDE DEF slotOf, U
    <2>2. \A m, n \in Named(U) : slotOf[m] = slotOf[n] => m = n
      BY <1>3
    <2>3. \A s \in U : \E n \in Named(U) : slotOf[n] = s
      BY <1>2
    <2> QED  BY <2>1, <2>2, <2>3 DEF Bijection, Injection, Surjection, IsInjective
  <1> HIDE DEF slotOf, U
  <1>6. Cardinality(Named(U)) = Cardinality(U)
    BY <1>4, <1>5, FS_Bijection DEF ExistsBijection
  <1> QED  BY <1>6 DEF U

LEMMA DecideLists == ASSUME Decide PROVE ReasonHasItsSlot'
  <1>1. ForcedSlots(report'.reason) \subseteq Named(report'.slots)
    <2>1. CASE plan.valid
      BY <2>1, Decided DEF ForcedSlots
    <2>2. CASE ~plan.valid
      BY <2>2, Decided, UnresolvedNames
    <2> QED  BY <2>1, <2>2
  <1> QED  BY <1>1, Decided, OneSlotPerName DEF ReasonHasItsSlot

\* A forced slot is added only when the weak ones do not have it, so that the
\* list has each slot once and always the one the reason is about.
THEOREM ReasonIsListed == Spec => []ReasonHasItsSlot
  <1>1. Init => ReportStays /\ ReasonHasItsSlot
    BY DEF Init, ReportStays, ReasonHasItsSlot
  <1>2. ReportStays /\ ReasonHasItsSlot /\ [Next]_vars => (ReportStays /\ ReasonHasItsSlot)'
    <2> SUFFICES ASSUME ReportStays, ReasonHasItsSlot, [Next]_vars PROVE ReasonHasItsSlot'
      BY NextKeepsReport
    <2>1. CASE PreResolve
      <3>1. report'.slots = {} /\ ForcedSlots(report'.reason) = {}
        BY <2>1 DEF PreResolve, ForcedSlots
      <3> QED  BY <3>1 DEF ReasonHasItsSlot, Named
    <2>2. CASE Decide
      BY <2>2, DecideLists
    <2>3. CASE ~PreResolve /\ ~Decide
      <3>1. CASE UNCHANGED vars
        BY <3>1 DEF vars, ReasonHasItsSlot
      <3>2. CASE report' = NoReport
        <4>1. report'.slots = {} /\ ForcedSlots(report'.reason) = {}
          BY <3>2, NoReportParts DEF ForcedSlots
        <4> QED  BY <4>1 DEF ReasonHasItsSlot, Named
      <3> QED  BY <2>3, <3>1, <3>2, ReportSteps
    <2> QED  BY <2>1, <2>2, <2>3
  <1> QED  BY <1>1, <1>2, PTL DEF Spec
---------------------------------------------------------------------------
(* Types.                                                                  *)

FlagsOK ==
  /\ trace.many \in BOOLEAN /\ trace.measured \in BOOLEAN
  /\ plan.projections \in BOOLEAN

\* What holds beside GateInv of a question before it has a report.
SetupOK ==
  /\ atlas \in Atlases /\ codebook \in BOOLEAN /\ outcome \in Outcomes
  /\ FlagsOK

FrameFlags(f) == f.many \in BOOLEAN /\ f.measured \in BOOLEAN

LEMMA DeclinedFlags == ASSUME NEW reason PROVE FrameFlags(Declined(reason))
  BY DEF FrameFlags, Declined, NoFrame

LEMMA PredicatesFlags ==
  ASSUME NEW reason, NEW preds PROVE FrameFlags([Declined(reason) EXCEPT !.predicates = preds])
  BY DEF FrameFlags, Declined, NoFrame

LEMMA FramesFlags ==
  ASSUME NEW reason, NEW p \in Pieces, NEW many \in BOOLEAN, NEW joins
  PROVE  /\ FrameFlags(Frame(reason, p, many, joins))
         /\ \A b : FrameFlags([Frame(reason, p, many, joins) EXCEPT !.routed = TRUE, !.readOnly = b])
  <1>1. p.measured \in BOOLEAN
    BY DEF Pieces
  <1> QED  BY <1>1 DEF FrameFlags, Frame, Declined, NoFrame

LEMMA RoutesLeaveFlags == ASSUME Route PROVE FrameFlags(trace')
  <1>1. CASE RouteNothing
    BY <1>1, DeclinedFlags DEF RouteNothing, LeaveFrame
  <1>2. CASE RouteWithoutProjection
    <2>1. \/ \E reason : trace' = Declined(reason)
          \/ \E reason : \E preds : trace' = [Declined(reason) EXCEPT !.predicates = preds]
      BY ZenonT(60), <1>2 DEF RouteWithoutProjection, LeaveFrame
    <2> QED  BY <2>1, DeclinedFlags, PredicatesFlags
  <1>3. CASE RouteWithProjection
    <2>1. \E p \in Pieces : \E many \in BOOLEAN : \E reason : \E joins :
            trace' = Frame(reason, p, many, joins)
      BY ZenonT(60), <1>3 DEF RouteWithProjection, LeaveFrame
    <2>2. PICK p \in Pieces, many \in BOOLEAN : \E reason : \E joins :
            trace' = Frame(reason, p, many, joins)
      BY <2>1
    <2>3. PICK reason, joins : trace' = Frame(reason, p, many, joins)
      BY <2>2
    <2>4. FrameFlags(Frame(reason, p, many, joins))
      BY FramesFlags
    <2> QED  BY <2>3, <2>4
  <1>4. CASE RouteRendered
    <2>1. \E p \in Pieces : \E many \in BOOLEAN : \E b : \E joins :
            trace' = [Frame("routed", p, many, joins) EXCEPT !.routed = TRUE, !.readOnly = b]
      BY ZenonT(60), <1>4 DEF RouteRendered, LeaveFrame
    <2>2. PICK p \in Pieces, many \in BOOLEAN : \E b : \E joins :
            trace' = [Frame("routed", p, many, joins) EXCEPT !.routed = TRUE, !.readOnly = b]
      BY <2>1
    <2>3. PICK b, joins :
            trace' = [Frame("routed", p, many, joins) EXCEPT !.routed = TRUE, !.readOnly = b]
      BY <2>2
    <2>4. FrameFlags([Frame("routed", p, many, joins) EXCEPT !.routed = TRUE, !.readOnly = b])
      BY FramesFlags
    <2> QED  BY <2>3, <2>4
  <1> QED  BY <1>1, <1>2, <1>3, <1>4 DEF Route

\* A record with projections keeps them when another field is set.
HasProjections(p, b) == "projections" \in DOMAIN p /\ p.projections = b

LEMMA ProjectionsStay ==
  ASSUME NEW p, NEW b, HasProjections(p, b), NEW value
  PROVE  /\ HasProjections([p EXCEPT !.reason = value], b)
         /\ HasProjections([p EXCEPT !.predicates = value], b)
         /\ HasProjections([p EXCEPT !.joins = value], b)
         /\ HasProjections([p EXCEPT !.valid = value], b)
         /\ HasProjections([p EXCEPT !.projections = value], value)
  BY DEF HasProjections

LEMMA PlanHasThem == ASSUME NEW p, PlanOK(p) PROVE HasProjections(p, p.projections)
  BY DEF PlanOK, PlanOf, HasProjections

LEMMA BoundHasThem ==
  ASSUME NEW p, NEW b, HasProjections(p, b),
         \/ \E next : Bind(next, p)
         \/ \E reason : Unbound(p, reason)
  PROVE  plan'.projections = b
  <1>1. CASE \E next : Bind(next, p)
    BY <1>1 DEF Bind, HasProjections
  <1>2. CASE \E reason : Unbound(p, reason)
    <2>1. PICK reason : plan' = [p EXCEPT !.reason = reason]
      BY <1>2 DEF Unbound, Bind
    <2> QED  BY <2>1, ProjectionsStay DEF HasProjections
  <1> QED  BY <1>1, <1>2

LEMMA BinderProjections ==
  ASSUME PlanOK(plan), BindStart \/ BindPredicate \/ BindJoin \/ BindOrder \/ Object \/ Accept
  PROVE  plan'.projections \in {plan.projections, TRUE}
  <1> DEFINE b == plan.projections
  <1>0. HasProjections(plan, b)
    BY PlanHasThem
  <1> HIDE DEF b
  <1>1. CASE BindStart
    <2> DEFINE p == [plan EXCEPT !.projections = TRUE]
    <2>1. HasProjections(p, TRUE)
      BY <1>0, ProjectionsStay
    <2>2. \/ \E reason : Unbound(plan, reason)
          \/ \E reason : Unbound(p, reason)
          \/ Bind("predicates", p)
      BY <1>1 DEF BindStart
    <2> HIDE DEF p
    <2> QED  BY <1>0, <2>1, <2>2, BoundHasThem DEF b
  <1>2. CASE BindPredicate
    <2> DEFINE grown == [plan EXCEPT !.predicates =
                           Append(@, trace.predicates[Len(plan.predicates) + 1])]
    <2>1. HasProjections(grown, b)
      BY <1>0, ProjectionsStay
    <2>2. \/ \E reason : Unbound(plan, reason)
          \/ \E reason : Unbound(grown, reason)
          \/ \E next : Bind(next, grown)
          \/ \E next : Bind(next, plan)
      BY <1>2 DEF BindPredicate
    <2> HIDE DEF grown
    <2> QED  BY <1>0, <2>1, <2>2, BoundHasThem DEF b
  <1>3. CASE BindJoin
    <2> DEFINE grown == [plan EXCEPT !.joins = Append(@, TRUE)]
    <2>1. HasProjections(grown, b)
      BY <1>0, ProjectionsStay
    <2>2. \/ \E reason : Unbound(plan, reason)
          \/ \E next : Bind(next, grown)
          \/ \E next : Bind(next, plan)
      BY <1>3 DEF BindJoin
    <2> HIDE DEF grown
    <2> QED  BY <1>0, <2>1, <2>2, BoundHasThem DEF b
  <1>4. CASE BindOrder \/ Object
    <2>1. \/ \E reason : Unbound(plan, reason)
          \/ \E next : Bind(next, plan)
      BY <1>4 DEF BindOrder, Object
    <2> QED  BY <1>0, <2>1, BoundHasThem DEF b
  <1>5. CASE Accept
    <2> DEFINE p == [plan EXCEPT !.valid = TRUE]
    <2>1. HasProjections(p, b) /\ Bind("gate", p)
      BY <1>0, <1>5, ProjectionsStay DEF Accept
    <2> HIDE DEF p
    <2> QED  BY <2>1, BoundHasThem DEF b
  <1> QED  BY <1>1, <1>2, <1>3, <1>4, <1>5

LEMMA NextKeepsSetup == GateInv /\ SetupOK /\ [Next]_vars => SetupOK'
  <1> SUFFICES ASSUME GateInv, SetupOK, [Next]_vars PROVE SetupOK'
    OBVIOUS
  <1>1. CASE PreResolve \/ RefuseEarly \/ NeedModel
    BY <1>1 DEF PreResolve, RefuseEarly, NeedModel, SetupOK, FlagsOK, Outcomes
  <1>2. CASE Route
    <2>1. UNCHANGED <<atlas, codebook, plan, outcome>>
      BY <1>2 DEF Route, RouteNothing, RouteWithoutProjection, RouteWithProjection,
                  RouteRendered, LeaveFrame
    <2> QED  BY <1>2, <2>1, RoutesLeaveFlags DEF SetupOK, FlagsOK, FrameFlags
  <1>3. CASE BindStart \/ BindPredicate \/ BindJoin \/ BindOrder \/ Object \/ Accept
    <2>1. UNCHANGED <<atlas, codebook, trace, outcome>>
      BY <1>3 DEF BindStart, BindPredicate, BindJoin, BindOrder, Object, Accept, Unbound, Bind
    <2>2. plan'.projections \in {plan.projections, TRUE}
      BY <1>3, BinderProjections DEF GateInv
    <2> QED  BY <2>1, <2>2 DEF SetupOK, FlagsOK
  <1>4. CASE Promote \/ FailClosed \/ ModelStages
    BY <1>4 DEF Promote, FailClosed, ModelStages, Conclude, SetupOK, FlagsOK, Outcomes
  <1>5. CASE Decide
    BY <1>5 DEF Decide, SetupOK, FlagsOK
  <1>6. CASE UNCHANGED vars
    BY <1>6 DEF vars, SetupOK, FlagsOK
  <1> QED  BY <1>1, <1>2, <1>3, <1>4, <1>5, <1>6 DEF Next

\* Every slot scores a percentage, at every length of the frame.
LEMMA StrengthRange == ASSUME NEW n \in SlotNames PROVE Strength[n] \in 0..100
  <1>1. CASE n = "subject"
    BY <1>1 DEF Strength, SlotNames
  <1>2. CASE n = "projection"
    BY <1>2 DEF Strength, SlotNames
  <1>3. CASE n = "filter_value"
    <2>1. FilterStrength \in 0..100
      BY DEF FilterStrength
    <2> QED  BY <1>3, <2>1 DEF Strength, SlotNames
  <1>4. CASE n = "join_path"
    BY <1>4 DEF Strength, SlotNames
  <1>5. CASE n = "metric"
    BY <1>5 DEF Strength, SlotNames
  <1>6. CASE n = "date_time"
    BY <1>6 DEF Strength, SlotNames
  <1>7. CASE n = "table_family"
    BY <1>7 DEF Strength, SlotNames
  <1>8. CASE n = "result_shape"
    BY <1>8 DEF Strength, SlotNames
  <1> QED
    BY <1>1, <1>2, <1>3, <1>4, <1>5, <1>6, <1>7, <1>8 DEF SlotNames

LEMMA CandidateTypes ==
  ASSUME GateInv, NEW n \in SlotNames \cup {"order_field"}
  PROVE  Candidates(n) \subseteq Families \X Nat
  <1> DEFINE shown == IF plan.predicates # <<>> THEN plan.predicates ELSE trace.predicates
             offered == {<<"predicate", i>> : i \in 1..Len(shown)}
  <1>1. \A c, family : family \in Families => Some(c, family) \subseteq Families \X Nat
    BY DEF Some
  <1>2. offered \subseteq Families \X Nat
    <2>1. shown \in Seq(PredicateKinds)
      BY PlanParts DEF GateInv, FrameOK
    <2>2. Len(shown) \in Nat
      BY <2>1
    <2> HIDE DEF shown
    <2> QED  BY <2>2 DEF Families
  <1>3. <<"shape", 0>> \in Families \X Nat
    BY DEF Families
  <1>4. \/ \E c, family : family \in Families /\ Candidates(n) = Some(c, family)
        \/ Candidates(n) = offered \cup Some(codebook, "codebook")
        \/ Candidates(n) = Some(atlas.fields, "field") \cup Some(atlas.metrics, "metric")
        \/ Candidates(n) = {<<"shape", 0>>}
    BY DEF Candidates, SlotNames, Families
  <1>5. {"codebook", "field", "metric"} \subseteq Families
    BY DEF Families
  <1> HIDE DEF offered
  <1> QED  BY <1>1, <1>2, <1>3, <1>4, <1>5

ReportOK == report.decision \in Decisions /\ report.slots \subseteq ReportedSlots

LEMMA DecideTypes == ASSUME GateInv, Decide PROVE ReportOK'
  <1>1. report'.decision \in Decisions
    BY Decided DEF DecisionOf, Decisions
  <1>2. ASSUME NEW s \in report'.slots PROVE s \in ReportedSlots
    <2>1. s \in Unresolved(Strength)
      BY Decided
    <2>2. PICK n \in SlotNames \cup {"order_field"}, score \in 0..100 : s = Slot(n, score, Strength)
      <3>1. ForcedSlots(EffectiveReason) \subseteq SlotNames \cup {"order_field"}
        BY DEF ForcedSlots, SlotNames
      <3>2. 25 \in 0..100
        OBVIOUS
      <3> QED  BY Zenon, <2>1, <3>1, <3>2, UnresolvedSlots, StrengthRange DEF Weak
    <2>3. Handoff(EffectiveReason, Overall(Strength)) \in {"user", "llm", "reject"}
      BY DEF Handoff
    <2> DEFINE h == Handoff(EffectiveReason, Overall(Strength))
    <2>4. s = [slot |-> n, strength |-> score, handoff |-> h, candidates |-> Candidates(n)]
      BY <2>2 DEF Slot
    <2> HIDE DEF h
    <2> QED  BY <2>3, <2>4, CandidateTypes DEF ReportedSlots, h
  <1> QED  BY <1>1, <1>2 DEF ReportOK

\* Every variable keeps its type for frames of any length, the strengths of a
\* report among them: each is a percentage.
THEOREM GateTyping == Spec => []TypeOK
  <1>1. Init => SetupOK /\ ReportStays /\ ReportOK
    <2>1. Init => SetupOK
      <3>1. FrameFlags(NoFrame)
        BY DEF FrameFlags, NoFrame
      <3>2. NoPlan.projections = FALSE
        BY DEF NoPlan
      <3> QED  BY <3>1, <3>2 DEF Init, SetupOK, FlagsOK, FrameFlags, Outcomes
    <2>2. Init => ReportStays /\ ReportOK
      BY NoReportParts DEF Init, ReportStays, ReportOK, Decisions
    <2> QED  BY <2>1, <2>2
  <1>2. GateInv /\ ReportStays /\ ReportOK /\ [Next]_vars => ReportStays' /\ ReportOK'
    <2> SUFFICES ASSUME GateInv, ReportStays, ReportOK, [Next]_vars PROVE ReportOK'
      BY NextKeepsReport
    <2>1. CASE PreResolve
      BY <2>1 DEF PreResolve, ReportOK, Decisions
    <2>2. CASE Decide
      BY <2>2, DecideTypes
    <2>3. CASE ~PreResolve /\ ~Decide
      BY <2>3, ReportSteps DEF ReportOK
    <2> QED  BY <2>1, <2>2, <2>3
  <1>3. GateInv /\ SetupOK /\ ReportOK => TypeOK
    BY PlanParts DEF GateInv, FrameOK, SetupOK, FlagsOK, ReportOK, TypeOK
  <1> QED  BY <1>1, <1>2, <1>3, NextKeepsSetup, GateInvariant, PTL DEF Spec
===============================================================================
