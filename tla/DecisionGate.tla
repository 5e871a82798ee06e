----------------------------- MODULE DecisionGate -----------------------------
(***************************************************************************)
(* One question through the deterministic part of the cascade: the graph   *)
(* router leaves a frame, the binder turns the frame into a bound query    *)
(* plan one piece at a time and stops at the first piece it cannot bind,   *)
(* the gate promotes the plan's SQL or fails closed, and the decision      *)
(* report says what is unresolved and who is to be asked.                  *)
(*                                                                         *)
(* What a text or a vocabulary match decides is a choice here: which route *)
(* takes the question, whether a value has evidence, which objection the   *)
(* question raises to a plan.  Scores are percentages.                     *)
(***************************************************************************)
EXTENDS Naturals, Sequences, FiniteSets

CONSTANTS
  PredicateBound, JoinBound,   \* bounds of a check: pieces of a routed frame
  MaxPredicates                \* the generic router declines more than these

ASSUME GateAssumption ==
  PredicateBound \in Nat /\ JoinBound \in Nat /\ MaxPredicates \in Nat

VARIABLES
  pc,
  atlas,     \* which families of evidence the graph has
  codebook,  \* a value of the question has two to twelve strong bindings
  trace,     \* the router's frame
  plan,      \* the bound plan
  outcome,
  report     \* the resolution decision

vars == <<pc, atlas, codebook, trace, plan, outcome, report>>

Pcs == {"ask", "route", "start", "predicates", "joins", "order", "objections", "gate",
        "decide", "done"}
Outcomes == {"open", "prerouted", "sql", "model", "refused"}
Atlases == [entities : BOOLEAN, fields : BOOLEAN, relationships : BOOLEAN, metrics : BOOLEAN]

\* "value" and "date" have evidence in the graph, "measure" only as the
\* threshold of the measure routed to; "bare" and "bareDate" have none;
\* "date" and "bareDate" are on date-like fields.
PredicateKinds == {"value", "date", "measure", "bare", "bareDate", "unknown", "operator"}
Evidenced == {"value", "date", "measure"}
DateLike == {"date", "bareDate"}

\* "partly": some of the projected fields are in the atlas, not all.
Projections == {"none", "alien", "unbacked", "partly", "backed"}
Orders == {"none", "unknown", "overlong", "backed"}

SeqsUpTo(S, n) == UNION {[1..k -> S] : k \in 0..n}

NoFrame == [routed |-> FALSE, reason |-> "not_routed_unset", readOnly |-> TRUE,
            projection |-> "none", measured |-> FALSE, predicates |-> <<>>,
            many |-> FALSE, joins |-> <<>>, order |-> "none"]
Declined(reason) == [NoFrame EXCEPT !.reason = reason]

NoPlan == [valid |-> FALSE, reason |-> "", projections |-> FALSE, predicates |-> <<>>,
           joins |-> <<>>]
NoReport == [decision |-> "none", reason |-> "", slots |-> {}]

Init ==
  /\ pc = "ask"
  /\ atlas \in Atlases /\ codebook \in BOOLEAN
  /\ trace = NoFrame /\ plan = NoPlan
  /\ outcome = "open" /\ report = NoReport

---------------------------------------------------------------------------
(* Before the router.                                                      *)

\* The deterministic pre-resolver answers by itself, with no plan.
PreResolve ==
  /\ pc = "ask"
  /\ pc' = "done"
  /\ outcome' = "prerouted"
  /\ report' = [decision |-> "execute", reason |-> "stage_0a_pre_resolver", slots |-> {}]
  /\ UNCHANGED <<atlas, codebook, trace, plan>>

\* An ambiguous table family or a bare entity fails closed at once; the
\* packet of the refusal still routes and binds the question.
RefuseEarly ==
  /\ pc = "ask"
  /\ atlas.entities
  /\ pc' = "route"
  /\ outcome' = "refused"
  /\ UNCHANGED <<atlas, codebook, trace, plan, report>>

NeedModel ==
  /\ pc = "ask"
  /\ pc' = "route"
  /\ UNCHANGED <<atlas, codebook, trace, plan, outcome, report>>

---------------------------------------------------------------------------
(* The router.                                                             *)

LeaveFrame(frame) ==
  /\ pc' = "start"
  /\ trace' = frame
  /\ UNCHANGED <<atlas, codebook, plan, outcome, report>>

HasGraph == atlas.entities /\ atlas.fields

RouteNothing ==
  /\ pc = "route"
  /\ \/ ~HasGraph /\ LeaveFrame(Declined("not_routed_no_graph"))
     \/ /\ HasGraph
        /\ \E reason \in {"not_routed_large_schema_grouped_metric_needs_typed_proposal",
                          "not_routed_grouped_metric_topk_unresolved",
                          "not_routed_complex_shape"} :
             LeaveFrame(Declined(reason))

\* The generic route gives up before it has a projection ...
RouteWithoutProjection ==
  /\ pc = "route" /\ HasGraph
  /\ \/ LeaveFrame(Declined("not_routed_no_predicates"))
     \/ LeaveFrame([Declined("not_routed_too_many_predicates") EXCEPT
                      !.predicates = [i \in 1..(MaxPredicates + 1) |-> "value"]])
     \/ \E preds \in SeqsUpTo(PredicateKinds, PredicateBound),
           reason \in {"not_routed_graph_mapping", "not_routed_no_projection"} :
          LeaveFrame([Declined(reason) EXCEPT !.predicates = preds])

Pieces == [projection : Projections \ {"none"}, predicates : SeqsUpTo(PredicateKinds, PredicateBound),
           order : Orders, measured : BOOLEAN]

\* A frame that requires several entities joins them over relationships.
JoinPaths(many) ==
  IF ~many THEN {<<>>} ELSE IF atlas.relationships THEN SeqsUpTo(BOOLEAN, JoinBound) \ {<<>>} ELSE {}

Frame(reason, p, many, joins) ==
  [Declined(reason) EXCEPT
     !.projection = p.projection, !.measured = p.measured, !.predicates = p.predicates,
     !.order = p.order, !.many = many, !.joins = joins]

\* ... or with one, but no single table family, join path or rendering ...
RouteWithProjection ==
  /\ pc = "route" /\ HasGraph
  /\ \E p \in Pieces, many \in BOOLEAN :
       \/ LeaveFrame(Frame("not_routed_ambiguous_physical_table_family", p, many, <<>>))
       \/ many /\ LeaveFrame(Frame("not_routed_no_join_path", p, many, <<>>))
       \/ \E joins \in JoinPaths(many),
             reason \in {"not_routed_graph_mapping", "not_routed_render_error"} :
            LeaveFrame(Frame(reason, p, many, joins))

\* ... or renders SQL, as each of the special routes does.  A value in the
\* SQL may spell a forbidden keyword.
RouteRendered ==
  /\ pc = "route" /\ HasGraph
  /\ \E p \in Pieces, many \in BOOLEAN, readOnly \in BOOLEAN :
       \E joins \in JoinPaths(many) :
         LeaveFrame([Frame("routed", p, many, joins) EXCEPT !.routed = TRUE, !.readOnly = readOnly])

---------------------------------------------------------------------------
(* The binder.                                                             *)

Bind(next, p) ==
  /\ pc' = next
  /\ plan' = p
  /\ UNCHANGED <<atlas, codebook, trace, outcome, report>>

\* The first reason ends the plan; what was bound until then stays in it.
Unbound(p, reason) == Bind("gate", [p EXCEPT !.reason = reason])

BindStart ==
  /\ pc = "start"
  /\ IF ~trace.routed THEN Unbound(plan, trace.reason)
     ELSE IF ~trace.readOnly THEN Unbound(plan, "not_read_only_select")
     ELSE CASE trace.projection = "none" -> Unbound(plan, "missing_projection")
            [] trace.projection = "alien" -> Unbound(plan, "unknown_base_entity")
            [] trace.projection = "unbacked" -> Unbound(plan, "unknown_projection_field")
            [] trace.projection = "partly" ->
                 Unbound([plan EXCEPT !.projections = TRUE], "unknown_projection_field")
            [] OTHER -> Bind("predicates", [plan EXCEPT !.projections = TRUE])

\* A bug: evidence is not asked for.
BindPredicateUnchecked ==
  /\ pc = "predicates"
  /\ IF Len(plan.predicates) = Len(trace.predicates) THEN Bind("joins", plan)
     ELSE LET kind == trace.predicates[Len(plan.predicates) + 1]
          IN CASE kind = "unknown" -> Unbound(plan, "unknown_predicate_field")
               [] kind = "operator" -> Unbound(plan, "unsupported_predicate_operator")
               [] OTHER -> Bind(pc, [plan EXCEPT !.predicates = Append(@, kind)])

\* A bug: the predicate without evidence is left out of the plan.
BindPredicateDropping ==
  /\ pc = "predicates"
  /\ IF Len(plan.predicates) = Len(trace.predicates) THEN Bind("joins", plan)
     ELSE LET kind == trace.predicates[Len(plan.predicates) + 1]
          IN CASE kind = "unknown" -> Unbound(plan, "unknown_predicate_field")
               [] kind = "operator" -> Unbound(plan, "unsupported_predicate_operator")
               [] kind \notin Evidenced -> Unbound(plan, "missing_value_evidence")
               [] OTHER -> Bind(pc, [plan EXCEPT !.predicates = Append(@, kind)])

\* A predicate without evidence is still recorded, for the packet.
BindPredicate ==
  /\ pc = "predicates"
  /\ IF Len(plan.predicates) = Len(trace.predicates) THEN Bind("joins", plan)
     ELSE LET kind == trace.predicates[Len(plan.predicates) + 1]
              grown == [plan EXCEPT !.predicates = Append(@, kind)]
          IN CASE kind = "unknown" -> Unbound(plan, "unknown_predicate_field")
               [] kind = "operator" -> Unbound(plan, "unsupported_predicate_operator")
               [] kind \notin Evidenced -> Unbound(grown, "missing_value_evidence")
               [] OTHER -> Bind(pc, grown)

\* A bug: a join no relationship backs is skipped.
BindJoinSkipping ==
  /\ pc = "joins"
  /\ Bind("order", [plan EXCEPT !.joins = SelectSeq(trace.joins, LAMBDA backed : backed)])

\* Another: every join of the frame is taken over.
BindJoinUnchecked ==
  /\ pc = "joins"
  /\ Bind("order", [plan EXCEPT !.joins = trace.joins])

BindJoin ==
  /\ pc = "joins"
  /\ IF Len(plan.joins) = Len(trace.joins) THEN Bind("order", plan)
     ELSE IF trace.joins[Len(plan.joins) + 1]
          THEN Bind(pc, [plan EXCEPT !.joins = Append(@, TRUE)])
          ELSE Unbound(plan, "unknown_join_path")

BindOrder ==
  /\ pc = "order"
  /\ CASE trace.order = "unknown" -> Unbound(plan, "unknown_order_field")
       [] trace.order = "overlong" -> Unbound(plan, "unsupported_limit")
       [] OTHER -> Bind("objections", plan)

Has(kinds) == \E i \in 1..Len(plan.predicates) : plan.predicates[i] \in kinds

\* What the question may hold against a plan whose pieces are all bound.
Objections ==
  {"unsupported_anti_join_shape", "missing_group_dimension", "missing_comparison_dimension",
   "missing_specific_date_window", "missing_numeric_threshold", "missing_numeric_range_predicate",
   "missing_requested_row_projection", "missing_requested_date_projection",
   "missing_actor_filter", "ratio_shape_mismatch", "missing_explicit_predicate_field",
   "missing_value_candidate", "subject_entity_mismatch", "missing_related_display_projection",
   "missing_requested_projection", "missing_lifecycle_event_table"}
  \cup (IF trace.order = "none" THEN {"missing_superlative_order"} ELSE {"order_field_mismatch"})
  \cup (IF Has(DateLike) THEN {"missing_month_date_window", "date_role_mismatch"} ELSE {})
  \cup (IF Has({"value"}) THEN {"role_word_value_misbound", "ambiguous_related_predicate_field",
                                "ambiguous_unscoped_value_field", "misbound_scope_predicate"}
        ELSE {})
  \cup (IF trace.measured THEN {"missing_grouped_measure_signal", "unsafe_grouped_dimension",
                                "unsafe_grouped_measure", "grouped_measure_entity_mismatch",
                                "missing_grouped_time_dimension"}
        ELSE {})

Object ==
  /\ pc = "objections"
  /\ \E reason \in Objections : Unbound(plan, reason)

Accept ==
  /\ pc = "objections"
  /\ Bind("gate", [plan EXCEPT !.valid = TRUE])

---------------------------------------------------------------------------
(* The gate.                                                               *)

Conclude(o) ==
  /\ pc = "gate"
  /\ pc' = "decide"
  /\ outcome' = o
  /\ UNCHANGED <<atlas, codebook, trace, plan, report>>

\* A promoted route also has one of the safe shapes, which is a choice.
Promote == outcome = "open" /\ trace.routed /\ plan.valid /\ Conclude("sql")

\* Otherwise the run fails closed, unless it is a diagnostic run with oracle
\* artifacts, which may go on to the model stages.
FailClosed == outcome \in {"open", "refused"} /\ Conclude("refused")

ModelStages == outcome = "open" /\ Conclude("model")

---------------------------------------------------------------------------
(* The decision report.                                                    *)

HardRejects == {"not_read_only_select", "not_routed_no_graph", "not_routed_no_predicates",
                "not_routed_too_many_predicates", "unsupported_limit"}

UserReasons ==
  {"missing_value_evidence", "missing_value_candidate", "ambiguous_unscoped_value_field",
   "ambiguous_unbound_value_field", "ambiguous_related_predicate_field",
   "missing_explicit_predicate_field", "unknown_join_path", "not_routed_no_join_path",
   "not_routed_ambiguous_physical_table_family", "missing_group_dimension",
   "missing_specific_date_window", "missing_month_date_window", "missing_numeric_threshold",
   "missing_numeric_range_predicate", "missing_projection", "unknown_projection_field",
   "unknown_predicate_field", "unknown_order_field"}

ModelReasons ==
  {"not_routed_complex_shape", "not_routed_large_schema_grouped_metric_needs_typed_proposal",
   "not_routed_grouped_metric_topk_unresolved", "unsupported_anti_join_shape",
   "missing_comparison_dimension", "missing_superlative_order", "order_field_mismatch",
   "projection_field_mismatch", "measure_field_mismatch"}

\* The report tells date and shape problems by a part of the reason's text:
\* these contain "date" or "month", and "shape", "group_dimension" or
\* "comparison_dimension".
DateTexts == {"missing_month_date_window", "missing_specific_date_window",
              "missing_requested_date_projection", "date_role_mismatch",
              "missing_value_candidate"}
ShapeTexts == {"not_routed_complex_shape", "unsupported_anti_join_shape", "ratio_shape_mismatch",
               "missing_group_dimension", "missing_comparison_dimension"}

\* The intent frame of an unrouted question has no time windows.
TimeWindows == IF trace.routed
               THEN {i \in 1..Len(trace.predicates) : trace.predicates[i] \in DateLike} ELSE {}

AllEvidenced(preds) == \A i \in 1..Len(preds) : preds[i] \in Evidenced

FilterStrength ==
  LET bound == IF trace.predicates = <<>> \/ (plan.predicates # <<>> /\ AllEvidenced(plan.predicates))
               THEN 100 ELSE IF plan.predicates # <<>> THEN 35 ELSE 15
  IN IF plan.reason \in {"missing_value_evidence", "ambiguous_unscoped_value_field"} /\ bound > 25
     THEN 25 ELSE bound

SlotNames == {"subject", "projection", "filter_value", "join_path", "metric", "date_time",
              "table_family", "result_shape"}

Strength ==
  [slot \in SlotNames |->
    CASE slot = "subject" ->
           IF trace.projection # "none" THEN 100 ELSE IF atlas.entities THEN 35 ELSE 0
      [] slot = "projection" ->
           IF plan.projections THEN 100 ELSE IF trace.projection # "none" THEN 45 ELSE 0
      [] slot = "filter_value" -> FilterStrength
      [] slot = "join_path" ->
           IF ~trace.many \/ plan.joins # <<>> THEN 100 ELSE IF atlas.relationships THEN 35 ELSE 0
      [] slot = "metric" ->
           IF ~trace.measured \/ plan.valid THEN 100 ELSE IF atlas.metrics THEN 55 ELSE 15
      [] slot = "date_time" ->
           IF \/ TimeWindows = {} /\ plan.reason \notin DateTexts
              \/ TimeWindows # {} /\ \A i \in TimeWindows : trace.predicates[i] = "date"
           THEN 100 ELSE 25
      [] slot = "table_family" ->
           IF trace.reason = "not_routed_ambiguous_physical_table_family" THEN 10 ELSE 100
      [] slot = "result_shape" ->
           IF plan.valid \/ plan.reason \notin ShapeTexts THEN 100
           ELSE IF trace.routed THEN 55 ELSE 35]

\* The weakest of the strengths.
Overall(strength) == CHOOSE s \in {strength[n] : n \in SlotNames} :
                       \A n \in SlotNames : s <= strength[n]

EffectiveReason ==
  LET reason == IF plan.reason # "" THEN plan.reason ELSE trace.reason
  IN IF reason = "not_routed_no_predicates" /\ codebook THEN "ambiguous_unbound_value_field"
     ELSE reason

PrefersModel(reason, overall) == reason \in ModelReasons /\ overall >= 25

\* A bug: whatever the user is not asked for by name goes to the model.
HandoffByUserList(reason, overall) == IF reason \in UserReasons THEN "user" ELSE "llm"

Handoff(reason, overall) ==
  IF reason \in HardRejects THEN "reject"
  ELSE IF PrefersModel(reason, overall) THEN "llm"
  ELSE "user"

Some(condition, family) == IF condition THEN {<<family, 0>>} ELSE {}

\* <<"predicate", i>> is the i-th predicate's field and value.
Candidates(slot) ==
  CASE slot \in {"subject", "table_family"} -> Some(atlas.entities, "entity")
    [] slot \in {"projection", "date_time"} -> Some(atlas.fields, "field")
    [] slot = "filter_value" ->
         {<<"predicate", i>> : i \in 1..Len(IF plan.predicates # <<>> THEN plan.predicates
                                                                        ELSE trace.predicates)}
         \cup Some(codebook, "codebook")
    [] slot = "join_path" -> Some(atlas.relationships, "relationship")
    [] slot = "metric" -> Some(atlas.metrics, "metric")
    [] slot = "order_field" -> Some(atlas.fields, "field") \cup Some(atlas.metrics, "metric")
    [] OTHER -> {<<"shape", 0>>}

\* The slot with its strength in a report of these strengths.
Slot(slot, score, strength) ==
  [slot |-> slot, strength |-> score,
   handoff |-> Handoff(EffectiveReason, Overall(strength)), candidates |-> Candidates(slot)]

WeakSlots(strength) ==
  {Slot(n, strength[n], strength) : n \in {m \in SlotNames : strength[m] < 70}}

\* The slots a reason is about, whatever its evidence scored.
ForcedSlots(reason) ==
  CASE reason \in {"missing_value_evidence", "ambiguous_unscoped_value_field",
                   "ambiguous_unbound_value_field"} -> {"filter_value"}
    [] reason = "not_routed_ambiguous_physical_table_family" -> {"table_family"}
    [] reason \in {"unknown_join_path", "not_routed_no_join_path"} -> {"join_path"}
    [] reason \in {"missing_projection", "unknown_projection_field"} -> {"projection"}
    [] reason \in {"missing_specific_date_window", "missing_month_date_window"} -> {"date_time"}
    [] reason \in {"order_field_mismatch", "unknown_order_field", "missing_superlative_order"} ->
         {"order_field"}
    [] OTHER -> {}

Named(slots) == {s.slot : s \in slots}

\* A bug: the forced slot is added beside the weak one.
UnresolvedTwice(strength) ==
  WeakSlots(strength) \cup {Slot(n, 25, strength) : n \in ForcedSlots(EffectiveReason)}

Unresolved(strength) ==
  LET weak == WeakSlots(strength)
  IN weak \cup {Slot(n, 25, strength) : n \in ForcedSlots(EffectiveReason) \ Named(weak)}

DecisionOf(reason, overall) ==
  IF plan.valid THEN "execute"
  ELSE IF reason \in HardRejects \/ (~atlas.entities /\ ~trace.routed) THEN "reject"
  ELSE IF reason \in UserReasons THEN "ask_user"
  ELSE IF PrefersModel(reason, overall) THEN "ask_llm"
  ELSE IF overall >= 45 THEN "ask_user"
  ELSE "reject"

Decide ==
  /\ pc = "decide"
  /\ pc' = "done"
  /\ LET strength == Strength
     IN report' = [decision |-> DecisionOf(EffectiveReason, Overall(strength)),
                   reason |-> IF plan.valid THEN "bound_plan_valid" ELSE EffectiveReason,
                   slots |-> Unresolved(strength)]
  /\ UNCHANGED <<atlas, codebook, trace, plan, outcome>>

Route == RouteNothing \/ RouteWithoutProjection \/ RouteWithProjection \/ RouteRendered

Next ==
  \/ PreResolve \/ RefuseEarly \/ NeedModel
  \/ Route
  \/ BindStart \/ BindPredicate \/ BindJoin \/ BindOrder \/ Object \/ Accept
  \/ Promote \/ FailClosed \/ ModelStages
  \/ Decide

Spec == Init /\ [][Next]_vars

---------------------------------------------------------------------------
(* Properties                                                              *)

Decisions == {"none", "execute", "ask_user", "ask_llm", "reject"}
Families == {"predicate", "codebook", "entity", "field", "relationship", "metric", "shape"}
ReportedSlots ==
  [slot : SlotNames \cup {"order_field"}, strength : 0..100,
   handoff : {"user", "llm", "reject"}, candidates : SUBSET (Families \X Nat)]

\* Each variable keeps the form the code gives it.
TypeOK ==
  /\ pc \in Pcs
  /\ atlas \in Atlases
  /\ codebook \in BOOLEAN
  /\ trace.predicates \in Seq(PredicateKinds) /\ trace.joins \in Seq(BOOLEAN)
  /\ trace.projection \in Projections /\ trace.order \in Orders
  /\ trace.routed \in BOOLEAN /\ trace.readOnly \in BOOLEAN
  /\ trace.many \in BOOLEAN /\ trace.measured \in BOOLEAN
  /\ plan.valid \in BOOLEAN /\ plan.projections \in BOOLEAN
  /\ plan.predicates \in Seq(PredicateKinds) /\ plan.joins \in Seq({TRUE})
  /\ outcome \in Outcomes
  /\ report.decision \in Decisions /\ report.slots \subseteq ReportedSlots

Grounded ==
  /\ trace.routed /\ trace.readOnly
  /\ trace.projection = "backed"
  /\ AllEvidenced(trace.predicates)
  /\ \A i \in 1..Len(trace.joins) : trace.joins[i]
  /\ trace.order \in {"none", "backed"}

\* "Deterministic SQL rendering only when the plan is grounded": SQL the gate
\* promotes comes from a frame whose every piece the graph backs, and from a
\* plan that lost none of them and met no objection.
OnlyGroundedSql ==
  outcome = "sql" =>
    /\ Grounded
    /\ plan.reason = ""
    /\ plan.predicates = trace.predicates /\ plan.joins = trace.joins

\* Unresolved slots are "evidence that blocked execution": a report that says
\* execute has none, whatever the strengths of the question's pieces.
ExecuteLeavesNothingUnresolved == report.decision = "execute" => report.slots = {}

\* Each unresolved slot is handed to the party the decision turns to.
HandoffFollowsDecision ==
  \A s \in report.slots :
    /\ report.decision = "ask_user" => s.handoff = "user"
    /\ report.decision = "ask_llm" => s.handoff = "llm"

\* A value refused for want of evidence is among the candidates the user gets
\* to see, wherever in the list of predicates it stood.
MissingEvidenceIsOffered ==
  report.reason = "missing_value_evidence" =>
    \E s \in report.slots, i \in 1..Len(trace.predicates) :
      /\ s.slot = "filter_value" /\ <<"predicate", i>> \in s.candidates
      /\ trace.predicates[i] \notin Evidenced

\* The slot a reason is about is unresolved, and no slot is listed twice.
ReasonHasItsSlot ==
  pc = "done" =>
    /\ ForcedSlots(report.reason) \subseteq Named(report.slots)
    /\ Cardinality(Named(report.slots)) = Cardinality(report.slots)
===============================================================================
