----------------------------- MODULE DetailExpiry -----------------------------
(***************************************************************************)
(* Expiry of effect rows: plan_expiry and apply_expiry for the classes     *)
(* TRACE_DETAIL and FACTUAL_PROJECTION (src/wsr_evidence/retention,        *)
(* src/wsr_evidence/storage/read_model.py).  The service's own loop        *)
(* expires RAW_DEBUG only; these two classes are for a maintenance caller. *)
(*                                                                         *)
(* An effect row k is <<kind>> \o owner key.  Public and internal kinds    *)
(* correspond one to one, so the internal kind stands for both.  A field   *)
(* id "C42" is <<"C", 42>>, and any other name in its place <<name, 0>>.   *)
(***************************************************************************)
EXTENDS ServiceStore

TraceKinds == {"trace_node", "trace_parent_edge", "trace_link"}
FactualKinds ==
  PublicFactKinds \cup {"delivery_root_binding", "model_attribution"}

KindsOf(class) == IF class = "TRACE_DETAIL" THEN TraceKinds ELSE FactualKinds
TTL(class) == IF class = "TRACE_DETAIL" THEN TraceTTL ELSE FactTTL

C(i) == <<"C", i>>
I(i) == <<"I", i>>
S(i) == <<"S", i>>
Plain(name) == <<name, 0>>

-------------------------------------------------------------------------------
(* What a tombstone keeps of the row *)

\* The pair of a dimension, if its attribute is there.
Dimension(field, a, name) == If(name \in DOMAIN a, <<field, Get(a, name)>>)

\* COMPATIBILITY_DIMENSIONS of an event, those that are among its attributes a.
CompatibilityDimensions(event, a) ==
  CASE event = "usage" ->
         Dimension(C(42), a, "usage_kind") \o Dimension(C(43), a, "usage_unit")
           \o Dimension(C(44), a, "usage_source")
           \o Dimension(C(45), a, "usage_source_id")
    [] event = "implementation.summary" ->
         Dimension(I(5), a, "coverage_dimension")
           \o Dimension(I(8), a, "coverage_scope")
           \o Dimension(I(9), a, "coverage_tool_id")
           \o Dimension(I(10), a, "coverage_format")
    [] event = "test.summary" ->
         Dimension(C(28), a, "artifact_id")
           \o Dimension(C(29), a, "artifact_digest")
    [] event = "review.summary" ->
         Dimension(C(13), a, "review_lens") \o Dimension(C(14), a, "review_scope")
    [] OTHER -> << >>

\* Mutant: the tombstone of an event forgets the trace it belongs to.
NoTracePair(p) == << >>

TracePair(p) ==
  If("_otel_context" \in DOMAIN p,
     <<Plain("trace_id"), Get(p, "_otel_context")[1]>>)

\* _projection_compatibility of row k, its payload p and the family_schema of
\* its source record.  The three base pairs are there for a trace row too.
ProjectionCompatibility(k, p, family) ==
  LET contribution == k[1] = "factual_contribution"
      a == IF contribution THEN p.attributes ELSE EmptyPayload
  IN  << <<Plain("family_schema"), family>>,
         <<Plain("event_name"), IF contribution THEN k[2] ELSE Null>>,
         <<Plain("completeness"), Get(a, "summary_state")>> >>
      \o (CASE contribution -> CompatibilityDimensions(k[2], a)
            [] k[1] = "finding_assertion" ->
                 Dimension(C(13), p, "review_lens")
                   \o Dimension(C(14), p, "review_scope")
            [] k[1] = "model_attribution" ->
                 << <<Plain("gen_ai_provider_name"), k[2]>>, <<C(57), k[3]>>,
                    <<C(30), k[4]>>, <<C(6), k[5]>> >>
            [] k[1] = "delivery_root_binding" ->
                 << <<Plain("delivery_id"), p.delivery_id>> >>
            [] OTHER -> << >>)
      \o TracePair(p)

-------------------------------------------------------------------------------
(* What an ExpiryOwner and an ExpiryRecord accept *)

\* _validate_expiry_owner, of which only the number of scalars can differ here.
Arity(kind) ==
  CASE kind \in {"delivery_root_binding"} -> 1
    [] kind \in {"trace_node", "factual_contribution", "finding_assertion",
                 "role_lineage"} -> 2
    [] kind \in {"trace_parent_edge", "finding_status"} -> 3
    [] kind = "trace_link" -> 4
    [] kind = "finding_target" -> 5
    [] OTHER -> 6

ValidateExpiryOwner(k) == Len(k) = 1 + Arity(k[1])

\* Mutant: only usage has dimensions.
DimensionOrderUsage(event) ==
  IF event = "usage" THEN <<C(42), C(43), C(44), C(45)>> ELSE << >>

\* dimension_orders
DimensionOrder(event) ==
  CASE event = "usage" -> <<C(42), C(43), C(44), C(45)>>
    [] event = "implementation.summary" -> <<I(5), I(8), I(9), I(10)>>
    [] event = "test.summary" -> <<C(28), C(29)>>
    [] event = "review.summary" -> <<C(13), C(14)>>
    [] OTHER -> << >>

AllowedSuffix(kind, event) ==
  (CASE kind = "factual_contribution" -> DimensionOrder(event)
     [] kind = "finding_assertion" -> <<C(13), C(14)>>
     [] kind = "model_attribution" ->
          <<Plain("gen_ai_provider_name"), C(57), C(30), C(6)>>
     [] kind = "delivery_root_binding" -> <<Plain("delivery_id")>>
     [] OTHER -> << >>)
  \o If(kind \in PublicFactKinds, Plain("trace_id"))

\* _validate_compatibility
ValidateCompatibility(kind, pairs) ==
  IF kind \in TraceKinds
  THEN pairs = << >>
  ELSE /\ Len(pairs) \in 3..8
       /\ \A i, j \in DOMAIN pairs : pairs[i][1] = pairs[j][1] => i = j
       /\ [i \in 1..3 |-> pairs[i][1]] =
            <<Plain("family_schema"), Plain("event_name"), Plain("completeness")>>
       /\ LET allowed == AllowedSuffix(kind, pairs[2][2])
              position(i) == {j \in DOMAIN allowed : allowed[j] = pairs[i][1]}
          IN  \A i \in 4..Len(pairs) :
                /\ position(i) # {}
                /\ i > 4 => MinOf(position(i - 1)) <= MinOf(position(i))

ExpiryRecordValid(k) ==
  ValidateExpiryOwner(k) /\ ValidateCompatibility(k[1], markers[k].compatibility)

-------------------------------------------------------------------------------
(* Planning and applying *)

NoPlan == [class |-> "none", members |-> {}]

\* Mutant: the age of a row is not looked at.
DueAnyAge(class) ==
  {k \in DOMAIN effects \ DOMAIN markers : k[1] \in KindsOf(class)}

\* Rows of the class that are old enough and have no tombstone.
Due(class) ==
  {k \in DOMAIN effects \ DOMAIN markers :
     k[1] \in KindsOf(class) /\ effects[k].at + TTL(class) <= now}

\* The kinds in the order of their public names.
KindOrder ==
  <<"delivery_root_binding", "factual_contribution", "finding_assertion",
    "finding_fix", "finding_recheck", "finding_status", "finding_target",
    "trace_link", "model_attribution", "trace_node", "trace_parent_edge",
    "role_lineage">>
Rank(k) == CHOOSE i \in DOMAIN KindOrder : KindOrder[i] = k[1]

\* plan_expiry: the first rows that are due, by kind and then in an order of
\* their keys that the model leaves open.  ExpiryBatch.create raises if it
\* refuses one of them, and there is no plan.
PlanExpiry(class) ==
  /\ plan = NoPlan
  /\ \E members \in SUBSET Due(class) :
       /\ members # {}
       /\ IF members = Due(class) THEN Cardinality(members) <= ExpiryLimit
                                  ELSE Cardinality(members) = ExpiryLimit
       /\ \A k \in members, m \in Due(class) \ members : Rank(k) <= Rank(m)
       /\ \A k \in members : ValidateExpiryOwner(k)
       /\ plan' = [class |-> class, members |-> members]
  /\ UNCHANGED <<now, tables, inbox, export, faults>>

\* A member is passed over when it has its tombstone.
AlreadyExpired(k) == k \in DOMAIN markers

\* apply_expiry: the tombstones and the empty payloads of the batch, in one
\* transaction; a row that is gone raises and rolls it back.  A caller that
\* missed the result applies the batch again.
ApplyExpiry ==
  LET fresh == {k \in plan.members : ~AlreadyExpired(k)} IN
  /\ plan # NoPlan
  /\ IF fresh \subseteq DOMAIN effects
     THEN /\ markers' = With(markers, [k \in fresh |->
               [src |-> effects[k].src, at |-> effects[k].at,
                compatibility |-> ProjectionCompatibility(k, effects[k].payload,
                  Get(accepted[effects[k].src].rec.attrs, "family_schema")),
                expires |-> effects[k].at + TTL(plan.class)]])
          /\ effects' = [k \in DOMAIN effects |->
                           IF k \in fresh
                           THEN [effects[k] EXCEPT !.payload = EmptyPayload]
                           ELSE effects[k]]
     ELSE UNCHANGED <<markers, effects>>
  /\ plan' \in {plan, NoPlan}
  /\ UNCHANGED <<now, accepted, anchors, fences, inbox, export, faults>>
===============================================================================
