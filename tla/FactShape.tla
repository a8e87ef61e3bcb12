------------------------------- MODULE FactShape -------------------------------
(***************************************************************************)
(* What the read-only API makes of the rows of a snapshot                  *)
(* (src/wsr_evidence/query): the resource of a fact with its fields,       *)
(* compatibility and relationships, the rows that a trace_id or a          *)
(* delivery_id filter selects, and the state of the traces selected.       *)
(* Leases, cursors and pages are in SnapshotLeases.                        *)
(***************************************************************************)
EXTENDS DetailExpiry

-------------------------------------------------------------------------------
(* FIELD_IDS *)

CommonNames ==
  <<"delivery_id", "task_id", "workflow_id", "workflow_version",
    "implementation_id", "runtime_id", "manifest_digest", "workflow_family",
    "event_id", "delivery_outcome", "summary_state", "review_id", "review_lens",
    "review_scope", "review_severity", "review_total", "review_observed_count",
    "finding_id", "finding_status", "source_review_id", "fix_id",
    "fix_finding_id", "recheck_id", "recheck_review_id", "recheck_finding_id",
    "recheck_fix_id", "iteration_id", "artifact_id", "artifact_digest",
    "role_id", "role_lineage_id", "parent_role_id", "writer_role_id",
    "reviewer_role_id", "recheck_role_id", "writer_invocation_id",
    "reviewer_invocation_id", "recheck_invocation_id", "intervention_kind",
    "observed_loop_count", "observed_intervention_count", "usage_kind",
    "usage_unit", "usage_source", "usage_source_id", "usage_value",
    "sampling_decision", "sampling_probability", "family_schema",
    "finding_summary", "finding_scope_id", "finding_target_kind",
    "finding_target_id", "finding_target_artifact_id",
    "delivery_elapsed_time_ms", "delivery_stage_reached", "model_id">>

ImplementationNames ==
  <<"test_passed", "test_failed", "test_skipped", "test_duration_seconds",
    "coverage_dimension", "coverage_covered", "coverage_total",
    "coverage_scope", "coverage_tool_id", "coverage_format">>

SystemDesignNames ==
  <<"fresh_reader_result", "fresh_reader_finding_count", "verification_id",
    "verification_result", "verification_check_passed",
    "verification_check_failed">>

Numbered(prefix, names) ==
  [name \in {names[i] : i \in DOMAIN names} |->
     <<prefix, CHOOSE i \in DOMAIN names : names[i] = name>>]

FieldIds ==
  Extend(Extend(Numbered("C", CommonNames), Numbered("I", ImplementationNames)),
         Numbered("S", SystemDesignNames))

\* Attributes that have a place in a resource, their field ids, and back.
Registered == DOMAIN FieldIds \cup (StandardNames \ {"error_type"})
FieldId(name) == IF name \in DOMAIN FieldIds THEN FieldIds[name] ELSE Plain(name)
NameOf(field) == CHOOSE name \in Registered : FieldId(name) = field

ValueFields ==
  {C(16), C(17), C(40), C(41), C(46), C(55), I(1), I(2), I(3), I(4), I(6), I(7),
   S(2), S(5), S(6), Plain("gen_ai_usage_input_tokens"),
   Plain("gen_ai_usage_output_tokens")}

-------------------------------------------------------------------------------
(* Fields.  agentops.event.id, C09, is the event's source and is left out. *)

\* The payload members _projected_attributes and _relationships subscript.
ShapeReads(kind) ==
  CASE kind = "finding_status" -> {"status"} \cup ActorNames
    [] kind = "finding_fix" -> {"finding_id", "review_id"} \cup ActorNames
    [] kind = "finding_recheck" ->
         {"review_id", "prior_review_id", "finding_id", "fix_id", "iteration_id",
          "recheck_role_id", "recheck_invocation_id"} \cup ActorNames
    [] kind = "delivery_root_binding" ->
         {"delivery_id", "runtime_id", "manifest_digest", "workflow_family"}
    [] kind = "model_attribution" -> {"request_model"}
    [] OTHER -> {}

\* Mutant: the Finding and its scope in the wrong order.
FindingNamedSwapped(k) == [finding_id |-> k[3], finding_scope_id |-> k[2]]

\* The Finding a row of a Finding is about.
FindingNamed(k) == [finding_id |-> k[2], finding_scope_id |-> k[3]]

\* _projected_attributes of row k with payload p.
ProjectedAttributes(k, p) ==
  LET actors == Pick(p, ActorNames)
  IN
  CASE k[1] = "factual_contribution" -> Get(p, "attributes")
    [] k[1] \in {"finding_assertion", "role_lineage"} ->
         Pick(p, DOMAIN p \ {"_otel_context"})
    [] k[1] = "finding_target" ->
         Extend(Extend(FindingNamed(k), [finding_target_kind |-> k[4],
                                 finding_target_id |-> k[5]]),
                IF k[6] # Null THEN [finding_target_artifact_id |-> k[6]]
                               ELSE EmptyPayload)
    [] k[1] = "finding_status" ->
         Extend(Extend(FindingNamed(k), actors),
                [review_id |-> k[4], finding_status |-> p.status])
    [] k[1] = "finding_fix" ->
         Extend(Extend(FindingNamed(k), actors),
                [fix_id |-> k[7], fix_finding_id |-> p.finding_id,
                 review_id |-> p.review_id])
    [] k[1] = "finding_recheck" ->
         Extend(Extend(Extend(FindingNamed(k), actors),
                  [recheck_id |-> k[7], review_id |-> p.review_id,
                   recheck_review_id |-> p.prior_review_id,
                   recheck_finding_id |-> p.finding_id,
                   iteration_id |-> p.iteration_id,
                   recheck_role_id |-> p.recheck_role_id,
                   recheck_invocation_id |-> p.recheck_invocation_id]),
                IF p.fix_id # Null THEN [recheck_fix_id |-> p.fix_id]
                                   ELSE EmptyPayload)
    [] k[1] = "delivery_root_binding" ->
         Pick(p, {"delivery_id", "runtime_id", "manifest_digest",
                  "workflow_family"})
    [] k[1] = "model_attribution" ->
         [gen_ai_provider_name |-> k[2], model_id |-> k[3], role_id |-> k[4],
          runtime_id |-> k[5], gen_ai_request_model |-> p.request_model]

\* The attributes a kind of fact shows; the first two show all they have.
OwnedNames(kind) ==
  CASE kind \in {"factual_contribution", "finding_assertion"} -> Registered
    [] kind = "finding_target" ->
         {"finding_id", "finding_scope_id", "finding_target_kind",
          "finding_target_id", "finding_target_artifact_id"}
    [] kind = "finding_status" ->
         {"finding_id", "finding_scope_id", "finding_status", "review_id"}
           \cup ActorNames
    [] kind = "finding_fix" ->
         {"finding_id", "fix_id", "fix_finding_id", "review_id"} \cup ActorNames
    [] kind = "finding_recheck" ->
         {"finding_id", "finding_scope_id", "review_id"}
           \cup RecheckNames \cup ActorNames
    [] kind = "role_lineage" ->
         {"family_schema", "role_id", "role_lineage_id", "parent_role_id"}
    [] kind = "delivery_root_binding" ->
         {"delivery_id", "runtime_id", "manifest_digest", "workflow_family"}
    [] kind = "model_attribution" ->
         {"gen_ai_provider_name", "gen_ai_request_model", "model_id", "role_id",
          "runtime_id"}

\* A summary that is not applicable or unavailable shows no values.
Withheld(completeness, name) ==
  completeness \in {"NOT_APPLICABLE", "UNAVAILABLE"} /\ FieldId(name) \in ValueFields

Fields(k, p) ==
  LET a == ProjectedAttributes(k, p)
  IN  {<<FieldId(name), a[name]>> :
         name \in {n \in DOMAIN a \cap OwnedNames(k[1]) \cap Registered :
                     ~Withheld(Get(a, "summary_state"), n)}}

\* The fields of a trace node.
NodeFields(p) ==
  {<<FieldId(name), p.attributes[name]>> :
     name \in DOMAIN p.attributes \cap Registered}

-------------------------------------------------------------------------------
(* Compatibility *)

\* The coordinate of a field, if its attribute is there.
Coordinate(field, a) ==
  If(NameOf(field) \in DOMAIN a, <<field, Get(a, NameOf(field))>>)

CoordinateFields(kind, event, a) ==
  CASE kind = "finding_assertion" -> Coordinate(C(13), a) \o Coordinate(C(14), a)
    [] kind = "model_attribution" ->
         Coordinate(Plain("gen_ai_provider_name"), a) \o Coordinate(C(57), a)
           \o Coordinate(C(30), a) \o Coordinate(C(6), a)
    [] kind = "factual_contribution" /\ event = "usage" ->
         Coordinate(C(42), a) \o Coordinate(C(43), a) \o Coordinate(C(44), a)
           \o Coordinate(C(45), a)
    [] kind = "factual_contribution" /\ event = "implementation.summary" ->
         Coordinate(I(5), a) \o Coordinate(I(8), a) \o Coordinate(I(9), a)
           \o Coordinate(I(10), a)
    [] kind = "factual_contribution" /\ event = "test.summary" ->
         Coordinate(C(28), a) \o Coordinate(C(29), a)
    [] kind = "factual_contribution" /\ event = "review.summary" ->
         Coordinate(C(13), a) \o Coordinate(C(14), a)
    [] OTHER -> << >>

\* _compatibility of an active fact.
Compatibility(k, p, family) ==
  LET a == ProjectedAttributes(k, p)
      event == IF k[1] = "factual_contribution" THEN k[2] ELSE Null
  IN  [family_schema |-> family, event_name |-> event,
       completeness |-> Get(a, "summary_state"),
       dimensions |-> CoordinateFields(k[1], event, a)]

\* dict(pairs).get(name)
Lookup(pairs, name) ==
  LET found == {i \in DOMAIN pairs : pairs[i][1] = Plain(name)}
  IN  IF found = {} THEN Null ELSE pairs[CHOOSE i \in found : TRUE][2]

\* The pairs that have none of the names, in their order.
Omit(pairs, names) ==
  LET kept == {i \in DOMAIN pairs : pairs[i][1] \notin names}
      nth(n) == CHOOSE i \in kept : Cardinality({j \in kept : j <= i}) = n
  IN  [n \in 1..Cardinality(kept) |-> pairs[nth(n)]]

\* Mutant: the trace of an expired fact is taken for a dimension.
ExpiredCompatibilityTraced(pairs) ==
  [family_schema |-> Lookup(pairs, "family_schema"),
   event_name |-> Lookup(pairs, "event_name"),
   completeness |-> Lookup(pairs, "completeness"),
   dimensions |-> Omit(pairs, {Plain("family_schema"), Plain("event_name"),
                               Plain("completeness"), Plain("delivery_id")})]

\* _expired_compatibility of a fact that has its tombstone.
ExpiredCompatibility(pairs) ==
  [family_schema |-> Lookup(pairs, "family_schema"),
   event_name |-> Lookup(pairs, "event_name"),
   completeness |-> Lookup(pairs, "completeness"),
   dimensions |-> Omit(pairs, {Plain("family_schema"), Plain("event_name"),
                               Plain("completeness"), Plain("delivery_id"),
                               Plain("trace_id")})]

-------------------------------------------------------------------------------
(* Relationships *)

Endpoint(kind, key) == <<kind>> \o key

\* _relationships of row k with payload p; the source's coordinates are those
\* of the Span that wrote the row.
Relationships(k, p, source) ==
  CASE k[1] = "finding_target" ->
         {<<Endpoint("FINDING", SubSeq(k, 2, 3)),
            Endpoint("FINDING_TARGET", Tail(k))>>}
    [] k[1] = "finding_fix" ->
         {<<Endpoint("FIX", <<k[7]>>),
            Endpoint("FINDING_TARGET", SubSeq(k, 2, 6))>>}
    [] k[1] = "finding_recheck" ->
         {<<Endpoint("RECHECK", <<k[7]>>),
            Endpoint("FINDING_TARGET", SubSeq(k, 2, 6))>>}
    [] k[1] = "role_lineage" ->
         {<<Endpoint("ROLE", <<k[2], Get(p, "role_id")>>),
            Endpoint("ROLE_LINEAGE", <<k[2], Get(p, "role_lineage_id")>>)>>}
    [] k[1] = "delivery_root_binding" ->
         {<<Endpoint("SPAN", <<source.trace, source.span>>),
            Endpoint("DELIVERY", <<p.delivery_id>>)>>}
    [] k[1] = "model_attribution" ->
         {<<Endpoint("SPAN", SubSeq(k, 6, 7)),
            Endpoint("MODEL_ROLE", SubSeq(k, 2, 5))>>}
    [] OTHER -> {}

-------------------------------------------------------------------------------
(* Rows a filter selects *)

SourceOf(k) == accepted[effects[k].src].rec
RowsOf(kinds) == {k \in DOMAIN effects : k[1] \in kinds}

\* The value a tombstone of the row keeps under a name, if any.
Kept(k, name) ==
  IF k \in DOMAIN markers
  THEN {pair \in {markers[k].compatibility[i] :
                    i \in DOMAIN markers[k].compatibility} :
          pair[1] = Plain(name)}
  ELSE {}

\* The trace a fact belongs to: its Span's, or its event's.
TracesOfFact(k) ==
  IF SourceOf(k).type = "span" THEN {SourceOf(k).trace}
  ELSE (IF "_otel_context" \in DOMAIN effects[k].payload
        THEN {effects[k].payload["_otel_context"][1]} ELSE {})
         \cup {pair[2] : pair \in Kept(k, "trace_id")}

\* The traces whose root names the Delivery.  The pairs are searched with @>,
\* which ignores the order of a pair's members and their repetition: for an id
\* that is no dimension's name, and ranks are none, it is the pair itself.
RootTraces(d) ==
  {k[2] : k \in {r \in RowsOf({"delivery_root_binding"}) :
             \/ "delivery_id" \in DOMAIN effects[r].payload
                  /\ effects[r].payload.delivery_id = d
             \/ <<Plain("delivery_id"), d>> \in Kept(r, "delivery_id")}}

FactsOfTraces(traces) ==
  {k \in RowsOf(FactualKinds) : TracesOfFact(k) \cap traces # {}}

\* The trace rows selected, those a page shows, and the state of each trace and
\* of the answer.
TraceRows(traces) == {k \in RowsOf(TraceKinds) : k[2] \in traces}
TracePage(traces) == TraceRows(traces) \ DOMAIN markers

\* Mutant: one row that is left makes a trace available.
TraceSummaryActive(t) == IF TracePage({t}) # {} THEN "AVAILABLE" ELSE "EXPIRED"

TraceSummary(t) ==
  LET active == TracePage({t})
      expired == TraceRows({t}) \cap DOMAIN markers
  IN  IF active # {} /\ expired = {} THEN "AVAILABLE"
      ELSE IF active # {} /\ expired # {} THEN "PARTIAL" ELSE "EXPIRED"

TraceState(traces) ==
  LET states == {TraceSummary(t) : t \in {k[2] : k \in TraceRows(traces)}}
  IN  IF states = {} THEN "ABSENT"
      ELSE IF Cardinality(states) = 1 /\ "PARTIAL" \notin states
      THEN CHOOSE state \in states : TRUE
      ELSE "PARTIAL"

-------------------------------------------------------------------------------
(* Manifests *)

\* The route serves a stored Manifest only if its text is canonical, has the
\* stored digest, and names the digest it is stored under.
ManifestIntact(k, p) ==
  /\ p.canonical_projection.canonical
  /\ p.projection_digest = p.canonical_projection
  /\ p.canonical_projection.manifest_digest = k[2]
===============================================================================
