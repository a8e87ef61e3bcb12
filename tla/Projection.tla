------------------------------ MODULE Projection ------------------------------
(***************************************************************************)
(* The pure projection of a validated record into the sequence of effects  *)
(* one admission transaction applies (src/wsr_evidence/projection).        *)
(*                                                                         *)
(* A record is                                                             *)
(*   [type    |-> "span" or "event",      profile |-> 1 or 2,              *)
(*    name    |-> the event name, or the span's operation,                 *)
(*    id      |-> its identity,           attrs   |-> its attributes,      *)
(*    trace, span, parent |-> its OTel coordinates (Null when absent),     *)
(*    links   |-> the sequence of its span links,                          *)
(*    detail  |-> everything else the canonical digest covers].            *)
(* An identity is a natural number: the rank of the identity key in the C  *)
(* collation PostgreSQL sorts it by.  attrs is a TLA+ record whose fields  *)
(* are exactly the attributes present, named without the "agentops."       *)
(* prefix and with "_" for "."; agentops.event.id is the field id.  A      *)
(* Delivery identifier is a natural number too, its rank in the C          *)
(* collation.  The canonical digest (SHA-256) is taken to be injective, so *)
(* two records have the same digest exactly when they are equal.           *)
(***************************************************************************)
EXTENDS Naturals, Sequences

\* Python's None and JSON's null.
Null == "null"

\* attributes.get(name)
Get(a, name) == IF name \in DOMAIN a THEN a[name] ELSE Null

\* {**a, **b}
Extend(a, b) == [name \in DOMAIN a \cup DOMAIN b |->
                   IF name \in DOMAIN b THEN b[name] ELSE a[name]]

\* The Delivery a record belongs to: Profile 1 records belong to none.
NoDelivery == 0
DeliveryOf(r) == IF r.profile = 2 THEN r.attrs.delivery_id ELSE NoDelivery

IsEvent(r, name) == r.type = "event" /\ r.name = name

\* The two events claim_identity treats apart, in Profile 2 only.
IsBinding(r) == r.profile = 2 /\ IsEvent(r, "task.binding")
IsSummary(r) == r.profile = 2 /\ IsEvent(r, "delivery.summary")

\* A first write of a payload under (kind, key), and the "require_" effects,
\* which only look such a row up.
FirstWriteOf(kind, key, payload) ==
  [op |-> "first_write", kind |-> kind, key |-> key, payload |-> payload]
RequireOf(kind, key, payload) ==
  [op |-> "require", kind |-> kind, key |-> key, payload |-> payload]

\* The primary key of projection_effects.
EffectKey(e) == <<e.kind>> \o e.key

\* A sequence of one element or of none.
If(condition, element) == IF condition THEN <<element>> ELSE << >>

\* f"{workflow_family}@1"
Schema(family) == <<family, "@1">>

EmptyPayload == [none \in {} |-> Null]

-------------------------------------------------------------------------------
(* Task bindings *)

ProjectTaskBinding(a) ==
  << FirstWriteOf("task_declaration", <<a.task_id>>, EmptyPayload),
     FirstWriteOf("delivery_task_membership", <<a.task_id, a.delivery_id>>,
                  [manifest_digest |-> a.manifest_digest]),
     FirstWriteOf("delivery_task_guard", <<a.delivery_id>>,
                  [task_id |-> a.task_id,
                   manifest_digest |-> a.manifest_digest]) >>
  \o If("task_display_name" \in DOMAIN a,
        FirstWriteOf("task_display_name", <<a.task_id>>,
                     [display_name |-> Get(a, "task_display_name")]))
  \o << FirstWriteOf("delivery_manifest", <<a.manifest_digest>>,
                     [canonical_projection |-> a.delivery_manifest_projection,
                      projection_digest |->
                        a.delivery_manifest_projection_digest]) >>

-------------------------------------------------------------------------------
(* Spans *)

ProjectSpan(r) ==
  LET a == r.attrs
  IN  If(r.name = "invoke_workflow",
         FirstWriteOf("delivery_root_binding", <<r.trace>>,
           [delivery_id |-> Get(a, "delivery_id"),
            runtime_id |-> Get(a, "runtime_id"),
            manifest_digest |-> Get(a, "manifest_digest"),
            family_schema |-> Schema(Get(a, "workflow_family")),
            workflow_family |-> Get(a, "workflow_family")]))
      \o (IF "model_id" \in DOMAIN a
          THEN << RequireOf("delivery_root_binding", <<r.trace>>,
                            [runtime_id |-> a.runtime_id]),
                  FirstWriteOf("model_attribution",
                    <<a.gen_ai_provider_name, a.model_id, a.role_id,
                      a.runtime_id, r.trace, r.span>>,
                    [request_model |-> a.gen_ai_request_model]) >>
          ELSE << >>)
      \o << FirstWriteOf("trace_node", <<r.trace, r.span>>,
              [span_name |-> r.name, detail |-> r.detail, attributes |-> a]) >>
      \o If(r.parent # Null,
            FirstWriteOf("trace_parent_edge", <<r.trace, r.span, r.parent>>,
                         EmptyPayload))
      \o [i \in DOMAIN r.links |->
            FirstWriteOf("trace_link",
              <<r.trace, r.span, r.links[i].trace_id, r.links[i].span_id>>,
              r.links[i])]

-------------------------------------------------------------------------------
(* Review findings: an opening assertion, or a fix or recheck of one *)

InvariantNames ==
  {"review_lens", "review_scope", "review_severity", "source_review_id",
   "family_schema", "finding_summary"}

ActorNames ==
  {"writer_role_id", "writer_invocation_id", "reviewer_role_id",
   "reviewer_invocation_id"}

Pick(a, names) == [name \in names |-> a[name]]

\* The payload of a fix, a recheck or a status: its actors and what is its own.
WithActors(a, own) ==
  [name \in ActorNames \cup DOMAIN own |->
     IF name \in DOMAIN own THEN own[name] ELSE a[name]]

ProjectFinding(a) ==
  LET assertion == <<a.finding_id, a.finding_scope_id>>
      target == assertion \o <<a.finding_target_kind, a.finding_target_id,
                               Get(a, "finding_target_artifact_id")>>
      lifecycle == "fix_id" \in DOMAIN a \/ "recheck_id" \in DOMAIN a
  IN  << FirstWriteOf("finding_scope_guard", <<a.finding_id>>,
                      [scope_id |-> a.finding_scope_id]),
         FirstWriteOf("finding_target_guard",
                      assertion \o <<a.finding_target_id>>,
                      [kind |-> a.finding_target_kind,
                       containing_artifact_id |->
                         Get(a, "finding_target_artifact_id")]) >>
      \o (IF lifecycle
          THEN << RequireOf("finding_assertion", assertion,
                            Pick(a, InvariantNames)),
                  RequireOf("finding_target", target, EmptyPayload) >>
          ELSE << FirstWriteOf("finding_assertion", assertion,
                    Pick(a, InvariantNames \cup ActorNames
                              \cup {"artifact_id", "artifact_digest"})),
                  FirstWriteOf("finding_target", target, EmptyPayload) >>)
      \o << FirstWriteOf("finding_status", assertion \o <<a.review_id>>,
                         WithActors(a, [status |-> a.finding_status])) >>
      \o If("fix_id" \in DOMAIN a,
            FirstWriteOf("finding_fix", target \o <<Get(a, "fix_id")>>,
              WithActors(a, [finding_id |-> Get(a, "fix_finding_id"),
                             review_id |-> a.review_id])))
      \o If("recheck_id" \in DOMAIN a /\ "recheck_fix_id" \in DOMAIN a,
            RequireOf("finding_fix", target \o <<Get(a, "recheck_fix_id")>>,
                      EmptyPayload))
      \o If("recheck_id" \in DOMAIN a,
            FirstWriteOf("finding_recheck", target \o <<Get(a, "recheck_id")>>,
              WithActors(a, [review_id |-> a.review_id,
                             prior_review_id |-> Get(a, "recheck_review_id"),
                             finding_id |-> Get(a, "recheck_finding_id"),
                             fix_id |-> Get(a, "recheck_fix_id"),
                             iteration_id |-> Get(a, "iteration_id"),
                             recheck_role_id |-> Get(a, "recheck_role_id"),
                             recheck_invocation_id |->
                               Get(a, "recheck_invocation_id")])))

-------------------------------------------------------------------------------
(* The other events: one factual contribution each *)

\* The attributes that, with the family, the event name and the summary
\* state, decide which contributions may be aggregated together.
CompatibilityNames(name) ==
  CASE name = "usage" ->
         <<"usage_kind", "usage_unit", "usage_source", "usage_source_id">>
    [] name = "implementation.summary" ->
         <<"coverage_dimension", "coverage_scope", "coverage_tool_id",
           "coverage_format">>
    [] name = "test.summary" -> <<"artifact_id", "artifact_digest">>
    [] name = "review.summary" -> <<"review_lens", "review_scope">>
    [] OTHER -> << >>

CompatibilityCoordinates(r) ==
  LET names == CompatibilityNames(r.name)
  IN  <<Get(r.attrs, "family_schema"), r.name, Get(r.attrs, "summary_state")>>
      \o [i \in DOMAIN names |-> Get(r.attrs, names[i])]

AggregateEligible(r) ==
  LET coordinates == CompatibilityCoordinates(r)
  IN  /\ Get(r.attrs, "summary_state") \in {"FINAL", "LOWER_BOUND"}
      /\ \A i \in DOMAIN coordinates : coordinates[i] # Null

ProjectContribution(r) ==
  << FirstWriteOf("factual_contribution", <<r.name, r.id>>,
       [attributes |-> r.attrs,
        compatibility_key |-> CompatibilityCoordinates(r),
        aggregate_eligible |-> AggregateEligible(r)]) >>

ProjectRoleLineage(r) ==
  << FirstWriteOf("role_lineage",
       If(r.profile = 2, DeliveryOf(r))
         \o <<r.attrs.family_schema, r.attrs.role_id>>,
       r.attrs) >>

-------------------------------------------------------------------------------

PublicFactKinds ==
  {"factual_contribution", "finding_assertion", "finding_target",
   "finding_status", "finding_fix", "finding_recheck", "role_lineage"}

\* Mutant: a fix writes its two guards in the other order.
BindReordered(r, es) ==
  IF "fix_id" \in DOMAIN r.attrs
  THEN [i \in DOMAIN es |-> IF i <= 2 THEN es[3 - i] ELSE es[i]]
  ELSE es

\* An event that carries both trace coordinates puts them in the payload of
\* each of its public facts.  A "require_" effect's kind is not one of them.
BindEventContext(r, es) ==
  IF r.trace = Null \/ r.span = Null
  THEN es
  ELSE [i \in DOMAIN es |->
          IF es[i].op = "first_write" /\ es[i].kind \in PublicFactKinds
          THEN [es[i] EXCEPT !.payload =
                  [name \in DOMAIN @ \cup {"_otel_context"} |->
                     IF name = "_otel_context" THEN <<r.trace, r.span>>
                                               ELSE @[name]]]
          ELSE es[i]]

Project(r) ==
  CASE r.type = "span" -> ProjectSpan(r)
    [] IsEvent(r, "task.binding") ->
         ProjectTaskBinding(r.attrs)
    [] IsEvent(r, "review.finding") ->
         BindEventContext(r, ProjectFinding(r.attrs))
    [] IsEvent(r, "role.lineage") ->
         BindEventContext(r, ProjectRoleLineage(r))
    [] OTHER -> BindEventContext(r, ProjectContribution(r))
===============================================================================
