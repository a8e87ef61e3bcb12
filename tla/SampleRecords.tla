----------------------------- MODULE SampleRecords -----------------------------
(***************************************************************************)
(* Constructors for the records the model-checking instances send.  Every  *)
(* record carries the attributes validation requires of its kind.          *)
(***************************************************************************)
EXTENDS Projection

Event(profile, id, name, attrs) ==
  [type |-> "event", profile |-> profile, name |-> name, id |-> id,
   attrs |-> attrs, trace |-> Null, span |-> Null, parent |-> Null,
   links |-> << >>, detail |-> Null]

\* A closed Manifest projection with two roles.
Manifest(d, task, manifest) ==
  [canonical |-> TRUE, raises |-> {}, defects |-> {}, delivery_id |-> d,
   task_id |-> task, manifest_digest |-> manifest, workflow_id |-> "f",
   roles |-> <<1, 2>>, malformed |-> {}, unhashed |-> {}, resolved |-> <<1, 2>>]

ManifestAttrs(d, task, manifest) ==
  [delivery_id |-> d, task_id |-> task, manifest_digest |-> manifest,
   workflow_family |-> "f", family_schema |-> Schema("f"),
   delivery_manifest_projection |-> Manifest(d, task, manifest),
   delivery_manifest_projection_digest |-> Manifest(d, task, manifest)]

\* task.binding; its event id is a function of the Delivery.
Binding(d, task, manifest) ==
  Event(2, 10 + d, "task.binding", ManifestAttrs(d, task, manifest))

NamedBinding(d, task, manifest, display) ==
  LET a == ManifestAttrs(d, task, manifest)
  IN  Event(2, 10 + d, "task.binding",
            [name \in DOMAIN a \cup {"task_display_name"} |->
               IF name = "task_display_name" THEN display ELSE a[name]])

Summary(id, d) ==
  Event(2, id, "delivery.summary",
        [delivery_id |-> d, delivery_outcome |-> "COMPLETED",
         workflow_family |-> "f", family_schema |-> Schema("f"),
         summary_state |-> "FINAL"])

Intervention(id, d) ==
  Event(2, id, "intervention",
        [delivery_id |-> d, intervention_kind |-> "USER_REDIRECT",
         workflow_family |-> "f", family_schema |-> Schema("f")])

\* A Profile 1 event, which belongs to no Delivery.
Intervention1(id) ==
  Event(1, id, "intervention",
        [intervention_kind |-> "USER_REDIRECT",
         workflow_family |-> "f", family_schema |-> Schema("f")])

Lineage(id, d, role, lineage) ==
  Event(2, id, "role.lineage",
        [delivery_id |-> d, role_id |-> role, role_lineage_id |-> lineage,
         workflow_family |-> "f", family_schema |-> Schema("f")])

\* An event of the family with its summary state, about an artifact.
Measured(id, d, name, attrs) ==
  Event(2, id, name,
        Extend(attrs,
               [delivery_id |-> d, workflow_family |-> "f",
                family_schema |-> Schema("f"), summary_state |-> "FINAL",
                artifact_id |-> "a", artifact_digest |-> "h"]))

TestSummary(id, d) ==
  Measured(id, d, "test.summary",
           [test_passed |-> 3, test_failed |-> 0, test_skipped |-> 1])

ImplementationSummary(id, d) ==
  Measured(id, d, "implementation.summary",
           [coverage_dimension |-> "LINE", coverage_covered |-> 2,
            coverage_total |-> 3, coverage_scope |-> "WHOLE",
            coverage_tool_id |-> "tool", coverage_format |-> "fmt"])

DesignSummary(id, d) ==
  Measured(id, d, "system_design.summary",
           [verification_id |-> "q", verification_result |-> "PASS",
            verification_check_passed |-> 2, verification_check_failed |-> 0])

ReviewSummary(id, d) ==
  Measured(id, d, "review.summary",
           [review_id |-> "v0", review_lens |-> "ARCHITECTURE",
            review_scope |-> "WHOLE_SCOPE", writer_role_id |-> "w",
            writer_invocation_id |-> "wi", reviewer_role_id |-> "r",
            reviewer_invocation_id |-> "ri", review_total |-> 2])

Usage(id, state) ==
  Event(1, id, "usage",
        [workflow_family |-> "f", family_schema |-> Schema("f"),
         summary_state |-> state, usage_kind |-> "TOKENS", usage_unit |-> "{t}",
         usage_source |-> "PROVIDER", usage_source_id |-> "p",
         usage_value |-> 7])

Sampling(id) ==
  Event(1, id, "sampling.decision",
        [sampling_decision |-> "SAMPLED", sampling_probability |-> 1])

\* A Profile 1 lineage.
Lineage1(id, role, lineage) ==
  Event(1, id, "role.lineage",
        [role_id |-> role, role_lineage_id |-> lineage,
         workflow_family |-> "f", family_schema |-> Schema("f")])

\* An event with the trace coordinates of Span "call".
Located(r) == [r EXCEPT !.trace = "t", !.span = "call"]

-------------------------------------------------------------------------------
(* Review findings *)

FindingAttrs(d, finding, review) ==
  [delivery_id |-> d, finding_id |-> finding, finding_scope_id |-> "s",
   finding_target_kind |-> "ARTIFACT", finding_target_id |-> "a",
   finding_status |-> "OPEN", finding_summary |-> "text",
   review_id |-> review, source_review_id |-> "v0",
   review_lens |-> "ARCHITECTURE", review_scope |-> "WHOLE_SCOPE",
   review_severity |-> "MAJOR", artifact_id |-> "a", artifact_digest |-> "h",
   writer_role_id |-> "w", writer_invocation_id |-> "wi",
   reviewer_role_id |-> "r", reviewer_invocation_id |-> "ri",
   workflow_family |-> "f", family_schema |-> Schema("f")]

\* The Finding as first reported, by review v0.
Opening(id, d, finding) ==
  Event(2, id, "review.finding", FindingAttrs(d, finding, "v0"))

\* The same Finding reported with another severity.
Contradiction(id, d, finding) ==
  Event(2, id, "review.finding",
        [FindingAttrs(d, finding, "v0") EXCEPT !.review_severity = "MINOR"])

Fix(id, d, finding) ==
  Event(2, id, "review.finding",
        Extend(FindingAttrs(d, finding, "v1"),
               [fix_id |-> "x", fix_finding_id |-> finding]))

Recheck(id, d, finding) ==
  Event(2, id, "review.finding",
        Extend(FindingAttrs(d, finding, "v2"),
               [recheck_id |-> "k", recheck_review_id |-> "v0",
                recheck_finding_id |-> finding, recheck_fix_id |-> "x",
                iteration_id |-> "i", recheck_role_id |-> "r",
                recheck_invocation_id |-> "ki"]))

-------------------------------------------------------------------------------
(* Spans *)

Span(id, name, span, parent, links, attrs) ==
  [type |-> "span", profile |-> 2, name |-> name, id |-> id, attrs |-> attrs,
   trace |-> "t", span |-> span, parent |-> parent, links |-> links,
   detail |-> "OK"]

RootSpan(id, d, runtime) ==
  Span(id, "invoke_workflow", "root", Null, << >>,
       [delivery_id |-> d, runtime_id |-> runtime, manifest_digest |-> "m",
        workflow_family |-> "f", workflow_id |-> "f", workflow_version |-> "1",
        implementation_id |-> "x"])

\* A model call under the root, with two links to the root Span.
ModelSpan(id, d, runtime, links) ==
  Span(id, "chat", "call", "root", links,
       [delivery_id |-> d, runtime_id |-> runtime, role_id |-> "r",
        model_id |-> "m", gen_ai_operation_name |-> "chat",
        gen_ai_provider_name |-> "p", gen_ai_request_model |-> "m"])

ToolSpan(id, d) ==
  Span(id, "execute_tool", "tool", "root", << >>,
       [delivery_id |-> d, gen_ai_operation_name |-> "execute_tool",
        gen_ai_tool_name |-> "n", gen_ai_tool_type |-> "function",
        gen_ai_tool_call_id |-> "c", error_type |-> "e"])

LinkToRoot(flags) == [trace_id |-> "t", span_id |-> "root", flags |-> flags]
===============================================================================
