------------------------------ MODULE Validation ------------------------------
(***************************************************************************)
(* Closed validation of a logical record                                   *)
(* (src/wsr_evidence/admission/validation.py).                             *)
(*                                                                         *)
(* A logical record is a record of Projection, before anything is known    *)
(* about it, with four more fields:                                        *)
(*   kind    |-> its span_kind,                                            *)
(*   bad     |-> the names of the attributes whose value has a wrong type, *)
(*               length, sign or pattern,                                  *)
(*   nan     |-> the names of the attributes whose value is not finite,    *)
(*   defects |-> the other parts of it that are missing or malformed.      *)
(* An event without agentops.event.id has the defect "event_id".  A span   *)
(* name that starts with "invoke_workflow" is that word.                   *)
(***************************************************************************)
EXTENDS Projection

EventNames ==
  {"delivery.summary", "review.finding", "review.summary", "test.summary",
   "implementation.summary", "system_design.summary", "role.lineage",
   "intervention", "usage", "sampling.decision"}

-------------------------------------------------------------------------------
(* Attribute names and their types *)

StandardNames ==
  {"gen_ai_operation_name", "gen_ai_agent_id", "gen_ai_agent_name",
   "gen_ai_agent_version", "gen_ai_provider_name", "gen_ai_request_model",
   "gen_ai_response_model", "gen_ai_tool_name", "gen_ai_tool_type",
   "gen_ai_tool_call_id", "error_type", "gen_ai_usage_input_tokens",
   "gen_ai_usage_output_tokens"}

IntegerNames ==
  {"review_total", "review_observed_count", "observed_loop_count",
   "observed_intervention_count", "usage_value", "test_passed", "test_failed",
   "test_skipped", "coverage_covered", "coverage_total",
   "fresh_reader_finding_count", "verification_check_passed",
   "verification_check_failed"}

NumberNames ==
  {"sampling_probability", "delivery_elapsed_time_ms", "test_duration_seconds"}

StringNames ==
  {"delivery_id", "task_id", "workflow_id", "workflow_version",
   "implementation_id", "runtime_id", "manifest_digest", "workflow_family",
   "delivery_outcome", "summary_state", "review_id", "review_lens",
   "review_scope", "review_severity", "finding_id", "finding_status",
   "source_review_id", "fix_id", "fix_finding_id", "recheck_id",
   "recheck_review_id", "recheck_finding_id", "recheck_fix_id", "iteration_id",
   "artifact_id", "artifact_digest", "role_id", "role_lineage_id",
   "parent_role_id", "writer_role_id", "reviewer_role_id", "recheck_role_id",
   "writer_invocation_id", "reviewer_invocation_id", "recheck_invocation_id",
   "intervention_kind", "usage_kind", "usage_unit", "usage_source",
   "usage_source_id", "sampling_decision", "family_schema", "finding_summary",
   "finding_scope_id", "finding_target_kind", "finding_target_id",
   "finding_target_artifact_id", "delivery_stage_reached", "model_id",
   "task_display_name", "delivery_manifest_projection",
   "delivery_manifest_projection_digest", "coverage_dimension",
   "coverage_scope", "coverage_tool_id", "coverage_format",
   "fresh_reader_result", "verification_id", "verification_result"}

AgentopsNames == IntegerNames \cup NumberNames \cup StringNames

\* The enumerations the rules below tell apart; a value outside one of the
\* others is in l.bad.
Enums ==
  [summary_state |-> {"FINAL", "LOWER_BOUND", "NOT_APPLICABLE", "UNAVAILABLE"},
   review_lens |-> {"GOAL_BLACKBOX", "IMPLEMENTATION_WHITEBOX", "ARCHITECTURE",
                    "PROBLEM_SOLUTION", "QUALITY_ACCEPTANCE", "FRESH_READER"},
   finding_target_kind |-> {"ARTIFACT", "SECTION", "COMPONENT", "REQUIREMENT"}]

ValidateAttributes(l) ==
  /\ DOMAIN l.attrs \subseteq AgentopsNames \cup StandardNames
  /\ l.bad = {} /\ l.nan = {}
  /\ \A name \in DOMAIN l.attrs \cap DOMAIN Enums : l.attrs[name] \in Enums[name]

-------------------------------------------------------------------------------
(* EVENT_RULES: the attributes an event must have, and may have besides.   *)
(* agentops.event.id, which all of them must have, is the field id.        *)

FamilyNames == {"workflow_family", "family_schema"}
SummaryNames == FamilyNames \cup {"summary_state"}
ArtifactNames == {"artifact_id", "artifact_digest"}
LoopNames == {"role_id", "observed_loop_count", "observed_intervention_count"}
RecheckNames ==
  {"recheck_id", "recheck_review_id", "recheck_finding_id", "recheck_fix_id",
   "iteration_id", "recheck_role_id", "recheck_invocation_id"}

Required(name) ==
  CASE name = "task.binding" ->
         FamilyNames \cup {"delivery_id", "task_id", "manifest_digest",
                           "delivery_manifest_projection",
                           "delivery_manifest_projection_digest"}
    [] name = "delivery.summary" -> SummaryNames \cup {"delivery_outcome"}
    [] name = "review.finding" ->
         FamilyNames \cup ArtifactNames \cup ActorNames
           \cup {"review_id", "review_lens", "review_scope", "review_severity",
                 "finding_id", "finding_status", "source_review_id",
                 "finding_summary", "finding_scope_id", "finding_target_kind",
                 "finding_target_id"}
    [] name = "review.summary" ->
         SummaryNames \cup ArtifactNames \cup ActorNames
           \cup {"review_id", "review_lens", "review_scope"}
    [] name = "test.summary" ->
         SummaryNames \cup ArtifactNames
           \cup {"test_passed", "test_failed", "test_skipped"}
    [] name = "implementation.summary" ->
         SummaryNames \cup ArtifactNames
           \cup {"coverage_dimension", "coverage_covered", "coverage_total",
                 "coverage_scope", "coverage_tool_id", "coverage_format"}
    [] name = "system_design.summary" ->
         SummaryNames \cup ArtifactNames
           \cup {"verification_id", "verification_result",
                 "verification_check_passed", "verification_check_failed"}
    [] name = "role.lineage" -> FamilyNames \cup {"role_id", "role_lineage_id"}
    [] name = "intervention" -> FamilyNames \cup {"intervention_kind"}
    [] name = "usage" ->
         SummaryNames \cup {"usage_kind", "usage_unit", "usage_source",
                            "usage_source_id", "usage_value"}
    [] name = "sampling.decision" ->
         {"sampling_decision", "sampling_probability"}

Optional(name) ==
  CASE name = "task.binding" -> {"task_display_name"}
    [] name = "delivery.summary" ->
         {"role_id", "delivery_elapsed_time_ms", "delivery_stage_reached"}
    [] name = "review.finding" ->
         RecheckNames \cup {"fix_id", "fix_finding_id",
                            "finding_target_artifact_id"}
    [] name = "review.summary" ->
         RecheckNames \cup {"review_total", "review_observed_count",
                            "fresh_reader_result", "fresh_reader_finding_count"}
    [] name = "test.summary" -> {"role_id", "test_duration_seconds"}
    [] name \in {"implementation.summary", "system_design.summary"} -> LoopNames
    [] name = "role.lineage" -> {"parent_role_id"}
    [] name \in {"intervention", "usage"} -> {"role_id"}
    [] OTHER -> {}

-------------------------------------------------------------------------------
(* The closed Manifest projection of a task.binding *)

\* The attribute is the canonical text of a value, and its digest attribute the
\* digest of that text, hence the text.  A text is a record: whether it is
\* canonical JSON, the value's malformed parts, the identities in it, the ids
\* of its roles in order (ranks in the C collation), the roles whose map the
\* resolved_map_digest is the digest of, and
\*   raises    |-> "parse" if json.loads or canonical_bytes raises something
\*                 other than a ValidationError: a number that is not finite or
\*                 too long, a lone surrogate, too deep a nesting;
\*                 "document_state" if that is a list or an object,
\*   malformed |-> the roles with a member that is missing or wrong,
\*   unhashed  |-> the roles whose resolution_source is a list or an object.
MaxRoles == 128

Ascending(ids, n) == \A i \in 2..n : ids[i - 1] < ids[i]

\* Mutant: the Manifest digest in the text is not compared.
HeadAnyDigest(a) ==
  LET text == a.delivery_manifest_projection
  IN  /\ text.canonical
      /\ a.delivery_manifest_projection_digest = text
      /\ text.defects \cap {"shape", "workflow", "repository"} = {}
      /\ text.delivery_id = a.delivery_id
      /\ text.task_id = a.task_id

\* The checks before that of the document state.
ManifestHead(a) ==
  LET text == a.delivery_manifest_projection
  IN  /\ text.canonical
      /\ a.delivery_manifest_projection_digest = text
      /\ text.defects \cap {"shape", "workflow", "repository"} = {}
      /\ text.delivery_id = a.delivery_id
      /\ text.task_id = a.task_id
      /\ text.manifest_digest = a.manifest_digest

ParseClosedManifestProjection(a) ==
  LET text == a.delivery_manifest_projection
  IN  /\ ManifestHead(a)
      /\ text.raises = {} /\ text.defects = {}
      /\ Len(text.roles) <= MaxRoles
      /\ text.malformed = {} /\ text.unhashed = {}
      /\ Ascending(text.roles, Len(text.roles))
      /\ text.resolved = text.roles

\* A check that raises a ValueError, UnicodeEncodeError, RecursionError or
\* TypeError is reached: "in {...}" hashes a value whose type nothing has
\* looked at.
ManifestRaises(a) ==
  LET text == a.delivery_manifest_projection
  IN  \/ "parse" \in text.raises
      \/ ManifestHead(a) /\ "document_state" \in text.raises
      \/ /\ ManifestHead(a) /\ text.defects = {} /\ Len(text.roles) <= MaxRoles
         /\ \E i \in text.unhashed : /\ text.malformed \cap 1..i = {}
                                     /\ Ascending(text.roles, i - 1)

-------------------------------------------------------------------------------
(* Findings *)

\* Mutant: a fix need not name the Finding it fixes.
ValidateFindingAnyFix(a) ==
  LET fix == "fix_id" \in DOMAIN a
      recheck == "recheck_id" \in DOMAIN a
  IN  /\ ~(fix /\ recheck)
      /\ recheck => /\ Get(a, "recheck_finding_id") = a.finding_id
                    /\ Get(a, "recheck_review_id") = a.source_review_id
      /\ ~fix /\ ~recheck => a.source_review_id = a.review_id

ValidateFinding(a) ==
  LET containing == "finding_target_artifact_id" \in DOMAIN a
      fix == "fix_id" \in DOMAIN a
      recheck == "recheck_id" \in DOMAIN a
  IN  /\ \/ a.finding_target_kind = "SECTION" <=> containing
         \/ a.finding_target_kind \in {"COMPONENT", "REQUIREMENT"}
      /\ ~(fix /\ recheck)
      /\ IF fix THEN Get(a, "fix_finding_id") = a.finding_id
                ELSE "fix_finding_id" \notin DOMAIN a
      /\ IF recheck
         THEN /\ Get(a, "recheck_finding_id") = a.finding_id
              /\ Get(a, "recheck_review_id") = a.source_review_id
         ELSE (RecheckNames \ {"iteration_id"}) \cap DOMAIN a = {}
      /\ ~fix /\ ~recheck => a.source_review_id = a.review_id

ValidateRecheck(a) ==
  IF "recheck_id" \in DOMAIN a
  THEN {"recheck_review_id", "iteration_id", "recheck_role_id",
        "recheck_invocation_id"} \subseteq DOMAIN a
  ELSE "iteration_id" \notin DOMAIN a

-------------------------------------------------------------------------------
(* Events *)

\* The stable event id of a Delivery's task.binding.
CONSTANT BindingId(_)

\* The names, fields and attributes of an event are those of its kind.
EventClosed(l) ==
  LET a == l.attrs
      direct == IF l.profile = 2 THEN {"delivery_id"} ELSE {}
  IN
  /\ l.name \in EventNames \cup (IF l.profile = 2 THEN {"task.binding"} ELSE {})
  /\ l.defects \cap {"span_field", "trace_id", "span_id"} = {}
  /\ DOMAIN a \cap StandardNames = {}
  /\ DOMAIN a \subseteq Required(l.name) \cup Optional(l.name) \cup direct
  /\ "event_id" \notin l.defects
  /\ Required(l.name) \cup direct \subseteq DOMAIN a

ValidateEvent(l) ==
  LET a == l.attrs
      fresh == {"fresh_reader_result", "fresh_reader_finding_count"}
  IN
  /\ EventClosed(l)
  /\ l.name = "task.binding" =>
       /\ l.id = BindingId(a.delivery_id)
       /\ ParseClosedManifestProjection(a)
       /\ a.delivery_manifest_projection.workflow_id = a.workflow_family
  /\ l.name # "sampling.decision" => a.family_schema = Schema(a.workflow_family)
  /\ l.name = "review.finding" => ValidateFinding(a)
  /\ l.name \in {"review.finding", "review.summary"} => ValidateRecheck(a)
  /\ l.name = "review.summary" =>
       IF a.review_lens = "FRESH_READER" THEN fresh \subseteq DOMAIN a
                                         ELSE fresh \cap DOMAIN a = {}
  /\ l.name = "implementation.summary" => a.coverage_covered <= a.coverage_total
  /\ l.defects \cap {"unit", "scope_pattern", "range"} = {}

-------------------------------------------------------------------------------
(* Spans *)

SpanAllowed ==
  {"delivery_id", "task_id", "workflow_id", "workflow_version",
   "implementation_id", "runtime_id", "manifest_digest", "workflow_family",
   "role_id", "model_id"}

RootFields == SpanAllowed \ {"task_id", "role_id", "model_id"}

ModelCall == {"chat", "generate_content"}

\* The standard attributes a Span of an operation may and must have.
StandardByOperation(operation) ==
  CASE operation = "invoke_agent" ->
         {"gen_ai_operation_name", "gen_ai_agent_id", "gen_ai_agent_name",
          "gen_ai_agent_version", "error_type"}
    [] operation \in ModelCall ->
         {"gen_ai_operation_name", "gen_ai_provider_name",
          "gen_ai_request_model", "gen_ai_response_model",
          "gen_ai_usage_input_tokens", "gen_ai_usage_output_tokens",
          "error_type"}
    [] operation = "execute_tool" ->
         {"gen_ai_operation_name", "gen_ai_tool_name", "gen_ai_tool_type",
          "gen_ai_tool_call_id", "error_type"}
    [] OTHER -> {"error_type"}

RequiredByOperation(operation) ==
  CASE operation = "invoke_agent" -> {"gen_ai_agent_id"}
    [] operation \in ModelCall -> {"gen_ai_provider_name", "gen_ai_request_model"}
    [] operation = "execute_tool" ->
         {"gen_ai_tool_name", "gen_ai_tool_type", "gen_ai_tool_call_id"}
    [] OTHER -> {}

ValidateSpan(l) ==
  LET a == l.attrs
      operation == Get(a, "gen_ai_operation_name")
      rootOnly == RootFields \ ({"runtime_id"}
                    \cup (IF l.profile = 2 THEN {"delivery_id"} ELSE {}))
  IN
  /\ l.defects \cap {"span_shape", "event_field", "trace_id", "span_id",
                     "parent", "links"} = {}
  /\ l.kind \in {"INTERNAL", "CLIENT"}
  /\ DOMAIN a \ StandardNames \subseteq SpanAllowed
  /\ l.profile = 2 => "delivery_id" \in DOMAIN a
  /\ IF l.name = "invoke_workflow"
     THEN RootFields \subseteq DOMAIN a /\ l.kind = "INTERNAL"
     ELSE rootOnly \cap DOMAIN a = {}
  /\ RequiredByOperation(operation) \subseteq DOMAIN a
  /\ operation \in {"invoke_agent", "execute_tool"} => l.kind = "INTERNAL"
  /\ operation \in ModelCall => l.kind = "CLIENT"
  /\ DOMAIN a \cap StandardNames \subseteq StandardByOperation(operation)
  /\ "model_id" \in DOMAIN a =>
       /\ operation \in ModelCall
       /\ {"role_id", "runtime_id", "gen_ai_provider_name"} \subseteq DOMAIN a

-------------------------------------------------------------------------------

\* "carrier" is the _carrier_error member the decoder adds, an unknown field.
ValidateEnvelope(l) ==
  /\ l.profile \in {1, 2}
  /\ l.defects \cap {"carrier", "resource", "scope"} = {}

Validates(l) ==
  /\ ValidateEnvelope(l)
  /\ ValidateAttributes(l)
  /\ \/ l.type = "span" /\ ValidateSpan(l)
     \/ l.type = "event" /\ ValidateEvent(l)

\* validate_record leaves with an exception that is no ValidationError, which
\* neither admit nor _ingest catches.
ValidationRaises(l) ==
  /\ ValidateEnvelope(l)
  /\ ValidateAttributes(l)
  /\ l.type = "event" /\ EventClosed(l)
  /\ l.name = "task.binding" /\ l.id = BindingId(l.attrs.delivery_id)
  /\ ManifestRaises(l.attrs)

\* The ValidatedRecord of a logical record.
Validated(l) ==
  [type |-> l.type, profile |-> l.profile, name |-> l.name, id |-> l.id,
   attrs |-> l.attrs, trace |-> l.trace, span |-> l.span, parent |-> l.parent,
   links |-> l.links, detail |-> l.detail]
===============================================================================
