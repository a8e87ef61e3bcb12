---------------------------- MODULE ServiceRowProofs ----------------------------
(***************************************************************************)
(* Proofs about the rows of the service and about what queries make of     *)
(* them: rows and tombstones say what their sources say, and a record's    *)
(* rows are there as long as the record is.                                *)
(***************************************************************************)
EXTENDS ServiceRowInvariants, ServiceProofs

USE DEF tables

-------------------------------------------------------------------------------
(* Sequences as sets of elements *)

\* The elements of a concatenation are those of its parts.
LEMMA ElementsConcatenation ==
  ASSUME NEW s, NEW t, IsSequence(s), IsSequence(t)
  PROVE  IsSequence(s \o t) /\ Elements(s \o t) = Elements(s) \cup Elements(t)
<1>1. IsSequence(s \o t)
  BY Concatenation
<1>2. ASSUME NEW x \in Elements(s \o t)
      PROVE  x \in Elements(s) \cup Elements(t)
  <2>1. PICK i \in DOMAIN (s \o t) : x = (s \o t)[i]
    BY DEF Elements
  <2>2. \/ \E j \in DOMAIN s : (s \o t)[i] = s[j]
        \/ \E j \in DOMAIN t : (s \o t)[i] = t[j]
    BY Concatenation
  <2>. QED
    BY <2>1, <2>2 DEF Elements
<1>3. ASSUME NEW x \in Elements(s) \cup Elements(t)
      PROVE  x \in Elements(s \o t)
  <2>1. CASE x \in Elements(s)
    <3>1. PICK i \in DOMAIN s : x = s[i]
      BY <2>1 DEF Elements
    <3>2. i \in DOMAIN (s \o t) /\ (s \o t)[i] = x
      BY <3>1, Concatenation
    <3>. QED
      BY <3>2 DEF Elements
  <2>2. CASE x \in Elements(t)
    <3>1. PICK i \in DOMAIN t : x = t[i]
      BY <2>2 DEF Elements
    <3>2. PICK V : s \in Seq(V)
      BY Zenon DEF IsSequence
    <3>3. PICK T : t \in Seq(T)
      BY Zenon DEF IsSequence
    <3>. DEFINE U == V \cup T
    <3>4. s \in Seq(U) /\ t \in Seq(U)
      BY <3>2, <3>3
    <3>. HIDE DEF U
    <3>5. Len(s) + i \in DOMAIN (s \o t) /\ (s \o t)[Len(s) + i] = t[i]
      BY <3>4
    <3>. QED
      BY <3>1, <3>5, Zenon DEF Elements
  <2>. QED
    BY <2>1, <2>2
<1>. QED
  BY <1>1, <1>2, <1>3

\* The elements of short sequences.
LEMMA ElementsFew ==
  ASSUME NEW e
  PROVE  /\ IsSequence(<< >>) /\ Elements(<< >>) = {}
         /\ IsSequence(<<e>>) /\ Elements(<<e>>) = {e}
         /\ \A f : IsSequence(<<e, f>>) /\ Elements(<<e, f>>) = {e, f}
         /\ \A condition :
              /\ IsSequence(If(condition, e))
              /\ Elements(If(condition, e)) = IF condition THEN {e} ELSE {}
<1>1. Elements(<< >>) = {} /\ Elements(<<e>>) = {e}
  BY DEF Elements
<1>2. \A f : Elements(<<e, f>>) = {e, f}
  BY DEF Elements
<1>3. \A condition : If(condition, e) = IF condition THEN <<e>> ELSE << >>
  BY DEF If
<1>. QED
  BY <1>1, <1>2, <1>3, Tuples

\* Sequences of one length that agree everywhere are the same.
LEMMA SameElements ==
  ASSUME NEW V, NEW s \in Seq(V), NEW t \in Seq(V), Len(s) = Len(t),
         \A i \in 1..Len(s) : s[i] = t[i]
  PROVE  s = t
  OBVIOUS

\* Tuples side by side are one tuple.
LEMMA Flat13 ==
  ASSUME NEW a, NEW b, NEW c, NEW d
  PROVE  <<a>> \o <<b, c, d>> = <<a, b, c, d>>
<1>. DEFINE s == <<a>> \o <<b, c, d>>
            t == <<a, b, c, d>>
            V == {a, b, c, d}
<1>1. /\ s \in Seq(V) /\ t \in Seq(V) /\ Len(s) = 4 /\ Len(t) = 4
      /\ s[1] = t[1] /\ s[2] = t[2] /\ s[3] = t[3] /\ s[4] = t[4]
  OBVIOUS
<1>. HIDE DEF s, t, V
<1>2. s = t
  BY <1>1, SameElements
<1>. QED
  BY <1>2 DEF s, t

\* As above, for one and four scalars.
LEMMA Flat14 ==
  ASSUME NEW a, NEW b, NEW c, NEW d, NEW e
  PROVE  <<a>> \o <<b, c, d, e>> = <<a, b, c, d, e>>
<1>. DEFINE s == <<a>> \o <<b, c, d, e>>
            t == <<a, b, c, d, e>>
            V == {a, b, c, d, e}
<1>1. /\ s \in Seq(V) /\ t \in Seq(V) /\ Len(s) = 5 /\ Len(t) = 5
      /\ s[1] = t[1] /\ s[2] = t[2] /\ s[3] = t[3] /\ s[4] = t[4]
      /\ s[5] = t[5]
  OBVIOUS
<1>. HIDE DEF s, t, V
<1>2. s = t
  BY <1>1, SameElements
<1>. QED
  BY <1>2 DEF s, t

\* As above, for one and five scalars.
LEMMA Flat15 ==
  ASSUME NEW a, NEW b, NEW c, NEW d, NEW e, NEW f
  PROVE  <<a>> \o <<b, c, d, e, f>> = <<a, b, c, d, e, f>>
<1>. DEFINE s == <<a>> \o <<b, c, d, e, f>>
            t == <<a, b, c, d, e, f>>
            V == {a, b, c, d, e, f}
<1>1. /\ s \in Seq(V) /\ t \in Seq(V) /\ Len(s) = 6 /\ Len(t) = 6
      /\ s[1] = t[1] /\ s[2] = t[2] /\ s[3] = t[3] /\ s[4] = t[4]
      /\ s[5] = t[5] /\ s[6] = t[6]
  OBVIOUS
<1>. HIDE DEF s, t, V
<1>2. s = t
  BY <1>1, SameElements
<1>. QED
  BY <1>2 DEF s, t

\* As above, for one and six scalars.
LEMMA Flat16 ==
  ASSUME NEW a, NEW b, NEW c, NEW d, NEW e, NEW f, NEW g
  PROVE  <<a>> \o <<b, c, d, e, f, g>> = <<a, b, c, d, e, f, g>>
<1>. DEFINE s == <<a>> \o <<b, c, d, e, f, g>>
            t == <<a, b, c, d, e, f, g>>
            V == {a, b, c, d, e, f, g}
<1>1. /\ s \in Seq(V) /\ t \in Seq(V) /\ Len(s) = 7 /\ Len(t) = 7
      /\ s[1] = t[1] /\ s[2] = t[2] /\ s[3] = t[3] /\ s[4] = t[4]
      /\ s[5] = t[5] /\ s[6] = t[6] /\ s[7] = t[7]
  OBVIOUS
<1>. HIDE DEF s, t, V
<1>2. s = t
  BY <1>1, SameElements
<1>. QED
  BY <1>2 DEF s, t

\* As above, for two scalars and one.
LEMMA Flat21 ==
  ASSUME NEW a, NEW b, NEW c
  PROVE  <<a, b>> \o <<c>> = <<a, b, c>>
<1>. DEFINE s == <<a, b>> \o <<c>>
            t == <<a, b, c>>
            V == {a, b, c}
<1>1. /\ s \in Seq(V) /\ t \in Seq(V) /\ Len(s) = 3 /\ Len(t) = 3
      /\ s[1] = t[1] /\ s[2] = t[2] /\ s[3] = t[3]
  OBVIOUS
<1>. HIDE DEF s, t, V
<1>2. s = t
  BY <1>1, SameElements
<1>. QED
  BY <1>2 DEF s, t

\* As above, for two scalars and three.
LEMMA Flat23 ==
  ASSUME NEW a, NEW b, NEW c, NEW d, NEW e
  PROVE  <<a, b>> \o <<c, d, e>> = <<a, b, c, d, e>>
<1>. DEFINE s == <<a, b>> \o <<c, d, e>>
            t == <<a, b, c, d, e>>
            V == {a, b, c, d, e}
<1>1. /\ s \in Seq(V) /\ t \in Seq(V) /\ Len(s) = 5 /\ Len(t) = 5
      /\ s[1] = t[1] /\ s[2] = t[2] /\ s[3] = t[3] /\ s[4] = t[4]
      /\ s[5] = t[5]
  OBVIOUS
<1>. HIDE DEF s, t, V
<1>2. s = t
  BY <1>1, SameElements
<1>. QED
  BY <1>2 DEF s, t

\* As above, for five scalars and one.
LEMMA Flat51 ==
  ASSUME NEW a, NEW b, NEW c, NEW d, NEW e, NEW f
  PROVE  <<a, b, c, d, e>> \o <<f>> = <<a, b, c, d, e, f>>
<1>. DEFINE s == <<a, b, c, d, e>> \o <<f>>
            t == <<a, b, c, d, e, f>>
            V == {a, b, c, d, e, f}
<1>1. /\ s \in Seq(V) /\ t \in Seq(V) /\ Len(s) = 6 /\ Len(t) = 6
      /\ s[1] = t[1] /\ s[2] = t[2] /\ s[3] = t[3] /\ s[4] = t[4]
      /\ s[5] = t[5] /\ s[6] = t[6]
  OBVIOUS
<1>. HIDE DEF s, t, V
<1>2. s = t
  BY <1>1, SameElements
<1>. QED
  BY <1>2 DEF s, t

\* The kind comes before the owner key.
LEMMA Keyed ==
  ASSUME NEW kind, NEW key, NEW p
  PROVE  /\ EffectKey(FirstWriteOf(kind, key, p)) = <<kind>> \o key
         /\ EffectKey(RequireOf(kind, key, p)) = <<kind>> \o key
  BY DEF EffectKey, FirstWriteOf, RequireOf

-------------------------------------------------------------------------------
(* The effects of a Span *)

RootPayload(a) ==
  [delivery_id |-> Get(a, "delivery_id"), runtime_id |-> Get(a, "runtime_id"),
   manifest_digest |-> Get(a, "manifest_digest"),
   family_schema |-> Schema(Get(a, "workflow_family")),
   workflow_family |-> Get(a, "workflow_family")]

RootEffect(r) ==
  FirstWriteOf("delivery_root_binding", <<r.trace>>, RootPayload(r.attrs))
RootRequired(r) ==
  RequireOf("delivery_root_binding", <<r.trace>>,
            [runtime_id |-> r.attrs.runtime_id])
ModelEffect(r) ==
  FirstWriteOf("model_attribution",
    <<r.attrs.gen_ai_provider_name, r.attrs.model_id, r.attrs.role_id,
      r.attrs.runtime_id, r.trace, r.span>>,
    [request_model |-> r.attrs.gen_ai_request_model])
NodeEffect(r) ==
  FirstWriteOf("trace_node", <<r.trace, r.span>>,
    [span_name |-> r.name, detail |-> r.detail, attributes |-> r.attrs])
EdgeEffect(r) ==
  FirstWriteOf("trace_parent_edge", <<r.trace, r.span, r.parent>>, EmptyPayload)
LinkEffect(r, i) ==
  FirstWriteOf("trace_link",
    <<r.trace, r.span, r.links[i].trace_id, r.links[i].span_id>>, r.links[i])

\* What project_span makes of a Span.
LEMMA SpanSet ==
  ASSUME NEW r, IsSequence(r.links), r.type = "span"
  PROVE  EffectsOf(r) =
           (IF r.name = "invoke_workflow" THEN {RootEffect(r)} ELSE {})
             \cup (IF "model_id" \in DOMAIN r.attrs
                   THEN {RootRequired(r), ModelEffect(r)} ELSE {})
             \cup {NodeEffect(r)}
             \cup (IF r.parent # Null THEN {EdgeEffect(r)} ELSE {})
             \cup {LinkEffect(r, i) : i \in DOMAIN r.links}
<1>. DEFINE root == If(r.name = "invoke_workflow", RootEffect(r))
            models == IF "model_id" \in DOMAIN r.attrs
                      THEN <<RootRequired(r), ModelEffect(r)>> ELSE << >>
            node == <<NodeEffect(r)>>
            edge == If(r.parent # Null, EdgeEffect(r))
            links == [i \in DOMAIN r.links |-> LinkEffect(r, i)]
<1>1. Project(r) = root \o models \o node \o edge \o links
  <2>1. Project(r) = ProjectSpan(r)
    BY DEF Project, IsEvent
  <2>2. ProjectSpan(r) = root \o models \o node \o edge \o links
    BY DEF ProjectSpan, RootEffect, RootRequired, ModelEffect, NodeEffect,
           EdgeEffect, LinkEffect, RootPayload
  <2>. QED
    BY <2>1, <2>2
<1>2. /\ IsSequence(root)
      /\ Elements(root) = IF r.name = "invoke_workflow" THEN {RootEffect(r)} ELSE {}
  BY ElementsFew
<1>3. /\ IsSequence(models)
      /\ Elements(models) = IF "model_id" \in DOMAIN r.attrs
                            THEN {RootRequired(r), ModelEffect(r)} ELSE {}
  BY ElementsFew
<1>4. IsSequence(node) /\ Elements(node) = {NodeEffect(r)}
  BY ElementsFew
<1>5. /\ IsSequence(edge)
      /\ Elements(edge) = IF r.parent # Null THEN {EdgeEffect(r)} ELSE {}
  BY ElementsFew
<1>6. /\ IsSequence(links)
      /\ Elements(links) = {LinkEffect(r, i) : i \in DOMAIN r.links}
  <2>1. IsSequence(links)
    BY SameDomain
  <2>. QED
    BY <2>1 DEF Elements
<1>. HIDE DEF root, models, node, edge, links
<1>7. Elements(root \o models \o node \o edge \o links) =
        Elements(root) \cup Elements(models) \cup Elements(node)
          \cup Elements(edge) \cup Elements(links)
  <2>1. IsSequence(root \o models)
        /\ Elements(root \o models) = Elements(root) \cup Elements(models)
    BY <1>2, <1>3, ElementsConcatenation
  <2>2. IsSequence(root \o models \o node)
        /\ Elements(root \o models \o node) =
             Elements(root \o models) \cup Elements(node)
    BY <2>1, <1>4, ElementsConcatenation
  <2>3. IsSequence(root \o models \o node \o edge)
        /\ Elements(root \o models \o node \o edge) =
             Elements(root \o models \o node) \cup Elements(edge)
    BY <2>2, <1>5, ElementsConcatenation
  <2>4. Elements(root \o models \o node \o edge \o links) =
          Elements(root \o models \o node \o edge) \cup Elements(links)
    BY <2>3, <1>6, ElementsConcatenation
  <2>. QED
    BY <2>1, <2>2, <2>3, <2>4
<1>8. EffectsOf(r) = Elements(Project(r))
  BY DEF EffectsOf, Elements
<1>. QED
  BY <1>1, <1>2, <1>3, <1>4, <1>5, <1>6, <1>7, <1>8

\* The keys of a Span's effects.
LEMMA SpanKeys ==
  ASSUME NEW r
  PROVE  /\ EffectKey(RootEffect(r)) = <<"delivery_root_binding", r.trace>>
         /\ EffectKey(RootRequired(r)) = <<"delivery_root_binding", r.trace>>
         /\ EffectKey(ModelEffect(r)) =
              <<"model_attribution", r.attrs.gen_ai_provider_name,
                r.attrs.model_id, r.attrs.role_id, r.attrs.runtime_id, r.trace,
                r.span>>
         /\ EffectKey(NodeEffect(r)) = <<"trace_node", r.trace, r.span>>
         /\ EffectKey(EdgeEffect(r)) =
              <<"trace_parent_edge", r.trace, r.span, r.parent>>
         /\ \A i : EffectKey(LinkEffect(r, i)) =
              <<"trace_link", r.trace, r.span, r.links[i].trace_id,
                r.links[i].span_id>>
<1>1. EffectKey(RootEffect(r)) = <<"delivery_root_binding", r.trace>>
  BY Keyed, BindingKeys, Zenon DEF RootEffect
<1>2. EffectKey(RootRequired(r)) = <<"delivery_root_binding", r.trace>>
  BY Keyed, BindingKeys, Zenon DEF RootRequired
<1>3. EffectKey(ModelEffect(r)) =
        <<"model_attribution", r.attrs.gen_ai_provider_name, r.attrs.model_id,
          r.attrs.role_id, r.attrs.runtime_id, r.trace, r.span>>
  <2>1. EffectKey(ModelEffect(r)) =
          <<"model_attribution">>
            \o <<r.attrs.gen_ai_provider_name, r.attrs.model_id, r.attrs.role_id,
                 r.attrs.runtime_id, r.trace, r.span>>
    BY Keyed DEF ModelEffect
  <2>. QED
    BY <2>1, Flat16
<1>4. EffectKey(NodeEffect(r)) = <<"trace_node", r.trace, r.span>>
  <2>1. EffectKey(NodeEffect(r)) = <<"trace_node">> \o <<r.trace, r.span>>
    BY Keyed DEF NodeEffect
  <2>. QED
    BY <2>1, BindingKeys, Zenon
<1>5. EffectKey(EdgeEffect(r)) = <<"trace_parent_edge", r.trace, r.span, r.parent>>
  BY Keyed, Flat13, Zenon DEF EdgeEffect
<1>6. ASSUME NEW i
      PROVE  EffectKey(LinkEffect(r, i)) =
               <<"trace_link", r.trace, r.span, r.links[i].trace_id,
                 r.links[i].span_id>>
  <2>1. EffectKey(LinkEffect(r, i)) =
          <<"trace_link">> \o <<r.trace, r.span, r.links[i].trace_id,
                                r.links[i].span_id>>
    BY Keyed DEF LinkEffect
  <2>. QED
    BY <2>1, Flat14
<1>. QED
  BY <1>1, <1>2, <1>3, <1>4, <1>5, <1>6

-------------------------------------------------------------------------------
(* The effects of an event *)

\* A payload with the coordinates of its event.
Placed(r, p) ==
  [name \in DOMAIN p \cup {"_otel_context"} |->
     IF name = "_otel_context" THEN <<r.trace, r.span>> ELSE p[name]]

Bound(r, e) ==
  IF /\ r.trace # Null /\ r.span # Null
     /\ e.op = "first_write" /\ e.kind \in PublicFactKinds
  THEN [e EXCEPT !.payload = Placed(r, @)]
  ELSE e

\* _bind_event_context works on each effect.
LEMMA ContextSet ==
  ASSUME NEW r, NEW es, IsSequence(es)
  PROVE  /\ IsSequence(BindEventContext(r, es))
         /\ Elements(BindEventContext(r, es)) = {Bound(r, e) : e \in Elements(es)}
<1>. DEFINE bound == BindEventContext(r, es)
<1>1. /\ DOMAIN bound = DOMAIN es
      /\ \A i \in DOMAIN es : bound[i] = Bound(r, es[i])
  BY DEF BindEventContext, Bound, Placed
<1>2. IsSequence(bound)
  <2>1. CASE r.trace = Null \/ r.span = Null
    BY <2>1 DEF BindEventContext
  <2>2. CASE ~(r.trace = Null \/ r.span = Null)
    <3>1. bound = [i \in DOMAIN bound |-> bound[i]]
      BY <2>2 DEF BindEventContext
    <3>. QED
      BY <1>1, <3>1, SameDomain
  <2>. QED
    BY <2>1, <2>2
<1>. HIDE DEF bound
<1>3. Elements(bound) = {Bound(r, e) : e \in Elements(es)}
  BY <1>1 DEF Elements
<1>. QED
  BY <1>2, <1>3 DEF bound

\* It leaves all but the payload alone.
LEMMA BoundSame ==
  ASSUME NEW r, NEW e, IsEffect(e)
  PROVE  /\ Bound(r, e).op = e.op /\ Bound(r, e).kind = e.kind
         /\ Bound(r, e).key = e.key /\ EffectKey(Bound(r, e)) = EffectKey(e)
         /\ \/ Bound(r, e).payload = e.payload
            \/ /\ r.trace # Null /\ r.span # Null /\ e.kind \in PublicFactKinds
               /\ Bound(r, e).payload = Placed(r, e.payload)
         /\ e.kind \notin PublicFactKinds => Bound(r, e) = e
<1>1. PICK op, kind, key, p :
        e = [op |-> op, kind |-> kind, key |-> key, payload |-> p]
  BY DEF IsEffect
<1>. QED
  BY <1>1 DEF Bound, EffectKey

ScopeEffect(a) ==
  FirstWriteOf("finding_scope_guard", <<a.finding_id>>,
               [scope_id |-> a.finding_scope_id])
AimGuardEffect(a) ==
  FirstWriteOf("finding_target_guard",
    <<a.finding_id, a.finding_scope_id, a.finding_target_id>>,
    [kind |-> a.finding_target_kind,
     containing_artifact_id |-> Get(a, "finding_target_artifact_id")])

TargetOf(a) ==
  <<a.finding_id, a.finding_scope_id, a.finding_target_kind, a.finding_target_id,
    Get(a, "finding_target_artifact_id")>>
TargetAnd(a, x) ==
  <<a.finding_id, a.finding_scope_id, a.finding_target_kind, a.finding_target_id,
    Get(a, "finding_target_artifact_id"), x>>

KnownRequired(a) ==
  RequireOf("finding_assertion", <<a.finding_id, a.finding_scope_id>>,
            Pick(a, InvariantNames))
AimRequired(a) == RequireOf("finding_target", TargetOf(a), EmptyPayload)
OpenEffect(a) ==
  FirstWriteOf("finding_assertion", <<a.finding_id, a.finding_scope_id>>,
    Pick(a, InvariantNames \cup ActorNames \cup {"artifact_id", "artifact_digest"}))
AimEffect(a) == FirstWriteOf("finding_target", TargetOf(a), EmptyPayload)
StatusEffect(a) ==
  FirstWriteOf("finding_status",
    <<a.finding_id, a.finding_scope_id, a.review_id>>,
    WithActors(a, [status |-> a.finding_status]))
FixEffect(a) ==
  FirstWriteOf("finding_fix", TargetAnd(a, Get(a, "fix_id")),
    WithActors(a, [finding_id |-> Get(a, "fix_finding_id"),
                   review_id |-> a.review_id]))
FixRequired(a) ==
  RequireOf("finding_fix", TargetAnd(a, Get(a, "recheck_fix_id")), EmptyPayload)
RecheckEffect(a) ==
  FirstWriteOf("finding_recheck", TargetAnd(a, Get(a, "recheck_id")),
    WithActors(a, [review_id |-> a.review_id,
                   prior_review_id |-> Get(a, "recheck_review_id"),
                   finding_id |-> Get(a, "recheck_finding_id"),
                   fix_id |-> Get(a, "recheck_fix_id"),
                   iteration_id |-> Get(a, "iteration_id"),
                   recheck_role_id |-> Get(a, "recheck_role_id"),
                   recheck_invocation_id |-> Get(a, "recheck_invocation_id")]))

Lifecycle(a) == "fix_id" \in DOMAIN a \/ "recheck_id" \in DOMAIN a

FindingElements(a) ==
  {ScopeEffect(a), AimGuardEffect(a), StatusEffect(a)}
    \cup (IF Lifecycle(a) THEN {KnownRequired(a), AimRequired(a)}
          ELSE {OpenEffect(a), AimEffect(a)})
    \cup (IF "fix_id" \in DOMAIN a THEN {FixEffect(a)} ELSE {})
    \cup (IF "recheck_id" \in DOMAIN a /\ "recheck_fix_id" \in DOMAIN a
          THEN {FixRequired(a)} ELSE {})
    \cup (IF "recheck_id" \in DOMAIN a THEN {RecheckEffect(a)} ELSE {})

\* What project_finding makes of a Finding.
LEMMA FindingSet ==
  ASSUME NEW a
  PROVE  /\ IsSequence(ProjectFinding(a))
         /\ Elements(ProjectFinding(a)) = FindingElements(a)
<1>. DEFINE assertion == <<a.finding_id, a.finding_scope_id>>
            target == assertion \o <<a.finding_target_kind, a.finding_target_id,
                                     Get(a, "finding_target_artifact_id")>>
            first == <<ScopeEffect(a), AimGuardEffect(a)>>
            middle == IF Lifecycle(a) THEN <<KnownRequired(a), AimRequired(a)>>
                                      ELSE <<OpenEffect(a), AimEffect(a)>>
            status == <<StatusEffect(a)>>
            fix == If("fix_id" \in DOMAIN a, FixEffect(a))
            fixed == If("recheck_id" \in DOMAIN a /\ "recheck_fix_id" \in DOMAIN a,
                        FixRequired(a))
            recheck == If("recheck_id" \in DOMAIN a, RecheckEffect(a))
<1>1. target = TargetOf(a)
  BY Flat23, Zenon DEF TargetOf
<1>2. \A x : target \o <<x>> = TargetAnd(a, x)
  BY <1>1, Flat51, Zenon DEF TargetOf, TargetAnd
<1>3. \A x : assertion \o <<x>> = <<a.finding_id, a.finding_scope_id, x>>
  BY Flat21, Zenon
<1>. HIDE DEF target
<1>4. ProjectFinding(a) = first \o middle \o status \o fix \o fixed \o recheck
  BY <1>1, <1>2, <1>3
  DEF ProjectFinding, Lifecycle, ScopeEffect, AimGuardEffect, KnownRequired,
      AimRequired, OpenEffect, AimEffect, StatusEffect, FixEffect, FixRequired,
      RecheckEffect, target
<1>5. /\ IsSequence(first) /\ Elements(first) = {ScopeEffect(a), AimGuardEffect(a)}
      /\ IsSequence(middle)
      /\ Elements(middle) = IF Lifecycle(a)
                            THEN {KnownRequired(a), AimRequired(a)}
                            ELSE {OpenEffect(a), AimEffect(a)}
      /\ IsSequence(status) /\ Elements(status) = {StatusEffect(a)}
  BY ElementsFew
<1>6. /\ IsSequence(fix)
      /\ Elements(fix) = IF "fix_id" \in DOMAIN a THEN {FixEffect(a)} ELSE {}
      /\ IsSequence(fixed)
      /\ Elements(fixed) =
           IF "recheck_id" \in DOMAIN a /\ "recheck_fix_id" \in DOMAIN a
           THEN {FixRequired(a)} ELSE {}
      /\ IsSequence(recheck)
      /\ Elements(recheck) =
           IF "recheck_id" \in DOMAIN a THEN {RecheckEffect(a)} ELSE {}
  BY ElementsFew
<1>. HIDE DEF first, middle, status, fix, fixed, recheck
<1>7. /\ IsSequence(first \o middle)
      /\ Elements(first \o middle) = Elements(first) \cup Elements(middle)
  BY <1>5, ElementsConcatenation
<1>8. /\ IsSequence(first \o middle \o status)
      /\ Elements(first \o middle \o status) =
           Elements(first \o middle) \cup Elements(status)
  BY <1>5, <1>7, ElementsConcatenation
<1>9. /\ IsSequence(first \o middle \o status \o fix)
      /\ Elements(first \o middle \o status \o fix) =
           Elements(first \o middle \o status) \cup Elements(fix)
  BY <1>6, <1>8, ElementsConcatenation
<1>10. /\ IsSequence(first \o middle \o status \o fix \o fixed)
       /\ Elements(first \o middle \o status \o fix \o fixed) =
            Elements(first \o middle \o status \o fix) \cup Elements(fixed)
  BY <1>6, <1>9, ElementsConcatenation
<1>11. /\ IsSequence(first \o middle \o status \o fix \o fixed \o recheck)
       /\ Elements(first \o middle \o status \o fix \o fixed \o recheck) =
            Elements(first \o middle \o status \o fix \o fixed)
              \cup Elements(recheck)
  BY <1>6, <1>10, ElementsConcatenation
<1>12. Elements(first \o middle \o status \o fix \o fixed \o recheck) =
         Elements(first) \cup Elements(middle) \cup Elements(status)
           \cup Elements(fix) \cup Elements(fixed) \cup Elements(recheck)
  BY <1>7, <1>8, <1>9, <1>10, <1>11
<1>13. Elements(first \o middle \o status \o fix \o fixed \o recheck) =
         FindingElements(a)
  BY <1>5, <1>6, <1>12 DEF FindingElements
<1>. QED
  BY <1>4, <1>11, <1>13

\* The keys of a Finding's effects.
LEMMA FindingKeys ==
  ASSUME NEW a
  PROVE  /\ EffectKey(ScopeEffect(a)) = <<"finding_scope_guard", a.finding_id>>
         /\ EffectKey(AimGuardEffect(a)) =
              <<"finding_target_guard", a.finding_id, a.finding_scope_id,
                a.finding_target_id>>
         /\ EffectKey(KnownRequired(a)) =
              <<"finding_assertion", a.finding_id, a.finding_scope_id>>
         /\ EffectKey(OpenEffect(a)) =
              <<"finding_assertion", a.finding_id, a.finding_scope_id>>
         /\ EffectKey(AimRequired(a)) = <<"finding_target">> \o TargetOf(a)
         /\ EffectKey(AimEffect(a)) = <<"finding_target">> \o TargetOf(a)
         /\ EffectKey(StatusEffect(a)) =
              <<"finding_status", a.finding_id, a.finding_scope_id, a.review_id>>
         /\ EffectKey(FixEffect(a)) =
              <<"finding_fix">> \o TargetAnd(a, Get(a, "fix_id"))
         /\ EffectKey(FixRequired(a)) =
              <<"finding_fix">> \o TargetAnd(a, Get(a, "recheck_fix_id"))
         /\ EffectKey(RecheckEffect(a)) =
              <<"finding_recheck">> \o TargetAnd(a, Get(a, "recheck_id"))
<1>1. EffectKey(ScopeEffect(a)) = <<"finding_scope_guard", a.finding_id>>
  <2>1. EffectKey(ScopeEffect(a)) = <<"finding_scope_guard">> \o <<a.finding_id>>
    BY Keyed DEF ScopeEffect
  <2>. QED
    BY <2>1, BindingKeys, Zenon
<1>2. EffectKey(AimGuardEffect(a)) =
        <<"finding_target_guard", a.finding_id, a.finding_scope_id,
          a.finding_target_id>>
  <2>1. EffectKey(AimGuardEffect(a)) =
          <<"finding_target_guard">>
            \o <<a.finding_id, a.finding_scope_id, a.finding_target_id>>
    BY Keyed DEF AimGuardEffect
  <2>. QED
    BY <2>1, Flat13
<1>3. /\ EffectKey(KnownRequired(a)) =
           <<"finding_assertion", a.finding_id, a.finding_scope_id>>
      /\ EffectKey(OpenEffect(a)) =
           <<"finding_assertion", a.finding_id, a.finding_scope_id>>
  <2>1. /\ EffectKey(KnownRequired(a)) =
             <<"finding_assertion">> \o <<a.finding_id, a.finding_scope_id>>
        /\ EffectKey(OpenEffect(a)) =
             <<"finding_assertion">> \o <<a.finding_id, a.finding_scope_id>>
    BY Keyed DEF KnownRequired, OpenEffect
  <2>. QED
    BY <2>1, BindingKeys, Zenon
<1>4. EffectKey(StatusEffect(a)) =
        <<"finding_status", a.finding_id, a.finding_scope_id, a.review_id>>
  <2>1. EffectKey(StatusEffect(a)) =
          <<"finding_status">> \o <<a.finding_id, a.finding_scope_id, a.review_id>>
    BY Keyed DEF StatusEffect
  <2>. QED
    BY <2>1, Flat13
<1>5. /\ EffectKey(AimRequired(a)) = <<"finding_target">> \o TargetOf(a)
      /\ EffectKey(AimEffect(a)) = <<"finding_target">> \o TargetOf(a)
      /\ EffectKey(FixEffect(a)) =
           <<"finding_fix">> \o TargetAnd(a, Get(a, "fix_id"))
      /\ EffectKey(FixRequired(a)) =
           <<"finding_fix">> \o TargetAnd(a, Get(a, "recheck_fix_id"))
      /\ EffectKey(RecheckEffect(a)) =
           <<"finding_recheck">> \o TargetAnd(a, Get(a, "recheck_id"))
  BY Keyed DEF AimRequired, AimEffect, FixEffect, FixRequired, RecheckEffect
<1>. QED
  BY <1>1, <1>2, <1>3, <1>4, <1>5

\* The owner keys of targets, fixes and rechecks have five and six scalars.
LEMMA TargetKeys ==
  ASSUME NEW kind, NEW a, NEW x
  PROVE  /\ <<kind>> \o TargetOf(a) =
              <<kind, a.finding_id, a.finding_scope_id, a.finding_target_kind,
                a.finding_target_id, Get(a, "finding_target_artifact_id")>>
         /\ <<kind>> \o TargetAnd(a, x) =
              <<kind, a.finding_id, a.finding_scope_id, a.finding_target_kind,
                a.finding_target_id, Get(a, "finding_target_artifact_id"), x>>
<1>1. <<kind>> \o TargetOf(a) =
        <<kind, a.finding_id, a.finding_scope_id, a.finding_target_kind,
          a.finding_target_id, Get(a, "finding_target_artifact_id")>>
  BY Flat15 DEF TargetOf
<1>2. <<kind>> \o TargetAnd(a, x) =
        <<kind, a.finding_id, a.finding_scope_id, a.finding_target_kind,
          a.finding_target_id, Get(a, "finding_target_artifact_id"), x>>
  <2>1. PICK id, scope, target, aim, artifact :
          /\ id = a.finding_id /\ scope = a.finding_scope_id
          /\ target = a.finding_target_kind /\ aim = a.finding_target_id
          /\ artifact = Get(a, "finding_target_artifact_id")
    OBVIOUS
  <2>2. <<kind>> \o <<id, scope, target, aim, artifact, x>> =
          <<kind, id, scope, target, aim, artifact, x>>
    BY Flat16
  <2>. QED
    BY <2>1, <2>2, Zenon DEF TargetAnd
<1>. QED
  BY <1>1, <1>2

\* The ten effects of a Finding are effects.
LEMMA FindingAreEffects ==
  ASSUME NEW a, NEW e \in FindingElements(a)
  PROVE  IsEffect(e)
<1>1. IsSequence(TargetOf(a))
  <2>1. TargetOf(a) \in Seq({a.finding_id, a.finding_scope_id,
          a.finding_target_kind, a.finding_target_id,
          Get(a, "finding_target_artifact_id")})
    BY DEF TargetOf
  <2>. QED
    BY <2>1, Zenon DEF IsSequence
<1>2. \A x : IsSequence(TargetAnd(a, x))
  BY Tuples, Zenon DEF TargetAnd
<1>3. /\ IsEffect(ScopeEffect(a)) /\ IsEffect(AimGuardEffect(a))
      /\ IsEffect(KnownRequired(a)) /\ IsEffect(OpenEffect(a))
      /\ IsEffect(StatusEffect(a))
  BY Tuples, Constructors
  DEF ScopeEffect, AimGuardEffect, KnownRequired, OpenEffect, StatusEffect
<1>4. /\ IsEffect(AimRequired(a)) /\ IsEffect(AimEffect(a))
      /\ IsEffect(FixEffect(a)) /\ IsEffect(FixRequired(a))
      /\ IsEffect(RecheckEffect(a))
  BY <1>1, <1>2, Constructors
  DEF AimRequired, AimEffect, FixEffect, FixRequired, RecheckEffect
<1>. QED
  BY <1>3, <1>4 DEF FindingElements

ContributionEffect(r) ==
  FirstWriteOf("factual_contribution", <<r.name, r.id>>,
    [attributes |-> r.attrs, compatibility_key |-> CompatibilityCoordinates(r),
     aggregate_eligible |-> AggregateEligible(r)])
LineageEffect(r) ==
  FirstWriteOf("role_lineage",
    If(r.profile = 2, DeliveryOf(r)) \o <<r.attrs.family_schema, r.attrs.role_id>>,
    r.attrs)

\* What project makes of an event.
LEMMA EventSet ==
  ASSUME NEW r, r.type = "event"
  PROVE  /\ r.name = "review.finding" =>
              EffectsOf(r) = {Bound(r, e) : e \in FindingElements(r.attrs)}
         /\ r.name = "role.lineage" => EffectsOf(r) = {Bound(r, LineageEffect(r))}
         /\ r.name \notin {"review.finding", "role.lineage", "task.binding"} =>
              EffectsOf(r) = {Bound(r, ContributionEffect(r))}
<1>0. EffectsOf(r) = Elements(Project(r))
  BY DEF EffectsOf, Elements
<1>1. CASE r.name = "review.finding"
  <2>1. Project(r) = BindEventContext(r, ProjectFinding(r.attrs))
    BY <1>1 DEF Project, IsEvent
  <2>. QED
    BY <1>0, <1>1, <2>1, FindingSet, ContextSet
<1>2. CASE r.name = "role.lineage"
  <2>1. Project(r) = BindEventContext(r, ProjectRoleLineage(r))
    BY <1>2 DEF Project, IsEvent
  <2>2. ProjectRoleLineage(r) = <<LineageEffect(r)>>
    BY DEF ProjectRoleLineage, LineageEffect
  <2>. QED
    BY <1>0, <1>2, <2>1, <2>2, ElementsFew, ContextSet
<1>3. CASE r.name \notin {"review.finding", "role.lineage", "task.binding"}
  <2>1. Project(r) = BindEventContext(r, ProjectContribution(r))
    BY <1>3 DEF Project, IsEvent
  <2>2. ProjectContribution(r) = <<ContributionEffect(r)>>
    BY DEF ProjectContribution, ContributionEffect
  <2>. QED
    BY <1>0, <1>3, <2>1, <2>2, ElementsFew, ContextSet
<1>4. CASE r.name = "task.binding"
  BY <1>4
<1>. QED
  BY <1>1, <1>2, <1>3, <1>4

-------------------------------------------------------------------------------
(* What validation makes sure of *)

SoundEvent(r) ==
  /\ r.name \in EventNames \cup {"task.binding"}
  /\ Required(r.name) \subseteq DOMAIN r.attrs
  /\ DOMAIN r.attrs \subseteq
       Required(r.name) \cup Optional(r.name) \cup {"delivery_id"}
  /\ DOMAIN r.attrs \cap StandardNames = {}
  /\ r.name = "review.finding" =>
       /\ ValidateFinding(r.attrs)
       /\ \A name \in {"finding_target_artifact_id", "recheck_fix_id"} :
            name \in DOMAIN r.attrs => r.attrs[name] # Null
  /\ r.name = "task.binding" =>
       r.profile = 2 /\ r.id = BindingId(r.attrs.delivery_id)

Sound(r) ==
  /\ WellFormed(r) /\ r.type \in {"span", "event"}
  /\ ProjectionReads(r) \subseteq DOMAIN r.attrs
  /\ DOMAIN r.attrs \subseteq AgentopsNames \cup StandardNames
  /\ r.type = "span" => DOMAIN r.attrs \ StandardNames \subseteq SpanAllowed
  /\ r.type = "event" => SoundEvent(r)
  /\ r.profile = 2 => r.attrs.delivery_id # NoDelivery

\* An item that validates makes a sound record.
LEMMA ItemSound ==
  ASSUME NEW item, IsItem(item), NEW l, l = Decode(item), Validates(l)
  PROVE  Sound(Validated(l))
<1>. DEFINE r == Validated(l)
            a == l.attrs
<1>1. l.attrs = item.attrs /\ item.bad \cap DOMAIN item.attrs = {}
  BY DecodedWhole
<1>2. /\ r.attrs = a /\ r.type = l.type /\ r.name = l.name /\ r.id = l.id
      /\ r.profile = l.profile
  BY DEF Validated
<1>3. \A name \in {"finding_target_artifact_id", "recheck_fix_id"} :
        name \in DOMAIN a => a[name] # Null
  BY <1>1 DEF IsItem
<1>4. WellFormed(r) /\ ProjectionReads(r) \subseteq DOMAIN r.attrs
  BY ValidWellFormed, ReadsPresent
<1>5. /\ l.type \in {"span", "event"}
      /\ DOMAIN a \subseteq AgentopsNames \cup StandardNames
  BY DEF Validates, ValidateAttributes
<1>6. l.type = "span" => DOMAIN a \ StandardNames \subseteq SpanAllowed
  BY DEF Validates, ValidateSpan
<1>7. l.profile = 2 => "delivery_id" \in DOMAIN a
  BY DEF Validates, ValidateEvent, EventClosed, ValidateSpan
<1>8. l.profile = 2 => a.delivery_id # NoDelivery
  BY <1>1, <1>7 DEF IsItem
<1>9. l.type = "event" => ValidateEvent(l)
  BY DEF Validates
<1>10. ValidateEvent(l) =>
         /\ l.name \in EventNames \cup {"task.binding"}
         /\ Required(l.name) \subseteq DOMAIN a
         /\ DOMAIN a \subseteq
              Required(l.name) \cup Optional(l.name) \cup {"delivery_id"}
         /\ DOMAIN a \cap StandardNames = {}
         /\ l.name = "review.finding" => ValidateFinding(a)
         /\ l.name = "task.binding" =>
              l.profile = 2 /\ l.id = BindingId(a.delivery_id)
  <2>. HIDE DEF a
  <2>1. "task.binding" \notin EventNames
    BY DEF EventNames
  <2>. QED
    BY <2>1 DEF ValidateEvent, EventClosed, a
<1>. HIDE DEF r, a
<1>11. r.type = "event" => SoundEvent(r)
  BY <1>2, <1>3, <1>9, <1>10 DEF SoundEvent
<1>12. Sound(r)
  BY <1>2, <1>4, <1>5, <1>6, <1>8, <1>11 DEF Sound
<1>. QED
  BY <1>12 DEF r

\* So are the valid records of a workload.
LEMMA RecordSound ==
  ASSUME NEW workload \in Workloads, NEW r \in RecordsIn(workload)
  PROVE  Sound(r)
<1>1. PICK item \in ItemsOf(workload) :
        Validates(Decode(item)) /\ r = Validated(Decode(item))
  BY DEF RecordsIn
<1>2. PICK q \in workload : \E i \in DOMAIN q.records : item = q.records[i]
  BY DEF ItemsOf
<1>3. IsRequest(q)
  BY WorkloadAssumption
<1>4. IsItem(item)
  BY <1>2, <1>3 DEF IsRequest
<1>. QED
  BY <1>1, <1>4, ItemSound

\* The coordinates of a Span tell it from every other record of the workload.
LEMMA SpanIdentity ==
  ASSUME NEW workload \in Workloads, NEW r \in RecordsIn(workload),
         NEW q \in RecordsIn(workload), r.type = "span", q.type = "span",
         r.trace = q.trace, r.span = q.span
  PROVE  r.id = q.id
<1>1. PICK item \in ItemsOf(workload) : r = Validated(Decode(item))
  BY DEF RecordsIn
<1>2. PICK other \in ItemsOf(workload) : q = Validated(Decode(other))
  BY DEF RecordsIn
<1>3. /\ r.id = item.id /\ r.type = item.type /\ r.trace = item.trace
      /\ r.span = item.span
  BY <1>1 DEF Validated, Decode
<1>4. /\ q.id = other.id /\ q.type = other.type /\ q.trace = other.trace
      /\ q.span = other.span
  BY <1>2 DEF Validated, Decode
<1>. QED
  BY <1>3, <1>4, WorkloadAssumption

-------------------------------------------------------------------------------
(* The rows of detail that a record writes *)

\* The payload of a public fact, with or without the coordinates of its event.
Carries(r, p, own) ==
  p = own \/ (r.trace # Null /\ r.span # Null /\ p = Placed(r, own))

RootForm(r, k, p) ==
  /\ r.type = "span" /\ r.name = "invoke_workflow"
  /\ k = <<"delivery_root_binding", r.trace>> /\ p = RootPayload(r.attrs)
  /\ {"workflow_family", "delivery_id", "runtime_id", "manifest_digest"}
       \subseteq DOMAIN r.attrs
ModelForm(r, k, p) ==
  /\ r.type = "span"
  /\ k = <<"model_attribution", r.attrs.gen_ai_provider_name, r.attrs.model_id,
           r.attrs.role_id, r.attrs.runtime_id, r.trace, r.span>>
  /\ p = [request_model |-> r.attrs.gen_ai_request_model]
  /\ {"model_id", "runtime_id", "gen_ai_provider_name", "role_id",
      "gen_ai_request_model"} \subseteq DOMAIN r.attrs

ContributionPayload(r) ==
  [attributes |-> r.attrs, compatibility_key |-> CompatibilityCoordinates(r),
   aggregate_eligible |-> AggregateEligible(r)]
ContributionForm(r, k, p) ==
  /\ r.type = "event"
  /\ r.name \in EventNames \ {"review.finding", "role.lineage"}
  /\ k = <<"factual_contribution", r.name, r.id>>
  /\ Carries(r, p, ContributionPayload(r))
LineageForm(r, k, p) ==
  /\ r.type = "event" /\ r.name = "role.lineage" /\ k[1] = "role_lineage"
  /\ Carries(r, p, r.attrs)

IsFinding(r) == r.type = "event" /\ r.name = "review.finding"

OpenForm(r, k, p) ==
  /\ IsFinding(r) /\ ~Lifecycle(r.attrs)
  /\ k = <<"finding_assertion", r.attrs.finding_id, r.attrs.finding_scope_id>>
  /\ Carries(r, p, OpenEffect(r.attrs).payload)
AimForm(r, k, p) ==
  /\ IsFinding(r) /\ ~Lifecycle(r.attrs)
  /\ k = <<"finding_target">> \o TargetOf(r.attrs)
  /\ Carries(r, p, EmptyPayload)
StatusForm(r, k, p) ==
  /\ IsFinding(r)
  /\ k = <<"finding_status", r.attrs.finding_id, r.attrs.finding_scope_id,
           r.attrs.review_id>>
  /\ Carries(r, p, StatusEffect(r.attrs).payload)
FixForm(r, k, p) ==
  /\ IsFinding(r) /\ "fix_id" \in DOMAIN r.attrs
  /\ k = <<"finding_fix">> \o TargetAnd(r.attrs, Get(r.attrs, "fix_id"))
  /\ Carries(r, p, FixEffect(r.attrs).payload)
RecheckForm(r, k, p) ==
  /\ IsFinding(r) /\ "recheck_id" \in DOMAIN r.attrs
  /\ k = <<"finding_recheck">> \o TargetAnd(r.attrs, Get(r.attrs, "recheck_id"))
  /\ Carries(r, p, RecheckEffect(r.attrs).payload)

FactForm(r, k, p) ==
  \/ RootForm(r, k, p) \/ ModelForm(r, k, p)
  \/ ContributionForm(r, k, p) \/ LineageForm(r, k, p)
  \/ OpenForm(r, k, p) \/ AimForm(r, k, p) \/ StatusForm(r, k, p)
  \/ FixForm(r, k, p) \/ RecheckForm(r, k, p)

TraceForm(r, k, p) ==
  /\ r.type = "span" /\ k[2] = r.trace
  /\ k[1] = "trace_node" => /\ k = <<"trace_node", r.trace, r.span>>
                            /\ p.attributes = r.attrs

\* The rows of detail that a Span writes.
LEMMA SpanForms ==
  ASSUME NEW r, Sound(r), r.type = "span", NEW e \in EffectsOf(r),
         e.op = "first_write"
  PROVE  /\ e.kind \in TraceKinds \cup {"delivery_root_binding",
                                       "model_attribution"}
         /\ e.kind \in TraceKinds => TraceForm(r, EffectKey(e), e.payload)
         /\ e.kind \notin TraceKinds => FactForm(r, EffectKey(e), e.payload)
<1>0. IsSequence(r.links)
  BY Zenon DEF Sound, WellFormed, IsSequence
<1>1. ProjectionReads(r) =
        (IF r.name = "invoke_workflow"
         THEN {"workflow_family", "delivery_id", "runtime_id",
               "manifest_digest"} ELSE {})
          \cup (IF "model_id" \in DOMAIN r.attrs
                THEN {"runtime_id", "gen_ai_provider_name", "role_id",
                      "gen_ai_request_model"} ELSE {})
  BY DEF ProjectionReads, IsEvent
<1>2. \/ r.name = "invoke_workflow" /\ e = RootEffect(r)
      \/ "model_id" \in DOMAIN r.attrs /\ e = RootRequired(r)
      \/ "model_id" \in DOMAIN r.attrs /\ e = ModelEffect(r)
      \/ e = NodeEffect(r) \/ e = EdgeEffect(r)
      \/ \E i \in DOMAIN r.links : e = LinkEffect(r, i)
  <2>. DEFINE root == IF r.name = "invoke_workflow" THEN {RootEffect(r)} ELSE {}
              models == IF "model_id" \in DOMAIN r.attrs
                        THEN {RootRequired(r), ModelEffect(r)} ELSE {}
              edge == IF r.parent # Null THEN {EdgeEffect(r)} ELSE {}
              links == {LinkEffect(r, i) : i \in DOMAIN r.links}
  <2>1. e \in root \cup models \cup {NodeEffect(r)} \cup edge \cup links
    BY <1>0, SpanSet
  <2>. QED
    BY <2>1
<1>3. CASE r.name = "invoke_workflow" /\ e = RootEffect(r)
  <2>1. e.kind = "delivery_root_binding" /\ e.payload = RootPayload(r.attrs)
    BY <1>3 DEF RootEffect, FirstWriteOf
  <2>2. EffectKey(e) = <<"delivery_root_binding", r.trace>>
    BY <1>3, SpanKeys
  <2>3. {"workflow_family", "delivery_id", "runtime_id", "manifest_digest"}
          \subseteq DOMAIN r.attrs
    BY <1>1, <1>3 DEF Sound
  <2>4. RootForm(r, EffectKey(e), e.payload)
    BY <1>3, <2>1, <2>2, <2>3 DEF RootForm
  <2>. QED
    BY <2>1, <2>4 DEF FactForm, TraceKinds
<1>4. CASE "model_id" \in DOMAIN r.attrs /\ e = ModelEffect(r)
  <2>1. /\ e.kind = "model_attribution"
        /\ e.payload = [request_model |-> r.attrs.gen_ai_request_model]
    BY <1>4 DEF ModelEffect, FirstWriteOf
  <2>2. EffectKey(e) =
          <<"model_attribution", r.attrs.gen_ai_provider_name, r.attrs.model_id,
            r.attrs.role_id, r.attrs.runtime_id, r.trace, r.span>>
    BY <1>4, SpanKeys
  <2>3. {"model_id", "runtime_id", "gen_ai_provider_name", "role_id",
         "gen_ai_request_model"} \subseteq DOMAIN r.attrs
    BY <1>1, <1>4 DEF Sound
  <2>4. ModelForm(r, EffectKey(e), e.payload)
    BY <2>1, <2>2, <2>3 DEF ModelForm
  <2>. QED
    BY <2>1, <2>4 DEF FactForm, TraceKinds
<1>5. CASE e = RootRequired(r)
  BY <1>5 DEF RootRequired, RequireOf
<1>6. CASE e = NodeEffect(r)
  <2>1. e.kind = "trace_node" /\ e.payload.attributes = r.attrs
    BY <1>6 DEF NodeEffect, FirstWriteOf
  <2>2. EffectKey(e) = <<"trace_node", r.trace, r.span>>
    BY <1>6, SpanKeys
  <2>3. TraceForm(r, EffectKey(e), e.payload)
    BY <2>1, <2>2 DEF TraceForm
  <2>. QED
    BY <2>1, <2>3 DEF TraceKinds
<1>7. CASE e = EdgeEffect(r)
  <2>1. e.kind = "trace_parent_edge"
    BY <1>7 DEF EdgeEffect, FirstWriteOf
  <2>2. EffectKey(e) = <<"trace_parent_edge", r.trace, r.span, r.parent>>
    BY <1>7, SpanKeys
  <2>3. TraceForm(r, EffectKey(e), e.payload)
    BY <2>2 DEF TraceForm
  <2>. QED
    BY <2>1, <2>3 DEF TraceKinds
<1>8. ASSUME NEW i \in DOMAIN r.links, e = LinkEffect(r, i)
      PROVE  e.kind = "trace_link" /\ TraceForm(r, EffectKey(e), e.payload)
  <2>1. e.kind = "trace_link"
    BY <1>8 DEF LinkEffect, FirstWriteOf
  <2>2. EffectKey(e) =
          <<"trace_link", r.trace, r.span, r.links[i].trace_id,
            r.links[i].span_id>>
    BY <1>8, SpanKeys
  <2>. QED
    BY <2>1, <2>2 DEF TraceForm
<1>. QED
  BY <1>2, <1>3, <1>4, <1>5, <1>6, <1>7, <1>8 DEF TraceKinds

\* Those that a Finding writes; the two guards are not detail.
LEMMA FindingForms ==
  ASSUME NEW r, Sound(r), IsFinding(r), NEW e \in EffectsOf(r),
         e.op = "first_write"
  PROVE  /\ e.kind \in PublicFactKinds \cup {"finding_scope_guard",
                                            "finding_target_guard"}
         /\ e.kind \in PublicFactKinds => FactForm(r, EffectKey(e), e.payload)
<1>. DEFINE a == r.attrs
<1>1. PICK f \in FindingElements(a) : e = Bound(r, f)
  BY EventSet DEF IsFinding
<1>2. IsEffect(f)
  BY FindingAreEffects
<1>3. /\ e.op = f.op /\ e.kind = f.kind /\ EffectKey(e) = EffectKey(f)
      /\ Carries(r, e.payload, f.payload)
  BY <1>1, <1>2, BoundSame DEF Carries
<1>4. \/ f \in {ScopeEffect(a), AimGuardEffect(a)} \/ f = StatusEffect(a)
      \/ f \in {KnownRequired(a), AimRequired(a), FixRequired(a)}
      \/ ~Lifecycle(a) /\ f = OpenEffect(a)
      \/ ~Lifecycle(a) /\ f = AimEffect(a)
      \/ "fix_id" \in DOMAIN a /\ f = FixEffect(a)
      \/ "recheck_id" \in DOMAIN a /\ f = RecheckEffect(a)
  BY <1>1 DEF FindingElements
<1>. HIDE DEF a
<1>5. CASE f \in {ScopeEffect(a), AimGuardEffect(a)}
  <2>1. f.kind \in {"finding_scope_guard", "finding_target_guard"}
    BY <1>5 DEF ScopeEffect, AimGuardEffect, FirstWriteOf
  <2>. QED
    BY <1>3, <2>1 DEF PublicFactKinds
<1>6. CASE f \in {KnownRequired(a), AimRequired(a), FixRequired(a)}
  <2>1. f.op = "require"
    BY <1>6 DEF KnownRequired, AimRequired, FixRequired, RequireOf
  <2>. QED
    BY <1>3, <2>1
<1>7. CASE f = StatusEffect(a)
  <2>1. f.kind = "finding_status"
    BY <1>7 DEF StatusEffect, FirstWriteOf
  <2>2. StatusForm(r, EffectKey(e), e.payload)
    BY <1>3, <1>7, FindingKeys DEF StatusForm, a
  <2>. QED
    BY <1>3, <2>1, <2>2 DEF PublicFactKinds, FactForm
<1>8. CASE ~Lifecycle(a) /\ f = OpenEffect(a)
  <2>1. f.kind = "finding_assertion"
    BY <1>8 DEF OpenEffect, FirstWriteOf
  <2>2. OpenForm(r, EffectKey(e), e.payload)
    BY <1>3, <1>8, FindingKeys DEF OpenForm, a
  <2>. QED
    BY <1>3, <2>1, <2>2 DEF PublicFactKinds, FactForm
<1>9. CASE ~Lifecycle(a) /\ f = AimEffect(a)
  <2>1. f.kind = "finding_target" /\ f.payload = EmptyPayload
    BY <1>9 DEF AimEffect, FirstWriteOf
  <2>2. AimForm(r, EffectKey(e), e.payload)
    BY <1>3, <1>9, <2>1, FindingKeys DEF AimForm, a
  <2>. QED
    BY <1>3, <2>1, <2>2 DEF PublicFactKinds, FactForm
<1>10. CASE "fix_id" \in DOMAIN a /\ f = FixEffect(a)
  <2>1. f.kind = "finding_fix"
    BY <1>10 DEF FixEffect, FirstWriteOf
  <2>2. FixForm(r, EffectKey(e), e.payload)
    BY <1>3, <1>10, FindingKeys DEF FixForm, a
  <2>. QED
    BY <1>3, <2>1, <2>2 DEF PublicFactKinds, FactForm
<1>11. CASE "recheck_id" \in DOMAIN a /\ f = RecheckEffect(a)
  <2>1. f.kind = "finding_recheck"
    BY <1>11 DEF RecheckEffect, FirstWriteOf
  <2>2. RecheckForm(r, EffectKey(e), e.payload)
    BY <1>3, <1>11, FindingKeys DEF RecheckForm, a
  <2>. QED
    BY <1>3, <2>1, <2>2 DEF PublicFactKinds, FactForm
<1>. QED
  BY <1>4, <1>5, <1>6, <1>7, <1>8, <1>9, <1>10, <1>11

\* The one row of any other event but a task binding.
LEMMA OtherForms ==
  ASSUME NEW r, Sound(r), r.type = "event",
         r.name \notin {"review.finding", "task.binding"},
         NEW e \in EffectsOf(r)
  PROVE  /\ e.op = "first_write" /\ e.kind \in PublicFactKinds
         /\ FactForm(r, EffectKey(e), e.payload)
<1>1. CASE r.name = "role.lineage"
  <2>1. e = Bound(r, LineageEffect(r))
    BY <1>1, EventSet
  <2>2. IsSequence(If(r.profile = 2, DeliveryOf(r))
                     \o <<r.attrs.family_schema, r.attrs.role_id>>)
    <3>1. IsSequence(If(r.profile = 2, DeliveryOf(r)))
      BY Tuples DEF If
    <3>. QED
      BY <3>1, Tuples, Concatenation
  <2>3. /\ IsEffect(LineageEffect(r)) /\ LineageEffect(r).kind = "role_lineage"
        /\ LineageEffect(r).op = "first_write"
        /\ LineageEffect(r).payload = r.attrs
    BY <2>2 DEF LineageEffect, IsEffect, FirstWriteOf
  <2>4. EffectKey(e)[1] = "role_lineage"
    BY <2>1, <2>3, BoundSame, KindFirst
  <2>5. LineageForm(r, EffectKey(e), e.payload)
    BY <1>1, <2>1, <2>3, <2>4, BoundSame DEF LineageForm, Carries
  <2>. QED
    BY <2>1, <2>3, <2>5, BoundSame DEF FactForm, PublicFactKinds
<1>2. CASE r.name # "role.lineage"
  <2>1. e = Bound(r, ContributionEffect(r))
    BY <1>2, EventSet
  <2>2. /\ IsEffect(ContributionEffect(r))
        /\ ContributionEffect(r).kind = "factual_contribution"
        /\ ContributionEffect(r).op = "first_write"
        /\ ContributionEffect(r).payload = ContributionPayload(r)
    BY Tuples
    DEF ContributionEffect, ContributionPayload, IsEffect, FirstWriteOf
  <2>3. EffectKey(ContributionEffect(r)) =
          <<"factual_contribution", r.name, r.id>>
    <3>1. EffectKey(ContributionEffect(r)) =
            <<"factual_contribution">> \o <<r.name, r.id>>
      BY Keyed DEF ContributionEffect
    <3>. QED
      BY <3>1, BindingKeys, Zenon
  <2>4. r.name \in EventNames \ {"review.finding", "role.lineage"}
    BY <1>2 DEF Sound, SoundEvent
  <2>5. ContributionForm(r, EffectKey(e), e.payload)
    BY <2>1, <2>2, <2>3, <2>4, BoundSame DEF ContributionForm, Carries
  <2>. QED
    BY <2>1, <2>2, <2>5, BoundSame DEF FactForm, PublicFactKinds
<1>. QED
  BY <1>1, <1>2

\* The row of detail under a key, whatever record writes it.
LEMMA WrittenForms ==
  ASSUME NEW r, Sound(r), NEW k, NEW e \in Writes(r, k)
  PROVE  /\ k[1] \in FactualKinds => FactForm(r, k, e.payload)
         /\ k[1] \in TraceKinds => TraceForm(r, k, e.payload)
         /\ k[1] = e.kind
<1>0. /\ e \in EffectsOf(r) /\ e.op = "first_write" /\ EffectKey(e) = k
  BY DEF Writes
<1>1. PICK i \in DOMAIN Project(r) : e = Project(r)[i]
  BY <1>0 DEF EffectsOf
<1>2. IsSequence(r.links) /\ (IsEvent(r, "task.binding") => r.profile = 2)
  <2>1. IsSequence(r.links)
    BY Zenon DEF Sound, WellFormed, IsSequence
  <2>. QED
    BY <2>1 DEF Sound, WellFormed
<1>3. /\ k[1] = e.kind
      /\ e.kind \in BindingKinds => IsBinding(r)
  BY <1>0, <1>1, <1>2, ProjectShape
<1>4. CASE r.type = "span"
  BY <1>0, <1>3, <1>4, SpanForms DEF FactualKinds, PublicFactKinds, TraceKinds
<1>5. CASE r.type = "event" /\ r.name = "review.finding"
  BY <1>0, <1>3, <1>5, FindingForms
  DEF IsFinding, FactualKinds, PublicFactKinds, TraceKinds
<1>6. CASE r.type = "event" /\ r.name \notin {"review.finding", "task.binding"}
  BY <1>0, <1>3, <1>6, OtherForms DEF FactualKinds, PublicFactKinds, TraceKinds
<1>7. CASE r.type = "event" /\ r.name = "task.binding"
  <2>1. Project(r) = ProjectTaskBinding(r.attrs)
    BY <1>7 DEF Project, IsEvent
  <2>2. e.kind \in BindingKinds
    BY <1>1, <2>1, BindingEffects DEF Effects
  <2>. QED
    BY <1>3, <2>2 DEF BindingKinds, FactualKinds, PublicFactKinds, TraceKinds
<1>. QED
  BY <1>4, <1>5, <1>6, <1>7 DEF Sound

-------------------------------------------------------------------------------
(* Admission *)

\* An effect writes or requires a row.
LEMMA EffectOps ==
  ASSUME NEW r, Sound(r), NEW e \in EffectsOf(r)
  PROVE  e.op \in {"first_write", "require"}
<1>0. IsSequence(r.links)
  BY Zenon DEF Sound, WellFormed, IsSequence
<1>1. CASE r.type = "span"
  <2>. DEFINE root == IF r.name = "invoke_workflow" THEN {RootEffect(r)} ELSE {}
              models == IF "model_id" \in DOMAIN r.attrs
                        THEN {RootRequired(r), ModelEffect(r)} ELSE {}
              edge == IF r.parent # Null THEN {EdgeEffect(r)} ELSE {}
              links == {LinkEffect(r, i) : i \in DOMAIN r.links}
  <2>1. e \in root \cup models \cup {NodeEffect(r)} \cup edge \cup links
    BY <1>0, <1>1, SpanSet
  <2>. QED
    BY <2>1 DEF RootEffect, RootRequired, ModelEffect, NodeEffect, EdgeEffect,
                LinkEffect, FirstWriteOf, RequireOf
<1>2. CASE r.type = "event" /\ r.name = "review.finding"
  <2>1. PICK f \in FindingElements(r.attrs) : e = Bound(r, f)
    BY <1>2, EventSet
  <2>2. e.op = f.op
    BY <2>1, FindingAreEffects, BoundSame
  <2>3. f.op \in {"first_write", "require"}
    <3>. DEFINE a == r.attrs
    <3>1. f \in {ScopeEffect(a), AimGuardEffect(a), StatusEffect(a),
                 KnownRequired(a), AimRequired(a), OpenEffect(a), AimEffect(a),
                 FixEffect(a), FixRequired(a), RecheckEffect(a)}
      BY DEF FindingElements
    <3>. HIDE DEF a
    <3>. QED
      BY <3>1 DEF ScopeEffect, AimGuardEffect, StatusEffect, KnownRequired,
                  AimRequired, OpenEffect, AimEffect, FixEffect, FixRequired,
                  RecheckEffect, FirstWriteOf, RequireOf
  <2>. QED
    BY <2>2, <2>3
<1>3. CASE r.type = "event" /\ r.name \notin {"review.finding", "task.binding"}
  BY <1>3, OtherForms
<1>4. CASE r.type = "event" /\ r.name = "task.binding"
  <2>1. Project(r) = ProjectTaskBinding(r.attrs)
    BY <1>4 DEF Project, IsEvent
  <2>2. \A i \in DOMAIN Project(r) : Project(r)[i].op = "first_write"
    BY <2>1, BindingEffects
  <2>. QED
    BY <2>2 DEF EffectsOf
<1>. QED
  BY <1>1, <1>2, <1>3, <1>4 DEF Sound

\* What an accepted record finds and leaves: the rows that are there have the
\* payloads it writes, those that are not get them, and what it requires is
\* there.
LEMMA StoreWrites ==
  ASSUME NEW r, Sound(r), Disposition(r) = "accepted", Store(r)
  PROVE  /\ \A k \in DOMAIN effects : \A e \in Writes(r, k) :
              effects[k].payload = e.payload
         /\ \A k \in DOMAIN effects' \ DOMAIN effects : \A e \in Writes(r, k) :
              effects'[k].payload = e.payload
         /\ \A e \in EffectsOf(r) : EffectKey(e) \in DOMAIN effects'
<1>. DEFINE es == Project(r)
            new == {i \in DOMAIN es : es[i].op = "first_write" /\ ~Finds(es, i)}
            chosen(k) == CHOOSE i \in new : EffectKey(es[i]) = k
            added == [k \in {EffectKey(es[i]) : i \in new} |->
                        [payload |-> es[chosen(k)].payload, src |-> r.id, at |-> now]]
            writing(k) == {i \in DOMAIN es : /\ es[i].op = "first_write"
                                             /\ EffectKey(es[i]) = k}
<1>0. \A i \in DOMAIN es : ~Refused(es, i)
  BY DEF Disposition
<1>1. effects' = With(effects, added)
  BY DEF Store
<1>2. IsSequence(r.links) /\ (IsEvent(r, "task.binding") => r.profile = 2)
  <2>1. IsSequence(r.links)
    BY Zenon DEF Sound, WellFormed, IsSequence
  <2>. QED
    BY <2>1 DEF Sound, WellFormed
<1>3. Len(es) \in Nat /\ DOMAIN es = 1..Len(es)
  BY <1>2, ProjectShape
<1>4. \A k, e : e \in Writes(r, k) <=> \E i \in writing(k) : e = es[i]
  BY DEF Writes, EffectsOf
<1>5. \A e \in EffectsOf(r) : \E i \in DOMAIN es : e = es[i]
  BY DEF EffectsOf
<1>6. DOMAIN effects' = DOMAIN effects \cup {EffectKey(es[i]) : i \in new}
  BY <1>1 DEF With
<1>7. \A k \in DOMAIN effects' \ DOMAIN effects :
        effects'[k] = [payload |-> es[chosen(k)].payload, src |-> r.id, at |-> now]
  BY <1>1, <1>6 DEF With
<1>. HIDE DEF es, added
<1>8. ASSUME NEW k \in DOMAIN effects, NEW i \in writing(k)
      PROVE  effects[k].payload = es[i].payload
  BY <1>0, <1>8 DEF Refused, Finds, Found
<1>9. ASSUME NEW k, k \notin DOMAIN effects, writing(k) # {}
      PROVE  /\ k \in DOMAIN effects'
             /\ \A i \in writing(k) : es[chosen(k)].payload = es[i].payload
  <2>1. writing(k) \in SUBSET Nat
    BY <1>3
  <2>2. PICK m \in writing(k) : \A i \in writing(k) : m <= i
    BY <1>9, <2>1, LeastIn
  <2>3. \A i \in writing(k) : Earlier(es, i) = {j \in writing(k) : j < i}
    BY <1>3 DEF Earlier
  <2>4. Earlier(es, m) = {}
    BY <2>1, <2>2, <2>3
  <2>5. m \in new
    BY <1>9, <2>4 DEF Finds
  <2>6. ASSUME NEW i \in writing(k), i # m
        PROVE  /\ es[i].payload = es[m].payload
               /\ i \notin new
    <3>1. m \in Earlier(es, i)
      BY <2>1, <2>2, <2>3, <2>6
    <3>2. Finds(es, i) /\ Found(es, i) = es[MinOf(Earlier(es, i))].payload
      BY <1>9, <3>1 DEF Finds, Found
    <3>3. /\ MinOf(Earlier(es, i)) \in Earlier(es, i)
          /\ MinOf(Earlier(es, i)) <= m
      <4>1. \A j \in Earlier(es, i) : m <= j
        BY <2>2, <2>3
      <4>. QED
        BY <3>1, <4>1 DEF MinOf
    <3>4. MinOf(Earlier(es, i)) = m
      BY <2>1, <2>2, <2>3, <3>3
    <3>5. ~Refused(es, i)
      BY <1>0
    <3>. QED
      BY <3>2, <3>4, <3>5 DEF Refused
  <2>7. chosen(k) \in new /\ EffectKey(es[chosen(k)]) = k
    BY <2>5
  <2>. HIDE DEF chosen
  <2>8. chosen(k) \in writing(k)
    BY <2>7
  <2>9. chosen(k) = m
    BY <2>6, <2>7, <2>8
  <2>. QED
    BY <1>6, <2>5, <2>6, <2>9
<1>10. ASSUME NEW i \in DOMAIN es
       PROVE  EffectKey(es[i]) \in DOMAIN effects'
  <2>1. ~Refused(es, i) /\ es[i].op \in {"first_write", "require"}
    <3>1. es[i].op \in {"first_write", "require"}
      BY EffectOps DEF es, EffectsOf
    <3>. QED
      BY <1>0, <3>1
  <2>2. CASE es[i].op = "first_write"
    <3>1. i \in writing(EffectKey(es[i]))
      BY <2>2
    <3>. QED
      BY <1>6, <1>9, <3>1
  <2>3. CASE es[i].op = "require"
    <3>1. Finds(es, i)
      BY <2>1, <2>3 DEF Refused
    <3>2. CASE EffectKey(es[i]) \in DOMAIN effects
      BY <1>6, <3>2
    <3>3. CASE Earlier(es, i) # {} /\ EffectKey(es[i]) \notin DOMAIN effects
      <4>1. writing(EffectKey(es[i])) # {}
        BY <1>3, <3>3 DEF Earlier
      <4>. QED
        BY <1>9, <3>3, <4>1
    <3>. QED
      BY <3>1, <3>2, <3>3 DEF Finds
  <2>. QED
    BY <2>1, <2>2, <2>3
<1>. HIDE DEF chosen, new, writing
<1>11. \A k \in DOMAIN effects : \A e \in Writes(r, k) :
         effects[k].payload = e.payload
  BY <1>4, <1>8
<1>12. \A k \in DOMAIN effects' \ DOMAIN effects : \A e \in Writes(r, k) :
         effects'[k].payload = e.payload
  BY <1>4, <1>7, <1>9
<1>13. \A e \in EffectsOf(r) : EffectKey(e) \in DOMAIN effects'
  BY <1>5, <1>10
<1>. QED
  BY <1>11, <1>12, <1>13

-------------------------------------------------------------------------------
(* What a step does to the tables *)

\* Serving a request does not change which request it is.
LEMMA SameRequest ==
  ASSUME NEW s, s = Slot(s.pc, s.req, s.i, s.rejected, s.status, s.landed, s.failed)
  PROVE  /\ \A result, l : Counted(s, result, l).req = s.req
         /\ \A committed, l : Broken(s, committed, l).req = s.req
         /\ \A status :
              [[s EXCEPT !.pc = "answer"] EXCEPT !.status = status].req = s.req
  BY DEF Slot, Counted, Broken

\* The record an exporter is at comes from the workload.
LEMMA RecordSent ==
  ASSUME ServiceInductive, NEW workload \in Workloads, SentFrom(workload),
         NEW c \in Exporters, export[c].i \in DOMAIN export[c].req.records,
         NEW l, l = DecodeRequest(export[c].req)[export[c].i], Validates(l)
  PROVE  Validated(l) \in RecordsIn(workload)
<1>1. PICK q, n : q = export[c].req /\ n = export[c].i
  OBVIOUS
<1>2. n \in DOMAIN q.records /\ l = Decode(q.records[n])
  BY <1>1 DEF DecodeRequest
<1>3. q \in workload
  BY <1>1, <1>2 DEF SentFrom, NoRequest
<1>4. q.records[n] \in ItemsOf(workload)
  BY <1>2, <1>3 DEF ItemsOf
<1>. QED
  BY <1>2, <1>4 DEF RecordsIn

\* A record of the workload is accepted.
Accepts(workload) ==
  \E r \in RecordsIn(workload) :
    Disposition(r) = "accepted" /\ Store(r) /\ now' = now /\ plan' = plan

\* Time may pass.
Idles == UNCHANGED <<tables, plan>> /\ now' \in {now, now + 1}

\* One turn of the loop of _ingest accepts a record or leaves the tables alone.
LEMMA ServeKinds ==
  ASSUME ServiceInductive, NEW workload \in Workloads, SentFrom(workload),
         NEW c \in Exporters, AdmitNext(c) \/ FailStore(c)
  PROVE  /\ Accepts(workload) \/ Idles
         /\ inbox' = inbox
         /\ \A e \in Exporters : export'[e].req = export[e].req
<1>. DEFINE l == DecodeRequest(export[c].req)[export[c].i]
<1>1. /\ export = [e \in Exporters |-> export[e]] /\ SlotOK(c) /\ now \in Nat
      /\ export[c] = Slot(export[c].pc, export[c].req, export[c].i,
                          export[c].rejected, export[c].status, export[c].landed,
                          export[c].failed)
  BY ServiceAssumption DEF ServiceInductive, SlotOK
<1>2. ASSUME NEW r, r = Validated(l), Validates(l), Transact(r),
             UNCHANGED <<now, plan>>
      PROVE  Accepts(workload) \/ Idles
  <2>1. export[c].i \in DOMAIN export[c].req.records
    BY DEF AdmitNext, FailStore
  <2>2. r \in RecordsIn(workload)
    BY <1>2, <2>1, RecordSent
  <2>. HIDE DEF l
  <2>. QED
    BY <1>2, <2>2 DEF Transact, Accepts, Idles
<1>3. CASE AdmitNext(c)
  <2>1. UNCHANGED <<now, plan, inbox>>
    BY <1>3 DEF AdmitNext, IngestUnchanged
  <2>2. CASE ~Validates(l)
    <3>1. /\ export' = [export EXCEPT ![c] = Counted(@, "invalid", l)]
          /\ UNCHANGED tables
      BY <1>3, <2>2 DEF AdmitNext
    <3>. HIDE DEF l
    <3>2. Idles
      BY <2>1, <3>1 DEF Idles
    <3>. QED
      BY <1>1, <2>1, <3>1, <3>2, SameRequest
  <2>3. CASE Validates(l) /\ Disposition(Validated(l)) = "error"
    <3>1. /\ export' = [export EXCEPT ![c].pc = "answer", ![c].status = 500]
          /\ UNCHANGED tables
      BY <1>3, <2>3 DEF AdmitNext
    <3>2. Idles
      BY <2>1, <3>1 DEF Idles
    <3>3. export'[c] = [[export[c] EXCEPT !.pc = "answer"] EXCEPT !.status = 500]
      BY <1>1, <3>1
    <3>. QED
      BY <1>1, <2>1, <3>1, <3>2, <3>3, SameRequest
  <2>4. CASE Validates(l) /\ Disposition(Validated(l)) # "error"
    <3>1. /\ export' = [export EXCEPT ![c] =
                          Counted(@, Disposition(Validated(l)), l)]
          /\ Transact(Validated(l))
      BY <1>3, <2>4 DEF AdmitNext
    <3>2. Accepts(workload) \/ Idles
      BY <1>2, <2>1, <2>4, <3>1
    <3>. HIDE DEF l
    <3>. QED
      BY <1>1, <2>1, <3>1, <3>2, SameRequest
  <2>. QED
    BY <2>2, <2>3, <2>4
<1>4. CASE FailStore(c)
  <2>1. UNCHANGED <<now, plan, inbox>> /\ Validates(l)
    BY <1>4 DEF FailStore, IngestUnchanged
  <2>2. PICK committed \in BOOLEAN :
          /\ IF committed THEN Transact(Validated(l)) ELSE UNCHANGED tables
          /\ export' = [export EXCEPT ![c] = Broken(@, committed, l)]
    BY <1>4 DEF FailStore
  <2>3. CASE committed
    <3>1. Accepts(workload) \/ Idles
      BY <1>2, <2>1, <2>2, <2>3
    <3>. HIDE DEF l
    <3>. QED
      BY <1>1, <2>1, <2>2, <3>1, SameRequest
  <2>4. CASE ~committed
    <3>. HIDE DEF l
    <3>1. Idles
      BY <2>1, <2>2, <2>4 DEF Idles
    <3>. QED
      BY <1>1, <2>1, <2>2, <3>1, SameRequest
  <2>. QED
    BY <2>3, <2>4
<1>. QED
  BY <1>3, <1>4

\* Every step is an admission, makes or applies a plan, retires a Delivery or
\* leaves the tables alone, and all records come from the workload.
LEMMA StepKinds ==
  ASSUME ServiceInductive, NEW workload \in Workloads, SentFrom(workload),
         [Next]_vars
  PROVE  /\ SentFrom(workload)'
         /\ \/ Accepts(workload) \/ Idles \/ ApplyExpiry
            \/ \E class \in Classes : PlanExpiry(class)
            \/ \E d \in DOMAIN anchors : Retire(d)
<1>0. /\ export = [e \in Exporters |-> export[e]] /\ now \in Nat
      /\ \A c \in Exporters :
           export[c] = Slot(export[c].pc, export[c].req, export[c].i,
                            export[c].rejected, export[c].status,
                            export[c].landed, export[c].failed)
  BY ServiceAssumption DEF ServiceInductive, SlotOK
<1>1. /\ inbox \subseteq workload
      /\ \A c \in Exporters : export[c].req \in workload \cup {NoRequest}
      /\ \A id \in DOMAIN accepted : accepted[id].rec \in RecordsIn(workload)
  BY DEF SentFrom
<1>2. CASE \/ \E c \in Exporters, q \in inbox : Receive(c, q)
           \/ \E c \in Exporters : AdmitNext(c) \/ FailStore(c)
           \/ \E c \in Exporters : AdmitRaises(c) \/ Conclude(c)
           \/ \E c \in Exporters : Answer(c) \/ LoseAnswer(c)
           \/ Tick \/ UNCHANGED vars
  <2>1. /\ Accepts(workload) \/ Idles
        /\ inbox' \subseteq workload
        /\ \A c \in Exporters : export'[c].req \in workload \cup {NoRequest}
    <3>1. ASSUME NEW c \in Exporters, NEW q \in inbox, Receive(c, q)
          PROVE  /\ Idles /\ inbox' = inbox
                 /\ \A e \in Exporters : export'[e].req \in workload \cup {NoRequest}
      <4>1. Idles /\ inbox' = inbox
        BY <3>1 DEF Receive, IngestUnchanged, Idles
      <4>2. PICK s : export' = [export EXCEPT ![c] = s] /\ s.req = q
        <5>1. CASE EarlyStatus(q) = {}
          <6>. DEFINE s == [[Quiet EXCEPT !.pc = "admit"] EXCEPT !.req = q]
          <6>1. export' = [export EXCEPT ![c] = s]
            BY <3>1, <5>1 DEF Receive
          <6>2. s.req = q
            BY DEF Quiet
          <6>. HIDE DEF s
          <6>. QED
            BY <6>1, <6>2
        <5>2. CASE EarlyStatus(q) # {}
          <6>1. PICK status : export' = [export EXCEPT ![c] =
                  [[[Quiet EXCEPT !.pc = "answer"] EXCEPT !.req = q] EXCEPT
                     !.status = status]]
            BY <3>1, <5>2 DEF Receive
          <6>. DEFINE s == [[[Quiet EXCEPT !.pc = "answer"] EXCEPT !.req = q] EXCEPT
                              !.status = status]
          <6>2. s.req = q
            BY DEF Quiet
          <6>3. export' = [export EXCEPT ![c] = s]
            BY <6>1
          <6>. HIDE DEF s
          <6>. QED
            BY <6>2, <6>3
        <5>. QED
          BY <5>1, <5>2
      <4>. QED
        BY <1>0, <1>1, <4>1, <4>2
    <3>2. ASSUME NEW c \in Exporters, AdmitNext(c) \/ FailStore(c)
          PROVE  /\ Accepts(workload) \/ Idles
                 /\ inbox' = inbox
                 /\ \A e \in Exporters : export'[e].req = export[e].req
      BY <3>2, ServeKinds
    <3>3. ASSUME NEW c \in Exporters, AdmitRaises(c) \/ Conclude(c)
          PROVE  /\ Idles /\ inbox' = inbox
                 /\ \A e \in Exporters : export'[e].req = export[e].req
      <4>1. Idles /\ inbox' = inbox
        BY <3>3 DEF AdmitRaises, Conclude, IngestUnchanged, Idles
      <4>2. PICK status :
              export' = [export EXCEPT ![c].pc = "answer", ![c].status = status]
        BY <3>3 DEF AdmitRaises, Conclude
      <4>3. export'[c] = [[export[c] EXCEPT !.pc = "answer"] EXCEPT
                            !.status = status]
        BY <1>0, <4>2
      <4>4. \A e \in Exporters \ {c} : export'[e] = export[e]
        BY <1>0, <4>2
      <4>5. export'[c].req = export[c].req
        <5>1. PICK s : s = export[c]
          OBVIOUS
        <5>2. s = Slot(s.pc, s.req, s.i, s.rejected, s.status, s.landed, s.failed)
          BY <1>0, <5>1
        <5>3. [[s EXCEPT !.pc = "answer"] EXCEPT !.status = status].req = s.req
          BY <5>2, SameRequest
        <5>. QED
          BY <4>3, <5>1, <5>3
      <4>. QED
        BY <4>1, <4>4, <4>5
    <3>4. ASSUME NEW c \in Exporters, Answer(c) \/ LoseAnswer(c)
          PROVE  /\ Idles /\ inbox' \subseteq inbox
                 /\ \A e \in Exporters : export'[e].req \in workload \cup {NoRequest}
      <4>1. /\ Idles /\ inbox' \subseteq inbox
            /\ export' = [export EXCEPT ![c] = Quiet]
        BY <3>4 DEF Answer, LoseAnswer, IngestUnchanged, Idles
      <4>. QED
        BY <1>0, <1>1, <4>1 DEF Quiet
    <3>5. ASSUME Tick \/ UNCHANGED vars
          PROVE  Idles /\ inbox' = inbox /\ export' = export
      BY <3>5 DEF Tick, vars, Idles
    <3>. QED
      BY <1>1, <1>2, <3>1, <3>2, <3>3, <3>4, <3>5
  <2>2. \A id \in DOMAIN accepted' : accepted'[id].rec \in RecordsIn(workload)
    <3>1. CASE Idles
      BY <1>1, <3>1 DEF Idles
    <3>2. CASE Accepts(workload)
      <4>1. PICK r \in RecordsIn(workload) :
              Disposition(r) = "accepted" /\ Store(r)
        BY <3>2 DEF Accepts
      <4>2. r.id \notin DOMAIN accepted
        BY <4>1, Dispositions
      <4>3. /\ DOMAIN accepted' = DOMAIN accepted \cup {r.id}
            /\ accepted'[r.id] = [rec |-> r, at |-> now]
            /\ \A id \in DOMAIN accepted : accepted'[id] = accepted[id]
        BY <4>1, <4>2, StoreAdds
      <4>4. accepted'[r.id].rec = r
        BY <4>3
      <4>. QED
        BY <1>1, <4>3, <4>4
    <3>. QED
      BY <2>1, <3>1, <3>2
  <2>. QED
    BY <2>1, <2>2 DEF SentFrom
<1>3. ASSUME \/ \E class \in Classes : PlanExpiry(class)
             \/ ApplyExpiry \/ \E d \in DOMAIN anchors : Retire(d)
      PROVE  SentFrom(workload)'
  <2>1. /\ inbox' = inbox /\ export' = export
        /\ \A id \in DOMAIN accepted' :
             id \in DOMAIN accepted /\ accepted'[id] = accepted[id]
    BY <1>3 DEF PlanExpiry, ApplyExpiry, Retire, Without
  <2>. QED
    BY <1>1, <2>1 DEF SentFrom
<1>. QED
  BY <1>2, <1>3 DEF Next


-------------------------------------------------------------------------------
(* What a step does to rows *)

\* A retirement leaves the rows of other records alone, but for those of a Task.
LEMMA RetireRows ==
  ASSUME TablesOK, NEW d, Retire(d)
  PROVE  /\ DOMAIN accepted' = DOMAIN accepted \ MembersOf(d)
         /\ \A id \in DOMAIN accepted' : accepted'[id] = accepted[id]
         /\ DOMAIN markers' = DOMAIN markers \ Tombstones(d)
         /\ \A k \in DOMAIN markers' : markers'[k] = markers[k]
         /\ \A k \in DOMAIN effects' :
              /\ k \in DOMAIN effects
              /\ \/ k[1] \in TaskKinds
                 \/ effects'[k] = effects[k] /\ effects[k].src \notin MembersOf(d)
         /\ \A k \in DOMAIN effects :
              effects[k].src \notin MembersOf(d) =>
                k \in DOMAIN effects' /\ effects'[k] = effects[k]
<1>. DEFINE heir == CHOOSE k \in Heirs(d) : \A h \in Heirs(d) : k[3] <= h[3]
            moved == IF Heirs(d) = {} THEN {} ELSE Preserved(d)
<1>1. /\ DOMAIN accepted' = DOMAIN accepted \ MembersOf(d)
      /\ \A id \in DOMAIN accepted' : accepted'[id] = accepted[id]
      /\ DOMAIN markers' = DOMAIN markers \ Tombstones(d)
      /\ \A k \in DOMAIN markers' : markers'[k] = markers[k]
  BY DEF Retire, Without
<1>2. /\ DOMAIN effects' = DOMAIN effects \ (OwnedBy(d) \ moved)
      /\ \A k \in DOMAIN effects' :
           effects'[k] = IF k \in moved
                         THEN [effects[k] EXCEPT !.src = effects[heir].src]
                         ELSE effects[k]
  BY DEF Retire
<1>3. moved \subseteq OwnedBy(d) /\ \A k \in moved : k[1] \in TaskKinds
  BY DEF Preserved, TaskKinds
<1>. HIDE DEF heir, moved
<1>. QED
  BY <1>1, <1>2, <1>3 DEF OwnedBy

\* What an expiry of the rows in fresh does to the rows and tombstones.
Expires(fresh) ==
  /\ fresh \subseteq plan.members
  /\ fresh \subseteq DOMAIN effects \ DOMAIN markers
  /\ DOMAIN effects' = DOMAIN effects
  /\ \A k \in DOMAIN effects \ fresh : effects'[k] = effects[k]
  /\ \A k \in fresh :
       effects'[k] = [payload |-> EmptyPayload, src |-> effects[k].src,
                      at |-> effects[k].at]
  /\ DOMAIN markers' = DOMAIN markers \cup fresh
  /\ \A k \in DOMAIN markers : markers'[k] = markers[k]
  /\ \A k \in fresh :
       /\ markers'[k].compatibility =
            ProjectionCompatibility(k, effects[k].payload, FamilyOf(k))
       /\ markers'[k].expires = effects[k].at + TTL(plan.class)

\* The tombstones an expiry adds are of rows of its plan, which it empties.
LEMMA ExpiryRows ==
  ASSUME TablesOK, ApplyExpiry
  PROVE  /\ accepted' = accepted /\ fences' = fences /\ now' = now
         /\ plan' \in {plan, NoPlan}
         /\ \E fresh : Expires(fresh)
<1>. DEFINE fresh == {k \in plan.members : ~AlreadyExpired(k)}
            tombs == [k \in fresh |->
               [src |-> effects[k].src, at |-> effects[k].at,
                compatibility |-> ProjectionCompatibility(k, effects[k].payload,
                  Get(accepted[effects[k].src].rec.attrs, "family_schema")),
                expires |-> effects[k].at + TTL(plan.class)]]
<1>1. /\ accepted' = accepted /\ fences' = fences
      /\ now' = now /\ plan' \in {plan, NoPlan}
  BY DEF ApplyExpiry
<1>2. CASE ~(fresh \subseteq DOMAIN effects)
  <2>1. markers' = markers /\ effects' = effects
    BY <1>2 DEF ApplyExpiry
  <2>2. Expires({})
    BY <2>1 DEF Expires
  <2>. QED
    BY <1>1, <2>2
<1>3. CASE fresh \subseteq DOMAIN effects
  <2>1. /\ markers' = With(markers, tombs)
        /\ effects' = [k \in DOMAIN effects |->
                         IF k \in fresh
                         THEN [effects[k] EXCEPT !.payload = EmptyPayload]
                         ELSE effects[k]]
    BY <1>3 DEF ApplyExpiry
  <2>2. /\ DOMAIN tombs = fresh
        /\ \A k \in fresh :
             /\ tombs[k].compatibility =
                  ProjectionCompatibility(k, effects[k].payload, FamilyOf(k))
             /\ tombs[k].expires = effects[k].at + TTL(plan.class)
    BY DEF FamilyOf, SourceOf
  <2>3. fresh \in SUBSET plan.members /\ \A k \in fresh : k \notin DOMAIN markers
    BY DEF AlreadyExpired
  <2>. HIDE DEF tombs, fresh
  <2>4. /\ DOMAIN effects' = DOMAIN effects
        /\ \A k \in DOMAIN effects \ fresh : effects'[k] = effects[k]
        /\ \A k \in fresh :
             effects'[k] = [payload |-> EmptyPayload, src |-> effects[k].src,
                            at |-> effects[k].at]
    BY <1>3, <2>1 DEF TablesOK, RowOK
  <2>5. /\ DOMAIN markers' = DOMAIN markers \cup fresh
        /\ \A k \in DOMAIN markers : markers'[k] = markers[k]
        /\ \A k \in fresh : markers'[k] = tombs[k]
    BY <2>1, <2>2, <2>3 DEF With
  <2>6. Expires(fresh)
    BY <1>3, <2>2, <2>3, <2>4, <2>5 DEF Expires
  <2>. QED
    BY <1>1, <2>6
<1>. QED
  BY <1>2, <1>3

\* A row that a step leaves alone still says what its source says.
LEMMA ToldSame ==
  ASSUME NEW k, Told(k), effects'[k] = effects[k],
         accepted'[effects[k].src] = accepted[effects[k].src],
         k \in DOMAIN markers' <=> k \in DOMAIN markers,
         k \in DOMAIN markers => markers'[k] = markers[k]
  PROVE  Told(k)'
<1>1. SourceOf(k)' = SourceOf(k)
  BY DEF SourceOf
<1>2. FamilyOf(k)' = FamilyOf(k)
  BY <1>1 DEF FamilyOf
<1>. QED
  BY <1>1, <1>2 DEF Told

\* An accepted record tells the rows it adds, leaves the others alone, and has
\* its own node: no other Span has its coordinates.
LEMMA AcceptDetail ==
  ASSUME ServiceInductive, NEW workload \in Workloads, SentFrom(workload),
         DetailInductive, Accepts(workload)
  PROVE  /\ \A k \in RowsOf(Expirable)' : Told(k)'
         /\ \A id \in DOMAIN accepted' : NodeKept(id)'
         /\ OwnersValid'
<1>1. PICK r \in RecordsIn(workload) :
        Disposition(r) = "accepted" /\ Store(r) /\ now' = now /\ plan' = plan
  BY DEF Accepts
<1>2. r.id \notin DOMAIN accepted
  BY <1>1, Dispositions
<1>3. Sound(r)
  BY RecordSound
<1>4. /\ DOMAIN accepted' = DOMAIN accepted \cup {r.id}
      /\ accepted'[r.id] = [rec |-> r, at |-> now]
      /\ \A id \in DOMAIN accepted : accepted'[id] = accepted[id]
      /\ DOMAIN effects \subseteq DOMAIN effects'
      /\ \A k \in DOMAIN effects : effects'[k] = effects[k]
      /\ \A k \in DOMAIN effects' \ DOMAIN effects :
           \E i \in DOMAIN Project(r) :
             /\ Project(r)[i].op = "first_write"
             /\ EffectKey(Project(r)[i]) = k
             /\ effects'[k] = [payload |-> Project(r)[i].payload,
                               src |-> r.id, at |-> now]
  BY <1>1, <1>2, StoreAdds
<1>5. markers' = markers
  BY <1>1 DEF Store
<1>6. /\ \A k \in DOMAIN effects : effects[k].src \in DOMAIN accepted
      /\ DOMAIN markers \subseteq DOMAIN effects
  BY DEF ServiceInductive, TablesOK, RowOK, TombstonesMatch
<1>7. accepted'[r.id].rec = r
  BY <1>4
<1>8. \A k \in DOMAIN effects' \ DOMAIN effects :
        effects'[k].src = r.id /\ Writes(r, k) # {}
  BY <1>4 DEF Writes, EffectsOf
<1>9. ASSUME NEW k \in DOMAIN effects', k[1] \in Expirable
      PROVE  Told(k)'
  <2>1. CASE k \in DOMAIN effects
    BY <1>4, <1>5, <1>6, <1>9, <2>1, ToldSame DEF DetailInductive, RowsOf
  <2>2. CASE k \notin DOMAIN effects
    <3>1. SourceOf(k)' = r
      BY <1>7, <1>8, <2>2 DEF SourceOf
    <3>2. \A e \in Writes(r, k) : effects'[k].payload = e.payload
      BY <1>1, <1>3, <2>2, StoreWrites
    <3>3. k \notin DOMAIN markers'
      BY <1>5, <1>6, <2>2
    <3>. QED
      BY <1>8, <2>2, <3>1, <3>2, <3>3 DEF Told
  <2>. QED
    BY <2>1, <2>2
<1>10. ASSUME NEW id \in DOMAIN accepted'
       PROVE  NodeKept(id)'
  <2>1. CASE id \in DOMAIN accepted
    BY <1>4, <2>1 DEF DetailInductive, NodeKept
  <2>2. CASE id = r.id /\ r.type = "span"
    <3>. DEFINE k == <<"trace_node", r.trace, r.span>>
    <3>1. NodeEffect(r) \in EffectsOf(r) /\ EffectKey(NodeEffect(r)) = k
      BY <1>3, <2>2, SpanSet, SpanKeys DEF Sound, WellFormed, IsSequence
    <3>2. k \in DOMAIN effects'
      BY <1>1, <1>3, <3>1, StoreWrites
    <3>3. k \notin DOMAIN effects
      <4>. SUFFICES ASSUME k \in DOMAIN effects PROVE FALSE
        OBVIOUS
      <4>1. k[1] = "trace_node" /\ k[2] = r.trace /\ k[3] = r.span
        OBVIOUS
      <4>. HIDE DEF k
      <4>2. Told(k)
        BY <4>1 DEF DetailInductive, RowsOf, Expirable, TraceKinds
      <4>3. SourceOf(k) \in RecordsIn(workload) /\ effects[k].src \in DOMAIN accepted
        BY <1>6 DEF SentFrom, SourceOf
      <4>4. PICK e : e \in Writes(SourceOf(k), k)
        BY <4>2 DEF Told
      <4>5. TraceForm(SourceOf(k), k, e.payload)
        BY <4>1, <4>3, <4>4, RecordSound, WrittenForms DEF TraceKinds
      <4>6. /\ SourceOf(k).type = "span" /\ SourceOf(k).trace = r.trace
            /\ SourceOf(k).span = r.span
        <5>1. SourceOf(k).type = "span"
              /\ k = <<"trace_node", SourceOf(k).trace, SourceOf(k).span>>
          BY <4>1, <4>5 DEF TraceForm
        <5>. QED
          BY <4>1, <5>1
      <4>7. SourceOf(k).id = r.id
        BY <2>2, <4>3, <4>6, SpanIdentity
      <4>8. SourceOf(k).id = effects[k].src
        BY <4>3 DEF ServiceInductive, TablesOK, RecordOK, SourceOf
      <4>. QED
        BY <1>2, <4>3, <4>7, <4>8
    <3>4. effects'[k].src = r.id
      BY <1>8, <3>2, <3>3
    <3>. QED
      BY <1>7, <2>2, <3>2, <3>4 DEF NodeKept
  <2>3. CASE id = r.id /\ r.type # "span"
    BY <1>7, <2>3 DEF NodeKept
  <2>. QED
    BY <1>4, <2>1, <2>2, <2>3
<1>11. OwnersValid'
  BY <1>1, <1>5 DEF DetailInductive, OwnersValid
<1>. QED
  BY <1>9, <1>10, <1>11 DEF RowsOf


\* A retirement takes the rows of a record with the record.
LEMMA RetireDetail ==
  ASSUME ServiceInductive, DetailInductive, NEW d, Retire(d)
  PROVE  /\ \A k \in RowsOf(Expirable)' : Told(k)'
         /\ \A id \in DOMAIN accepted' : NodeKept(id)'
         /\ OwnersValid'
<1>1. /\ DOMAIN accepted' = DOMAIN accepted \ MembersOf(d)
      /\ \A id \in DOMAIN accepted' : accepted'[id] = accepted[id]
      /\ DOMAIN markers' = DOMAIN markers \ Tombstones(d)
      /\ \A k \in DOMAIN markers' : markers'[k] = markers[k]
      /\ \A k \in DOMAIN effects' :
           /\ k \in DOMAIN effects
           /\ \/ k[1] \in TaskKinds
              \/ effects'[k] = effects[k] /\ effects[k].src \notin MembersOf(d)
      /\ \A k \in DOMAIN effects :
           effects[k].src \notin MembersOf(d) =>
             k \in DOMAIN effects' /\ effects'[k] = effects[k]
  BY RetireRows DEF ServiceInductive
<1>2. Expirable \cap TaskKinds = {}
  BY DEF Expirable, TraceKinds, FactualKinds, PublicFactKinds, TaskKinds
<1>3. ASSUME NEW k \in DOMAIN effects', k[1] \in Expirable
      PROVE  Told(k)'
  <2>1. /\ k \in DOMAIN effects /\ effects'[k] = effects[k]
        /\ effects[k].src \in DOMAIN accepted \ MembersOf(d)
    BY <1>1, <1>2, <1>3 DEF ServiceInductive, TablesOK, RowOK
  <2>2. k \in DOMAIN markers' <=> k \in DOMAIN markers
    BY <1>1, <2>1 DEF ServiceInductive, TablesOK, TombstonesMatch, Tombstones
  <2>. QED
    BY <1>1, <1>3, <2>1, <2>2, ToldSame DEF DetailInductive, RowsOf
<1>4. ASSUME NEW id \in DOMAIN accepted'
      PROVE  NodeKept(id)'
  BY <1>1 DEF DetailInductive, NodeKept
<1>5. OwnersValid'
  BY <1>1 DEF DetailInductive, OwnersValid, Retire
<1>. QED
  BY <1>3, <1>4, <1>5 DEF RowsOf

\* A tombstone is made of the payload that its source wrote.
LEMMA ExpiryDetail ==
  ASSUME ServiceInductive, DetailInductive, ApplyExpiry
  PROVE  /\ \A k \in RowsOf(Expirable)' : Told(k)'
         /\ \A id \in DOMAIN accepted' : NodeKept(id)'
         /\ OwnersValid'
<1>1. accepted' = accepted /\ plan' \in {plan, NoPlan}
  BY ExpiryRows DEF ServiceInductive
<1>2. PICK fresh : Expires(fresh)
  BY ExpiryRows DEF ServiceInductive
<1>3. \A k \in DOMAIN effects : effects'[k].src = effects[k].src
  <2>1. ASSUME NEW k \in fresh
        PROVE  effects'[k].src = effects[k].src
    <3>1. effects'[k] = [payload |-> EmptyPayload, src |-> effects[k].src,
                         at |-> effects[k].at]
      BY <1>2 DEF Expires
    <3>. QED
      BY <3>1
  <2>2. \A k \in DOMAIN effects \ fresh : effects'[k].src = effects[k].src
    BY <1>2 DEF Expires
  <2>. QED
    BY <2>1, <2>2
<1>4. ASSUME NEW k \in DOMAIN effects', k[1] \in Expirable
      PROVE  Told(k)'
  <2>1. k \in DOMAIN effects /\ Told(k)
    BY <1>2, <1>4 DEF Expires, DetailInductive, RowsOf
  <2>2. CASE k \notin fresh
    BY <1>1, <1>2, <2>1, <2>2, ToldSame DEF Expires
  <2>3. CASE k \in fresh
    <3>1. SourceOf(k)' = SourceOf(k) /\ FamilyOf(k)' = FamilyOf(k)
      BY <1>1, <1>3, <2>1 DEF SourceOf, FamilyOf
    <3>2. /\ k \notin DOMAIN markers /\ k \in DOMAIN markers'
          /\ markers'[k].compatibility =
               ProjectionCompatibility(k, effects[k].payload, FamilyOf(k))
      BY <1>2, <2>3 DEF Expires
    <3>. QED
      BY <2>1, <3>1, <3>2 DEF Told
  <2>. QED
    BY <2>2, <2>3
<1>5. ASSUME NEW id \in DOMAIN accepted'
      PROVE  NodeKept(id)'
  BY <1>1, <1>2, <1>3 DEF DetailInductive, NodeKept, Expires
<1>6. OwnersValid'
  BY <1>1, <1>2 DEF DetailInductive, OwnersValid, Expires, NoPlan
<1>. QED
  BY <1>4, <1>5, <1>6 DEF RowsOf

\* Every step keeps the rows of detail as their sources made them.
LEMMA DetailStep ==
  ASSUME ServiceInductive, DetailInductive, [Next]_vars
  PROVE  DetailInductive'
<1>1. PICK workload \in Workloads : SentFrom(workload)
  BY DEF DetailInductive
<1>2. SentFrom(workload)'
  BY <1>1, StepKinds
<1>3. CASE Accepts(workload)
  BY <1>1, <1>2, <1>3, AcceptDetail DEF DetailInductive
<1>4. CASE Idles
  <2>1. UNCHANGED <<accepted, effects, markers, plan>>
    BY <1>4 DEF Idles
  <2>2. \A k \in RowsOf(Expirable)' : Told(k)'
    <3>1. \A k \in DOMAIN effects : k[1] \in Expirable => Told(k)'
      BY <2>1, ToldSame DEF DetailInductive, RowsOf
    <3>. QED
      BY <2>1, <3>1 DEF RowsOf
  <2>. QED
    BY <1>2, <2>1, <2>2 DEF DetailInductive, NodeKept, OwnersValid
<1>5. CASE ApplyExpiry
  BY <1>2, <1>5, ExpiryDetail DEF DetailInductive
<1>6. ASSUME NEW class \in Classes, PlanExpiry(class)
      PROVE  DetailInductive'
  <2>1. UNCHANGED <<accepted, effects, markers>>
    BY <1>6 DEF PlanExpiry
  <2>2. \A k \in RowsOf(Expirable)' : Told(k)'
    <3>1. \A k \in DOMAIN effects : k[1] \in Expirable => Told(k)'
      BY <2>1, ToldSame DEF DetailInductive, RowsOf
    <3>. QED
      BY <2>1, <3>1 DEF RowsOf
  <2>3. PICK members \in SUBSET Due(class) :
          /\ \A k \in members : ValidateExpiryOwner(k)
          /\ plan' = [class |-> class, members |-> members]
    BY <1>6 DEF PlanExpiry
  <2>4. \A k \in members : k[1] \in Expirable
    BY DEF Due, KindsOf, Expirable
  <2>5. OwnersValid'
    BY <2>1, <2>3, <2>4 DEF DetailInductive, OwnersValid
  <2>. QED
    BY <1>2, <2>1, <2>2, <2>5 DEF DetailInductive, NodeKept
<1>7. ASSUME NEW d \in DOMAIN anchors, Retire(d)
      PROVE  DetailInductive'
  BY <1>2, <1>7, RetireDetail DEF DetailInductive
<1>. QED
  BY <1>1, <1>3, <1>4, <1>5, <1>6, <1>7, StepKinds

\* The service starts with no rows.
LEMMA DetailStart == Init => DetailInductive
<1>. SUFFICES ASSUME Init PROVE DetailInductive
  OBVIOUS
<1>1. DOMAIN accepted = {} /\ DOMAIN effects = {} /\ DOMAIN markers = {}
  BY DEF Init, EmptyTable
<1>2. \A c \in Exporters : export[c].req = NoRequest
  BY DEF Init, Quiet
<1>3. SentFrom(inbox) /\ inbox \in Workloads
  BY <1>1, <1>2 DEF Init, SentFrom
<1>4. plan.members = {}
  BY DEF Init, NoPlan
<1>. QED
  BY <1>1, <1>3, <1>4 DEF DetailInductive, RowsOf, OwnersValid

\* Rows of detail and tombstones are what their source records make them,
\* through every order of admission, expiry and retirement (apply_effects,
\* apply_expiry, apply_delivery_deletion).
THEOREM DetailInvariant == Spec => [](ServiceInductive /\ DetailInductive)
<1>1. Init => ServiceInductive /\ DetailInductive
  BY ServiceStart, DetailStart
<1>2. ServiceInductive /\ DetailInductive /\ [Next]_vars
        => ServiceInductive' /\ DetailInductive'
  BY ServiceStep, DetailStep
<1>. QED
  BY <1>1, <1>2, PTL DEF Spec


-------------------------------------------------------------------------------
(* Traces *)

\* The source of a row of detail is a sound record of the workload that wrote it.
LEMMA SourceWrote ==
  ASSUME ServiceInductive, DetailInductive, NEW k \in DOMAIN effects,
         k[1] \in Expirable
  PROVE  /\ effects[k].src \in DOMAIN accepted /\ Sound(SourceOf(k)) /\ Told(k)
         /\ \E e : e \in Writes(SourceOf(k), k)
<1>1. effects[k].src \in DOMAIN accepted
  BY DEF ServiceInductive, TablesOK, RowOK
<1>2. Sound(SourceOf(k))
  BY <1>1, RecordSound DEF DetailInductive, SentFrom, SourceOf
<1>3. Told(k)
  BY DEF DetailInductive, RowsOf
<1>. QED
  BY <1>1, <1>2, <1>3 DEF Told

\* The state of the answer for one trace is that of the trace.
LEMMA OneTrace ==
  ASSUME NEW t
  PROVE  TraceState({t}) =
           IF TraceRows({t}) = {} THEN "ABSENT" ELSE TraceSummary(t)
<1>. DEFINE states == {TraceSummary(s) : s \in {k[2] : k \in TraceRows({t})}}
<1>1. CASE TraceRows({t}) = {}
  <2>1. states = {}
    BY <1>1
  <2>. QED
    BY <1>1, <2>1 DEF TraceState
<1>2. CASE TraceRows({t}) # {}
  <2>1. {k[2] : k \in TraceRows({t})} = {t}
    BY <1>2 DEF TraceRows
  <2>2. states = {TraceSummary(t)}
    BY <2>1
  <2>3. Cardinality(states) = 1
    BY <2>2, FS_Singleton
  <2>4. TraceSummary(t) = "PARTIAL" => TraceState({t}) = "PARTIAL"
    BY <2>2 DEF TraceState
  <2>5. TraceSummary(t) # "PARTIAL" => TraceState({t}) = CHOOSE state \in states : TRUE
    BY <2>2, <2>3 DEF TraceState
  <2>. QED
    BY <1>2, <2>2, <2>4, <2>5
<1>. QED
  BY <1>1, <1>2

\* The state of a trace tells what became of its Spans: each accepted Span has
\* its node, nothing else has rows in a trace, and an empty page is of a trace
\* that is absent or has expired as a whole (traces, _trace_resource).
THEOREM TraceStatesTruthful == Spec => []TraceStateTruthful
<1>1. ServiceInductive /\ DetailInductive => TraceStateTruthful
  <2>. SUFFICES ASSUME ServiceInductive, DetailInductive, NEW t \in Traces
                PROVE  LET nodes == {<<"trace_node", t, r.span>> : r \in SpansOf(t)}
                           state == TraceState({t})
                       IN  /\ state = "ABSENT" <=> nodes = {}
                           /\ state \in {"ABSENT", "EXPIRED"} => TracePage({t}) = {}
                           /\ state = "AVAILABLE" => nodes \subseteq TracePage({t})
                           /\ state = "EXPIRED" => nodes \subseteq DOMAIN markers
    BY DEF TraceStateTruthful
  <2>. DEFINE nodes == {<<"trace_node", t, r.span>> : r \in SpansOf(t)}
  <2>1. nodes \subseteq TraceRows({t})
    <3>. SUFFICES ASSUME NEW r \in SpansOf(t)
                  PROVE  <<"trace_node", t, r.span>> \in TraceRows({t})
      OBVIOUS
    <3>1. PICK id \in DOMAIN accepted : r = accepted[id].rec
      BY DEF SpansOf, AcceptedRecords
    <3>2. r.type = "span" /\ r.trace = t
      BY DEF SpansOf
    <3>3. <<"trace_node", t, r.span>> \in DOMAIN effects
      BY <3>1, <3>2 DEF DetailInductive, NodeKept
    <3>. QED
      BY <3>3 DEF TraceRows, RowsOf, TraceKinds
  <2>2. TraceRows({t}) # {} => nodes # {}
    <3>. SUFFICES ASSUME NEW k \in TraceRows({t}) PROVE SpansOf(t) # {}
      OBVIOUS
    <3>1. k \in DOMAIN effects /\ k[1] \in TraceKinds /\ k[2] = t
      BY DEF TraceRows, RowsOf
    <3>2. PICK e : e \in Writes(SourceOf(k), k)
      BY <3>1, SourceWrote DEF Expirable
    <3>3. Sound(SourceOf(k)) /\ effects[k].src \in DOMAIN accepted
      BY <3>1, SourceWrote DEF Expirable
    <3>4. TraceForm(SourceOf(k), k, e.payload)
      BY <3>1, <3>2, <3>3, WrittenForms
    <3>5. SourceOf(k) \in SpansOf(t)
      BY <3>1, <3>3, <3>4 DEF TraceForm, SpansOf, AcceptedRecords, SourceOf
    <3>. QED
      BY <3>5
  <2>. HIDE DEF nodes
  <2>3. TraceState({t}) = IF TraceRows({t}) = {} THEN "ABSENT" ELSE TraceSummary(t)
    BY OneTrace
  <2>4. CASE TraceRows({t}) = {}
    BY <2>1, <2>3, <2>4 DEF TracePage, nodes
  <2>5. CASE TraceRows({t}) # {}
    <3>1. TraceState({t}) = TraceSummary(t) /\ nodes # {}
      BY <2>2, <2>3, <2>5
    <3>2. /\ TraceSummary(t) # "ABSENT"
          /\ TraceSummary(t) = "AVAILABLE" => TraceRows({t}) \cap DOMAIN markers = {}
          /\ TraceSummary(t) = "EXPIRED" => TracePage({t}) = {}
      BY DEF TraceSummary
    <3>. QED
      BY <2>1, <3>1, <3>2 DEF TracePage, nodes
  <2>. QED
    BY <2>4, <2>5
<1>. QED
  BY <1>1, DetailInvariant, PTL


-------------------------------------------------------------------------------
(* Tombstones *)

\* The pairs of X have names of the first n in order, in that order.
Listed(X, order, n) ==
  /\ IsSequence(X) /\ Len(X) <= n
  /\ \E f \in [1..Len(X) -> 1..n] :
       /\ \A i \in 1..Len(X) : X[i][1] = order[f[i]]
       /\ \A i, j \in 1..Len(X) : i < j => f[i] < f[j]

\* Sequences side by side, element by element.
LEMMA Joined ==
  ASSUME NEW s, NEW t, IsSequence(s), IsSequence(t)
  PROVE  /\ IsSequence(s \o t) /\ Len(s \o t) = Len(s) + Len(t)
         /\ Len(s) \in Nat /\ Len(t) \in Nat
         /\ DOMAIN s = 1..Len(s) /\ DOMAIN t = 1..Len(t)
         /\ DOMAIN (s \o t) = 1..(Len(s) + Len(t))
         /\ \A i \in 1..Len(s) : (s \o t)[i] = s[i]
         /\ \A i \in 1..Len(t) : (s \o t)[Len(s) + i] = t[i]
<1>1. PICK V : s \in Seq(V)
  BY DEF IsSequence
<1>2. PICK T : t \in Seq(T)
  BY DEF IsSequence
<1>3. s \in Seq(V \cup T) /\ t \in Seq(V \cup T)
  BY <1>1, <1>2
<1>. QED
  BY <1>3 DEF IsSequence

\* Joining sequences in any order of joins gives the same.
LEMMA JoinedThree ==
  ASSUME NEW s, NEW t, NEW u, IsSequence(s), IsSequence(t), IsSequence(u)
  PROVE  (s \o t) \o u = s \o (t \o u)
<1>1. PICK V : s \in Seq(V)
  BY DEF IsSequence
<1>2. PICK T : t \in Seq(T)
  BY DEF IsSequence
<1>3. PICK U : u \in Seq(U)
  BY DEF IsSequence
<1>4. /\ s \in Seq(V \cup T \cup U) /\ t \in Seq(V \cup T \cup U)
      /\ u \in Seq(V \cup T \cup U)
  BY <1>1, <1>2, <1>3
<1>. QED
  BY <1>4

\* A sequence of no pairs, and one of one pair that may be there.
LEMMA ListedFew ==
  ASSUME NEW order, NEW n \in {0, 1}
  PROVE  /\ Listed(<< >>, order, n)
         /\ \A c, v : Listed(If(c, <<order[1], v>>), order, 1)
<1>1. \A m \in {0, 1} : Listed(<< >>, order, m)
  <2>. SUFFICES ASSUME NEW m \in {0, 1} PROVE Listed(<< >>, order, m)
    OBVIOUS
  <2>1. PICK s : s = << >>
    OBVIOUS
  <2>2. IsSequence(s)
    BY <2>1, ElementsFew
  <2>a. Len(s) = 0 /\ 1..Len(s) = {} /\ Len(s) <= m
    BY <2>1
  <2>3. PICK f : f = [i \in {} |-> 1]
    OBVIOUS
  <2>4. f \in [1..Len(s) -> 1..m]
    BY <2>a, <2>3
  <2>b. /\ \A i \in 1..Len(s) : s[i][1] = order[f[i]]
        /\ \A i, j \in 1..Len(s) : i < j => f[i] < f[j]
    BY <2>a
  <2>5. Listed(s, order, m)
    BY <2>2, <2>a, <2>4, <2>b DEF Listed
  <2>. QED
    BY <2>1, <2>5
<1>2. ASSUME NEW c, NEW v
      PROVE  Listed(If(c, <<order[1], v>>), order, 1)
  <2>1. CASE ~c
    BY <1>1, <2>1 DEF If
  <2>2. CASE c
    <3>. DEFINE x == <<order[1], v>>
    <3>1. If(c, x) = <<x>> /\ x[1] = order[1]
      BY <2>2 DEF If
    <3>. HIDE DEF x
    <3>2. IsSequence(<<x>>) /\ Len(<<x>>) = 1 /\ <<x>>[1] = x
      BY ElementsFew
    <3>. DEFINE f == [i \in 1..1 |-> 1]
    <3>3. f \in [1..Len(<<x>>) -> 1..1] /\ f[1] = 1
      BY <3>2
    <3>. HIDE DEF f
    <3>4. /\ \A i \in 1..Len(<<x>>) : <<x>>[i][1] = order[f[i]]
          /\ \A i, j \in 1..Len(<<x>>) : i < j => f[i] < f[j]
      BY <3>1, <3>2, <3>3
    <3>5. Listed(<<x>>, order, 1)
      BY <3>2, <3>3, <3>4 DEF Listed
    <3>. QED
      BY <3>1, <3>5 DEF x
  <2>. QED
    BY <2>1, <2>2
<1>. QED
  BY <1>1, <1>2

\* Pairs side by side are in the order of their orders side by side.
LEMMA ListedJoined ==
  ASSUME NEW X, NEW Y, NEW o, NEW order, NEW n \in Nat, NEW m \in Nat,
         Listed(X, o, n), Listed(Y, order, m),
         NEW both, \A i \in 1..n : both[i] = o[i],
         \A i \in 1..m : both[n + i] = order[i]
  PROVE  Listed(X \o Y, both, n + m)
<1>0. IsSequence(X) /\ IsSequence(Y) /\ Len(X) <= n /\ Len(Y) <= m
  BY DEF Listed
<1>1. PICK x \in Nat : x = Len(X)
  BY <1>0, Joined
<1>2. PICK y \in Nat : y = Len(Y)
  BY <1>0, Joined
<1>3. PICK f \in [1..x -> 1..n] :
        /\ \A i \in 1..x : X[i][1] = o[f[i]]
        /\ \A i, j \in 1..x : i < j => f[i] < f[j]
  BY <1>1 DEF Listed
<1>4. PICK g \in [1..y -> 1..m] :
        /\ \A i \in 1..y : Y[i][1] = order[g[i]]
        /\ \A i, j \in 1..y : i < j => g[i] < g[j]
  BY <1>2 DEF Listed
<1>5. PICK Z : Z = X \o Y
  OBVIOUS
<1>6. /\ IsSequence(Z) /\ Len(Z) = x + y /\ x + y <= n + m
      /\ \A i \in 1..x : Z[i] = X[i]
      /\ \A i \in 1..y : Z[x + i] = Y[i]
  BY <1>0, <1>1, <1>2, <1>5, Joined
<1>7. PICK h : h = [i \in 1..(x + y) |-> IF i <= x THEN f[i] ELSE n + g[i - x]]
  OBVIOUS
<1>8. \A i \in 1..x : h[i] = f[i] /\ f[i] \in 1..n
  BY <1>7
<1>9. \A i \in 1..y : h[x + i] = n + g[i] /\ g[i] \in 1..m
  <2>. SUFFICES ASSUME NEW i \in 1..y PROVE h[x + i] = n + g[i] /\ g[i] \in 1..m
    OBVIOUS
  <2>1. x + i \in 1..(x + y) /\ ~(x + i <= x) /\ (x + i) - x = i
    OBVIOUS
  <2>. QED
    BY <1>7, <2>1
<1>10. \A i \in 1..(x + y) : i \in 1..x \/ \E j \in 1..y : i = x + j
  <2>. SUFFICES ASSUME NEW i \in 1..(x + y), i \notin 1..x
                PROVE  i - x \in 1..y /\ i = x + (i - x)
    OBVIOUS
  <2>. QED
    OBVIOUS
<1>11. h \in [1..(x + y) -> 1..(n + m)]
  <2>1. ASSUME NEW i \in 1..(x + y)
        PROVE  h[i] \in 1..(n + m)
    <3>1. CASE i \in 1..x
      BY <1>8, <3>1
    <3>2. ASSUME NEW j \in 1..y, i = x + j
          PROVE  h[i] \in 1..(n + m)
      <4>1. PICK b \in 1..m : b = g[j]
        OBVIOUS
      <4>2. h[i] = n + b
        BY <1>9, <3>2, <4>1
      <4>. QED
        BY <4>2
    <3>. QED
      BY <1>10, <3>1, <3>2
  <2>. QED
    BY <1>7, <2>1
<1>12. ASSUME NEW i \in 1..(x + y)
       PROVE  Z[i][1] = both[h[i]]
  <2>1. CASE i \in 1..x
    <3>1. Z[i] = X[i] /\ X[i][1] = o[f[i]] /\ h[i] = f[i] /\ f[i] \in 1..n
      BY <1>3, <1>6, <1>8, <2>1
    <3>2. both[f[i]] = o[f[i]]
      BY <3>1
    <3>. QED
      BY <3>1, <3>2
  <2>2. ASSUME NEW j \in 1..y, i = x + j
        PROVE  Z[i][1] = both[h[i]]
    <3>1. Z[i] = Y[j] /\ Y[j][1] = order[g[j]] /\ h[i] = n + g[j] /\ g[j] \in 1..m
      BY <1>4, <1>6, <1>9, <2>2
    <3>2. both[n + g[j]] = order[g[j]]
      BY <3>1
    <3>. QED
      BY <3>1, <3>2
  <2>. QED
    BY <1>10, <2>1, <2>2
<1>13. ASSUME NEW i \in 1..(x + y), NEW j \in 1..(x + y), i < j
       PROVE  h[i] < h[j]
  <2>1. CASE i \in 1..x /\ j \in 1..x
    BY <1>3, <1>8, <1>13, <2>1
  <2>2. ASSUME i \in 1..x, NEW b \in 1..y, j = x + b
        PROVE  h[i] < h[j]
    BY <1>8, <1>9, <2>2
  <2>3. ASSUME NEW a \in 1..y, i = x + a, NEW b \in 1..y, j = x + b
        PROVE  h[i] < h[j]
    <3>1. a < b
      BY <1>13, <2>3
    <3>2. g[a] < g[b]
      BY <1>4, <3>1
    <3>. QED
      BY <1>9, <2>3, <3>2
  <2>4. ASSUME NEW a \in 1..y, i = x + a, j \in 1..x
        PROVE  FALSE
    BY <1>13, <2>4
  <2>. QED
    BY <1>10, <2>1, <2>2, <2>3, <2>4
<1>14. Listed(Z, both, n + m)
  <2>1. Len(Z) <= n + m /\ h \in [1..Len(Z) -> 1..(n + m)]
    BY <1>6, <1>11
  <2>2. /\ \A i \in 1..Len(Z) : Z[i][1] = both[h[i]]
        /\ \A i, j \in 1..Len(Z) : i < j => h[i] < h[j]
    BY <1>6, <1>12, <1>13
  <2>. QED
    BY <1>6, <2>1, <2>2 DEF Listed
<1>. QED
  BY <1>5, <1>14


BaseNames == {Plain("family_schema"), Plain("event_name"), Plain("completeness")}
BasePairs(family, event, completeness) ==
  << <<Plain("family_schema"), family>>, <<Plain("event_name"), event>>,
     <<Plain("completeness"), completeness>> >>

\* Names that are different, and none of them one of the base names.
Distinct(order, n) ==
  /\ DOMAIN order = 1..n
  /\ \A i, j \in 1..n : order[i] = order[j] => i = j
  /\ \A i \in 1..n : order[i] \notin BaseNames

\* The base pairs come first, each with its name.
LEMMA BaseFirst ==
  ASSUME NEW family, NEW event, NEW completeness, NEW rest, IsSequence(rest),
         NEW pairs, pairs = BasePairs(family, event, completeness) \o rest
  PROVE  /\ Len(pairs) = 3 + Len(rest) /\ Len(rest) \in Nat
         /\ DOMAIN pairs = 1..(3 + Len(rest))
         /\ pairs[1] = <<Plain("family_schema"), family>>
         /\ pairs[2] = <<Plain("event_name"), event>>
         /\ pairs[3] = <<Plain("completeness"), completeness>>
         /\ \A i \in 1..Len(rest) : pairs[3 + i] = rest[i]
<1>1. PICK a, b, c : /\ a = <<Plain("family_schema"), family>>
                     /\ b = <<Plain("event_name"), event>>
                     /\ c = <<Plain("completeness"), completeness>>
  OBVIOUS
<1>2. PICK base : base = <<a, b, c>>
  OBVIOUS
<1>3. pairs = base \o rest
  BY <1>1, <1>2 DEF BasePairs
<1>4. base \in Seq({a, b, c}) /\ Len(base) = 3
  BY <1>2
<1>5. IsSequence(base)
  BY <1>4 DEF IsSequence
<1>6. /\ Len(base \o rest) = Len(base) + Len(rest) /\ Len(rest) \in Nat
      /\ DOMAIN (base \o rest) = 1..(Len(base) + Len(rest))
      /\ \A i \in 1..Len(base) : (base \o rest)[i] = base[i]
      /\ \A i \in 1..Len(rest) : (base \o rest)[Len(base) + i] = rest[i]
  BY <1>5, Joined
<1>7. base[1] = a /\ base[2] = b /\ base[3] = c
  BY <1>2
<1>. QED
  BY <1>1, <1>3, <1>4, <1>6, <1>7

\* Three names in their places.
LEMMA ThreeNames ==
  ASSUME NEW name(_), NEW x, NEW y, NEW z, name(1) = x, name(2) = y, name(3) = z
  PROVE  /\ [i \in 1..3 |-> name(i)] = <<x, y, z>>
         /\ x # y /\ x # z /\ y # z =>
              \A i, j \in {1, 2, 3} : name(i) = name(j) => i = j
<1>1. PICK s : s = [i \in 1..3 |-> name(i)]
  OBVIOUS
<1>2. s[1] = x /\ s[2] = y /\ s[3] = z
  BY <1>1
<1>3. \A i \in 1..3 : i = 1 \/ i = 2 \/ i = 3
  OBVIOUS
<1>4. \A i \in 1..3 : s[i] \in {x, y, z}
  BY <1>2, <1>3
<1>5. s \in [1..3 -> {x, y, z}]
  BY <1>1, <1>4
<1>6. s \in Seq({x, y, z}) /\ Len(s) = 3
  <2>1. PICK n \in Nat : n = 3
    OBVIOUS
  <2>2. PICK V : V = {x, y, z}
    OBVIOUS
  <2>3. s \in [1..n -> V]
    BY <1>5, <2>1, <2>2
  <2>4. s \in Seq(V) /\ Len(s) = n
    BY <2>3
  <2>. QED
    BY <2>1, <2>2, <2>4
<1>7. s = <<x, y, z>>
  BY <1>2, <1>6
<1>. QED
  BY <1>1, <1>7

\* Pairs that are in the order of the table are accepted.
LEMMA ListedValid ==
  ASSUME NEW family, NEW event, NEW completeness, NEW rest, NEW kind,
         kind \notin TraceKinds, NEW n \in 0..5,
         Listed(rest, AllowedSuffix(kind, event), n),
         Distinct(AllowedSuffix(kind, event), n),
         NEW pairs, pairs = BasePairs(family, event, completeness) \o rest
  PROVE  ValidateCompatibility(kind, pairs)
<1>1. PICK allowed : allowed = AllowedSuffix(kind, event)
  OBVIOUS
<1>2. /\ DOMAIN allowed = 1..n
      /\ \A i, j \in 1..n : allowed[i] = allowed[j] => i = j
      /\ \A i \in 1..n : allowed[i] \notin BaseNames
  BY <1>1 DEF Distinct
<1>3. IsSequence(rest) /\ Len(rest) <= n
  BY DEF Listed
<1>4. /\ Len(pairs) = 3 + Len(rest) /\ Len(rest) \in Nat
      /\ DOMAIN pairs = 1..(3 + Len(rest))
      /\ pairs[1] = <<Plain("family_schema"), family>>
      /\ pairs[2] = <<Plain("event_name"), event>>
      /\ pairs[3] = <<Plain("completeness"), completeness>>
      /\ \A i \in 1..Len(rest) : pairs[3 + i] = rest[i]
  BY <1>3, BaseFirst
<1>5. PICK m \in Nat : m = Len(rest) /\ m <= n
  BY <1>3, <1>4
<1>6. PICK f \in [1..m -> 1..n] :
        /\ \A i \in 1..m : rest[i][1] = allowed[f[i]]
        /\ \A i, j \in 1..m : i < j => f[i] < f[j]
  BY <1>1, <1>5 DEF Listed
<1>7. /\ pairs[1][1] = Plain("family_schema") /\ pairs[2][1] = Plain("event_name")
      /\ pairs[3][1] = Plain("completeness") /\ pairs[2][2] = event
  BY <1>4
<1>8. \A i \in 1..m : pairs[3 + i][1] = allowed[f[i]] /\ f[i] \in 1..n
  BY <1>4, <1>5, <1>6
<1>9. /\ \A i \in 1..(3 + m) : i \in {1, 2, 3} \/ \E a \in 1..m : i = 3 + a
      /\ \A i \in 4..(3 + m) : \E a \in 1..m : i = 3 + a
  <2>1. \A i \in 4..(3 + m) : i - 3 \in 1..m /\ i = 3 + (i - 3)
    OBVIOUS
  <2>2. \A i \in 1..(3 + m) : i \in {1, 2, 3} \/ i \in 4..(3 + m)
    OBVIOUS
  <2>. QED
    BY <2>1, <2>2
<1>10. Len(pairs) \in 3..8
  BY <1>4, <1>5
<1>11. \A i, j \in DOMAIN pairs : pairs[i][1] = pairs[j][1] => i = j
  <2>. SUFFICES ASSUME NEW i \in 1..(3 + m), NEW j \in 1..(3 + m),
                       pairs[i][1] = pairs[j][1]
                PROVE  i = j
    BY <1>4, <1>5
  <2>1. CASE i \in {1, 2, 3} /\ j \in {1, 2, 3}
    <3>1. /\ Plain("family_schema") # Plain("event_name")
          /\ Plain("family_schema") # Plain("completeness")
          /\ Plain("event_name") # Plain("completeness")
      BY DEF Plain
    <3>. DEFINE name(a) == pairs[a][1]
    <3>2. \A a, b \in {1, 2, 3} : name(a) = name(b) => a = b
      <4>1. /\ name(1) = Plain("family_schema") /\ name(2) = Plain("event_name")
            /\ name(3) = Plain("completeness")
        BY <1>7
      <4>. HIDE DEF name
      <4>. QED
        BY <3>1, <4>1, ThreeNames
    <3>. QED
      BY <2>1, <3>2
  <2>2. \A a \in 1..m : pairs[3 + a][1] \notin BaseNames
    BY <1>2, <1>8
  <2>3. \A a \in {1, 2, 3} : pairs[a][1] \in BaseNames
    BY <1>7 DEF BaseNames
  <2>4. ASSUME NEW a \in 1..m, NEW b \in 1..m, i = 3 + a, j = 3 + b
        PROVE  i = j
    <3>1. f[a] = f[b]
      <4>1. allowed[f[a]] = allowed[f[b]] /\ f[a] \in 1..n /\ f[b] \in 1..n
        BY <1>8, <2>4
      <4>. QED
        BY <1>2, <4>1
    <3>2. ~(f[a] < f[b]) /\ ~(f[b] < f[a])
      BY <1>8, <3>1
    <3>. QED
      BY <1>6, <2>4, <3>2
  <2>. QED
    BY <1>9, <2>1, <2>2, <2>3, <2>4
<1>12. [i \in 1..3 |-> pairs[i][1]] =
         <<Plain("family_schema"), Plain("event_name"), Plain("completeness")>>
  <2>. DEFINE name(a) == pairs[a][1]
  <2>1. /\ name(1) = Plain("family_schema") /\ name(2) = Plain("event_name")
        /\ name(3) = Plain("completeness")
    BY <1>7
  <2>2. [i \in 1..3 |-> name(i)] =
          <<Plain("family_schema"), Plain("event_name"), Plain("completeness")>>
    <3>. HIDE DEF name
    <3>. QED
      BY <2>1, ThreeNames
  <2>. QED
    BY <2>2
<1>. DEFINE position(i) == {j \in DOMAIN allowed : allowed[j] = pairs[i][1]}
<1>13. \A a \in 1..m : position(3 + a) = {f[a]} /\ MinOf(position(3 + a)) = f[a]
  <2>. SUFFICES ASSUME NEW a \in 1..m
                PROVE  position(3 + a) = {f[a]} /\ MinOf(position(3 + a)) = f[a]
    OBVIOUS
  <2>1. PICK b \in 1..n : b = f[a] /\ pairs[3 + a][1] = allowed[b]
    BY <1>8
  <2>2. position(3 + a) = {b}
    BY <1>2, <2>1
  <2>. HIDE DEF position
  <2>. QED
    BY <2>1, <2>2 DEF MinOf
<1>. HIDE DEF position
<1>14. ASSUME NEW i \in 4..Len(pairs)
       PROVE  /\ position(i) # {}
              /\ i > 4 => MinOf(position(i - 1)) <= MinOf(position(i))
  <2>1. PICK a \in 1..m : i = 3 + a
    BY <1>4, <1>5, <1>9
  <2>2. position(i) # {}
    BY <1>13, <2>1
  <2>3. ASSUME i > 4
        PROVE  MinOf(position(i - 1)) <= MinOf(position(i))
    <3>1. PICK b \in 1..m : i - 1 = 3 + b /\ b < a
      <4>1. a - 1 \in 1..m /\ i - 1 = 3 + (a - 1) /\ a - 1 < a
        BY <2>1, <2>3
      <4>. QED
        BY <4>1
    <3>2. MinOf(position(i)) = f[a] /\ MinOf(position(i - 1)) = f[b]
      BY <1>13, <2>1, <3>1
    <3>3. f[b] < f[a] /\ f[a] \in 1..n /\ f[b] \in 1..n
      BY <1>6, <3>1
    <3>. QED
      BY <3>2, <3>3
  <2>. QED
    BY <2>2, <2>3
<1>15. LET suffix == AllowedSuffix(kind, pairs[2][2])
           place(i) == {j \in DOMAIN suffix : suffix[j] = pairs[i][1]}
       IN  \A i \in 4..Len(pairs) : /\ place(i) # {}
                                    /\ i > 4 => MinOf(place(i - 1)) <= MinOf(place(i))
  <2>1. allowed = AllowedSuffix(kind, pairs[2][2])
    BY <1>1, <1>7
  <2>. QED
    BY <1>14, <2>1 DEF position
<1>. QED
  BY <1>10, <1>11, <1>12, <1>15 DEF ValidateCompatibility


\* Four elements side by side.
LEMMA Flat1111 ==
  ASSUME NEW a, NEW b, NEW c, NEW d
  PROVE  <<a>> \o <<b>> \o <<c>> \o <<d>> = <<a, b, c, d>>
<1>. DEFINE s == <<a>> \o <<b>> \o <<c>> \o <<d>>
            t == <<a, b, c, d>>
            V == {a, b, c, d}
<1>1. /\ s \in Seq(V) /\ t \in Seq(V) /\ Len(s) = 4 /\ Len(t) = 4
      /\ s[1] = t[1] /\ s[2] = t[2] /\ s[3] = t[3] /\ s[4] = t[4]
  OBVIOUS
<1>. HIDE DEF s, t, V
<1>2. s = t
  BY <1>1, SameElements
<1>. QED
  BY <1>2 DEF s, t

\* The next pair of the order may be there or not.
LEMMA ListedMore ==
  ASSUME NEW order, NEW n \in Nat, NEW X, Listed(X, order, n), NEW c, NEW v,
         NEW x, x = order[n + 1]
  PROVE  Listed(X \o If(c, <<x, v>>), order, n + 1)
<1>0. PICK o : o = <<x>>
  OBVIOUS
<1>1. o[1] = x
  BY <1>0
<1>2. Listed(If(c, <<o[1], v>>), o, 1)
  BY ListedFew
<1>3. Listed(If(c, <<x, v>>), o, 1)
  BY <1>1, <1>2
<1>4. \A i \in 1..1 : order[n + i] = o[i]
  BY <1>1
<1>. HIDE DEF If
<1>. QED
  BY <1>3, <1>4, ListedJoined

\* The dimensions that are there are in the order of their table.
LEMMA DimensionsListed ==
  ASSUME NEW a, NEW x, NEW y, NEW z, NEW w, NEW m, NEW n, NEW o, NEW p
  PROVE  /\ Listed(Dimension(x, a, m) \o Dimension(y, a, n), <<x, y>>, 2)
         /\ Listed(Dimension(x, a, m) \o Dimension(y, a, n) \o Dimension(z, a, o)
                     \o Dimension(w, a, p), <<x, y, z, w>>, 4)
<1>1. ASSUME NEW order, order[1] = x, order[2] = y
      PROVE  Listed(Dimension(x, a, m) \o Dimension(y, a, n), order, 2)
  <2>1. Listed(Dimension(x, a, m), order, 1)
    <3>1. Listed(If(m \in DOMAIN a, <<order[1], Get(a, m)>>), order, 1)
      BY ListedFew
    <3>. QED
      BY <1>1, <3>1 DEF Dimension
  <2>2. y = order[1 + 1]
    BY <1>1
  <2>3. Listed(Dimension(x, a, m) \o If(n \in DOMAIN a, <<y, Get(a, n)>>), order, 1 + 1)
    BY <2>1, <2>2, ListedMore
  <2>. QED
    BY <2>3 DEF Dimension
<1>2. PICK order : order = <<x, y, z, w>>
  OBVIOUS
<1>3. /\ order[1] = x /\ order[2] = y /\ order[2 + 1] = z /\ order[3 + 1] = w
  BY <1>2
<1>4. PICK X : X = Dimension(x, a, m) \o Dimension(y, a, n)
  OBVIOUS
<1>5. Listed(X, order, 2)
  BY <1>1, <1>3, <1>4
<1>6. Listed(X \o If(o \in DOMAIN a, <<z, Get(a, o)>>), order, 2 + 1)
  BY <1>3, <1>5, ListedMore
<1>7. Listed(X \o Dimension(z, a, o), order, 3)
  BY <1>6 DEF Dimension
<1>8. Listed((X \o Dimension(z, a, o)) \o If(p \in DOMAIN a, <<w, Get(a, p)>>),
             order, 3 + 1)
  BY <1>3, <1>7, ListedMore
<1>9. Listed(X \o Dimension(z, a, o) \o Dimension(w, a, p), order, 4)
  BY <1>8 DEF Dimension
<1>10. PICK two : two = <<x, y>>
  OBVIOUS
<1>11. Listed(Dimension(x, a, m) \o Dimension(y, a, n), two, 2)
  <2>1. two[1] = x /\ two[2] = y
    BY <1>10
  <2>. QED
    BY <1>1, <2>1
<1>. QED
  BY <1>2, <1>4, <1>9, <1>10, <1>11

\* A new name after different ones.
LEMMA DistinctMore ==
  ASSUME NEW o, NEW n \in Nat, IsSequence(o), Len(o) = n, Distinct(o, n), NEW x,
         x \notin BaseNames, \A i \in 1..n : o[i] # x
  PROVE  Distinct(o \o <<x>>, n + 1) /\ Distinct(o \o << >>, n)
<1>1. /\ \A i, j \in 1..n : o[i] = o[j] => i = j
      /\ \A i \in 1..n : o[i] \notin BaseNames
  BY DEF Distinct
<1>2. Distinct(o \o << >>, n)
  <2>1. PICK e : e = << >>
    OBVIOUS
  <2>2. IsSequence(e) /\ Len(e) = 0
    BY <2>1, ElementsFew
  <2>3. /\ DOMAIN (o \o e) = 1..(Len(o) + Len(e))
        /\ \A i \in 1..Len(o) : (o \o e)[i] = o[i]
    BY <2>2, Joined
  <2>4. DOMAIN (o \o e) = 1..n /\ \A i \in 1..n : (o \o e)[i] = o[i]
    BY <2>2, <2>3
  <2>5. Distinct(o \o e, n)
    BY <1>1, <2>4 DEF Distinct
  <2>. QED
    BY <2>1, <2>5
<1>3. Distinct(o \o <<x>>, n + 1)
  <2>1. PICK e : e = <<x>>
    OBVIOUS
  <2>0. IsSequence(e)
    BY <2>1, ElementsFew
  <2>2. Len(e) = 1 /\ e[1] = x
    BY <2>1
  <2>3. /\ DOMAIN (o \o e) = 1..(Len(o) + Len(e))
        /\ \A i \in 1..Len(o) : (o \o e)[i] = o[i]
        /\ \A i \in 1..Len(e) : (o \o e)[Len(o) + i] = e[i]
    BY <2>0, Joined
  <2>5. PICK s : s = o \o e
    OBVIOUS
  <2>a. \A i \in 1..1 : s[n + i] = e[i]
    BY <2>2, <2>3, <2>5
  <2>4. /\ DOMAIN s = 1..(n + 1)
        /\ \A i \in 1..n : s[i] = o[i]
        /\ s[n + 1] = x
    BY <2>2, <2>3, <2>5, <2>a
  <2>6. \A i \in 1..(n + 1) : i \in 1..n \/ i = n + 1
    OBVIOUS
  <2>7. \A i, j \in 1..(n + 1) : s[i] = s[j] => i = j
    BY <1>1, <2>4, <2>5, <2>6
  <2>8. \A i \in 1..(n + 1) : s[i] \notin BaseNames
    BY <1>1, <2>4, <2>5, <2>6
  <2>9. Distinct(s, n + 1)
    BY <2>4, <2>5, <2>7, <2>8 DEF Distinct
  <2>. QED
    BY <2>1, <2>5, <2>9
<1>. QED
  BY <1>2, <1>3


\* The event of a row, and the attributes that its tombstone looks at.
EventOf(k) == IF k[1] = "factual_contribution" THEN k[2] ELSE Null
AttributesOf(k, p) ==
  IF k[1] = "factual_contribution" THEN p.attributes ELSE EmptyPayload

\* The pairs of a row's tombstone between the base pairs and its trace.
Suffix(k, p) ==
  CASE k[1] = "factual_contribution" -> CompatibilityDimensions(k[2], p.attributes)
    [] k[1] = "finding_assertion" ->
         Dimension(C(13), p, "review_lens") \o Dimension(C(14), p, "review_scope")
    [] k[1] = "model_attribution" ->
         << <<Plain("gen_ai_provider_name"), k[2]>>, <<C(57), k[3]>>,
            <<C(30), k[4]>>, <<C(6), k[5]>> >>
    [] k[1] = "delivery_root_binding" ->
         << <<Plain("delivery_id"), p.delivery_id>> >>
    [] OTHER -> << >>

SuffixOrder(kind, event) ==
  CASE kind = "factual_contribution" -> DimensionOrder(event)
    [] kind = "finding_assertion" -> <<C(13), C(14)>>
    [] kind = "model_attribution" ->
         <<Plain("gen_ai_provider_name"), C(57), C(30), C(6)>>
    [] kind = "delivery_root_binding" -> <<Plain("delivery_id")>>
    [] OTHER -> << >>

\* The names of the table, of which there are at most four.
Names(o, n) ==
  /\ IsSequence(o) /\ Len(o) = n /\ Distinct(o, n)
  /\ \A i \in 1..n : o[i] # Plain("trace_id")

\* A field id is not one of the other names.
LEMMA FieldsApart ==
  ASSUME NEW i, NEW j
  PROVE  /\ C(i) \notin BaseNames \cup {Plain("trace_id")}
         /\ I(i) \notin BaseNames \cup {Plain("trace_id")}
         /\ {Plain("gen_ai_provider_name"), Plain("delivery_id")}
              \cap (BaseNames \cup {Plain("trace_id")}) = {}
         /\ i # j => C(i) # C(j) /\ I(i) # I(j)
         /\ Plain("gen_ai_provider_name") # C(i)
  BY DEF C, I, Plain, BaseNames

\* Orders of two and of four names.
LEMMA FewNames ==
  ASSUME NEW x, NEW y, NEW z, NEW w,
         {x, y, z, w} \cap (BaseNames \cup {Plain("trace_id")}) = {}
  PROVE  /\ Names(<< >>, 0) /\ Names(<<x>>, 1)
         /\ x # y => Names(<<x, y>>, 2)
         /\ x # y /\ x # z /\ x # w /\ y # z /\ y # w /\ z # w =>
              Names(<<x, y, z, w>>, 4)
<1>1. PICK t : t = Plain("trace_id")
  OBVIOUS
<1>2. PICK B : B = BaseNames
  OBVIOUS
<1>3. /\ x \notin B /\ y \notin B /\ z \notin B /\ w \notin B
      /\ x # t /\ y # t /\ z # t /\ w # t
  BY <1>1, <1>2
<1>4. Names(<< >>, 0)
  <2>1. PICK s : s = << >>
    OBVIOUS
  <2>2. IsSequence(s)
    BY <2>1, ElementsFew
  <2>3. Len(s) = 0 /\ DOMAIN s = 1..0 /\ 1..0 = {}
    BY <2>1
  <2>4. Names(s, 0)
    BY <2>2, <2>3 DEF Names, Distinct
  <2>. QED
    BY <2>1, <2>4
<1>5. Names(<<x>>, 1)
  <2>1. PICK s : s = <<x>>
    OBVIOUS
  <2>2. IsSequence(s)
    BY <2>1, ElementsFew
  <2>3. Len(s) = 1 /\ DOMAIN s = 1..1 /\ s[1] = x
    BY <2>1
  <2>4. \A i \in 1..1 : i = 1
    OBVIOUS
  <2>5. Names(s, 1)
    BY <1>1, <1>2, <1>3, <2>2, <2>3, <2>4 DEF Names, Distinct
  <2>. QED
    BY <2>1, <2>5
<1>6. ASSUME x # y PROVE Names(<<x, y>>, 2)
  <2>1. PICK s : s = <<x, y>>
    OBVIOUS
  <2>2. s \in Seq({x, y})
    BY <2>1
  <2>3. Len(s) = 2 /\ DOMAIN s = 1..2 /\ s[1] = x /\ s[2] = y
    BY <2>1
  <2>4. \A i \in 1..2 : i = 1 \/ i = 2
    OBVIOUS
  <2>5. /\ \A i, j \in 1..2 : s[i] = s[j] => i = j
        /\ \A i \in 1..2 : s[i] \notin B /\ s[i] # t
    BY <1>3, <1>6, <2>3, <2>4
  <2>6. Names(s, 2)
    BY <1>1, <1>2, <2>2, <2>3, <2>5 DEF Names, Distinct, IsSequence
  <2>. QED
    BY <2>1, <2>6
<1>7. ASSUME x # y, x # z, x # w, y # z, y # w, z # w
      PROVE  Names(<<x, y, z, w>>, 4)
  <2>1. PICK s : s = <<x, y, z, w>>
    OBVIOUS
  <2>2. s \in Seq({x, y, z, w})
    BY <2>1
  <2>3. /\ Len(s) = 4 /\ DOMAIN s = 1..4
        /\ s[1] = x /\ s[2] = y /\ s[3] = z /\ s[4] = w
    BY <2>1
  <2>4. \A i \in 1..4 : i = 1 \/ i = 2 \/ i = 3 \/ i = 4
    OBVIOUS
  <2>5. /\ \A i, j \in 1..4 : s[i] = s[j] => i = j
        /\ \A i \in 1..4 : s[i] \notin B /\ s[i] # t
    BY <1>3, <1>7, <2>3, <2>4
  <2>6. Names(s, 4)
    BY <1>1, <1>2, <2>2, <2>3, <2>5 DEF Names, Distinct, IsSequence
  <2>. QED
    BY <2>1, <2>6
<1>. QED
  BY <1>4, <1>5, <1>6, <1>7

\* Orders of no name and of one.
LEMMA FewerNames ==
  ASSUME NEW x, x \notin BaseNames \cup {Plain("trace_id")}
  PROVE  Names(<< >>, 0) /\ Names(<<x>>, 1)
<1>1. {x, x, x, x} \cap (BaseNames \cup {Plain("trace_id")}) = {}
  OBVIOUS
<1>. QED
  BY <1>1, FewNames

\* A tombstone's pairs are in the order of their table, whatever the kind.
LEMMA SuffixListed ==
  ASSUME NEW k, NEW p
  PROVE  \E n \in 0..4 : /\ Listed(Suffix(k, p), SuffixOrder(k[1], EventOf(k)), n)
                         /\ Names(SuffixOrder(k[1], EventOf(k)), n)
<1>0. PICK kind : kind = k[1]
  OBVIOUS
<1>1. CASE kind = "factual_contribution"
  <2>1. /\ Suffix(k, p) = CompatibilityDimensions(k[2], p.attributes)
        /\ SuffixOrder(kind, EventOf(k)) = DimensionOrder(k[2])
    BY <1>0, <1>1 DEF Suffix, SuffixOrder, EventOf
  <2>2. PICK a, event : a = p.attributes /\ event = k[2]
    OBVIOUS
  <2>3. CASE event = "usage"
    <3>1. Listed(CompatibilityDimensions(event, a), DimensionOrder(event), 4)
      BY <2>3, DimensionsListed DEF CompatibilityDimensions, DimensionOrder
    <3>2. Names(DimensionOrder(event), 4)
      <4>1. Names(<<C(42), C(43), C(44), C(45)>>, 4)
        <5>1. PICK x, y, z, w : x = C(42) /\ y = C(43) /\ z = C(44) /\ w = C(45)
          OBVIOUS
        <5>2. {x, y, z, w} \cap (BaseNames \cup {Plain("trace_id")}) = {}
          BY <5>1, FieldsApart
        <5>3. x # y /\ x # z /\ x # w /\ y # z /\ y # w /\ z # w
          BY <5>1, FieldsApart
        <5>4. Names(<<x, y, z, w>>, 4)
          BY <5>2, <5>3, FewNames
        <5>. QED
          BY <5>1, <5>4
      <4>. QED
        BY <2>3, <4>1 DEF DimensionOrder
    <3>. QED
      BY <1>0, <2>1, <2>2, <3>1, <3>2
  <2>4. CASE event = "implementation.summary"
    <3>1. Listed(CompatibilityDimensions(event, a), DimensionOrder(event), 4)
      BY <2>4, DimensionsListed DEF CompatibilityDimensions, DimensionOrder
    <3>2. Names(DimensionOrder(event), 4)
      <4>1. Names(<<I(5), I(8), I(9), I(10)>>, 4)
        <5>1. PICK x, y, z, w : x = I(5) /\ y = I(8) /\ z = I(9) /\ w = I(10)
          OBVIOUS
        <5>2. {x, y, z, w} \cap (BaseNames \cup {Plain("trace_id")}) = {}
          BY <5>1, FieldsApart
        <5>3. x # y /\ x # z /\ x # w /\ y # z /\ y # w /\ z # w
          BY <5>1, FieldsApart
        <5>4. Names(<<x, y, z, w>>, 4)
          BY <5>2, <5>3, FewNames
        <5>. QED
          BY <5>1, <5>4
      <4>. QED
        BY <2>4, <4>1 DEF DimensionOrder
    <3>. QED
      BY <1>0, <2>1, <2>2, <3>1, <3>2
  <2>5. CASE event = "test.summary"
    <3>1. Listed(CompatibilityDimensions(event, a), DimensionOrder(event), 2)
      BY <2>5, DimensionsListed DEF CompatibilityDimensions, DimensionOrder
    <3>2. Names(DimensionOrder(event), 2)
      <4>1. Names(<<C(28), C(29)>>, 2)
        <5>1. PICK x, y : x = C(28) /\ y = C(29)
          OBVIOUS
        <5>2. {x, y} \cap (BaseNames \cup {Plain("trace_id")}) = {} /\ x # y
          BY <5>1, FieldsApart
        <5>3. Names(<<x, y>>, 2)
          BY <5>2, FewNames
        <5>. QED
          BY <5>1, <5>3
      <4>. QED
        BY <2>5, <4>1 DEF DimensionOrder
    <3>. QED
      BY <1>0, <2>1, <2>2, <3>1, <3>2
  <2>6. CASE event = "review.summary"
    <3>1. Listed(CompatibilityDimensions(event, a), DimensionOrder(event), 2)
      BY <2>6, DimensionsListed DEF CompatibilityDimensions, DimensionOrder
    <3>2. Names(DimensionOrder(event), 2)
      <4>1. Names(<<C(13), C(14)>>, 2)
        <5>1. PICK x, y : x = C(13) /\ y = C(14)
          OBVIOUS
        <5>2. {x, y} \cap (BaseNames \cup {Plain("trace_id")}) = {} /\ x # y
          BY <5>1, FieldsApart
        <5>3. Names(<<x, y>>, 2)
          BY <5>2, FewNames
        <5>. QED
          BY <5>1, <5>3
      <4>. QED
        BY <2>6, <4>1 DEF DimensionOrder
    <3>. QED
      BY <1>0, <2>1, <2>2, <3>1, <3>2
  <2>7. CASE event \notin {"usage", "implementation.summary", "test.summary",
                           "review.summary"}
    <3>1. CompatibilityDimensions(event, a) = << >> /\ DimensionOrder(event) = << >>
      BY <2>7 DEF CompatibilityDimensions, DimensionOrder
    <3>2. Listed(<< >>, << >>, 0)
      BY ListedFew
    <3>3. Names(<< >>, 0)
      BY FewerNames, FieldsApart
    <3>. QED
      BY <1>0, <2>1, <2>2, <3>1, <3>2, <3>3
  <2>. QED
    BY <2>3, <2>4, <2>5, <2>6, <2>7
<1>2. CASE kind = "finding_assertion"
  <2>1. Listed(Suffix(k, p), SuffixOrder(kind, EventOf(k)), 2)
    BY <1>0, <1>2, DimensionsListed DEF Suffix, SuffixOrder
  <2>2. Names(<<C(13), C(14)>>, 2)
    <3>1. PICK x, y : x = C(13) /\ y = C(14)
      OBVIOUS
    <3>2. {x, y} \cap (BaseNames \cup {Plain("trace_id")}) = {} /\ x # y
      BY <3>1, FieldsApart
    <3>3. Names(<<x, y>>, 2)
      BY <3>2, FewNames
    <3>. QED
      BY <3>1, <3>3
  <2>. QED
    BY <1>0, <1>2, <2>1, <2>2 DEF SuffixOrder
<1>3. CASE kind = "model_attribution"
  <2>1. PICK x, y, z, w : /\ x = Plain("gen_ai_provider_name") /\ y = C(57)
                          /\ z = C(30) /\ w = C(6)
    OBVIOUS
  <2>2. /\ Suffix(k, p) = << <<x, k[2]>>, <<y, k[3]>>, <<z, k[4]>>, <<w, k[5]>> >>
        /\ SuffixOrder(kind, EventOf(k)) = <<x, y, z, w>>
    BY <1>0, <1>3, <2>1 DEF Suffix, SuffixOrder
  <2>3. PICK order : order = <<x, y, z, w>>
    OBVIOUS
  <2>4. order[1] = x /\ order[1 + 1] = y /\ order[2 + 1] = z /\ order[3 + 1] = w
    BY <2>3
  <2>5. PICK a, b, c, d : a = k[2] /\ b = k[3] /\ c = k[4] /\ d = k[5]
    OBVIOUS
  <2>6. Listed(If(TRUE, <<x, a>>), order, 1)
    BY <2>4, ListedFew
  <2>7. PICK X : X = If(TRUE, <<x, a>>) \o If(TRUE, <<y, b>>)
    OBVIOUS
  <2>8. PICK Y : Y = X \o If(TRUE, <<z, c>>)
    OBVIOUS
  <2>9. Listed(Y \o If(TRUE, <<w, d>>), order, 4)
    <3>1. Listed(X, order, 1 + 1)
      BY <2>4, <2>6, <2>7, ListedMore
    <3>2. Listed(X, order, 2)
      BY <3>1
    <3>3. Listed(Y, order, 2 + 1)
      BY <2>4, <2>8, <3>2, ListedMore
    <3>4. Listed(Y, order, 3)
      BY <3>3
    <3>5. PICK Z : Z = Y \o If(TRUE, <<w, d>>)
      OBVIOUS
    <3>6. Listed(Z, order, 3 + 1)
      BY <2>4, <3>4, <3>5, ListedMore
    <3>7. Listed(Z, order, 4)
      BY <3>6
    <3>. QED
      BY <3>5, <3>7
  <2>10. Suffix(k, p) = If(TRUE, <<x, a>>) \o If(TRUE, <<y, b>>)
                          \o If(TRUE, <<z, c>>) \o If(TRUE, <<w, d>>)
    BY <2>2, <2>5, Flat1111 DEF If
  <2>11. Names(<<x, y, z, w>>, 4)
    <3>1. {x, y, z, w} \cap (BaseNames \cup {Plain("trace_id")}) = {}
      BY <2>1, FieldsApart
    <3>2. x # y /\ x # z /\ x # w /\ y # z /\ y # w /\ z # w
      BY <2>1, FieldsApart
    <3>. QED
      BY <3>1, <3>2, FewNames
  <2>12. Listed(Suffix(k, p), order, 4) /\ Names(order, 4)
    BY <2>3, <2>7, <2>8, <2>9, <2>10, <2>11
  <2>13. order = SuffixOrder(k[1], EventOf(k)) /\ 4 \in 0..4
    BY <1>0, <2>2, <2>3
  <2>. QED
    BY <2>12, <2>13
<1>4. CASE kind = "delivery_root_binding"
  <2>1. PICK x : x = Plain("delivery_id")
    OBVIOUS
  <2>2. PICK order : order = <<x>>
    OBVIOUS
  <2>3. order[1] = x
    BY <2>2
  <2>4. Listed(If(TRUE, <<x, p.delivery_id>>), order, 1)
    BY <2>3, ListedFew
  <2>5. Suffix(k, p) = If(TRUE, <<x, p.delivery_id>>)
        /\ SuffixOrder(kind, EventOf(k)) = order
    BY <1>0, <1>4, <2>1, <2>2 DEF Suffix, SuffixOrder, If
  <2>6. Names(<<x>>, 1)
    <3>1. x \notin BaseNames \cup {Plain("trace_id")}
      BY <2>1, FieldsApart
    <3>. QED
      BY <3>1, FewerNames
  <2>7. Listed(Suffix(k, p), order, 1)
    BY <2>4, <2>5, Zenon
  <2>8. Names(order, 1)
    BY <2>2, <2>6
  <2>9. order = SuffixOrder(k[1], EventOf(k)) /\ 1 \in 0..4
    BY <1>0, <2>5
  <2>. QED
    BY <2>7, <2>8, <2>9
<1>5. CASE kind \notin {"factual_contribution", "finding_assertion",
                        "model_attribution", "delivery_root_binding"}
  <2>1. Suffix(k, p) = << >> /\ SuffixOrder(kind, EventOf(k)) = << >>
    BY <1>0, <1>5 DEF Suffix, SuffixOrder
  <2>2. Listed(<< >>, << >>, 0)
    BY ListedFew
  <2>3. Names(<< >>, 0)
    BY FewerNames, FieldsApart
  <2>. QED
    BY <1>0, <2>1, <2>2, <2>3
<1>. QED
  BY <1>1, <1>2, <1>3, <1>4, <1>5


\* The parts of a tombstone's pairs.
LEMMA PairsAre ==
  ASSUME NEW k, NEW p, NEW family
  PROVE  /\ ProjectionCompatibility(k, p, family) =
              BasePairs(family, EventOf(k), Get(AttributesOf(k, p), "summary_state"))
                \o (Suffix(k, p) \o TracePair(p))
         /\ IsSequence(Suffix(k, p)) /\ IsSequence(TracePair(p))
<1>1. IsSequence(Suffix(k, p)) /\ IsSequence(TracePair(p))
  BY SuffixListed, ElementsFew DEF Listed, TracePair
<1>2. PICK base : base =
        BasePairs(family, EventOf(k), Get(AttributesOf(k, p), "summary_state"))
  OBVIOUS
<1>3. IsSequence(base)
  <2>1. PICK a, b, c : /\ a = <<Plain("family_schema"), family>>
                       /\ b = <<Plain("event_name"), EventOf(k)>>
                       /\ c = <<Plain("completeness"),
                                Get(AttributesOf(k, p), "summary_state")>>
    OBVIOUS
  <2>2. base = <<a, b, c>>
    BY <1>2, <2>1 DEF BasePairs
  <2>3. base \in Seq({a, b, c})
    BY <2>2
  <2>. QED
    BY <2>3 DEF IsSequence
<1>4. ProjectionCompatibility(k, p, family) = (base \o Suffix(k, p)) \o TracePair(p)
  <2>1. CASE k[1] = "factual_contribution"
    <3>1. Suffix(k, p) = CompatibilityDimensions(k[2], p.attributes)
      BY <2>1 DEF Suffix
    <3>. QED
      BY <1>2, <2>1, <3>1
      DEF ProjectionCompatibility, BasePairs, EventOf, AttributesOf
  <2>2. CASE k[1] # "factual_contribution"
    BY <1>2, <2>2
    DEF ProjectionCompatibility, BasePairs, EventOf, AttributesOf, Suffix
  <2>. QED
    BY <2>1, <2>2
<1>. QED
  BY <1>1, <1>2, <1>3, <1>4, JoinedThree

\* A tombstone of a fact is one that ExpiryRecord accepts.
LEMMA TombstoneValid ==
  ASSUME NEW k, NEW p, NEW family, k[1] \in FactualKinds,
         k[1] \notin PublicFactKinds => "_otel_context" \notin DOMAIN p
  PROVE  ValidateCompatibility(k[1], ProjectionCompatibility(k, p, family))
<1>1. PICK kind, event : kind = k[1] /\ event = EventOf(k)
  OBVIOUS
<1>2. PICK order : order = SuffixOrder(kind, event)
  OBVIOUS
<1>3. PICK n \in 0..4 : Listed(Suffix(k, p), order, n) /\ Names(order, n)
  BY <1>1, <1>2, SuffixListed
<1>4. IsSequence(order) /\ Len(order) = n /\ Distinct(order, n)
      /\ \A i \in 1..n : order[i] # Plain("trace_id")
  BY <1>3 DEF Names
<1>5. PICK t : t = Plain("trace_id")
  OBVIOUS
<1>6. t \notin BaseNames
  BY <1>5 DEF BaseNames, Plain
<1>7. Distinct(order \o <<t>>, n + 1) /\ Distinct(order \o << >>, n)
  BY <1>4, <1>5, <1>6, DistinctMore
<1>8. PICK allowed : allowed = AllowedSuffix(kind, event)
  OBVIOUS
<1>9. allowed = order \o If(kind \in PublicFactKinds, t)
  BY <1>2, <1>5, <1>8 DEF AllowedSuffix, SuffixOrder
<1>10. PICK rest : rest = Suffix(k, p) \o TracePair(p)
  OBVIOUS
<1>11. PICK m \in 0..5 : Listed(rest, allowed, m) /\ Distinct(allowed, m)
  <2>1. CASE kind \in PublicFactKinds
    <3>1. allowed = order \o <<t>>
      BY <1>9, <2>1 DEF If
    <3>2. PICK last : last = <<t>>
      OBVIOUS
    <3>3. last[1] = t /\ Len(last) = 1
      BY <3>2
    <3>4. IsSequence(last)
      BY <3>2, ElementsFew
    <3>5. /\ \A i \in 1..Len(order) : (order \o last)[i] = order[i]
          /\ \A i \in 1..Len(last) : (order \o last)[Len(order) + i] = last[i]
      BY <1>4, <3>4, Joined
    <3>6. /\ \A i \in 1..n : allowed[i] = order[i]
          /\ \A i \in 1..1 : allowed[n + i] = last[i]
      BY <1>4, <3>1, <3>2, <3>3, <3>5
    <3>7. Listed(TracePair(p), last, 1)
      <4>1. Listed(If("_otel_context" \in DOMAIN p,
                      <<last[1], Get(p, "_otel_context")[1]>>), last, 1)
        BY ListedFew
      <4>. QED
        BY <1>5, <3>3, <4>1 DEF TracePair
    <3>8. n \in Nat /\ 1 \in Nat /\ n + 1 \in 0..5
      OBVIOUS
    <3>9. Listed(Suffix(k, p) \o TracePair(p), allowed, n + 1)
      BY <1>3, <3>6, <3>7, <3>8, ListedJoined
    <3>. QED
      BY <1>7, <1>10, <3>1, <3>8, <3>9
  <2>2. CASE kind \notin PublicFactKinds
    <3>1. allowed = order \o << >>
      BY <1>9, <2>2 DEF If
    <3>2. TracePair(p) = << >>
      BY <1>1, <2>2 DEF TracePair, If
    <3>3. PICK last : last = << >>
      OBVIOUS
    <3>4. Len(last) = 0 /\ 1..0 = {}
      BY <3>3
    <3>5. IsSequence(last)
      BY <3>3, ElementsFew
    <3>6. \A i \in 1..Len(order) : (order \o last)[i] = order[i]
      BY <1>4, <3>5, Joined
    <3>7. /\ \A i \in 1..n : allowed[i] = order[i]
          /\ \A i \in 1..0 : allowed[n + i] = order[i]
      BY <1>4, <3>1, <3>3, <3>4, <3>6
    <3>8. Listed(last, order, 0)
      BY <3>3, ListedFew
    <3>9. n \in Nat /\ 0 \in Nat /\ n + 0 = n /\ n \in 0..5
      OBVIOUS
    <3>10. Listed(Suffix(k, p) \o last, allowed, n + 0)
      BY <1>3, <3>7, <3>8, <3>9, ListedJoined
    <3>11. Listed(rest, allowed, n)
      BY <1>10, <3>2, <3>3, <3>9, <3>10
    <3>. QED
      BY <1>7, <3>1, <3>9, <3>11
  <2>. QED
    BY <2>1, <2>2
<1>12. kind \notin TraceKinds
  BY <1>1 DEF FactualKinds, PublicFactKinds, TraceKinds
<1>13. PICK completeness : completeness = Get(AttributesOf(k, p), "summary_state")
  OBVIOUS
<1>14. PICK pairs : pairs = BasePairs(family, event, completeness) \o rest
  OBVIOUS
<1>15. pairs = ProjectionCompatibility(k, p, family)
  BY <1>1, <1>10, <1>13, <1>14, PairsAre
<1>16. ValidateCompatibility(kind, pairs)
  BY <1>8, <1>11, <1>12, <1>14, ListedValid
<1>. QED
  BY <1>1, <1>15, <1>16

\* What a tombstone keeps for the filters.
LEMMA PairsKept ==
  ASSUME NEW k, NEW p, NEW family,
         NEW pairs, pairs = ProjectionCompatibility(k, p, family)
  PROVE  /\ {pair \in Elements(pairs) : pair[1] = Plain("trace_id")} =
              IF "_otel_context" \in DOMAIN p
              THEN {<<Plain("trace_id"), Get(p, "_otel_context")[1]>>} ELSE {}
         /\ k[1] = "delivery_root_binding" /\ "_otel_context" \notin DOMAIN p =>
              {pair \in Elements(pairs) : pair[1] = Plain("delivery_id")} =
                {<<Plain("delivery_id"), p.delivery_id>>}
<1>1. PICK event, completeness : /\ event = EventOf(k)
                                 /\ completeness = Get(AttributesOf(k, p), "summary_state")
  OBVIOUS
<1>2. PICK a, b, c : /\ a = <<Plain("family_schema"), family>>
                     /\ b = <<Plain("event_name"), event>>
                     /\ c = <<Plain("completeness"), completeness>>
  OBVIOUS
<1>3. a[1] = Plain("family_schema") /\ b[1] = Plain("event_name")
      /\ c[1] = Plain("completeness")
  BY <1>2
<1>4. PICK base : base = BasePairs(family, event, completeness)
  OBVIOUS
<1>5. IsSequence(base) /\ Elements(base) = {a, b, c}
  <2>1. base = <<a, b, c>>
    BY <1>2, <1>4 DEF BasePairs
  <2>2. base \in Seq({a, b, c}) /\ Elements(base) = {a, b, c}
    BY <2>1 DEF Elements
  <2>. QED
    BY <2>2 DEF IsSequence
<1>6. /\ IsSequence(Suffix(k, p)) /\ IsSequence(TracePair(p))
      /\ pairs = base \o (Suffix(k, p) \o TracePair(p))
  BY <1>1, <1>4, PairsAre
<1>7. Elements(pairs) = {a, b, c} \cup Elements(Suffix(k, p)) \cup Elements(TracePair(p))
  <2>1. /\ IsSequence(Suffix(k, p) \o TracePair(p))
        /\ Elements(Suffix(k, p) \o TracePair(p)) =
             Elements(Suffix(k, p)) \cup Elements(TracePair(p))
    BY <1>6, ElementsConcatenation
  <2>2. Elements(base \o (Suffix(k, p) \o TracePair(p))) =
          Elements(base) \cup Elements(Suffix(k, p) \o TracePair(p))
    BY <1>5, <2>1, ElementsConcatenation
  <2>. QED
    BY <1>5, <1>6, <2>1, <2>2
<1>8. PICK trace : trace = <<Plain("trace_id"), Get(p, "_otel_context")[1]>>
  OBVIOUS
<1>9. /\ Elements(TracePair(p)) = IF "_otel_context" \in DOMAIN p THEN {trace} ELSE {}
      /\ trace[1] = Plain("trace_id")
  BY <1>8, ElementsFew DEF TracePair
<1>10. \A x \in Elements(Suffix(k, p)) : x[1] # Plain("trace_id")
  <2>1. PICK order : order = SuffixOrder(k[1], EventOf(k))
    OBVIOUS
  <2>2. PICK n \in 0..4 : Listed(Suffix(k, p), order, n) /\ Names(order, n)
    BY <2>1, SuffixListed
  <2>3. PICK X : X = Suffix(k, p)
    OBVIOUS
  <2>4. PICK f \in [1..Len(X) -> 1..n] : \A i \in 1..Len(X) : X[i][1] = order[f[i]]
    BY <2>2, <2>3 DEF Listed
  <2>5. \A i \in 1..Len(X) : X[i][1] # Plain("trace_id")
    BY <2>2, <2>4 DEF Names
  <2>6. DOMAIN X = 1..Len(X)
    BY <1>6, <2>3, Joined
  <2>. QED
    BY <2>3, <2>5, <2>6 DEF Elements
<1>11. Plain("trace_id") \notin {a[1], b[1], c[1]}
  BY <1>3 DEF Plain
<1>12. {pair \in Elements(pairs) : pair[1] = Plain("trace_id")} =
         {pair \in Elements(TracePair(p)) : pair[1] = Plain("trace_id")}
  BY <1>7, <1>10, <1>11
<1>13. ASSUME k[1] = "delivery_root_binding", "_otel_context" \notin DOMAIN p
       PROVE  {pair \in Elements(pairs) : pair[1] = Plain("delivery_id")} =
                {<<Plain("delivery_id"), p.delivery_id>>}
  <2>1. PICK x : x = <<Plain("delivery_id"), p.delivery_id>>
    OBVIOUS
  <2>2. Suffix(k, p) = <<x>> /\ x[1] = Plain("delivery_id")
    BY <1>13, <2>1 DEF Suffix
  <2>3. Elements(Suffix(k, p)) = {x}
    BY <2>2, ElementsFew
  <2>4. Elements(pairs) = {a, b, c, x}
    BY <1>7, <1>9, <1>13, <2>3
  <2>5. Plain("delivery_id") \notin {a[1], b[1], c[1]}
    BY <1>3 DEF Plain
  <2>. QED
    BY <2>1, <2>2, <2>4, <2>5
<1>. QED
  BY <1>8, <1>9, <1>12, <1>13


\* The kinds that the forms of facts are of.
LEMMA FormKinds ==
  ASSUME NEW r, NEW k, NEW p
  PROVE  /\ RootForm(r, k, p) => k[1] = "delivery_root_binding"
         /\ ModelForm(r, k, p) => k[1] = "model_attribution"
         /\ ContributionForm(r, k, p) => k[1] = "factual_contribution" /\ k[2] = r.name
         /\ LineageForm(r, k, p) => k[1] = "role_lineage"
         /\ OpenForm(r, k, p) => k[1] = "finding_assertion"
         /\ AimForm(r, k, p) => k[1] = "finding_target"
         /\ StatusForm(r, k, p) => k[1] = "finding_status"
         /\ FixForm(r, k, p) => k[1] = "finding_fix"
         /\ RecheckForm(r, k, p) => k[1] = "finding_recheck"
<1>1. RootForm(r, k, p) => k[1] = "delivery_root_binding"
  BY DEF RootForm
<1>2. ModelForm(r, k, p) => k[1] = "model_attribution"
  BY DEF ModelForm
<1>3. ContributionForm(r, k, p) => k[1] = "factual_contribution" /\ k[2] = r.name
  BY DEF ContributionForm
<1>4. LineageForm(r, k, p) => k[1] = "role_lineage"
  BY DEF LineageForm
<1>5. OpenForm(r, k, p) => k[1] = "finding_assertion"
  BY DEF OpenForm
<1>6. StatusForm(r, k, p) => k[1] = "finding_status"
  BY DEF StatusForm
<1>7. ASSUME NEW kind, NEW a, NEW x
      PROVE  (<<kind>> \o TargetOf(a))[1] = kind /\ (<<kind>> \o TargetAnd(a, x))[1] = kind
  BY TargetKeys
<1>8. AimForm(r, k, p) => k[1] = "finding_target"
  BY <1>7 DEF AimForm
<1>9. FixForm(r, k, p) => k[1] = "finding_fix"
  BY <1>7 DEF FixForm
<1>10. RecheckForm(r, k, p) => k[1] = "finding_recheck"
  BY <1>7 DEF RecheckForm
<1>. QED
  BY <1>1, <1>2, <1>3, <1>4, <1>5, <1>6, <1>8, <1>9, <1>10

\* Every fact has the payload members that shaping subscripts.
LEMMA FormReads ==
  ASSUME NEW r, NEW k, NEW p, FactForm(r, k, p)
  PROVE  /\ ShapeReads(k[1]) \subseteq DOMAIN p
         /\ k[1] \notin PublicFactKinds => "_otel_context" \notin DOMAIN p
         /\ k[1] \in PublicFactKinds => r.type = "event"
<1>0. \A own : Carries(r, p, own) => DOMAIN own \subseteq DOMAIN p
  BY DEF Carries, Placed
<1>1. CASE RootForm(r, k, p)
  <2>1. DOMAIN p = {"delivery_id", "runtime_id", "manifest_digest", "family_schema",
                    "workflow_family"}
    BY <1>1 DEF RootForm, RootPayload
  <2>. QED
    BY <1>1, <2>1, FormKinds DEF ShapeReads, PublicFactKinds
<1>2. CASE ModelForm(r, k, p)
  <2>1. DOMAIN p = {"request_model"}
    BY <1>2 DEF ModelForm
  <2>. QED
    BY <1>2, <2>1, FormKinds DEF ShapeReads, PublicFactKinds
<1>3. CASE ContributionForm(r, k, p) \/ LineageForm(r, k, p) \/ OpenForm(r, k, p)
           \/ AimForm(r, k, p)
  <2>1. r.type = "event"
    BY <1>3 DEF ContributionForm, LineageForm, OpenForm, AimForm, IsFinding
  <2>2. k[1] \in {"factual_contribution", "role_lineage", "finding_assertion",
                  "finding_target"}
    BY <1>3, FormKinds
  <2>. QED
    BY <2>1, <2>2 DEF ShapeReads, PublicFactKinds
<1>4. CASE StatusForm(r, k, p)
  <2>1. DOMAIN StatusEffect(r.attrs).payload = ActorNames \cup {"status"}
    BY DEF StatusEffect, FirstWriteOf, WithActors
  <2>2. ActorNames \cup {"status"} \subseteq DOMAIN p /\ r.type = "event"
    BY <1>0, <1>4, <2>1 DEF StatusForm, IsFinding
  <2>. QED
    BY <1>4, <2>2, FormKinds DEF ShapeReads, PublicFactKinds
<1>5. CASE FixForm(r, k, p)
  <2>1. DOMAIN FixEffect(r.attrs).payload = ActorNames \cup {"finding_id", "review_id"}
    BY DEF FixEffect, FirstWriteOf, WithActors
  <2>2. /\ ActorNames \cup {"finding_id", "review_id"} \subseteq DOMAIN p
        /\ r.type = "event"
    BY <1>0, <1>5, <2>1 DEF FixForm, IsFinding
  <2>. QED
    BY <1>5, <2>2, FormKinds DEF ShapeReads, PublicFactKinds
<1>6. CASE RecheckForm(r, k, p)
  <2>. DEFINE own == {"review_id", "prior_review_id", "finding_id", "fix_id",
                      "iteration_id", "recheck_role_id", "recheck_invocation_id"}
  <2>1. DOMAIN RecheckEffect(r.attrs).payload = ActorNames \cup own
    BY DEF RecheckEffect, FirstWriteOf, WithActors
  <2>2. ActorNames \cup own \subseteq DOMAIN p /\ r.type = "event"
    BY <1>0, <1>6, <2>1 DEF RecheckForm, IsFinding
  <2>. QED
    BY <1>6, <2>2, FormKinds DEF ShapeReads, PublicFactKinds
<1>. QED
  BY <1>1, <1>2, <1>3, <1>4, <1>5, <1>6 DEF FactForm

\* A row of a fact, or its tombstone, is of one of the forms.
LEMMA FactWritten ==
  ASSUME ServiceInductive, DetailInductive, NEW k \in RowsOf(FactualKinds)
  PROVE  \E p : /\ FactForm(SourceOf(k), k, p)
                /\ \E e \in Writes(SourceOf(k), k) : p = e.payload
                /\ Sound(SourceOf(k)) /\ effects[k].src \in DOMAIN accepted
                /\ IF k \in DOMAIN markers
                   THEN markers[k].compatibility =
                          ProjectionCompatibility(k, p, FamilyOf(k))
                   ELSE effects[k].payload = p
<1>1. k \in DOMAIN effects /\ k[1] \in Expirable /\ k[1] \in FactualKinds
  BY DEF RowsOf, Expirable
<1>2. PICK e : e \in Writes(SourceOf(k), k)
  BY <1>1, SourceWrote
<1>3. /\ Sound(SourceOf(k)) /\ effects[k].src \in DOMAIN accepted /\ Told(k)
  BY <1>1, SourceWrote
<1>4. FactForm(SourceOf(k), k, e.payload)
  BY <1>1, <1>2, <1>3, WrittenForms
<1>. QED
  BY <1>2, <1>3, <1>4 DEF Told

\* No row makes its page fail: every tombstone of a fact is one that ExpiryRecord
\* accepts, and every active fact has what shaping subscripts, for all records
\* that validation lets through (read_expiry, _fact_resource).
THEOREM FactsAreServable == Spec => []FactsServable
<1>1. ServiceInductive /\ DetailInductive => FactsServable
  <2>. SUFFICES ASSUME ServiceInductive, DetailInductive,
                       NEW k \in RowsOf(FactualKinds)
                PROVE  IF k \in DOMAIN markers
                       THEN ExpiryRecordValid(k)
                       ELSE ShapeReads(k[1]) \subseteq DOMAIN effects[k].payload
    BY DEF FactsServable
  <2>1. PICK p : /\ FactForm(SourceOf(k), k, p)
                 /\ IF k \in DOMAIN markers
                    THEN markers[k].compatibility =
                           ProjectionCompatibility(k, p, FamilyOf(k))
                    ELSE effects[k].payload = p
    BY FactWritten
  <2>2. CASE k \notin DOMAIN markers
    BY <2>1, <2>2, FormReads
  <2>3. CASE k \in DOMAIN markers
    <3>1. ValidateExpiryOwner(k)
      BY <2>3 DEF DetailInductive, OwnersValid
    <3>2. k[1] \in FactualKinds
      BY DEF RowsOf
    <3>3. k[1] \notin PublicFactKinds => "_otel_context" \notin DOMAIN p
      BY <2>1, FormReads
    <3>4. ValidateCompatibility(k[1], ProjectionCompatibility(k, p, FamilyOf(k)))
      BY <3>2, <3>3, TombstoneValid
    <3>. QED
      BY <2>1, <2>3, <3>1, <3>4 DEF ExpiryRecordValid
  <2>. QED
    BY <2>2, <2>3
<1>. QED
  BY <1>1, DetailInvariant, PTL

\* A filter reads from a tombstone what it read from the row.
LEMMA ExpiryFilters ==
  ASSUME ServiceInductive, DetailInductive, ApplyExpiry
  PROVE  /\ \A t : FactsOfTraces({t})' = FactsOfTraces({t})
         /\ \A d : /\ RootTraces(d)' = RootTraces(d)
                   /\ FactsOfTraces(RootTraces(d))' = FactsOfTraces(RootTraces(d))
<1>1. accepted' = accepted
  BY ExpiryRows DEF ServiceInductive
<1>2. PICK fresh : Expires(fresh)
  BY ExpiryRows DEF ServiceInductive
<1>3. \A k \in DOMAIN effects : effects'[k].src = effects[k].src
  <2>1. ASSUME NEW k \in fresh
        PROVE  effects'[k].src = effects[k].src
    <3>1. effects'[k] = [payload |-> EmptyPayload, src |-> effects[k].src,
                         at |-> effects[k].at]
      BY <1>2 DEF Expires
    <3>. QED
      BY <3>1
  <2>2. \A k \in DOMAIN effects \ fresh : effects'[k].src = effects[k].src
    BY <1>2 DEF Expires
  <2>. QED
    BY <2>1, <2>2
<1>4. \A k \in DOMAIN effects : SourceOf(k)' = SourceOf(k)
  BY <1>1, <1>3 DEF SourceOf
<1>5. \A kinds : RowsOf(kinds)' = RowsOf(kinds)
  BY <1>2 DEF RowsOf, Expires
<1>6. ASSUME NEW k \in DOMAIN effects \ fresh, NEW name
      PROVE  effects'[k] = effects[k] /\ Kept(k, name)' = Kept(k, name)
  <2>1. /\ effects'[k] = effects[k]
        /\ k \in DOMAIN markers' <=> k \in DOMAIN markers
        /\ k \in DOMAIN markers => markers'[k] = markers[k]
    BY <1>2 DEF Expires
  <2>. QED
    BY <2>1 DEF Kept
<1>7. ASSUME NEW k \in fresh, k[1] \in FactualKinds
      PROVE  \E p : /\ FactForm(SourceOf(k), k, p) /\ effects[k].payload = p
                    /\ DOMAIN effects'[k].payload = {}
                    /\ \A name : /\ Kept(k, name) = {}
                                 /\ Kept(k, name)' =
                                      {pair \in Elements(ProjectionCompatibility(k, p, FamilyOf(k))) :
                                         pair[1] = Plain(name)}
  <2>1. /\ k \in DOMAIN effects /\ k \notin DOMAIN markers /\ k \in DOMAIN markers'
        /\ markers'[k].compatibility =
             ProjectionCompatibility(k, effects[k].payload, FamilyOf(k))
    BY <1>2 DEF Expires
  <2>2. effects'[k] = [payload |-> EmptyPayload, src |-> effects[k].src,
                       at |-> effects[k].at]
    BY <1>2 DEF Expires
  <2>3. DOMAIN effects'[k].payload = {}
    BY <2>2 DEF EmptyPayload
  <2>4. PICK p : FactForm(SourceOf(k), k, p) /\ effects[k].payload = p
    BY <1>7, <2>1, FactWritten DEF RowsOf
  <2>5. PICK pairs : pairs = ProjectionCompatibility(k, p, FamilyOf(k))
    OBVIOUS
  <2>6. \A name : Kept(k, name)' = {pair \in Elements(pairs) : pair[1] = Plain(name)}
    BY <2>1, <2>4, <2>5 DEF Kept, Elements
  <2>7. \A name : Kept(k, name) = {}
    BY <2>1 DEF Kept
  <2>. QED
    BY <2>3, <2>4, <2>5, <2>6, <2>7
<1>8. ASSUME NEW k \in DOMAIN effects, k[1] \in FactualKinds
      PROVE  TracesOfFact(k)' = TracesOfFact(k)
  <2>1. CASE SourceOf(k).type = "span"
    BY <1>4, <2>1 DEF TracesOfFact
  <2>2. CASE SourceOf(k).type # "span" /\ k \notin fresh
    BY <1>4, <1>6, <2>2 DEF TracesOfFact
  <2>3. CASE SourceOf(k).type # "span" /\ k \in fresh
    <3>1. PICK p : /\ effects[k].payload = p /\ DOMAIN effects'[k].payload = {}
                   /\ \A name : /\ Kept(k, name) = {}
                                /\ Kept(k, name)' =
                                     {pair \in Elements(ProjectionCompatibility(k, p, FamilyOf(k))) :
                                        pair[1] = Plain(name)}
      BY <1>7, <1>8, <2>3
    <3>2. PICK pairs : pairs = ProjectionCompatibility(k, p, FamilyOf(k))
      OBVIOUS
    <3>3. PICK t : t = <<Plain("trace_id"), Get(p, "_otel_context")[1]>>
      OBVIOUS
    <3>4. {pair \in Elements(pairs) : pair[1] = Plain("trace_id")} =
            IF "_otel_context" \in DOMAIN p THEN {t} ELSE {}
      BY <3>2, <3>3, PairsKept
    <3>5. /\ Kept(k, "trace_id")' = IF "_otel_context" \in DOMAIN p THEN {t} ELSE {}
          /\ Kept(k, "trace_id") = {}
      BY <3>1, <3>2, <3>4
    <3>6. "_otel_context" \in DOMAIN p => t[2] = p["_otel_context"][1]
      BY <3>3 DEF Get
    <3>7. TracesOfFact(k) = IF "_otel_context" \in DOMAIN p
                            THEN {p["_otel_context"][1]} ELSE {}
      BY <2>3, <3>1, <3>5 DEF TracesOfFact
    <3>8. TracesOfFact(k)' = {pair[2] : pair \in Kept(k, "trace_id")'}
      BY <1>4, <2>3, <3>1 DEF TracesOfFact
    <3>9. TracesOfFact(k)' = IF "_otel_context" \in DOMAIN p THEN {t[2]} ELSE {}
      BY <3>5, <3>8
    <3>. QED
      BY <3>6, <3>7, <3>9
  <2>. QED
    BY <2>1, <2>2, <2>3
<1>9. \A traces : FactsOfTraces(traces)' = FactsOfTraces(traces)
  BY <1>5, <1>8 DEF FactsOfTraces, RowsOf
<1>. DEFINE names(k, d) ==
       \/ "delivery_id" \in DOMAIN effects[k].payload
            /\ effects[k].payload.delivery_id = d
       \/ <<Plain("delivery_id"), d>> \in Kept(k, "delivery_id")
<1>10. ASSUME NEW d, NEW k \in RowsOf({"delivery_root_binding"})
       PROVE  names(k, d)' <=> names(k, d)
  <2>1. k \in DOMAIN effects /\ k[1] = "delivery_root_binding"
    BY DEF RowsOf
  <2>2. CASE k \notin fresh
    BY <1>6, <2>1, <2>2
  <2>3. CASE k \in fresh
    <3>0. k[1] \in FactualKinds
      BY <2>1 DEF FactualKinds
    <3>1. PICK p : /\ FactForm(SourceOf(k), k, p)
                   /\ effects[k].payload = p /\ DOMAIN effects'[k].payload = {}
                   /\ \A name : /\ Kept(k, name) = {}
                                /\ Kept(k, name)' =
                                     {pair \in Elements(ProjectionCompatibility(k, p, FamilyOf(k))) :
                                        pair[1] = Plain(name)}
      BY <1>7, <2>3, <3>0
    <3>2. RootForm(SourceOf(k), k, p)
      BY <2>1, <3>1, FormKinds DEF FactForm
    <3>3. DOMAIN p = {"delivery_id", "runtime_id", "manifest_digest", "family_schema",
                      "workflow_family"}
      BY <3>2 DEF RootForm, RootPayload
    <3>4. PICK pairs : pairs = ProjectionCompatibility(k, p, FamilyOf(k))
      OBVIOUS
    <3>5. {pair \in Elements(pairs) : pair[1] = Plain("delivery_id")} =
            {<<Plain("delivery_id"), p.delivery_id>>}
      BY <2>1, <3>3, <3>4, PairsKept
    <3>6. /\ Kept(k, "delivery_id")' = {<<Plain("delivery_id"), p.delivery_id>>}
          /\ Kept(k, "delivery_id") = {}
      BY <3>1, <3>4, <3>5
    <3>7. names(k, d) <=> p.delivery_id = d
      BY <3>1, <3>3, <3>6
    <3>8. names(k, d)' <=> p.delivery_id = d
      BY <3>1, <3>6
    <3>. QED
      BY <3>7, <3>8
  <2>. QED
    BY <2>2, <2>3
<1>11. \A d : RootTraces(d)' = RootTraces(d)
  <2>1. ASSUME NEW d
        PROVE  {r \in RowsOf({"delivery_root_binding"})' : names(r, d)'} =
                 {r \in RowsOf({"delivery_root_binding"}) : names(r, d)}
    BY <1>5, <1>10
  <2>. QED
    BY <2>1 DEF RootTraces
<1>. HIDE DEF names
<1>12. \A d : FactsOfTraces(RootTraces(d))' = FactsOfTraces(RootTraces(d))
  <2>. SUFFICES ASSUME NEW d
                PROVE  FactsOfTraces(RootTraces(d))' = FactsOfTraces(RootTraces(d))
    OBVIOUS
  <2>1. RootTraces(d)' = RootTraces(d)
    BY <1>11
  <2>. QED
    BY <1>5, <1>8, <2>1 DEF FactsOfTraces, RowsOf
<1>. QED
  BY <1>9, <1>11, <1>12

\* Expiry moves no row in or out of what a trace or Delivery filter selects: a
\* tombstone keeps the trace of an event and the Delivery of a root
\* (_projection_compatibility against _add_filter).
THEOREM FiltersAreStable == Spec => FiltersStable
<1>. DEFINE Stable ==
       accepted' = accepted =>
         /\ \A t \in Traces : FactsOfTraces({t})' = FactsOfTraces({t})
         /\ \A d \in {DeliveryOf(r) : r \in AcceptedRecords} :
              /\ RootTraces(d)' = RootTraces(d)
              /\ FactsOfTraces(RootTraces(d))' = FactsOfTraces(RootTraces(d))
<1>1. ServiceInductive /\ DetailInductive /\ [Next]_vars => [Stable]_vars
  <2>. SUFFICES ASSUME ServiceInductive, DetailInductive, [Next]_vars,
                       accepted' = accepted
                PROVE  Stable
    OBVIOUS
  <2>1. PICK workload \in Workloads : SentFrom(workload)
    BY DEF DetailInductive
  <2>2. CASE UNCHANGED <<accepted, effects, markers>>
    BY <2>2 DEF FactsOfTraces, RootTraces, RowsOf, TracesOfFact, SourceOf, Kept
  <2>3. CASE ApplyExpiry
    BY <2>3, ExpiryFilters
  <2>4. CASE Accepts(workload)
    <3>1. PICK r \in RecordsIn(workload) : Disposition(r) = "accepted" /\ Store(r)
      BY <2>4 DEF Accepts
    <3>2. r.id \notin DOMAIN accepted
      BY <3>1, Dispositions
    <3>3. r.id \in DOMAIN accepted'
      BY <3>1, <3>2, StoreAdds
    <3>. QED
      BY <3>2, <3>3
  <2>5. ASSUME NEW d \in DOMAIN anchors, Retire(d)
        PROVE  FALSE
    <3>1. DOMAIN accepted' = DOMAIN accepted \ MembersOf(d)
      BY <2>5, RetireRows DEF ServiceInductive
    <3>2. anchors[d] \in MembersOf(d) /\ anchors[d] \in DOMAIN accepted
      BY DEF ServiceInductive, TablesOK, MembersOf
    <3>. QED
      BY <3>1, <3>2
  <2>6. (Idles \/ \E class \in Classes : PlanExpiry(class))
          => UNCHANGED <<accepted, effects, markers>>
    BY DEF Idles, PlanExpiry
  <2>. HIDE DEF Stable
  <2>. QED
    BY <2>1, <2>2, <2>3, <2>4, <2>5, <2>6, StepKinds
<1>. QED
  BY <1>1, DetailInvariant, PTL DEF Spec, FiltersStable


-------------------------------------------------------------------------------
(* Field ids *)

\* The number of a name is the place of the name.
LEMMA NumberedAt ==
  ASSUME NEW prefix, NEW names, NEW name,
         \E i \in DOMAIN names : names[i] = name
  PROVE  /\ name \in DOMAIN Numbered(prefix, names)
         /\ \E i \in DOMAIN names : /\ Numbered(prefix, names)[name] = <<prefix, i>>
                                    /\ names[i] = name
<1>. DEFINE i == CHOOSE i \in DOMAIN names : names[i] = name
<1>1. i \in DOMAIN names /\ names[i] = name
  OBVIOUS
<1>2. name \in {names[j] : j \in DOMAIN names}
  BY <1>1
<1>3. Numbered(prefix, names)[name] = <<prefix, i>>
  BY <1>2 DEF Numbered
<1>. HIDE DEF i
<1>. QED
  BY <1>1, <1>2, <1>3 DEF Numbered

\* A field id has the place of its attribute in one of the tables, or is the
\* name of a standard attribute.
LEMMA FieldIdAt ==
  ASSUME NEW name \in Registered
  PROVE  \/ \E i \in DOMAIN CommonNames :
              FieldId(name) = C(i) /\ CommonNames[i] = name
         \/ \E i \in DOMAIN ImplementationNames :
              FieldId(name) = I(i) /\ ImplementationNames[i] = name
         \/ \E i \in DOMAIN SystemDesignNames :
              FieldId(name) = S(i) /\ SystemDesignNames[i] = name
         \/ FieldId(name) = Plain(name) /\ name \in StandardNames
<1>1. PICK common, implementation, design :
        /\ common = Numbered("C", CommonNames)
        /\ implementation = Numbered("I", ImplementationNames)
        /\ design = Numbered("S", SystemDesignNames)
  OBVIOUS
<1>2. /\ DOMAIN FieldIds = DOMAIN common \cup DOMAIN implementation \cup DOMAIN design
      /\ \A x \in DOMAIN FieldIds :
           FieldIds[x] = IF x \in DOMAIN design THEN design[x]
                         ELSE IF x \in DOMAIN implementation THEN implementation[x]
                         ELSE common[x]
  BY <1>1 DEF FieldIds, Extend
<1>3. /\ \A x \in DOMAIN common : \E i \in DOMAIN CommonNames : CommonNames[i] = x
      /\ \A x \in DOMAIN implementation :
           \E i \in DOMAIN ImplementationNames : ImplementationNames[i] = x
      /\ \A x \in DOMAIN design :
           \E i \in DOMAIN SystemDesignNames : SystemDesignNames[i] = x
  BY <1>1 DEF Numbered
<1>4. CASE name \in DOMAIN design
  <2>1. PICK i \in DOMAIN SystemDesignNames :
          design[name] = <<"S", i>> /\ SystemDesignNames[i] = name
    <3>1. \E i \in DOMAIN SystemDesignNames : SystemDesignNames[i] = name
      BY <1>3, <1>4
    <3>2. \E i \in DOMAIN SystemDesignNames :
            /\ Numbered("S", SystemDesignNames)[name] = <<"S", i>>
            /\ SystemDesignNames[i] = name
      BY <3>1, NumberedAt
    <3>. QED
      BY <1>1, <3>2
  <2>. QED
    BY <1>2, <1>4, <2>1 DEF FieldId, S
<1>5. CASE name \in DOMAIN implementation \ DOMAIN design
  <2>1. PICK i \in DOMAIN ImplementationNames :
          implementation[name] = <<"I", i>> /\ ImplementationNames[i] = name
    BY <1>1, <1>3, <1>5, NumberedAt
  <2>. QED
    BY <1>2, <1>5, <2>1 DEF FieldId, I
<1>6. CASE name \in DOMAIN common \ (DOMAIN implementation \cup DOMAIN design)
  <2>1. PICK i \in DOMAIN CommonNames :
          common[name] = <<"C", i>> /\ CommonNames[i] = name
    BY <1>1, <1>3, <1>6, NumberedAt
  <2>. QED
    BY <1>2, <1>6, <2>1 DEF FieldId, C
<1>7. CASE name \notin DOMAIN FieldIds
  BY <1>7 DEF FieldId, Registered
<1>. QED
  BY <1>2, <1>4, <1>5, <1>6, <1>7

\* A field id says which attribute it is of.
LEMMA FieldIdOne ==
  ASSUME NEW name \in Registered, NEW other \in Registered,
         FieldId(name) = FieldId(other)
  PROVE  name = other
<1>1. /\ \A i, j : C(i) = C(j) => i = j
      /\ \A i, j : I(i) = I(j) => i = j
      /\ \A i, j : S(i) = S(j) => i = j
      /\ \A i, j : C(i) # I(j) /\ C(i) # S(j) /\ I(i) # S(j)
  BY DEF C, I, S
<1>2. /\ \A x \in StandardNames : \A i :
           Plain(x) # C(i) /\ Plain(x) # I(i) /\ Plain(x) # S(i)
      /\ \A x, y : Plain(x) = Plain(y) => x = y
  BY DEF C, I, S, Plain, StandardNames
<1>. QED
  BY <1>1, <1>2, FieldIdAt

\* The attribute of a field id.
LEMMA NameOfField ==
  ASSUME NEW name \in Registered
  PROVE  NameOf(FieldId(name)) = name
  BY FieldIdOne DEF NameOf

-------------------------------------------------------------------------------
(* A record's rows are there as long as the record is *)

\* What a record that mentions a row of a Task, or writes the place of a
\* Delivery in it, is.
LEMMA TaskEffects ==
  ASSUME NEW r, Sound(r), NEW e \in EffectsOf(r)
  PROVE  /\ EffectKey(e)[1] = e.kind
         /\ e.kind \in TaskKinds =>
              IsBinding(r) /\ EffectKey(e) = <<e.kind, r.attrs.task_id>>
         /\ e.kind = "delivery_task_membership" =>
              /\ IsBinding(r)
              /\ EffectKey(e) = <<"delivery_task_membership", r.attrs.task_id,
                                  r.attrs.delivery_id>>
<1>1. PICK i \in DOMAIN Project(r) : e = Project(r)[i]
  BY DEF EffectsOf
<1>2. IsSequence(r.links) /\ (IsEvent(r, "task.binding") => r.profile = 2)
  <2>1. IsSequence(r.links)
    BY Zenon DEF Sound, WellFormed, IsSequence
  <2>. QED
    BY <2>1 DEF Sound, WellFormed
<1>. QED
  BY <1>1, <1>2, ProjectShape DEF BindingKinds, TaskKinds, MembershipKey

\* The guard of a binding names its Task.
LEMMA GuardWritten ==
  ASSUME NEW r, Sound(r), IsBinding(r)
  PROVE  /\ \E e \in EffectsOf(r) :
              /\ e.op = "first_write"
              /\ EffectKey(e) = <<"delivery_task_guard", r.attrs.delivery_id>>
              /\ e.payload.task_id = r.attrs.task_id
         /\ \E e \in EffectsOf(r) :
              EffectKey(e) = <<"delivery_task_membership", r.attrs.task_id,
                               r.attrs.delivery_id>>
<1>. DEFINE a == r.attrs
            guard == FirstWriteOf("delivery_task_guard", <<a.delivery_id>>,
                                  [task_id |-> a.task_id,
                                   manifest_digest |-> a.manifest_digest])
<1>1. Project(r) = ProjectTaskBinding(a)
  BY DEF IsBinding, IsEvent, Project
<1>2. 2 \in DOMAIN Project(r) /\ EffectKey(Project(r)[2]) = MembershipKey(a)
  BY <1>1, BindingEffects
<1>3. 3 \in DOMAIN Project(r) /\ EffectKey(Project(r)[3]) = GuardKey(a)
      /\ Project(r)[3].op = "first_write"
  BY <1>1, BindingEffects
<1>4. Project(r)[3] = guard
  <2>1. PICK one, two, name, last :
          Project(r) = <<one, two, guard>> \o name \o <<last>>
            /\ IsSequence(name)
    BY <1>1, Tuples DEF ProjectTaskBinding, If
  <2>. HIDE DEF guard
  <2>2. PICK base : base = <<one, two, guard>>
    OBVIOUS
  <2>3. IsSequence(base) /\ 3 \in DOMAIN base /\ base[3] = guard
    BY <2>2, Tuples
  <2>4. IsSequence(base \o name) /\ 3 \in DOMAIN (base \o name)
        /\ (base \o name)[3] = guard
    BY <2>1, <2>3, Concatenation
  <2>. QED
    BY <2>1, <2>2, <2>4, Tuples, Concatenation
<1>5. guard.payload.task_id = a.task_id
  BY DEF FirstWriteOf
<1>. HIDE DEF guard
<1>. QED
  BY <1>2, <1>3, <1>4, <1>5 DEF EffectsOf, MembershipKey, GuardKey

\* The effect is in its row, or the row has expired.
Stored(e) ==
  /\ EffectKey(e) \in DOMAIN effects
  /\ \/ effects[EffectKey(e)].payload = e.payload
     \/ /\ EffectKey(e) \in DOMAIN markers
        /\ effects[EffectKey(e)].payload = EmptyPayload

\* ProjectionKept, said of the set of a record's effects.
LEMMA KeptIsStored ==
  ProjectionKept <=>
    \A id \in DOMAIN accepted : \A e \in EffectsOf(accepted[id].rec) :
      e.op = "first_write" => Stored(e)
  BY DEF ProjectionKept, Stored, EffectsOf

\* An accepted record has its rows: those that were there say what it says, and
\* none of them is one whose predecessor was planned to expire.
LEMMA AcceptKept ==
  ASSUME ServiceInductive, NEW workload \in Workloads, SentFrom(workload),
         RowsKept(workload), Accepts(workload)
  PROVE  RowsKept(workload)'
<1>1. PICK r \in RecordsIn(workload) :
        Disposition(r) = "accepted" /\ Store(r) /\ now' = now /\ plan' = plan
  BY DEF Accepts
<1>2. r.id \notin DOMAIN accepted /\ DeliveryOf(r) \notin fences
  BY <1>1, Dispositions
<1>3. Sound(r)
  BY RecordSound
<1>4. /\ DOMAIN accepted' = DOMAIN accepted \cup {r.id}
      /\ accepted'[r.id] = [rec |-> r, at |-> now]
      /\ \A id \in DOMAIN accepted : accepted'[id] = accepted[id]
      /\ DOMAIN effects \subseteq DOMAIN effects'
      /\ \A k \in DOMAIN effects : effects'[k] = effects[k]
      /\ \A k \in DOMAIN effects' \ DOMAIN effects :
           \E i \in DOMAIN Project(r) :
             /\ Project(r)[i].op = "first_write"
             /\ EffectKey(Project(r)[i]) = k
             /\ effects'[k] = [payload |-> Project(r)[i].payload,
                               src |-> r.id, at |-> now]
      /\ fences' = fences /\ markers' = markers
  BY <1>1, <1>2, StoreAdds
<1>5. accepted'[r.id].rec = r
  BY <1>4
<1>6. \A k \in DOMAIN effects' \ DOMAIN effects :
        effects'[k].src = r.id /\ \E e \in Writes(r, k) : TRUE
  BY <1>4 DEF Writes, EffectsOf
<1>7. PlanDue(workload)'
  <2>. SUFFICES ASSUME NEW k \in plan.members
       PROVE  IF k \in DOMAIN effects'
              THEN effects'[k].at + TTL(plan.class) <= now
              ELSE \A q \in RecordsIn(workload) :
                     Writes(q, k) # {} => DeliveryOf(q) \in fences
    BY <1>1, <1>4 DEF PlanDue, TTL
  <2>1. k \in DOMAIN effects' => k \in DOMAIN effects
    BY <1>2, <1>6 DEF RowsKept, PlanDue
  <2>. QED
    BY <1>4, <2>1 DEF RowsKept, PlanDue
<1>8. ASSUME NEW k \in DOMAIN effects'
      PROVE  SourceOwns(k)'
  <2>1. CASE k \in DOMAIN effects
    <3>1. SourceOf(k)' = SourceOf(k)
      BY <1>4, <2>1 DEF SourceOf, ServiceInductive, TablesOK, RowOK
    <3>. QED
      BY <2>1, <3>1 DEF RowsKept, SourceOwns
  <2>2. CASE k \notin DOMAIN effects
    <3>1. SourceOf(k)' = r
      BY <1>5, <1>6, <2>2 DEF SourceOf
    <3>2. PICK e \in EffectsOf(r) : EffectKey(e) = k /\ e.op = "first_write"
      BY <1>6, <2>2 DEF Writes
    <3>3. CASE k[1] \in TaskKinds
      <4>1. IsBinding(r) /\ k = <<e.kind, r.attrs.task_id>>
        BY <1>3, <3>2, <3>3, TaskEffects
      <4>. QED
        BY <3>1, <3>3, <4>1 DEF SourceOwns
    <3>4. CASE k[1] \notin TaskKinds
      BY <1>6, <2>2, <3>1, <3>4 DEF SourceOwns
    <3>. QED
      BY <3>3, <3>4
  <2>. QED
    BY <2>1, <2>2
<1>9. RequiredKept'
  <2>. SUFFICES ASSUME NEW id \in DOMAIN accepted', NEW e \in EffectsOf(accepted'[id].rec)
       PROVE  EffectKey(e) \in DOMAIN effects'
    BY DEF RequiredKept
  <2>1. CASE id \in DOMAIN accepted
    BY <1>4, <2>1 DEF RowsKept, RequiredKept
  <2>2. CASE id = r.id
    BY <1>1, <1>3, <1>5, <2>2, StoreWrites
  <2>. QED
    BY <1>4, <2>1, <2>2
<1>10. \A id \in DOMAIN accepted' : \A e \in EffectsOf(accepted'[id].rec) :
         e.op = "first_write" => Stored(e)'
  <2>. SUFFICES ASSUME NEW id \in DOMAIN accepted', NEW e \in EffectsOf(accepted'[id].rec),
                       e.op = "first_write"
       PROVE  Stored(e)'
    OBVIOUS
  <2>1. CASE id \in DOMAIN accepted
    <3>1. Stored(e)
      BY <1>4, <2>1, KeptIsStored DEF RowsKept
    <3>. QED
      BY <1>4, <3>1 DEF Stored
  <2>2. CASE id = r.id
    <3>1. e \in Writes(r, EffectKey(e)) /\ EffectKey(e) \in DOMAIN effects'
      BY <1>1, <1>3, <1>5, <2>2, StoreWrites DEF Writes
    <3>2. effects'[EffectKey(e)].payload = e.payload
      BY <1>1, <1>3, <1>4, <3>1, StoreWrites
    <3>. QED
      BY <3>1, <3>2 DEF Stored
  <2>. QED
    BY <1>4, <2>1, <2>2
<1>11. ProjectionKept'
  BY <1>10 DEF ProjectionKept, Stored, EffectsOf
<1>. QED
  BY <1>1, <1>4, <1>7, <1>8, <1>9, <1>11 DEF RowsKept, ExpiredWhenDue

\* A retirement keeps the rows of the records of other Deliveries: a row of a
\* Task that one of them has too has an heir, and they have no part in any other
\* row that it takes.
LEMMA RetireSpares ==
  ASSUME SharesOnlyTasks, ServiceInductive, DetailInductive,
         NEW workload \in Workloads, SentFrom(workload), RowsKept(workload),
         NEW d, Retire(d), NEW id \in DOMAIN accepted \ MembersOf(d),
         NEW e \in EffectsOf(accepted[id].rec)
  PROVE  EffectKey(e) \in DOMAIN effects'
<1>. DEFINE k == EffectKey(e)
            r == accepted[id].rec
            q == SourceOf(k)
            guard == <<"delivery_task_guard", d>>
<1>1. k \in DOMAIN effects
  BY DEF RowsKept, RequiredKept
<1>2. /\ effects[k].src \in DOMAIN accepted
      /\ r \in RecordsIn(workload) /\ q \in RecordsIn(workload)
      /\ Sound(r) /\ Sound(q)
  <2>1. effects[k].src \in DOMAIN accepted
    BY <1>1 DEF ServiceInductive, TablesOK, RowOK
  <2>2. r \in RecordsIn(workload) /\ q \in RecordsIn(workload)
    BY <2>1 DEF SentFrom, SourceOf
  <2>. QED
    BY <2>1, <2>2, RecordSound
<1>3. DeliveryOf(r) # d /\ SourceOwns(k)
  BY <1>1 DEF MembersOf, RowsKept
<1>4. k[1] = e.kind
  BY <1>2, TaskEffects
<1>. HIDE DEF k, r, q
<1>5. CASE effects[k].src \notin MembersOf(d)
  BY <1>1, <1>5, RetireRows DEF ServiceInductive, k
<1>6. CASE effects[k].src \in MembersOf(d) /\ k[1] \notin TaskKinds
  <2>1. DeliveryOf(q) = d
    BY <1>6 DEF MembersOf, SourceOf, q
  <2>2. Mentions(q, k)
    BY <1>3, <1>6 DEF SourceOwns, Mentions, Writes, q
  <2>3. e.kind \in TaskKinds \/ DeliveryOf(r) = DeliveryOf(q)
    BY <1>2, <2>2 DEF SharesOnlyTasks, r, k
  <2>. QED
    BY <1>3, <1>4, <1>6, <2>1, <2>3
<1>7. CASE effects[k].src \in MembersOf(d) /\ k[1] \in TaskKinds
  <2>1. IsBinding(r) /\ k = <<e.kind, r.attrs.task_id>>
    BY <1>2, <1>4, <1>7, TaskEffects DEF r, k
  <2>2. IsBinding(q) /\ q.attrs.task_id = k[2] /\ q.attrs.delivery_id = d
    <3>1. DeliveryOf(q) = d
      BY <1>7 DEF MembersOf, SourceOf, q
    <3>. QED
      BY <1>3, <1>7, <3>1 DEF SourceOwns, q, IsBinding, DeliveryOf
  <2>3. k[2] = r.attrs.task_id /\ e.kind \in TaskKinds
    BY <1>4, <1>7, <2>1
  <2>4. guard \in DOMAIN effects /\ effects[guard].payload.task_id = k[2]
    <3>1. PICK g \in EffectsOf(q) :
            /\ g.op = "first_write" /\ EffectKey(g) = guard
            /\ g.payload.task_id = q.attrs.task_id
      BY <1>2, <2>2, GuardWritten
    <3>2. Stored(g)
      BY <1>2, <3>1, KeptIsStored DEF RowsKept, q, SourceOf
    <3>3. guard \notin DOMAIN markers
      <4>1. guard[1] = "delivery_task_guard"
        OBVIOUS
      <4>. HIDE DEF guard
      <4>. QED
        BY <4>1 DEF DetailInductive, OwnersValid, Expirable, TraceKinds,
                    FactualKinds, PublicFactKinds
    <3>. QED
      BY <2>2, <3>1, <3>2, <3>3 DEF Stored
  <2>5. Heirs(d) # {}
    <3>. DEFINE h == <<"delivery_task_membership", r.attrs.task_id,
                       r.attrs.delivery_id>>
    <3>1. h \in DOMAIN effects
      BY <1>2, <2>1, GuardWritten DEF RowsKept, RequiredKept, r
    <3>2. /\ h[1] = "delivery_task_membership" /\ h[2] = k[2] /\ h[3] # d
      BY <1>3, <2>1, <2>3 DEF DeliveryOf, IsBinding
    <3>. HIDE DEF h
    <3>3. h \in Heirs(d)
      BY <2>4, <3>1, <3>2 DEF Heirs, guard
    <3>. QED
      BY <3>3
  <2>6. k \in Preserved(d)
    <3>1. k \in OwnedBy(d)
      BY <1>1, <1>7 DEF OwnedBy
    <3>2. k \in {<<"task_declaration", k[2]>>, <<"task_display_name", k[2]>>}
      BY <2>1, <2>3 DEF TaskKinds
    <3>. QED
      BY <2>4, <3>1, <3>2 DEF Preserved, guard
  <2>7. DOMAIN effects' = DOMAIN effects \ (OwnedBy(d) \ Preserved(d))
    BY <2>5 DEF Retire
  <2>. QED
    BY <1>1, <2>6, <2>7 DEF k
<1>. QED
  BY <1>5, <1>6, <1>7 DEF k

\* A retirement moves the rows of a Task to a binding to it.
LEMMA RetireOwners ==
  ASSUME ServiceInductive, NEW workload \in Workloads, SentFrom(workload),
         RowsKept(workload), NEW d, Retire(d), NEW k \in DOMAIN effects'
  PROVE  /\ k \in DOMAIN effects
         /\ effects'[k].payload = effects[k].payload
         /\ effects'[k].at = effects[k].at
         /\ SourceOwns(k)'
<1>. DEFINE heir == CHOOSE h \in Heirs(d) : \A g \in Heirs(d) : h[3] <= g[3]
            moved == IF Heirs(d) = {} THEN {} ELSE Preserved(d)
            guard == <<"delivery_task_guard", d>>
<1>1. /\ DOMAIN accepted' = DOMAIN accepted \ MembersOf(d)
      /\ \A id \in DOMAIN accepted' : accepted'[id] = accepted[id]
  BY RetireRows DEF ServiceInductive
<1>2. /\ DOMAIN effects' = DOMAIN effects \ (OwnedBy(d) \ moved)
      /\ \A h \in DOMAIN effects' :
           effects'[h] = IF h \in moved
                         THEN [effects[h] EXCEPT !.src = effects[heir].src]
                         ELSE effects[h]
  BY DEF Retire
<1>3. /\ effects[k] = [payload |-> effects[k].payload, src |-> effects[k].src,
                       at |-> effects[k].at]
      /\ effects[k].src \in DOMAIN accepted /\ k \in DOMAIN effects
      /\ SourceOwns(k)
  BY <1>2 DEF ServiceInductive, TablesOK, RowOK, RowsKept
<1>4. Heirs(d) # {} => /\ heir \in Heirs(d)
                       /\ effects[heir].src \in DOMAIN accepted \ MembersOf(d)
  BY HeirLives DEF ServiceInductive
<1>5. k \in moved => /\ Heirs(d) # {} /\ k[1] \in TaskKinds
                     /\ k[2] = effects[guard].payload.task_id
  BY DEF Preserved, TaskKinds
<1>. HIDE DEF heir, moved
<1>6. CASE k \notin moved
  <2>1. effects'[k] = effects[k] /\ effects[k].src \in DOMAIN accepted'
    BY <1>1, <1>2, <1>3, <1>6 DEF OwnedBy
  <2>2. SourceOf(k)' = SourceOf(k)
    BY <1>1, <2>1 DEF SourceOf
  <2>. QED
    BY <1>3, <2>1, <2>2 DEF SourceOwns
<1>7. CASE k \in moved
  <2>1. effects'[k] = [payload |-> effects[k].payload,
                       src |-> effects[heir].src, at |-> effects[k].at]
    BY <1>2, <1>3, <1>7
  <2>2. /\ effects'[k].payload = effects[k].payload
        /\ effects'[k].at = effects[k].at /\ effects'[k].src = effects[heir].src
    BY <2>1
  <2>3. /\ heir \in DOMAIN effects /\ heir[1] = "delivery_task_membership"
        /\ heir[2] = k[2] /\ effects[heir].src \in DOMAIN accepted'
    BY <1>1, <1>4, <1>5, <1>7 DEF Heirs
  <2>4. SourceOf(k)' = SourceOf(heir)
    BY <1>1, <2>2, <2>3 DEF SourceOf
  <2>5. PICK e \in EffectsOf(SourceOf(heir)) : EffectKey(e) = heir
    <3>1. SourceOwns(heir)
      BY <2>3 DEF RowsKept
    <3>. QED
      BY <2>3, <3>1 DEF SourceOwns, TaskKinds, Writes
  <2>6. Sound(SourceOf(heir))
    BY <1>1, <2>3, RecordSound DEF SentFrom, SourceOf
  <2>7. /\ IsBinding(SourceOf(heir))
        /\ heir = <<"delivery_task_membership", SourceOf(heir).attrs.task_id,
                    SourceOf(heir).attrs.delivery_id>>
    BY <2>3, <2>5, <2>6, TaskEffects
  <2>8. SourceOf(heir).attrs.task_id = k[2]
    BY <2>3, <2>7
  <2>. QED
    BY <1>3, <1>5, <1>7, <2>2, <2>4, <2>7, <2>8 DEF SourceOwns
<1>. QED
  BY <1>6, <1>7

\* A retirement leaves what every other record has.
LEMMA RetireKept ==
  ASSUME SharesOnlyTasks, ServiceInductive, DetailInductive,
         NEW workload \in Workloads, SentFrom(workload), RowsKept(workload),
         NEW d, Retire(d)
  PROVE  RowsKept(workload)'
<1>1. /\ DOMAIN accepted' = DOMAIN accepted \ MembersOf(d)
      /\ \A id \in DOMAIN accepted' : accepted'[id] = accepted[id]
      /\ DOMAIN markers' = DOMAIN markers \ Tombstones(d)
      /\ \A k \in DOMAIN markers' : markers'[k] = markers[k]
      /\ \A k \in DOMAIN effects' :
           /\ k \in DOMAIN effects
           /\ \/ k[1] \in TaskKinds
              \/ effects'[k] = effects[k] /\ effects[k].src \notin MembersOf(d)
      /\ \A k \in DOMAIN effects :
           effects[k].src \notin MembersOf(d) =>
             k \in DOMAIN effects' /\ effects'[k] = effects[k]
  BY RetireRows DEF ServiceInductive
<1>2. now' = now /\ plan' = plan /\ fences' = fences \cup {d}
  BY DEF Retire
<1>3. \A k \in DOMAIN effects' :
        /\ k \in DOMAIN effects /\ effects'[k].payload = effects[k].payload
        /\ effects'[k].at = effects[k].at /\ SourceOwns(k)'
  BY RetireOwners
<1>4. RequiredKept'
  BY <1>1, RetireSpares DEF RequiredKept
<1>5. Expirable \cap TaskKinds = {}
  BY DEF Expirable, TraceKinds, FactualKinds, PublicFactKinds, TaskKinds
<1>6. ASSUME NEW id \in DOMAIN accepted', NEW e \in EffectsOf(accepted'[id].rec),
             e.op = "first_write"
      PROVE  Stored(e)'
  <2>. DEFINE k == EffectKey(e)
  <2>1. Stored(e) /\ k \in DOMAIN effects'
    BY <1>1, <1>4, <1>6, KeptIsStored DEF RowsKept, RequiredKept
  <2>2. k \in DOMAIN markers => k \in DOMAIN markers'
    <3>. SUFFICES ASSUME k \in DOMAIN markers PROVE k \in DOMAIN markers'
      OBVIOUS
    <3>. HIDE DEF k
    <3>1. k[1] \notin TaskKinds /\ markers[k].src = effects[k].src
      BY <1>5 DEF DetailInductive, OwnersValid, ServiceInductive, TablesOK,
                  TombstonesMatch
    <3>. QED
      BY <1>1, <2>1, <3>1 DEF Tombstones
  <2>. QED
    BY <1>3, <2>1, <2>2 DEF Stored
<1>7. ProjectionKept'
  BY <1>6 DEF ProjectionKept, Stored, EffectsOf
<1>8. PlanDue(workload)'
  <2>. SUFFICES ASSUME NEW k \in plan.members
       PROVE  IF k \in DOMAIN effects'
              THEN effects'[k].at + TTL(plan.class) <= now
              ELSE \A r \in RecordsIn(workload) :
                     Writes(r, k) # {} => DeliveryOf(r) \in fences \cup {d}
    BY <1>2 DEF PlanDue, TTL
  <2>1. CASE k \in DOMAIN effects' \/ k \notin DOMAIN effects
    BY <1>3, <2>1 DEF RowsKept, PlanDue
  <2>2. CASE k \in DOMAIN effects \ DOMAIN effects'
    <3>. DEFINE q == SourceOf(k)
    <3>1. effects[k].src \in MembersOf(d)
      BY <1>1, <2>2
    <3>2. DeliveryOf(q) = d /\ q \in RecordsIn(workload)
      BY <3>1 DEF MembersOf, SourceOf, SentFrom
    <3>3. k[1] \notin TaskKinds
      BY <1>5 DEF DetailInductive, OwnersValid
    <3>4. Mentions(q, k)
      BY <2>2, <3>3 DEF RowsKept, SourceOwns, Mentions, Writes
    <3>. HIDE DEF q
    <3>5. ASSUME NEW r \in RecordsIn(workload), Writes(r, k) # {}
          PROVE  DeliveryOf(r) = d
      <4>1. PICK e \in EffectsOf(r) : EffectKey(e) = k
        BY <3>5 DEF Writes
      <4>2. e.kind = k[1]
        BY <4>1, RecordSound, TaskEffects
      <4>. QED
        BY <3>2, <3>3, <3>4, <4>1, <4>2 DEF SharesOnlyTasks
    <3>. QED
      BY <2>2, <3>5
  <2>. QED
    BY <2>1, <2>2
<1>. QED
  BY <1>1, <1>2, <1>3, <1>4, <1>7, <1>8 DEF RowsKept, ExpiredWhenDue

\* An expiry empties rows that were due when the plan was made and still are.
LEMMA ExpiryKept ==
  ASSUME ServiceInductive, NEW workload \in Workloads, RowsKept(workload),
         ApplyExpiry
  PROVE  RowsKept(workload)'
<1>1. /\ accepted' = accepted /\ fences' = fences /\ now' = now
      /\ plan' \in {plan, NoPlan}
  BY ExpiryRows DEF ServiceInductive
<1>2. PICK fresh : Expires(fresh)
  BY ExpiryRows DEF ServiceInductive
<1>3. ASSUME NEW k \in DOMAIN effects
      PROVE  /\ effects'[k].src = effects[k].src /\ effects'[k].at = effects[k].at
             /\ effects'[k].payload = IF k \in fresh THEN EmptyPayload
                                      ELSE effects[k].payload
  <2>1. CASE k \in fresh
    <3>1. effects'[k] = [payload |-> EmptyPayload, src |-> effects[k].src,
                         at |-> effects[k].at]
      BY <1>2, <2>1 DEF Expires
    <3>. QED
      BY <2>1, <3>1
  <2>2. CASE k \notin fresh
    BY <1>2, <2>2 DEF Expires
  <2>. QED
    BY <2>1, <2>2
<1>4. /\ DOMAIN effects' = DOMAIN effects
      /\ DOMAIN markers' = DOMAIN markers \cup fresh
      /\ \A k \in DOMAIN markers : markers'[k] = markers[k]
  BY <1>2 DEF Expires
<1>5. PlanDue(workload)'
  <2>1. CASE plan' = NoPlan
    BY <2>1 DEF PlanDue, NoPlan
  <2>2. CASE plan' = plan
    BY <1>1, <1>3, <1>4, <2>2 DEF RowsKept, PlanDue, TTL
  <2>. QED
    BY <1>1, <2>1, <2>2
<1>6. ASSUME NEW k \in DOMAIN effects'
      PROVE  SourceOwns(k)'
  <2>1. SourceOf(k)' = SourceOf(k)
    BY <1>1, <1>3, <1>4 DEF SourceOf
  <2>. QED
    BY <1>4, <2>1 DEF RowsKept, SourceOwns
<1>7. RequiredKept'
  BY <1>1, <1>4 DEF RowsKept, RequiredKept
<1>8. ASSUME NEW id \in DOMAIN accepted', NEW e \in EffectsOf(accepted'[id].rec),
             e.op = "first_write"
      PROVE  Stored(e)'
  <2>1. Stored(e)
    BY <1>1, <1>8, KeptIsStored DEF RowsKept
  <2>. QED
    BY <1>3, <1>4, <2>1 DEF Stored
<1>9. ProjectionKept'
  BY <1>8 DEF ProjectionKept, Stored, EffectsOf
<1>10. ASSUME NEW k \in DOMAIN markers'
       PROVE  markers'[k].expires \in Nat /\ markers'[k].expires <= now
  <2>1. CASE k \in DOMAIN markers
    BY <1>4, <2>1 DEF RowsKept, ExpiredWhenDue
  <2>2. CASE k \in fresh
    <3>1. /\ k \in plan.members /\ k \in DOMAIN effects
          /\ markers'[k].expires = effects[k].at + TTL(plan.class)
      BY <1>2, <2>2 DEF Expires
    <3>2. effects[k].at \in Nat /\ TTL(plan.class) \in Nat
      BY <3>1, ServiceAssumption DEF ServiceInductive, TablesOK, RowOK, TTL
    <3>3. effects[k].at + TTL(plan.class) <= now
      BY <3>1 DEF RowsKept, PlanDue
    <3>. QED
      BY <3>1, <3>2, <3>3
  <2>. QED
    BY <1>4, <2>1, <2>2
<1>. QED
  BY <1>1, <1>5, <1>6, <1>7, <1>9, <1>10 DEF RowsKept, ExpiredWhenDue

\* A plan is made of rows that are due, and waiting does not make them younger.
LEMMA PlanKept ==
  ASSUME ServiceInductive, NEW workload \in Workloads, RowsKept(workload),
         Idles \/ \E class \in Classes : PlanExpiry(class)
  PROVE  RowsKept(workload)'
<1>1. UNCHANGED <<accepted, effects, markers, fences>>
  BY DEF Idles, tables, PlanExpiry
<1>2. now \in Nat /\ now' \in {now, now + 1}
  BY ServiceAssumption DEF ServiceInductive, Idles, PlanExpiry
<1>3. PlanDue(workload)'
  <2>1. CASE Idles
    <3>. SUFFICES ASSUME NEW k \in plan.members
         PROVE  IF k \in DOMAIN effects
                THEN effects[k].at + TTL(plan.class) <= now'
                ELSE \A r \in RecordsIn(workload) :
                       Writes(r, k) # {} => DeliveryOf(r) \in fences
      BY <1>1, <2>1 DEF PlanDue, Idles, TTL
    <3>1. CASE k \in DOMAIN effects
      <4>1. effects[k].at \in Nat /\ TTL(plan.class) \in Nat
        BY <3>1, ServiceAssumption DEF ServiceInductive, TablesOK, RowOK, TTL
      <4>2. effects[k].at + TTL(plan.class) <= now
        BY <3>1 DEF RowsKept, PlanDue
      <4>. QED
        BY <1>2, <3>1, <4>1, <4>2
    <3>2. CASE k \notin DOMAIN effects
      BY <3>2 DEF RowsKept, PlanDue
    <3>. QED
      BY <3>1, <3>2
  <2>2. ASSUME NEW class \in Classes, PlanExpiry(class)
        PROVE  PlanDue(workload)'
    <3>1. PICK members \in SUBSET Due(class) :
            plan' = [class |-> class, members |-> members]
      BY <2>2 DEF PlanExpiry
    <3>2. plan'.class = class /\ plan'.members = members /\ now' = now
      BY <2>2, <3>1 DEF PlanExpiry
    <3>3. \A k \in members :
            k \in DOMAIN effects /\ effects[k].at + TTL(class) <= now
      BY DEF Due
    <3>. QED
      BY <1>1, <3>2, <3>3 DEF PlanDue, TTL
  <2>. QED
    BY <2>1, <2>2
<1>4. /\ \A k \in DOMAIN effects' : SourceOwns(k)'
      /\ RequiredKept' /\ ProjectionKept'
  BY <1>1 DEF RowsKept, SourceOwns, SourceOf, RequiredKept, ProjectionKept
<1>5. ASSUME NEW k \in DOMAIN markers'
      PROVE  markers'[k].expires \in Nat /\ markers'[k].expires <= now'
  BY <1>1, <1>2 DEF RowsKept, ExpiredWhenDue
<1>. QED
  BY <1>3, <1>4, <1>5 DEF RowsKept, ExpiredWhenDue

\* Every step leaves every record with its rows.
LEMMA KeptStep ==
  ASSUME SharesOnlyTasks, ServiceInductive, DetailInductive, KeptInductive,
         [Next]_vars
  PROVE  KeptInductive'
<1>1. PICK workload \in Workloads : SentFrom(workload) /\ RowsKept(workload)
  BY DEF KeptInductive
<1>2. SentFrom(workload)'
  BY <1>1, StepKinds
<1>3. RowsKept(workload)'
  BY <1>1, StepKinds, AcceptKept, RetireKept, ExpiryKept, PlanKept
<1>. QED
  BY <1>2, <1>3 DEF KeptInductive

\* The service starts with no records.
LEMMA KeptStart == Init => KeptInductive
<1>. SUFFICES ASSUME Init PROVE KeptInductive
  OBVIOUS
<1>1. DOMAIN accepted = {} /\ DOMAIN effects = {} /\ DOMAIN markers = {}
  BY DEF Init, EmptyTable
<1>2. \A c \in Exporters : export[c].req = NoRequest
  BY DEF Init, Quiet
<1>3. SentFrom(inbox) /\ inbox \in Workloads
  BY <1>1, <1>2 DEF Init, SentFrom
<1>4. plan.members = {}
  BY DEF Init, NoPlan
<1>5. RowsKept(inbox)
  BY <1>1, <1>4
  DEF RowsKept, PlanDue, RequiredKept, ProjectionKept, ExpiredWhenDue
<1>. QED
  BY <1>3, <1>5 DEF KeptInductive

\* If Deliveries share only the rows of their Tasks, a record has all of its
\* rows and all it refers to as long as it is in the store, and a plan is only
\* ever applied to rows that are due (apply_delivery_deletion,
\* _preserve_referenced_task, apply_expiry).
THEOREM KeptInvariant ==
  ASSUME SharesOnlyTasks
  PROVE  Spec => [](ServiceInductive /\ DetailInductive /\ KeptInductive)
<1>1. Init => ServiceInductive /\ DetailInductive /\ KeptInductive
  BY ServiceStart, DetailStart, KeptStart
<1>2. ServiceInductive /\ DetailInductive /\ KeptInductive /\ [Next]_vars
        => ServiceInductive' /\ DetailInductive' /\ KeptInductive'
  BY ServiceStep, DetailStep, KeptStep
<1>. QED
  BY <1>1, <1>2, PTL DEF Spec

\* If Deliveries share only the rows of their Tasks, every effect of every
\* accepted record is in its row, or the row has expired: late records,
\* retirements and the hand-over of Task rows leave no record with half of its
\* projection (apply_effects, _preserve_referenced_task).
THEOREM ProjectionsKept ==
  ASSUME SharesOnlyTasks
  PROVE  Spec => []ProjectionKept
<1>1. KeptInductive => ProjectionKept
  BY DEF KeptInductive, RowsKept
<1>. QED
  BY <1>1, KeptInvariant, PTL

\* If Deliveries share only the rows of their Tasks, no row expires before its
\* time, however long a plan waits and whatever is retired meanwhile
\* (plan_expiry, apply_expiry).
THEOREM ExpiriesDue ==
  ASSUME SharesOnlyTasks
  PROVE  Spec => []ExpiredWhenDue
<1>1. KeptInductive => ExpiredWhenDue
  BY DEF KeptInductive, RowsKept
<1>. QED
  BY <1>1, KeptInvariant, PTL

-------------------------------------------------------------------------------
(* Relationships *)

\* An endpoint has its kind first and then its key.
LEMMA EndpointParts ==
  ASSUME NEW kind, NEW key, IsSequence(key)
  PROVE  Endpoint(kind, key)[1] = kind /\ Tail(Endpoint(kind, key)) = key
<1>1. PICK V : key \in Seq(V)
  BY Zenon DEF IsSequence
<1>. DEFINE W == V \cup {kind}
            s == <<kind>> \o key
            t == Tail(s)
<1>2. key \in Seq(W) /\ <<kind>> \in Seq(W) /\ Len(<<kind>>) = 1
  BY <1>1
<1>3. /\ s \in Seq(W) /\ Len(s) = 1 + Len(key) /\ Len(key) \in Nat /\ s[1] = kind
      /\ \A i \in 1..Len(key) : s[1 + i] = key[i]
  BY <1>2
<1>. HIDE DEF s
<1>4. /\ t \in Seq(W) /\ Len(t) = Len(key)
      /\ \A i \in 1..Len(key) : t[i] = s[i + 1]
  BY <1>3
<1>. HIDE DEF t, W
<1>5. \A i \in 1..Len(key) : t[i] = key[i]
  BY <1>3, <1>4
<1>6. t = key
  BY <1>2, <1>4, <1>5
<1>. QED
  BY <1>3, <1>6 DEF Endpoint, s, t

\* Parts of the keys of targets, fixes, rechecks and attributions.
LEMMA KeyParts ==
  ASSUME NEW x, NEW a, NEW b, NEW c, NEW d, NEW e, NEW f
  PROVE  /\ SubSeq(<<x, a, b, c, d, e>>, 2, 3) = <<a, b>>
         /\ Tail(<<x, a, b, c, d, e>>) = <<a, b, c, d, e>>
         /\ SubSeq(<<x, a, b, c, d, e, f>>, 2, 6) = <<a, b, c, d, e>>
         /\ IsSequence(SubSeq(<<x, a, b, c, d, e, f>>, 2, 5))
<1>. DEFINE V == {x, a, b, c, d, e, f}
            six == <<x, a, b, c, d, e>>
            seven == <<x, a, b, c, d, e, f>>
<1>1. /\ six \in Seq(V) /\ Len(six) = 6 /\ six[2] = a /\ six[3] = b
      /\ six[4] = c /\ six[5] = d /\ six[6] = e
  OBVIOUS
<1>2. /\ seven \in Seq(V) /\ Len(seven) = 7 /\ seven[2] = a /\ seven[3] = b
      /\ seven[4] = c /\ seven[5] = d /\ seven[6] = e /\ seven[7] = f
  OBVIOUS
<1>3. /\ <<a, b>> \in Seq(V) /\ <<e, f>> \in Seq(V)
      /\ <<a, b, c, d, e>> \in Seq(V)
  OBVIOUS
<1>. HIDE DEF six, seven, V
<1>4. SubSeq(six, 2, 3) = <<a, b>>
  <2>1. PICK s, t : s = SubSeq(six, 2, 3) /\ t = <<a, b>>
    OBVIOUS
  <2>2. s \in Seq(V) /\ Len(s) = 2 /\ s[1] = a /\ s[2] = b
    BY <1>1, <2>1
  <2>3. t \in Seq(V) /\ Len(t) = 2 /\ t[1] = a /\ t[2] = b
    BY <1>3, <2>1
  <2>4. s = t
    BY <2>2, <2>3, SameElements
  <2>. QED
    BY <2>1, <2>4
<1>6. SubSeq(seven, 2, 6) = <<a, b, c, d, e>>
  <2>1. PICK s, t : s = SubSeq(seven, 2, 6) /\ t = <<a, b, c, d, e>>
    OBVIOUS
  <2>2. /\ s \in Seq(V) /\ Len(s) = 5 /\ s[1] = a /\ s[2] = b /\ s[3] = c
        /\ s[4] = d /\ s[5] = e
    <3>1. s \in Seq(V) /\ Len(s) = 5
      <4>1. seven \in Seq(V) /\ Len(seven) = 7
        BY <1>2
      <4>2. ASSUME NEW i \in 2..6
            PROVE  seven[i] \in V
        <5>1. i \in DOMAIN seven
          BY <4>1
        <5>. QED
          BY <4>1, <5>1
      <4>. QED
        BY <2>1, <4>1, <4>2
    <3>2. s[1] = seven[2] /\ s[2] = seven[3] /\ s[3] = seven[4]
      BY <1>2, <2>1, <3>1
    <3>3. s[4] = seven[5] /\ s[5] = seven[6]
      BY <1>2, <2>1, <3>1
    <3>. QED
      BY <1>2, <3>1, <3>2, <3>3
  <2>3. /\ t \in Seq(V) /\ Len(t) = 5 /\ t[1] = a /\ t[2] = b /\ t[3] = c
        /\ t[4] = d /\ t[5] = e
    BY <1>3, <2>1
  <2>4. s = t
    BY <2>2, <2>3, SameElements
  <2>. QED
    BY <2>1, <2>4
<1>7. Tail(six) = <<a, b, c, d, e>>
  <2>1. six = Endpoint(x, <<a, b, c, d, e>>)
    BY Flat15 DEF six, Endpoint
  <2>2. IsSequence(<<a, b, c, d, e>>)
    BY <1>3, Zenon DEF IsSequence
  <2>. QED
    BY <2>1, <2>2, EndpointParts
<1>8. IsSequence(SubSeq(seven, 2, 5))
  <2>1. seven \in Seq(V) /\ Len(seven) = 7
    BY <1>2
  <2>2. ASSUME NEW i \in 2..5
        PROVE  seven[i] \in V
    <3>1. i \in DOMAIN seven
      BY <2>1
    <3>. QED
      BY <2>1, <3>1
  <2>3. SubSeq(seven, 2, 5) \in Seq(V)
    BY <2>1, <2>2
  <2>. QED
    BY <2>3, Zenon DEF IsSequence
<1>. QED
  BY <1>4, <1>6, <1>7, <1>8 DEF six, seven

\* An element of a sequence.
LEMMA ElementOf ==
  ASSUME NEW V, NEW s \in Seq(V), NEW i \in DOMAIN s
  PROVE  s[i] \in V
  OBVIOUS

\* The last two of seven scalars.
LEMMA LastTwo ==
  ASSUME NEW V, NEW s, s \in Seq(V), Len(s) = 7
  PROVE  SubSeq(s, 6, 7) = <<s[6], s[7]>>
<1>1. PICK t, u : t = SubSeq(s, 6, 7) /\ u = <<s[6], s[7]>>
  OBVIOUS
<1>2. s[6] \in V /\ s[7] \in V
  <2>1. 6 \in DOMAIN s /\ 7 \in DOMAIN s
    OBVIOUS
  <2>. QED
    BY <2>1, ElementOf
<1>3. t \in Seq(V) /\ Len(t) = 2 /\ t[1] = s[6] /\ t[2] = s[7]
  BY <1>1, <1>2
<1>4. u \in Seq(V) /\ Len(u) = 2 /\ u[1] = s[6] /\ u[2] = s[7]
  BY <1>1, <1>2
<1>5. t = u
  BY <1>3, <1>4, SameElements
<1>. QED
  BY <1>1, <1>5

\* The Finding and the target that a key is about.
LEMMA TargetParts ==
  ASSUME NEW kind, NEW a, NEW x
  PROVE  /\ SubSeq(<<kind>> \o TargetOf(a), 2, 3) =
              <<a.finding_id, a.finding_scope_id>>
         /\ Tail(<<kind>> \o TargetOf(a)) = TargetOf(a)
         /\ SubSeq(<<kind>> \o TargetAnd(a, x), 2, 6) = TargetOf(a)
<1>1. PICK id, scope, target, aim, artifact :
        /\ id = a.finding_id /\ scope = a.finding_scope_id
        /\ target = a.finding_target_kind /\ aim = a.finding_target_id
        /\ artifact = Get(a, "finding_target_artifact_id")
  OBVIOUS
<1>2. /\ <<kind>> \o TargetOf(a) = <<kind, id, scope, target, aim, artifact>>
      /\ <<kind>> \o TargetAnd(a, x) = <<kind, id, scope, target, aim, artifact, x>>
  BY <1>1, TargetKeys, Zenon
<1>3. /\ SubSeq(<<kind, id, scope, target, aim, artifact>>, 2, 3) = <<id, scope>>
      /\ Tail(<<kind, id, scope, target, aim, artifact>>) =
           <<id, scope, target, aim, artifact>>
      /\ SubSeq(<<kind, id, scope, target, aim, artifact, x>>, 2, 6) =
           <<id, scope, target, aim, artifact>>
  BY KeyParts
<1>4. TargetOf(a) = <<id, scope, target, aim, artifact>>
  BY <1>1, Zenon DEF TargetOf
<1>. QED
  BY <1>1, <1>2, <1>3, <1>4, Zenon

\* A record mentions what the rows it writes are related to: the Finding of a
\* target, the target of a fix or a recheck, the node of a Span.
LEMMA RelatedMentioned ==
  ASSUME NEW r, Sound(r), NEW k, NEW p
  PROVE  /\ AimForm(r, k, p) =>
              Mentions(r, <<"finding_assertion", r.attrs.finding_id,
                            r.attrs.finding_scope_id>>)
         /\ FixForm(r, k, p) \/ RecheckForm(r, k, p) =>
              Mentions(r, <<"finding_target">> \o TargetOf(r.attrs))
         /\ r.type = "span" => Mentions(r, <<"trace_node", r.trace, r.span>>)
<1>1. ASSUME IsFinding(r), NEW f \in FindingElements(r.attrs)
      PROVE  Mentions(r, EffectKey(f))
  <2>1. Bound(r, f) \in EffectsOf(r)
    BY <1>1, EventSet DEF IsFinding
  <2>2. EffectKey(Bound(r, f)) = EffectKey(f)
    BY FindingAreEffects, BoundSame
  <2>. QED
    BY <2>1, <2>2 DEF Mentions
<1>2. ASSUME AimForm(r, k, p)
      PROVE  Mentions(r, <<"finding_assertion", r.attrs.finding_id,
                           r.attrs.finding_scope_id>>)
  <2>1. IsFinding(r) /\ OpenEffect(r.attrs) \in FindingElements(r.attrs)
    BY <1>2 DEF AimForm, FindingElements
  <2>. QED
    BY <1>1, <2>1, FindingKeys
<1>3. ASSUME FixForm(r, k, p) \/ RecheckForm(r, k, p)
      PROVE  Mentions(r, <<"finding_target">> \o TargetOf(r.attrs))
  <2>1. IsFinding(r) /\ AimRequired(r.attrs) \in FindingElements(r.attrs)
    BY <1>3 DEF FixForm, RecheckForm, FindingElements, Lifecycle
  <2>. QED
    BY <1>1, <2>1, FindingKeys
<1>4. ASSUME r.type = "span"
      PROVE  Mentions(r, <<"trace_node", r.trace, r.span>>)
  <2>1. NodeEffect(r) \in EffectsOf(r)
    BY <1>4, SpanSet DEF Sound, WellFormed, IsSequence
  <2>. QED
    BY <2>1, SpanKeys DEF Mentions
<1>. QED
  BY <1>2, <1>3, <1>4

\* The end of a relationship leads to a row, if it is of a kind that has rows.
Resolves(end) ==
  /\ end[1] = "FINDING" =>
       <<"finding_assertion">> \o Tail(end) \in DOMAIN effects
  /\ end[1] = "FINDING_TARGET" =>
       <<"finding_target">> \o Tail(end) \in DOMAIN effects
  /\ end[1] = "SPAN" => <<"trace_node">> \o Tail(end) \in DOMAIN effects

\* An endpoint resolves if its key is that of a row.
LEMMA EndpointResolves ==
  ASSUME NEW kind, NEW key, IsSequence(key),
         kind = "FINDING" => <<"finding_assertion">> \o key \in DOMAIN effects,
         kind = "FINDING_TARGET" => <<"finding_target">> \o key \in DOMAIN effects,
         kind = "SPAN" => <<"trace_node">> \o key \in DOMAIN effects
  PROVE  Resolves(Endpoint(kind, key))
  BY EndpointParts DEF Resolves

\* Whatever a record writes, its relationships lead to rows it mentions.
LEMMA FormResolves ==
  ASSUME NEW r, Sound(r), NEW k, NEW p, FactForm(r, k, p), k \in DOMAIN effects,
         \A m : Mentions(r, m) => m \in DOMAIN effects,
         NEW link \in Relationships(k, p, r)
  PROVE  Resolves(link[1]) /\ Resolves(link[2])
<1>0. \A a, b, c : IsSequence(<<a, b, c>>) /\ IsSequence(<<a, b>>) /\ IsSequence(<<a>>)
  BY Tuples
<1>a. ASSUME NEW end, NEW other, link = <<end, other>>, Resolves(end), Resolves(other)
      PROVE  Resolves(link[1]) /\ Resolves(link[2])
  BY <1>a
<1>1. CASE AimForm(r, k, p)
  <2>. DEFINE a == r.attrs
              key == <<a.finding_id, a.finding_scope_id>>
  <2>1. k = <<"finding_target">> \o TargetOf(a)
    BY <1>1 DEF AimForm
  <2>2. SubSeq(k, 2, 3) = key /\ Tail(k) = TargetOf(a)
    BY <2>1, TargetParts, Zenon
  <2>3. IsSequence(TargetOf(a)) /\ IsSequence(key)
    <3>1. TargetOf(a) \in Seq({a.finding_id, a.finding_scope_id,
            a.finding_target_kind, a.finding_target_id,
            Get(a, "finding_target_artifact_id")})
      BY DEF TargetOf
    <3>. QED
      BY <3>1, Tuples, Zenon DEF IsSequence
  <2>4. <<"finding_assertion">> \o key \in DOMAIN effects
    <3>1. Mentions(r, <<"finding_assertion", a.finding_id, a.finding_scope_id>>)
      BY <1>1, RelatedMentioned
    <3>2. <<"finding_assertion">> \o key =
            <<"finding_assertion", a.finding_id, a.finding_scope_id>>
      BY BindingKeys, Zenon
    <3>. QED
      BY <3>1, <3>2
  <2>5. <<"finding_target">> \o TargetOf(a) \in DOMAIN effects
    BY <1>1 DEF AimForm
  <2>6. k[1] = "finding_target"
    BY <2>1, <2>3
  <2>. HIDE DEF key, a
  <2>7. /\ Resolves(Endpoint("FINDING", key))
        /\ Resolves(Endpoint("FINDING_TARGET", TargetOf(a)))
    BY <2>3, <2>4, <2>5, EndpointResolves
  <2>8. link = <<Endpoint("FINDING", key), Endpoint("FINDING_TARGET", TargetOf(a))>>
    BY <2>2, <2>6 DEF Relationships
  <2>. QED
    BY <1>a, <2>7, <2>8
<1>2. CASE FixForm(r, k, p) \/ RecheckForm(r, k, p)
  <2>. DEFINE a == r.attrs
  <2>1. IsSequence(TargetOf(a)) /\ \A x : IsSequence(TargetAnd(a, x))
    <3>1. TargetOf(a) \in Seq({a.finding_id, a.finding_scope_id,
            a.finding_target_kind, a.finding_target_id,
            Get(a, "finding_target_artifact_id")})
      BY DEF TargetOf
    <3>. QED
      BY <3>1, Tuples, Zenon DEF IsSequence, TargetAnd
  <2>2. <<"finding_target">> \o TargetOf(a) \in DOMAIN effects
    BY <1>2, RelatedMentioned
  <2>3. \/ k = <<"finding_fix">> \o TargetAnd(a, Get(a, "fix_id"))
        \/ k = <<"finding_recheck">> \o TargetAnd(a, Get(a, "recheck_id"))
    BY <1>2 DEF FixForm, RecheckForm
  <2>. HIDE DEF a
  <2>4. ASSUME NEW kind, NEW x, k = <<kind>> \o TargetAnd(a, x)
        PROVE  SubSeq(k, 2, 6) = TargetOf(a) /\ k[1] = kind
    BY <2>1, <2>4, TargetParts, EndpointParts DEF Endpoint
  <2>5. SubSeq(k, 2, 6) = TargetOf(a) /\ k[1] \in {"finding_fix", "finding_recheck"}
    BY <2>3, <2>4
  <2>6. \A w : IsSequence(<<w>>)
    BY Tuples
  <2>7. /\ Resolves(Endpoint("FINDING_TARGET", TargetOf(a)))
        /\ \A w : Resolves(Endpoint("FIX", <<w>>))
        /\ \A w : Resolves(Endpoint("RECHECK", <<w>>))
    BY <2>1, <2>2, <2>6, EndpointResolves
  <2>8. PICK w : \/ link = <<Endpoint("FIX", <<w>>),
                             Endpoint("FINDING_TARGET", TargetOf(a))>>
                 \/ link = <<Endpoint("RECHECK", <<w>>),
                             Endpoint("FINDING_TARGET", TargetOf(a))>>
    BY <2>5 DEF Relationships
  <2>. QED
    BY <1>a, <2>7, <2>8
<1>3. CASE RootForm(r, k, p)
  <2>1. k[1] = "delivery_root_binding" /\ r.type = "span"
    BY <1>3 DEF RootForm
  <2>2. <<"trace_node">> \o <<r.trace, r.span>> \in DOMAIN effects
    <3>1. <<"trace_node">> \o <<r.trace, r.span>> =
            <<"trace_node", r.trace, r.span>>
      BY BindingKeys, Zenon
    <3>. QED
      BY <2>1, <3>1, RelatedMentioned
  <2>3. /\ Resolves(Endpoint("SPAN", <<r.trace, r.span>>))
        /\ \A w : Resolves(Endpoint("DELIVERY", <<w>>))
    BY <1>0, <2>2, EndpointResolves
  <2>4. link = <<Endpoint("SPAN", <<r.trace, r.span>>),
                 Endpoint("DELIVERY", <<p.delivery_id>>)>>
    BY <2>1 DEF Relationships
  <2>. QED
    BY <1>a, <2>3, <2>4
<1>4. CASE ModelForm(r, k, p)
  <2>1. k = <<"model_attribution", r.attrs.gen_ai_provider_name, r.attrs.model_id,
              r.attrs.role_id, r.attrs.runtime_id, r.trace, r.span>>
        /\ r.type = "span"
    BY <1>4 DEF ModelForm
  <2>2. /\ SubSeq(k, 6, 7) = <<r.trace, r.span>> /\ k[1] = "model_attribution"
        /\ IsSequence(SubSeq(k, 2, 5))
    <3>1. PICK kind, provider, model, role, runtime, trace, span :
            /\ kind = "model_attribution"
            /\ provider = r.attrs.gen_ai_provider_name
            /\ model = r.attrs.model_id /\ role = r.attrs.role_id
            /\ runtime = r.attrs.runtime_id /\ trace = r.trace /\ span = r.span
      OBVIOUS
    <3>2. PICK t : t = <<kind, provider, model, role, runtime, trace, span>>
      OBVIOUS
    <3>3. k = t
      BY <2>1, <3>1, <3>2, Zenon
    <3>4. SubSeq(t, 6, 7) = <<trace, span>> /\ IsSequence(SubSeq(t, 2, 5))
      <4>1. SubSeq(t, 6, 7) = <<trace, span>>
        <5>. DEFINE V == {kind, provider, model, role, runtime, trace, span}
        <5>1. t \in Seq(V) /\ Len(t) = 7 /\ t[6] = trace /\ t[7] = span
          BY <3>2
        <5>. HIDE DEF V
        <5>. QED
          BY <5>1, LastTwo
      <4>2. IsSequence(SubSeq(<<kind, provider, model, role, runtime, trace,
                                span>>, 2, 5))
        BY KeyParts, Zenon
      <4>. QED
        BY <3>2, <4>1, <4>2
    <3>5. k[1] = "model_attribution"
      BY <2>1
    <3>. QED
      BY <3>1, <3>3, <3>4, <3>5
  <2>3. <<"trace_node">> \o <<r.trace, r.span>> \in DOMAIN effects
    <3>1. <<"trace_node">> \o <<r.trace, r.span>> =
            <<"trace_node", r.trace, r.span>>
      BY BindingKeys, Zenon
    <3>. QED
      BY <2>1, <3>1, RelatedMentioned
  <2>5. /\ Resolves(Endpoint("SPAN", <<r.trace, r.span>>))
        /\ Resolves(Endpoint("MODEL_ROLE", SubSeq(k, 2, 5)))
    BY <1>0, <2>2, <2>3, EndpointResolves
  <2>6. link = <<Endpoint("SPAN", <<r.trace, r.span>>),
                 Endpoint("MODEL_ROLE", SubSeq(k, 2, 5))>>
    BY <2>2 DEF Relationships
  <2>. QED
    BY <1>a, <2>5, <2>6
<1>5. CASE LineageForm(r, k, p)
  <2>1. k[1] = "role_lineage"
    BY <1>5 DEF LineageForm
  <2>2. PICK v, w, x, y : link = <<Endpoint("ROLE", <<v, w>>),
                                   Endpoint("ROLE_LINEAGE", <<x, y>>)>>
    BY <2>1 DEF Relationships
  <2>3. Resolves(Endpoint("ROLE", <<v, w>>))
        /\ Resolves(Endpoint("ROLE_LINEAGE", <<x, y>>))
    BY <1>0, EndpointResolves
  <2>. QED
    BY <1>a, <2>2, <2>3
<1>6. CASE ContributionForm(r, k, p) \/ OpenForm(r, k, p) \/ StatusForm(r, k, p)
  <2>1. k[1] \in {"factual_contribution", "finding_assertion", "finding_status"}
    BY <1>6 DEF ContributionForm, OpenForm, StatusForm
  <2>2. Relationships(k, p, r) = {}
    BY <2>1 DEF Relationships
  <2>. QED
    BY <2>2
<1>. QED
  BY <1>1, <1>2, <1>3, <1>4, <1>5, <1>6 DEF FactForm

\* If Deliveries share only the rows of their Tasks, the relationships an active
\* fact shows lead to rows that exist, through every order of admission, expiry
\* and retirement (_relationships against require_ effects, apply_expiry and
\* apply_delivery_deletion).
THEOREM RelationshipsAreResolved ==
  ASSUME SharesOnlyTasks
  PROVE  Spec => []RelationshipsResolve
<1>1. ServiceInductive /\ DetailInductive /\ KeptInductive => RelationshipsResolve
  <2>. SUFFICES ASSUME ServiceInductive, DetailInductive, KeptInductive,
                       NEW k \in RowsOf(FactualKinds), k \notin DOMAIN markers,
                       NEW link \in Relationships(k, effects[k].payload, SourceOf(k))
       PROVE  Resolves(link[1]) /\ Resolves(link[2])
    BY DEF RelationshipsResolve, Resolves
  <2>1. /\ FactForm(SourceOf(k), k, effects[k].payload) /\ Sound(SourceOf(k))
        /\ effects[k].src \in DOMAIN accepted /\ k \in DOMAIN effects
    BY FactWritten DEF RowsOf
  <2>2. \A m : Mentions(SourceOf(k), m) => m \in DOMAIN effects
    BY <2>1 DEF KeptInductive, RowsKept, RequiredKept, Mentions, SourceOf
  <2>. QED
    BY <2>1, <2>2, FormResolves
<1>. QED
  BY <1>1, KeptInvariant, PTL

-------------------------------------------------------------------------------
(* What a tombstone says of a fact *)

\* The pairs that are left when those before and after X are taken away.
LEMMA OmitMiddle ==
  ASSUME NEW names, NEW X, IsSequence(X), NEW m \in Nat, Len(X) + 3 <= m,
         NEW pairs, DOMAIN pairs = 1..m,
         \A i \in 1..Len(X) : pairs[3 + i] = X[i] /\ X[i][1] \notin names,
         \A i \in (1..3) \cup ((4 + Len(X))..m) : pairs[i][1] \in names
  PROVE  Omit(pairs, names) = X
<1>. DEFINE kept == {i \in DOMAIN pairs : pairs[i][1] \notin names}
            nth(n) == CHOOSE i \in kept : Cardinality({j \in kept : j <= i}) = n
<1>1. PICK n \in Nat : n = Len(X) /\ DOMAIN X = 1..n /\ X = [i \in 1..n |-> X[i]]
  BY DEF IsSequence
<1>2. \A i \in 4..(3 + n) : pairs[i][1] \notin names
  <2>. SUFFICES ASSUME NEW i \in 4..(3 + n) PROVE pairs[i][1] \notin names
    OBVIOUS
  <2>1. PICK j : j = i - 3
    OBVIOUS
  <2>2. j \in 1..n /\ i = 3 + j
    BY <2>1
  <2>. QED
    BY <1>1, <2>2
<1>3. kept = 4..(3 + n)
  <2>1. \A i \in 1..m : i \in 4..(3 + n) \/ i \in (1..3) \cup ((4 + n)..m)
    OBVIOUS
  <2>2. 4..(3 + n) \subseteq 1..m
    BY <1>1
  <2>. QED
    BY <1>1, <1>2, <2>1, <2>2
<1>. HIDE DEF kept
<1>4. Cardinality(kept) = n
  <2>1. Cardinality(4..(3 + n)) = IF 4 > 3 + n THEN 0 ELSE (3 + n) - 4 + 1
    BY FS_Interval
  <2>. QED
    BY <1>3, <2>1
<1>5. \A i \in kept : Cardinality({j \in kept : j <= i}) = i - 3
  <2>. SUFFICES ASSUME NEW i \in kept
                PROVE  Cardinality({j \in kept : j <= i}) = i - 3
    OBVIOUS
  <2>1. {j \in kept : j <= i} = 4..i
    BY <1>3
  <2>2. i \in Int /\ i >= 4
    BY <1>3
  <2>3. Cardinality(4..i) = IF 4 > i THEN 0 ELSE i - 4 + 1
    BY <2>2, FS_Interval
  <2>4. Cardinality(4..i) = i - 3
    BY <2>2, <2>3
  <2>. QED
    BY <2>1, <2>4
<1>6. \A q \in 1..n : nth(q) = 3 + q
  <2>. SUFFICES ASSUME NEW q \in 1..n PROVE nth(q) = 3 + q
    OBVIOUS
  <2>1. 3 + q \in kept /\ Cardinality({j \in kept : j <= 3 + q}) = q
    BY <1>3, <1>5
  <2>2. \A i \in kept : Cardinality({j \in kept : j <= i}) = q => i = 3 + q
    BY <1>3, <1>5
  <2>. QED
    BY <2>1, <2>2
<1>. HIDE DEF nth
<1>7. Omit(pairs, names) = [q \in 1..n |-> pairs[nth(q)]]
  BY <1>4 DEF Omit, kept, nth
<1>8. \A q \in 1..n : pairs[nth(q)] = X[q]
  BY <1>1, <1>6
<1>. QED
  BY <1>1, <1>7, <1>8

\* The attributes of the dimensions.
LEMMA DimensionNames ==
  /\ NameOf(C(6)) = "runtime_id" /\ NameOf(C(13)) = "review_lens"
  /\ NameOf(C(14)) = "review_scope" /\ NameOf(C(28)) = "artifact_id"
  /\ NameOf(C(29)) = "artifact_digest" /\ NameOf(C(30)) = "role_id"
  /\ NameOf(C(42)) = "usage_kind" /\ NameOf(C(43)) = "usage_unit"
  /\ NameOf(C(44)) = "usage_source" /\ NameOf(C(45)) = "usage_source_id"
  /\ NameOf(C(57)) = "model_id"
  /\ NameOf(I(5)) = "coverage_dimension" /\ NameOf(I(8)) = "coverage_scope"
  /\ NameOf(I(9)) = "coverage_tool_id" /\ NameOf(I(10)) = "coverage_format"
  /\ NameOf(Plain("gen_ai_provider_name")) = "gen_ai_provider_name"
<1>1. ASSUME NEW n \in DOMAIN CommonNames, NEW name, CommonNames[n] = name,
             \A i \in DOMAIN CommonNames : CommonNames[i] = name => i = n,
             \A i \in DOMAIN ImplementationNames : ImplementationNames[i] # name,
             \A i \in DOMAIN SystemDesignNames : SystemDesignNames[i] # name,
             name \notin StandardNames
      PROVE  NameOf(C(n)) = name
  <2>1. name \in DOMAIN Numbered("C", CommonNames)
    BY <1>1, NumberedAt
  <2>2. name \in Registered
    BY <2>1 DEF Registered, FieldIds, Extend
  <2>3. FieldId(name) = C(n)
    BY <1>1, <2>2, FieldIdAt
  <2>. QED
    BY <2>2, <2>3, NameOfField
<1>2. ASSUME NEW n \in DOMAIN ImplementationNames, NEW name,
             ImplementationNames[n] = name,
             \A i \in DOMAIN ImplementationNames :
               ImplementationNames[i] = name => i = n,
             \A i \in DOMAIN CommonNames : CommonNames[i] # name,
             \A i \in DOMAIN SystemDesignNames : SystemDesignNames[i] # name,
             name \notin StandardNames
      PROVE  NameOf(I(n)) = name
  <2>1. name \in DOMAIN Numbered("I", ImplementationNames)
    BY <1>2, NumberedAt
  <2>2. name \in Registered
    BY <2>1 DEF Registered, FieldIds, Extend
  <2>3. FieldId(name) = I(n)
    BY <1>2, <2>2, FieldIdAt
  <2>. QED
    BY <2>2, <2>3, NameOfField
<1>. DEFINE common == {"runtime_id", "review_lens", "review_scope", "artifact_id",
                       "artifact_digest", "role_id", "usage_kind", "usage_unit",
                       "usage_source", "usage_source_id", "model_id"}
            implementation == {"coverage_dimension", "coverage_scope",
                               "coverage_tool_id", "coverage_format"}
<1>3. /\ (common \cup implementation) \cap StandardNames = {}
      /\ \A name \in common \cup implementation :
           \A i \in DOMAIN SystemDesignNames : SystemDesignNames[i] # name
      /\ \A name \in common :
           \A i \in DOMAIN ImplementationNames : ImplementationNames[i] # name
  BY DEF StandardNames, SystemDesignNames, ImplementationNames
<1>4. \A name \in implementation : \A i \in DOMAIN CommonNames : CommonNames[i] # name
  BY DEF CommonNames
<1>5. NameOf(C(6)) = "runtime_id"
  <2>1. /\ 6 \in DOMAIN CommonNames /\ CommonNames[6] = "runtime_id"
        /\ \A i \in DOMAIN CommonNames : CommonNames[i] = "runtime_id" => i = 6
    BY DEF CommonNames
  <2>. QED
    BY <1>1, <1>3, <2>1
<1>6. NameOf(C(13)) = "review_lens"
  <2>1. /\ 13 \in DOMAIN CommonNames /\ CommonNames[13] = "review_lens"
        /\ \A i \in DOMAIN CommonNames : CommonNames[i] = "review_lens" => i = 13
    BY DEF CommonNames
  <2>. QED
    BY <1>1, <1>3, <2>1
<1>7. NameOf(C(14)) = "review_scope"
  <2>1. /\ 14 \in DOMAIN CommonNames /\ CommonNames[14] = "review_scope"
        /\ \A i \in DOMAIN CommonNames : CommonNames[i] = "review_scope" => i = 14
    BY DEF CommonNames
  <2>. QED
    BY <1>1, <1>3, <2>1
<1>8. NameOf(C(28)) = "artifact_id"
  <2>1. /\ 28 \in DOMAIN CommonNames /\ CommonNames[28] = "artifact_id"
        /\ \A i \in DOMAIN CommonNames : CommonNames[i] = "artifact_id" => i = 28
    BY DEF CommonNames
  <2>. QED
    BY <1>1, <1>3, <2>1
<1>9. NameOf(C(29)) = "artifact_digest"
  <2>1. /\ 29 \in DOMAIN CommonNames /\ CommonNames[29] = "artifact_digest"
        /\ \A i \in DOMAIN CommonNames : CommonNames[i] = "artifact_digest" => i = 29
    BY DEF CommonNames
  <2>. QED
    BY <1>1, <1>3, <2>1
<1>10. NameOf(C(30)) = "role_id"
  <2>1. /\ 30 \in DOMAIN CommonNames /\ CommonNames[30] = "role_id"
        /\ \A i \in DOMAIN CommonNames : CommonNames[i] = "role_id" => i = 30
    BY DEF CommonNames
  <2>. QED
    BY <1>1, <1>3, <2>1
<1>11. NameOf(C(42)) = "usage_kind"
  <2>1. /\ 42 \in DOMAIN CommonNames /\ CommonNames[42] = "usage_kind"
        /\ \A i \in DOMAIN CommonNames : CommonNames[i] = "usage_kind" => i = 42
    BY DEF CommonNames
  <2>. QED
    BY <1>1, <1>3, <2>1
<1>12. NameOf(C(43)) = "usage_unit"
  <2>1. /\ 43 \in DOMAIN CommonNames /\ CommonNames[43] = "usage_unit"
        /\ \A i \in DOMAIN CommonNames : CommonNames[i] = "usage_unit" => i = 43
    BY DEF CommonNames
  <2>. QED
    BY <1>1, <1>3, <2>1
<1>13. NameOf(C(44)) = "usage_source"
  <2>1. /\ 44 \in DOMAIN CommonNames /\ CommonNames[44] = "usage_source"
        /\ \A i \in DOMAIN CommonNames : CommonNames[i] = "usage_source" => i = 44
    BY DEF CommonNames
  <2>. QED
    BY <1>1, <1>3, <2>1
<1>14. NameOf(C(45)) = "usage_source_id"
  <2>1. /\ 45 \in DOMAIN CommonNames /\ CommonNames[45] = "usage_source_id"
        /\ \A i \in DOMAIN CommonNames : CommonNames[i] = "usage_source_id" => i = 45
    BY DEF CommonNames
  <2>. QED
    BY <1>1, <1>3, <2>1
<1>15. NameOf(C(57)) = "model_id"
  <2>1. /\ 57 \in DOMAIN CommonNames /\ CommonNames[57] = "model_id"
        /\ \A i \in DOMAIN CommonNames : CommonNames[i] = "model_id" => i = 57
    BY DEF CommonNames
  <2>. QED
    BY <1>1, <1>3, <2>1
<1>16. NameOf(I(5)) = "coverage_dimension"
  <2>1. /\ 5 \in DOMAIN ImplementationNames /\ ImplementationNames[5] = "coverage_dimension"
        /\ \A i \in DOMAIN ImplementationNames :
             ImplementationNames[i] = "coverage_dimension" => i = 5
    BY DEF ImplementationNames
  <2>. QED
    BY <1>2, <1>3, <1>4, <2>1
<1>17. NameOf(I(8)) = "coverage_scope"
  <2>1. /\ 8 \in DOMAIN ImplementationNames /\ ImplementationNames[8] = "coverage_scope"
        /\ \A i \in DOMAIN ImplementationNames :
             ImplementationNames[i] = "coverage_scope" => i = 8
    BY DEF ImplementationNames
  <2>. QED
    BY <1>2, <1>3, <1>4, <2>1
<1>18. NameOf(I(9)) = "coverage_tool_id"
  <2>1. /\ 9 \in DOMAIN ImplementationNames /\ ImplementationNames[9] = "coverage_tool_id"
        /\ \A i \in DOMAIN ImplementationNames :
             ImplementationNames[i] = "coverage_tool_id" => i = 9
    BY DEF ImplementationNames
  <2>. QED
    BY <1>2, <1>3, <1>4, <2>1
<1>19. NameOf(I(10)) = "coverage_format"
  <2>1. /\ 10 \in DOMAIN ImplementationNames /\ ImplementationNames[10] = "coverage_format"
        /\ \A i \in DOMAIN ImplementationNames :
             ImplementationNames[i] = "coverage_format" => i = 10
    BY DEF ImplementationNames
  <2>. QED
    BY <1>2, <1>3, <1>4, <2>1
<1>20. NameOf(Plain("gen_ai_provider_name")) = "gen_ai_provider_name"
  <2>. DEFINE name == "gen_ai_provider_name"
  <2>1. name \in StandardNames \ {"error_type"}
    BY DEF StandardNames
  <2>2. /\ \A i \in DOMAIN CommonNames : CommonNames[i] # name
        /\ \A i \in DOMAIN ImplementationNames : ImplementationNames[i] # name
        /\ \A i \in DOMAIN SystemDesignNames : SystemDesignNames[i] # name
    BY DEF CommonNames, ImplementationNames, SystemDesignNames
  <2>3. name \in Registered
    BY <2>1 DEF Registered
  <2>4. FieldId(name) = Plain(name)
    BY <2>2, <2>3, FieldIdAt
  <2>. QED
    BY <2>3, <2>4, NameOfField
<1>. QED
  BY <1>5, <1>6, <1>7, <1>8, <1>9, <1>10, <1>11, <1>12, <1>13, <1>14, <1>15, <1>16, <1>17, <1>18, <1>19, <1>20

\* The value under a name that is there once.
LEMMA LookupOne ==
  ASSUME NEW pairs, NEW name, NEW n \in DOMAIN pairs, pairs[n][1] = Plain(name),
         \A i \in DOMAIN pairs : pairs[i][1] = Plain(name) => i = n
  PROVE  Lookup(pairs, name) = pairs[n][2]
<1>1. PICK found : found = {i \in DOMAIN pairs : pairs[i][1] = Plain(name)}
  OBVIOUS
<1>2. found = {n}
  BY <1>1
<1>3. (CHOOSE i \in found : TRUE) = n
  BY <1>2
<1>4. Lookup(pairs, name) =
        IF found = {} THEN Null ELSE pairs[CHOOSE i \in found : TRUE][2]
  BY <1>1 DEF Lookup
<1>. QED
  BY <1>2, <1>3, <1>4

\* Only the root of a Delivery has its name among the dimensions.
LEMMA OrderApart ==
  ASSUME NEW kind, NEW event, kind # "delivery_root_binding",
         NEW i \in DOMAIN SuffixOrder(kind, event)
  PROVE  SuffixOrder(kind, event)[i] # Plain("delivery_id")
<1>1. PICK d : d = Plain("delivery_id")
  OBVIOUS
<1>2. \A j : C(j) # d /\ I(j) # d
  BY <1>1 DEF C, I, Plain
<1>3. Plain("gen_ai_provider_name") # d
  BY <1>1 DEF Plain
<1>4. ASSUME NEW x, NEW y, NEW z, NEW w, d \notin {x, y, z, w}
      PROVE  /\ \A j \in DOMAIN <<x, y, z, w>> : <<x, y, z, w>>[j] # d
             /\ \A j \in DOMAIN <<x, y>> : <<x, y>>[j] # d
  BY <1>4
<1>5. \A j \in DOMAIN << >> : << >>[j] # d
  OBVIOUS
<1>6. \A j \in DOMAIN DimensionOrder(event) : DimensionOrder(event)[j] # d
  <2>1. d \notin {C(42), C(43), C(44), C(45)} /\ d \notin {I(5), I(8), I(9), I(10)}
        /\ d \notin {C(28), C(29), C(28), C(29)}
        /\ d \notin {C(13), C(14), C(13), C(14)}
    BY <1>2
  <2>. QED
    BY <1>4, <1>5, <2>1 DEF DimensionOrder
<1>7. /\ d \notin {C(13), C(14), C(13), C(14)}
      /\ d \notin {Plain("gen_ai_provider_name"), C(57), C(30), C(6)}
  BY <1>2, <1>3
<1>8. \A j \in DOMAIN SuffixOrder(kind, event) : SuffixOrder(kind, event)[j] # d
  BY <1>4, <1>5, <1>6, <1>7 DEF SuffixOrder
<1>. QED
  BY <1>1, <1>8

\* What is read from the tombstone that a row leaves.
LEMMA ExpiredIs ==
  ASSUME NEW k, NEW p, NEW family,
         NEW pairs, pairs = ProjectionCompatibility(k, p, family)
  PROVE  ExpiredCompatibility(pairs) =
           [family_schema |-> family, event_name |-> EventOf(k),
            completeness |-> Get(AttributesOf(k, p), "summary_state"),
            dimensions |-> IF k[1] = "delivery_root_binding" THEN << >>
                           ELSE Suffix(k, p)]
<1>1. PICK X, Y : X = Suffix(k, p) /\ Y = TracePair(p)
  OBVIOUS
<1>2. PICK completeness : completeness = Get(AttributesOf(k, p), "summary_state")
  OBVIOUS
<1>3. PICK event : event = EventOf(k)
  OBVIOUS
<1>4. PICK rest : rest = X \o Y
  OBVIOUS
<1>5. /\ pairs = BasePairs(family, event, completeness) \o rest
      /\ IsSequence(X) /\ IsSequence(Y)
  BY <1>1, <1>2, <1>3, <1>4, PairsAre
<1>6. /\ IsSequence(rest) /\ Len(rest) = Len(X) + Len(Y)
      /\ Len(X) \in Nat /\ Len(Y) \in Nat
      /\ \A i \in 1..Len(X) : rest[i] = X[i]
      /\ \A i \in 1..Len(Y) : rest[Len(X) + i] = Y[i]
  BY <1>4, <1>5, Joined
<1>7. /\ DOMAIN pairs = 1..(3 + Len(rest))
      /\ pairs[1] = <<Plain("family_schema"), family>>
      /\ pairs[2] = <<Plain("event_name"), event>>
      /\ pairs[3] = <<Plain("completeness"), completeness>>
      /\ \A i \in 1..Len(rest) : pairs[3 + i] = rest[i]
  <2>1. pairs = BasePairs(family, event, completeness) \o rest /\ IsSequence(rest)
    BY <1>5, <1>6
  <2>. QED
    BY <2>1, BaseFirst
<1>8. PICK x, y, z, d, t :
        /\ x = Plain("family_schema") /\ y = Plain("event_name")
        /\ z = Plain("completeness") /\ d = Plain("delivery_id")
        /\ t = Plain("trace_id")
  OBVIOUS
<1>9. /\ x # y /\ x # z /\ y # z /\ t \notin {x, y, z} /\ d \notin {x, y, z}
      /\ d # t /\ BaseNames = {x, y, z}
  BY <1>8 DEF Plain, BaseNames
<1>10. PICK m, n : m = Len(X) /\ n = Len(Y)
  OBVIOUS
<1>11. \A i \in 1..n : Y[i][1] = t
  <2>1. PICK pair : pair = <<t, Get(p, "_otel_context")[1]>>
    OBVIOUS
  <2>2. Y = IF "_otel_context" \in DOMAIN p THEN <<pair>> ELSE << >>
    BY <1>1, <1>8, <2>1 DEF TracePair, If
  <2>3. pair[1] = t
    BY <2>1
  <2>. QED
    BY <1>10, <2>2, <2>3
<1>12. /\ \A i \in 1..m : X[i][1] \notin {x, y, z, t}
       /\ k[1] # "delivery_root_binding" => \A i \in 1..m : X[i][1] # d
  <2>1. PICK order : order = SuffixOrder(k[1], EventOf(k))
    OBVIOUS
  <2>2. PICK q \in 0..4 : Listed(X, order, q) /\ Names(order, q)
    BY <1>1, <2>1, SuffixListed
  <2>3. \A i \in 1..m : \E j \in 1..q : X[i][1] = order[j]
    BY <1>10, <2>2 DEF Listed
  <2>4. /\ \A j \in 1..q : order[j] \notin BaseNames /\ order[j] # t
        /\ DOMAIN order = 1..q
    BY <1>8, <2>2 DEF Names, Distinct
  <2>5. k[1] # "delivery_root_binding" => \A j \in DOMAIN order : order[j] # d
    BY <1>8, <2>1, OrderApart
  <2>. QED
    BY <1>9, <2>3, <2>4, <2>5
<1>13. /\ m \in Nat /\ n \in Nat /\ DOMAIN pairs = 1..(3 + m + n)
       /\ \A i \in 1..m : pairs[3 + i] = X[i]
       /\ \A i \in 1..n : pairs[3 + m + i] = Y[i]
  <2>1. /\ m \in Nat /\ n \in Nat /\ Len(rest) = m + n
    BY <1>6, <1>10
  <2>2. \A i \in 1..m : i \in 1..(m + n)
    BY <2>1
  <2>3. \A i \in 1..n : m + i \in 1..(m + n) /\ 3 + m + i = 3 + (m + i)
    BY <2>1
  <2>4. \A i \in 1..n : pairs[3 + (m + i)] = Y[i]
    BY <1>6, <1>7, <1>10, <2>1, <2>3
  <2>5. \A i \in 1..m : pairs[3 + i] = X[i]
    BY <1>6, <1>7, <1>10, <2>1, <2>2
  <2>6. 3 + (m + n) = 3 + m + n
    BY <2>1
  <2>. QED
    BY <1>7, <2>1, <2>3, <2>4, <2>5, <2>6
<1>14. \A i \in 4..(3 + m + n) : \/ \E j \in 1..m : i = 3 + j
                                 \/ \E j \in 1..n : i = 3 + m + j
  <2>. SUFFICES ASSUME NEW i \in 4..(3 + m + n)
                PROVE  \/ \E j \in 1..m : i = 3 + j
                       \/ \E j \in 1..n : i = 3 + m + j
    OBVIOUS
  <2>1. CASE i <= 3 + m
    <3>1. i - 3 \in 1..m /\ i = 3 + (i - 3)
      BY <1>13, <2>1
    <3>. QED
      BY <3>1
  <2>2. CASE i > 3 + m
    <3>1. i - 3 - m \in 1..n /\ i = 3 + m + (i - 3 - m)
      BY <1>13, <2>2
    <3>. QED
      BY <3>1
  <2>. QED
    BY <1>13, <2>1, <2>2
<1>15. \A i \in 4..(3 + m + n) : \/ \E j \in 1..m : pairs[i] = X[j]
                                 \/ pairs[i][1] = t
  <2>. SUFFICES ASSUME NEW i \in 4..(3 + m + n)
                PROVE  (\E j \in 1..m : pairs[i] = X[j]) \/ pairs[i][1] = t
    OBVIOUS
  <2>1. CASE \E j \in 1..m : i = 3 + j
    BY <1>13, <2>1
  <2>2. CASE \E j \in 1..n : i = 3 + m + j
    <3>1. PICK j \in 1..n : i = 3 + m + j
      BY <2>2
    <3>2. pairs[3 + m + j] = Y[j] /\ Y[j][1] = t
      BY <1>11, <1>13
    <3>. QED
      BY <3>1, <3>2
  <2>. QED
    BY <1>14, <2>1, <2>2
<1>a. \A i \in 4..(3 + m + n) : pairs[i][1] \notin {x, y, z}
  BY <1>9, <1>12, <1>15
<1>16. /\ pairs[1][1] = x /\ pairs[2][1] = y /\ pairs[3][1] = z
       /\ pairs[1][2] = family /\ pairs[2][2] = event /\ pairs[3][2] = completeness
  BY <1>7, <1>8
<1>17. \A i \in DOMAIN pairs : i = 1 \/ i = 2 \/ i = 3 \/ i \in 4..(3 + m + n)
  BY <1>13
<1>18. {1, 2, 3} \subseteq DOMAIN pairs
  BY <1>13
<1>19. /\ Lookup(pairs, "family_schema") = family
       /\ Lookup(pairs, "event_name") = event
       /\ Lookup(pairs, "completeness") = completeness
  <2>1. /\ \A i \in DOMAIN pairs : pairs[i][1] = x => i = 1
        /\ \A i \in DOMAIN pairs : pairs[i][1] = y => i = 2
        /\ \A i \in DOMAIN pairs : pairs[i][1] = z => i = 3
    BY <1>9, <1>a, <1>16, <1>17
  <2>2. /\ Lookup(pairs, "family_schema") = pairs[1][2]
        /\ Lookup(pairs, "event_name") = pairs[2][2]
        /\ Lookup(pairs, "completeness") = pairs[3][2]
    BY <1>8, <1>16, <1>18, <2>1, LookupOne
  <2>. QED
    BY <1>16, <2>2
<1>20. PICK names : names = {x, y, z, d, t}
  OBVIOUS
<1>21. Omit(pairs, names) = IF k[1] = "delivery_root_binding" THEN << >> ELSE X
  <2>1. CASE k[1] # "delivery_root_binding"
    <3>1. \A i \in 1..Len(X) : pairs[3 + i] = X[i] /\ X[i][1] \notin names
      BY <1>10, <1>12, <1>13, <1>20, <2>1
    <3>2. \A i \in (1..3) \cup ((4 + Len(X))..(3 + m + n)) : pairs[i][1] \in names
      <4>1. \A i \in 1..3 : i = 1 \/ i = 2 \/ i = 3
        OBVIOUS
      <4>2. \A i \in (4 + m)..(3 + m + n) : \E j \in 1..n : i = 3 + m + j
        BY <1>13, <1>14
      <4>. QED
        BY <1>10, <1>11, <1>13, <1>16, <1>20, <4>1, <4>2
    <3>3. 3 + m + n \in Nat /\ Len(X) + 3 <= 3 + m + n
      BY <1>10, <1>13
    <3>4. Omit(pairs, names) = X
      <4>1. PICK q \in Nat : q = 3 + m + n
        BY <3>3
      <4>2. DOMAIN pairs = 1..q /\ Len(X) + 3 <= q
        BY <1>13, <3>3, <4>1
      <4>3. \A i \in (1..3) \cup ((4 + Len(X))..q) : pairs[i][1] \in names
        BY <3>2, <4>1
      <4>. QED
        BY <1>5, <3>1, <4>2, <4>3, OmitMiddle
    <3>. QED
      BY <2>1, <3>4
  <2>2. CASE k[1] = "delivery_root_binding"
    <3>1. PICK empty : empty = << >>
      OBVIOUS
    <3>2. IsSequence(empty)
      BY <3>1, ElementsFew
    <3>3. Len(empty) = 0 /\ 1..0 = {}
      BY <3>1
    <3>4. \A i \in 1..m : X[i][1] = d
      <4>1. PICK pair : pair = <<d, p.delivery_id>>
        OBVIOUS
      <4>2. X = <<pair>>
        BY <1>1, <1>8, <2>2, <4>1 DEF Suffix
      <4>3. pair[1] = d
        BY <4>1
      <4>. QED
        BY <1>10, <4>2, <4>3
    <3>5. \A i \in (1..3) \cup ((4 + Len(empty))..(3 + m + n)) : pairs[i][1] \in names
      <4>1. \A i \in 1..3 : i = 1 \/ i = 2 \/ i = 3
        OBVIOUS
      <4>2. \A i \in 4..(3 + m + n) : pairs[i][1] \in {d, t}
        BY <1>15, <3>4
      <4>. QED
        BY <1>16, <1>20, <3>3, <4>1, <4>2
    <3>6. 3 + m + n \in Nat /\ Len(empty) + 3 <= 3 + m + n
      BY <1>13, <3>3
    <3>7. Omit(pairs, names) = empty
      <4>1. PICK q \in Nat : q = 3 + m + n
        BY <3>6
      <4>2. DOMAIN pairs = 1..q /\ Len(empty) + 3 <= q
        BY <1>13, <3>6, <4>1
      <4>3. \A i \in (1..3) \cup ((4 + Len(empty))..q) : pairs[i][1] \in names
        BY <3>5, <4>1
      <4>4. \A i \in 1..Len(empty) :
              pairs[3 + i] = empty[i] /\ empty[i][1] \notin names
        BY <3>3
      <4>. QED
        BY <3>2, <4>2, <4>3, <4>4, OmitMiddle
    <3>. QED
      BY <2>2, <3>1, <3>7
  <2>. QED
    BY <2>1, <2>2
<1>22. ExpiredCompatibility(pairs) =
         [family_schema |-> Lookup(pairs, "family_schema"),
          event_name |-> Lookup(pairs, "event_name"),
          completeness |-> Lookup(pairs, "completeness"),
          dimensions |-> Omit(pairs, names)]
  BY <1>8, <1>20 DEF ExpiredCompatibility
<1>. QED
  BY <1>1, <1>2, <1>3, <1>19, <1>21, <1>22

\* The attributes a fact shows, but for those of a contribution, have no state.
LEMMA NoSummaryState ==
  ASSUME NEW r, Sound(r), NEW k, NEW p, FactForm(r, k, p),
         k[1] # "factual_contribution"
  PROVE  "summary_state" \notin DOMAIN ProjectedAttributes(k, p)
<1>1. CASE RootForm(r, k, p)
  <2>1. k[1] = "delivery_root_binding"
    BY <1>1 DEF RootForm
  <2>. QED
    BY <2>1 DEF ProjectedAttributes, Pick
<1>2. CASE ModelForm(r, k, p)
  <2>1. k[1] = "model_attribution"
    BY <1>2 DEF ModelForm
  <2>. QED
    BY <2>1 DEF ProjectedAttributes
<1>3. CASE LineageForm(r, k, p)
  <2>1. k[1] = "role_lineage" /\ DOMAIN p \subseteq DOMAIN r.attrs \cup {"_otel_context"}
    BY <1>3 DEF LineageForm, Carries, Placed
  <2>2. "summary_state" \notin DOMAIN r.attrs
    <3>1. DOMAIN r.attrs \subseteq
            Required("role.lineage") \cup Optional("role.lineage") \cup {"delivery_id"}
      BY <1>3 DEF LineageForm, Sound, SoundEvent
    <3>. QED
      BY <3>1 DEF Required, Optional, FamilyNames
  <2>. QED
    BY <2>1, <2>2 DEF ProjectedAttributes, Pick
<1>4. CASE OpenForm(r, k, p)
  <2>1. /\ k[1] = "finding_assertion"
        /\ DOMAIN p \subseteq InvariantNames \cup ActorNames \cup ArtifactNames
                                \cup {"_otel_context"}
    <3>1. OpenEffect(r.attrs).payload =
            Pick(r.attrs, InvariantNames \cup ActorNames \cup ArtifactNames)
      BY DEF OpenEffect, FirstWriteOf, ArtifactNames
    <3>2. Carries(r, p, OpenEffect(r.attrs).payload) /\ k[1] = "finding_assertion"
      BY <1>4 DEF OpenForm
    <3>. QED
      BY <3>1, <3>2 DEF Carries, Placed, Pick
  <2>. QED
    BY <2>1 DEF ProjectedAttributes, Pick, InvariantNames, ActorNames, ArtifactNames
<1>5. CASE AimForm(r, k, p)
  <2>1. k[1] = "finding_target"
    BY <1>5, FormKinds
  <2>. QED
    BY <2>1 DEF ProjectedAttributes, Extend, FindingNamed, EmptyPayload
<1>6. CASE StatusForm(r, k, p)
  <2>1. k[1] = "finding_status"
    BY <1>6 DEF StatusForm
  <2>. QED
    BY <2>1 DEF ProjectedAttributes, Extend, FindingNamed, Pick, ActorNames
<1>7. CASE FixForm(r, k, p)
  <2>1. k[1] = "finding_fix"
    BY <1>7, FormKinds
  <2>. QED
    BY <2>1 DEF ProjectedAttributes, Extend, FindingNamed, Pick, ActorNames
<1>8. CASE RecheckForm(r, k, p)
  <2>1. k[1] = "finding_recheck"
    BY <1>8, FormKinds
  <2>. QED
    BY <2>1
    DEF ProjectedAttributes, Extend, FindingNamed, Pick, ActorNames, EmptyPayload
<1>9. CASE ContributionForm(r, k, p)
  BY <1>9 DEF ContributionForm
<1>. QED
  BY <1>1, <1>2, <1>3, <1>4, <1>5, <1>6, <1>7, <1>8, <1>9 DEF FactForm

\* The coordinate of a field is the dimension of its attribute.
LEMMA CoordinateIs ==
  ASSUME NEW field, NEW a, NEW name, NameOf(field) = name
  PROVE  Coordinate(field, a) = Dimension(field, a, name)
  BY DEF Coordinate, Dimension

\* The coordinates that an active fact shows are those its tombstone keeps.
LEMMA CoordinatesAre ==
  ASSUME NEW r, Sound(r), NEW k, NEW p, FactForm(r, k, p)
  PROVE  CoordinateFields(k[1], EventOf(k), ProjectedAttributes(k, p)) =
           IF k[1] = "delivery_root_binding" THEN << >> ELSE Suffix(k, p)
<1>1. PICK a : a = ProjectedAttributes(k, p)
  OBVIOUS
<1>2. PICK kind, event : kind = k[1] /\ event = EventOf(k)
  OBVIOUS
<1>3. CASE kind = "factual_contribution"
  <2>1. /\ EventOf(k) = k[2] /\ a = Get(p, "attributes")
        /\ Suffix(k, p) = CompatibilityDimensions(k[2], p.attributes)
    BY <1>1, <1>2, <1>3 DEF EventOf, ProjectedAttributes, Suffix
  <2>2. ContributionForm(r, k, p)
    BY <1>2, <1>3, FormKinds DEF FactForm
  <2>3. "attributes" \in DOMAIN p
    BY <2>2 DEF ContributionForm, ContributionPayload, Carries, Placed
  <2>4. a = p.attributes
    BY <2>1, <2>3 DEF Get
  <2>5. CoordinateFields("factual_contribution", event, a) =
          CompatibilityDimensions(event, a)
    BY DimensionNames, CoordinateIs DEF CoordinateFields, CompatibilityDimensions
  <2>. QED
    BY <1>1, <1>2, <1>3, <2>1, <2>4, <2>5
<1>4. CASE kind = "finding_assertion"
  <2>1. /\ a = Pick(p, DOMAIN p \ {"_otel_context"})
        /\ Suffix(k, p) = Dimension(C(13), p, "review_lens")
                            \o Dimension(C(14), p, "review_scope")
    BY <1>1, <1>2, <1>4 DEF ProjectedAttributes, Suffix
  <2>2. \A name \in {"review_lens", "review_scope"} :
          /\ name \in DOMAIN a <=> name \in DOMAIN p
          /\ Get(a, name) = Get(p, name)
    BY <2>1 DEF Pick, Get
  <2>3. /\ Dimension(C(13), a, "review_lens") = Dimension(C(13), p, "review_lens")
        /\ Dimension(C(14), a, "review_scope") = Dimension(C(14), p, "review_scope")
    BY <2>2 DEF Dimension
  <2>4. CoordinateFields("finding_assertion", event, a) =
          Dimension(C(13), a, "review_lens") \o Dimension(C(14), a, "review_scope")
    BY DimensionNames, CoordinateIs DEF CoordinateFields
  <2>. QED
    BY <1>1, <1>2, <1>4, <2>1, <2>3, <2>4
<1>5. CASE kind = "model_attribution"
  <2>1. a = [gen_ai_provider_name |-> k[2], model_id |-> k[3], role_id |-> k[4],
             runtime_id |-> k[5], gen_ai_request_model |-> p.request_model]
    BY <1>1, <1>2, <1>5 DEF ProjectedAttributes
  <2>2. /\ Dimension(Plain("gen_ai_provider_name"), a, "gen_ai_provider_name") =
             << <<Plain("gen_ai_provider_name"), k[2]>> >>
        /\ Dimension(C(57), a, "model_id") = << <<C(57), k[3]>> >>
        /\ Dimension(C(30), a, "role_id") = << <<C(30), k[4]>> >>
        /\ Dimension(C(6), a, "runtime_id") = << <<C(6), k[5]>> >>
    BY <2>1 DEF Dimension, If, Get
  <2>3. CoordinateFields("model_attribution", event, a) =
          Dimension(Plain("gen_ai_provider_name"), a, "gen_ai_provider_name")
            \o Dimension(C(57), a, "model_id") \o Dimension(C(30), a, "role_id")
            \o Dimension(C(6), a, "runtime_id")
    BY DimensionNames, CoordinateIs DEF CoordinateFields
  <2>4. PICK x, y, z, w :
          /\ x = <<Plain("gen_ai_provider_name"), k[2]>> /\ y = <<C(57), k[3]>>
          /\ z = <<C(30), k[4]>> /\ w = <<C(6), k[5]>>
    OBVIOUS
  <2>5. Suffix(k, p) = <<x, y, z, w>>
    BY <1>2, <1>5, <2>4 DEF Suffix
  <2>6. <<x>> \o <<y>> \o <<z>> \o <<w>> = <<x, y, z, w>>
    BY Flat1111
  <2>. QED
    BY <1>1, <1>2, <1>5, <2>2, <2>3, <2>4, <2>5, <2>6
<1>6. CASE kind \notin {"factual_contribution", "finding_assertion",
                        "model_attribution"}
  <2>1. CoordinateFields(kind, event, a) = << >>
    BY <1>6 DEF CoordinateFields
  <2>2. kind # "delivery_root_binding" => Suffix(k, p) = << >>
    BY <1>2, <1>6 DEF Suffix
  <2>. QED
    BY <1>1, <1>2, <2>1, <2>2
<1>. QED
  BY <1>3, <1>4, <1>5, <1>6

\* The tombstone of a fact says of it what the active fact said.
LEMMA SameCompatibility ==
  ASSUME NEW r, Sound(r), NEW k, NEW p, FactForm(r, k, p), NEW family
  PROVE  ExpiredCompatibility(ProjectionCompatibility(k, p, family)) =
           Compatibility(k, p, family)
<1>1. PICK dimensions : dimensions =
        IF k[1] = "delivery_root_binding" THEN << >> ELSE Suffix(k, p)
  OBVIOUS
<1>2. Get(AttributesOf(k, p), "summary_state") =
        Get(ProjectedAttributes(k, p), "summary_state")
  <2>1. CASE k[1] = "factual_contribution"
    <3>1. ContributionForm(r, k, p)
      BY <2>1, FormKinds DEF FactForm
    <3>2. "attributes" \in DOMAIN p
      BY <3>1 DEF ContributionForm, ContributionPayload, Carries, Placed
    <3>. QED
      BY <2>1, <3>2 DEF AttributesOf, ProjectedAttributes, Get
  <2>2. CASE k[1] # "factual_contribution"
    <3>1. "summary_state" \notin DOMAIN ProjectedAttributes(k, p)
      BY <2>2, NoSummaryState
    <3>2. AttributesOf(k, p) = EmptyPayload /\ "summary_state" \notin DOMAIN EmptyPayload
      BY <2>2 DEF AttributesOf, EmptyPayload
    <3>. QED
      BY <3>1, <3>2 DEF Get
  <2>. QED
    BY <2>1, <2>2
<1>3. CoordinateFields(k[1], EventOf(k), ProjectedAttributes(k, p)) = dimensions
  BY <1>1, CoordinatesAre
<1>4. Compatibility(k, p, family) =
        [family_schema |-> family, event_name |-> EventOf(k),
         completeness |-> Get(AttributesOf(k, p), "summary_state"),
         dimensions |-> dimensions]
  BY <1>2, <1>3 DEF Compatibility, EventOf
<1>. QED
  BY <1>1, <1>4, ExpiredIs

\* Expiry does not change what a fact may be aggregated with: what a query reads
\* from a tombstone is what the active fact showed, for every record and every
\* kind of fact (_projection_compatibility, _validate_compatibility,
\* _compatibility and _expired_compatibility have each their own tables).
THEOREM CompatibilitiesKept == Spec => []CompatibilityKept
<1>1. ServiceInductive /\ DetailInductive => CompatibilityKept
  <2>. SUFFICES ASSUME ServiceInductive, DetailInductive,
                       NEW k \in RowsOf(FactualKinds), k \in DOMAIN markers
                PROVE  ExpiredCompatibility(markers[k].compatibility) =
                         Compatibility(k, Original(k), FamilyOf(k))
    BY DEF CompatibilityKept
  <2>1. k \in DOMAIN effects /\ k[1] \in Expirable /\ k[1] \in FactualKinds
    BY DEF RowsOf, Expirable
  <2>2. PICK r : r = SourceOf(k)
    OBVIOUS
  <2>3. Sound(r) /\ Told(k) /\ Writes(r, k) # {}
    BY <2>1, <2>2, SourceWrote DEF Told
  <2>4. PICK es : es = Project(r)
    OBVIOUS
  <2>5. PICK n : n = CHOOSE i \in DOMAIN es :
                       es[i].op = "first_write" /\ EffectKey(es[i]) = k
    OBVIOUS
  <2>6. \E i \in DOMAIN es : es[i].op = "first_write" /\ EffectKey(es[i]) = k
    BY <2>3, <2>4 DEF Writes, EffectsOf
  <2>7. n \in DOMAIN es /\ es[n].op = "first_write" /\ EffectKey(es[n]) = k
    BY <2>5, <2>6
  <2>8. Original(k) = es[n].payload
    BY <2>2, <2>4, <2>5 DEF Original
  <2>9. es[n] \in Writes(r, k)
    BY <2>4, <2>7 DEF Writes, EffectsOf
  <2>10. FactForm(r, k, es[n].payload)
    BY <2>1, <2>3, <2>9, WrittenForms
  <2>11. markers[k].compatibility =
           ProjectionCompatibility(k, es[n].payload, FamilyOf(k))
    BY <2>2, <2>3, <2>9 DEF Told
  <2>. QED
    BY <2>3, <2>8, <2>10, <2>11, SameCompatibility
<1>. QED
  BY <1>1, DetailInvariant, PTL

-------------------------------------------------------------------------------
(* The fields of a fact *)

\* What the payload of a public fact carries besides its event's coordinates.
LEMMA CarriedAt ==
  ASSUME NEW r, NEW p, NEW own, Carries(r, p, own), NEW name \in DOMAIN own,
         name # "_otel_context"
  PROVE  name \in DOMAIN p /\ p[name] = own[name]
  BY DEF Carries, Placed

\* An attribute of two sets of attributes, of which the second prevails.
LEMMA ExtendAt ==
  ASSUME NEW a, NEW b
  PROVE  /\ DOMAIN Extend(a, b) = DOMAIN a \cup DOMAIN b
         /\ \A name \in DOMAIN b : Extend(a, b)[name] = b[name]
         /\ \A name \in DOMAIN a \ DOMAIN b : Extend(a, b)[name] = a[name]
  BY DEF Extend

\* The attributes that a Finding has.
LEMMA FindingHas ==
  ASSUME NEW r, Sound(r), IsFinding(r)
  PROVE  /\ InvariantNames \cup ActorNames
              \cup {"finding_id", "finding_scope_id", "finding_target_kind",
                    "finding_target_id", "finding_status", "review_id"}
              \subseteq DOMAIN r.attrs
         /\ "fix_id" \in DOMAIN r.attrs => "fix_finding_id" \in DOMAIN r.attrs
         /\ "recheck_id" \in DOMAIN r.attrs =>
              RecheckNames \ {"recheck_fix_id"} \subseteq DOMAIN r.attrs
         /\ ~Lifecycle(r.attrs) => ArtifactNames \subseteq DOMAIN r.attrs
         /\ \A name \in {"finding_target_artifact_id", "recheck_fix_id"} :
              name \in DOMAIN r.attrs => r.attrs[name] # Null
<1>1. /\ r.type = "event" /\ r.name = "review.finding"
      /\ ProjectionReads(r) \subseteq DOMAIN r.attrs /\ SoundEvent(r)
  BY DEF Sound, IsFinding
<1>2. PICK x, fixed, rechecked, opened :
        /\ x = r.attrs
        /\ fixed = IF "fix_id" \in DOMAIN x THEN {"fix_finding_id"} ELSE {}
        /\ rechecked = IF "recheck_id" \in DOMAIN x
                       THEN RecheckNames \ {"recheck_id", "recheck_fix_id"} ELSE {}
        /\ opened = IF {"fix_id", "recheck_id"} \cap DOMAIN x = {}
                    THEN ArtifactNames ELSE {}
  OBVIOUS
<1>3. ProjectionReads(r) =
        InvariantNames \cup ActorNames \cup fixed \cup rechecked \cup opened
          \cup {"finding_id", "finding_scope_id", "finding_target_kind",
                "finding_target_id", "finding_status", "review_id"}
  BY <1>1, <1>2 DEF ProjectionReads, IsEvent
<1>. QED
  BY <1>1, <1>2, <1>3 DEF Lifecycle, SoundEvent

\* Attributes a that are shown of a row whose kind owns the names: those of x.
Shows(a, names, x) ==
  /\ \A name \in DOMAIN a \cap names : name \in DOMAIN x /\ a[name] = x[name]
  /\ DOMAIN x \cap names \subseteq DOMAIN a

\* The rows of Spans show the Span's attributes.
LEMMA SpanShows ==
  ASSUME NEW r, Sound(r), NEW k, NEW p, RootForm(r, k, p) \/ ModelForm(r, k, p)
  PROVE  Shows(ProjectedAttributes(k, p), OwnedNames(k[1]), r.attrs)
<1>1. PICK x, a : x = r.attrs /\ a = ProjectedAttributes(k, p)
  OBVIOUS
<1>2. CASE RootForm(r, k, p)
  <2>. DEFINE names == {"delivery_id", "runtime_id", "manifest_digest",
                        "workflow_family"}
  <2>1. k[1] = "delivery_root_binding" /\ p = RootPayload(x) /\ names \subseteq DOMAIN x
    BY <1>1, <1>2 DEF RootForm
  <2>2. a = [name \in names |-> p[name]]
    BY <1>1, <2>1 DEF ProjectedAttributes, Pick
  <2>3. \A name \in names : p[name] = x[name]
    BY <2>1 DEF RootPayload, Get
  <2>4. OwnedNames(k[1]) = names
    BY <2>1 DEF OwnedNames
  <2>. QED
    BY <1>1, <2>1, <2>2, <2>3, <2>4 DEF Shows
<1>3. CASE ModelForm(r, k, p)
  <2>. DEFINE names == {"gen_ai_provider_name", "gen_ai_request_model", "model_id",
                        "role_id", "runtime_id"}
  <2>1. names \subseteq DOMAIN x /\ p.request_model = x.gen_ai_request_model
    BY <1>1, <1>3 DEF ModelForm
  <2>2. PICK provider, model, role, runtime :
          /\ provider = x.gen_ai_provider_name /\ model = x.model_id
          /\ role = x.role_id /\ runtime = x.runtime_id
    OBVIOUS
  <2>3. k = <<"model_attribution", provider, model, role, runtime, r.trace, r.span>>
    BY <1>1, <1>3, <2>2 DEF ModelForm
  <2>4. /\ k[1] = "model_attribution" /\ k[2] = provider /\ k[3] = model
        /\ k[4] = role /\ k[5] = runtime
    BY <2>3
  <2>5. a = [gen_ai_provider_name |-> provider, model_id |-> model,
             role_id |-> role, runtime_id |-> runtime,
             gen_ai_request_model |-> x.gen_ai_request_model]
    BY <1>1, <2>1, <2>4 DEF ProjectedAttributes
  <2>6. DOMAIN a = names /\ \A name \in names : a[name] = x[name]
    BY <2>2, <2>5
  <2>7. OwnedNames(k[1]) = names
    BY <2>4 DEF OwnedNames
  <2>. QED
    BY <1>1, <2>1, <2>6, <2>7 DEF Shows
<1>. QED
  BY <1>2, <1>3

\* A contribution and a role's lineage show their event's attributes.
LEMMA EventShows ==
  ASSUME NEW r, Sound(r), NEW k, NEW p,
         ContributionForm(r, k, p) \/ LineageForm(r, k, p)
  PROVE  /\ DOMAIN ProjectedAttributes(k, p) = DOMAIN r.attrs
         /\ \A name \in DOMAIN r.attrs :
              ProjectedAttributes(k, p)[name] = r.attrs[name]
<1>1. PICK x, a : x = r.attrs /\ a = ProjectedAttributes(k, p)
  OBVIOUS
<1>2. "_otel_context" \notin DOMAIN x
  BY <1>1
  DEF Sound, AgentopsNames, StandardNames, IntegerNames, NumberNames, StringNames
<1>4. CASE ContributionForm(r, k, p)
  <2>1. k[1] = "factual_contribution" /\ Carries(r, p, ContributionPayload(r))
    BY <1>4 DEF ContributionForm
  <2>2. /\ "attributes" \in DOMAIN ContributionPayload(r)
        /\ ContributionPayload(r).attributes = x
    BY <1>1 DEF ContributionPayload
  <2>3. "attributes" \in DOMAIN p /\ p["attributes"] = x
    BY <2>1, <2>2, CarriedAt
  <2>. QED
    BY <1>1, <2>1, <2>3 DEF ProjectedAttributes, Get
<1>5. CASE LineageForm(r, k, p)
  <2>1. k[1] = "role_lineage" /\ Carries(r, p, x)
    BY <1>1, <1>5 DEF LineageForm
  <2>2. a = [name \in DOMAIN p \ {"_otel_context"} |-> p[name]]
    BY <1>1, <2>1 DEF ProjectedAttributes, Pick
  <2>3. DOMAIN p \ {"_otel_context"} = DOMAIN x
    BY <1>2, <2>1 DEF Carries, Placed
  <2>4. \A name \in DOMAIN x : p[name] = x[name]
    BY <1>2, <2>1 DEF Carries, Placed
  <2>. QED
    BY <1>1, <2>2, <2>3, <2>4
<1>. QED
  BY <1>4, <1>5

\* The row of a Finding that is opened shows what it is asserted to be.
LEMMA OpenShows ==
  ASSUME NEW r, Sound(r), NEW k, NEW p, OpenForm(r, k, p),
         NEW a, a = ProjectedAttributes(k, p)
  PROVE  /\ k[1] = "finding_assertion"
         /\ DOMAIN a = InvariantNames \cup ActorNames \cup ArtifactNames
         /\ \A name \in DOMAIN a : name \in DOMAIN r.attrs /\ a[name] = r.attrs[name]
<1>1. PICK names : names = InvariantNames \cup ActorNames \cup ArtifactNames
  OBVIOUS
<1>2. PICK own : own = Pick(r.attrs, names)
  OBVIOUS
<1>3. OpenEffect(r.attrs).payload = own
  BY <1>1, <1>2 DEF OpenEffect, FirstWriteOf, ArtifactNames
<1>4. /\ k[1] = "finding_assertion" /\ Carries(r, p, own) /\ IsFinding(r)
      /\ ~Lifecycle(r.attrs)
  BY <1>3 DEF OpenForm
<1>5. names \subseteq DOMAIN r.attrs
  BY <1>1, <1>4, FindingHas
<1>6. DOMAIN own = names /\ \A name \in names : own[name] = r.attrs[name]
  BY <1>2 DEF Pick
<1>7. "_otel_context" \notin names
  BY <1>1 DEF InvariantNames, ActorNames, ArtifactNames
<1>8. a = Pick(p, DOMAIN p \ {"_otel_context"})
  BY <1>4 DEF ProjectedAttributes
<1>9. /\ DOMAIN p \ {"_otel_context"} = names
      /\ \A name \in names : p[name] = r.attrs[name]
  BY <1>4, <1>6, <1>7 DEF Carries, Placed
<1>. QED
  BY <1>1, <1>4, <1>5, <1>8, <1>9 DEF Pick

\* The row of a target shows the target.
LEMMA AimShows ==
  ASSUME NEW r, Sound(r), NEW k, NEW p, AimForm(r, k, p)
  PROVE  Shows(ProjectedAttributes(k, p), OwnedNames(k[1]), r.attrs)
<1>1. PICK x, a : x = r.attrs /\ a = ProjectedAttributes(k, p)
  OBVIOUS
<1>2. PICK id, scope, kind, target, artifact :
        /\ id = x.finding_id /\ scope = x.finding_scope_id
        /\ kind = x.finding_target_kind /\ target = x.finding_target_id
        /\ artifact = Get(x, "finding_target_artifact_id")
  OBVIOUS
<1>3. IsFinding(r) /\ k = <<"finding_target">> \o TargetOf(x)
  BY <1>1 DEF AimForm
<1>4. k = <<"finding_target", id, scope, kind, target, artifact>>
  BY <1>2, <1>3, TargetKeys
<1>5. /\ k[1] = "finding_target" /\ k[2] = id /\ k[3] = scope /\ k[4] = kind
      /\ k[5] = target /\ k[6] = artifact
  BY <1>4
<1>. DEFINE names == {"finding_id", "finding_scope_id", "finding_target_kind",
                      "finding_target_id"}
            last == IF artifact # Null THEN [finding_target_artifact_id |-> artifact]
                                       ELSE EmptyPayload
<1>6. a = Extend(Extend([finding_id |-> id, finding_scope_id |-> scope],
                        [finding_target_kind |-> kind, finding_target_id |-> target]),
                 last)
  BY <1>1, <1>5 DEF ProjectedAttributes, FindingNamed
<1>7. /\ names \subseteq DOMAIN x
      /\ "finding_target_artifact_id" \in DOMAIN x =>
           x.finding_target_artifact_id # Null
  BY <1>1, <1>3, FindingHas
<1>8. OwnedNames(k[1]) = names \cup {"finding_target_artifact_id"}
  BY <1>5 DEF OwnedNames
<1>9. DOMAIN last = IF artifact # Null THEN {"finding_target_artifact_id"} ELSE {}
  BY DEF EmptyPayload
<1>10. /\ DOMAIN a = names \cup DOMAIN last
       /\ \A name \in names : a[name] = x[name]
  BY <1>2, <1>6, <1>9 DEF Extend
<1>11. artifact # Null => /\ "finding_target_artifact_id" \in DOMAIN x
                          /\ artifact = x.finding_target_artifact_id
                          /\ a.finding_target_artifact_id = artifact
  BY <1>2, <1>6, <1>9 DEF Extend, Get
<1>12. "finding_target_artifact_id" \in DOMAIN x => artifact # Null
  BY <1>2, <1>7 DEF Get
<1>. HIDE DEF last
<1>. QED
  BY <1>1, <1>7, <1>8, <1>9, <1>10, <1>11, <1>12 DEF Shows

\* The row of a status shows the status.
LEMMA StatusShows ==
  ASSUME NEW r, Sound(r), NEW k, NEW p, StatusForm(r, k, p)
  PROVE  Shows(ProjectedAttributes(k, p), OwnedNames(k[1]), r.attrs)
<1>1. PICK x, a : x = r.attrs /\ a = ProjectedAttributes(k, p)
  OBVIOUS
<1>2. PICK id, scope, review :
        id = x.finding_id /\ scope = x.finding_scope_id /\ review = x.review_id
  OBVIOUS
<1>3. IsFinding(r) /\ k = <<"finding_status", id, scope, review>>
  BY <1>1, <1>2 DEF StatusForm
<1>4. k[1] = "finding_status" /\ k[2] = id /\ k[3] = scope /\ k[4] = review
  BY <1>3
<1>5. PICK own : own = WithActors(x, [status |-> x.finding_status])
  OBVIOUS
<1>6. Carries(r, p, own)
  BY <1>1, <1>5 DEF StatusForm, StatusEffect, FirstWriteOf
<1>7. /\ DOMAIN own = ActorNames \cup {"status"} /\ own.status = x.finding_status
      /\ \A name \in ActorNames : own[name] = x[name]
  BY <1>5 DEF WithActors, ActorNames
<1>8. "_otel_context" \notin ActorNames \cup {"status"}
  BY DEF ActorNames
<1>9. p.status = x.finding_status /\ \A name \in ActorNames : p[name] = x[name]
  BY <1>6, <1>7, <1>8, CarriedAt
<1>. DEFINE names == {"finding_id", "finding_scope_id", "finding_status", "review_id"}
<1>10. a = Extend(Extend([finding_id |-> id, finding_scope_id |-> scope],
                         Pick(p, ActorNames)),
                  [review_id |-> review, finding_status |-> p.status])
  BY <1>1, <1>4 DEF ProjectedAttributes, FindingNamed
<1>11. /\ DOMAIN a = names \cup ActorNames
       /\ \A name \in names \cup ActorNames : a[name] = x[name]
  BY <1>2, <1>9, <1>10 DEF Extend, Pick, ActorNames
<1>12. names \cup ActorNames \subseteq DOMAIN x
  BY <1>1, <1>3, FindingHas
<1>13. OwnedNames(k[1]) = names \cup ActorNames
  BY <1>4 DEF OwnedNames
<1>. QED
  BY <1>1, <1>11, <1>12, <1>13 DEF Shows

\* The row of a fix shows the fix.
LEMMA FixShows ==
  ASSUME NEW r, Sound(r), NEW k, NEW p, FixForm(r, k, p)
  PROVE  Shows(ProjectedAttributes(k, p), OwnedNames(k[1]), r.attrs)
<1>1. PICK x, a : x = r.attrs /\ a = ProjectedAttributes(k, p)
  OBVIOUS
<1>2. PICK id, scope, kind, target, artifact, fix :
        /\ id = x.finding_id /\ scope = x.finding_scope_id
        /\ kind = x.finding_target_kind /\ target = x.finding_target_id
        /\ artifact = Get(x, "finding_target_artifact_id")
        /\ fix = Get(x, "fix_id")
  OBVIOUS
<1>3. /\ IsFinding(r) /\ k = <<"finding_fix">> \o TargetAnd(x, fix)
      /\ "fix_id" \in DOMAIN x
  BY <1>1, <1>2 DEF FixForm
<1>4. k = <<"finding_fix", id, scope, kind, target, artifact, fix>>
  BY <1>2, <1>3, TargetKeys
<1>5. k[1] = "finding_fix" /\ k[2] = id /\ k[3] = scope /\ k[7] = fix
  BY <1>4
<1>6. PICK own : own = WithActors(x, [finding_id |-> Get(x, "fix_finding_id"),
                                      review_id |-> x.review_id])
  OBVIOUS
<1>7. Carries(r, p, own)
  BY <1>1, <1>6 DEF FixForm, FixEffect, FirstWriteOf
<1>8. /\ DOMAIN own = ActorNames \cup {"finding_id", "review_id"}
      /\ own.finding_id = Get(x, "fix_finding_id") /\ own.review_id = x.review_id
      /\ \A name \in ActorNames : own[name] = x[name]
  BY <1>6 DEF WithActors, ActorNames
<1>9. "_otel_context" \notin ActorNames \cup {"finding_id", "review_id"}
  BY DEF ActorNames
<1>10. /\ p.finding_id = Get(x, "fix_finding_id") /\ p.review_id = x.review_id
       /\ \A name \in ActorNames : p[name] = x[name]
  BY <1>7, <1>8, <1>9, CarriedAt
<1>. DEFINE names == {"finding_id", "fix_id", "fix_finding_id", "review_id"}
<1>11. names \cup ActorNames \subseteq DOMAIN x
  BY <1>1, <1>3, FindingHas
<1>12. a = Extend(Extend([finding_id |-> id, finding_scope_id |-> scope],
                         Pick(p, ActorNames)),
                  [fix_id |-> fix, fix_finding_id |-> p.finding_id,
                   review_id |-> p.review_id])
  BY <1>1, <1>5 DEF ProjectedAttributes, FindingNamed
<1>13. fix = x.fix_id /\ p.finding_id = x.fix_finding_id
  BY <1>2, <1>10, <1>11 DEF Get
<1>14. /\ DOMAIN a = names \cup ActorNames \cup {"finding_scope_id"}
       /\ \A name \in names \cup ActorNames : a[name] = x[name]
  BY <1>2, <1>10, <1>12, <1>13 DEF Extend, Pick, ActorNames
<1>15. OwnedNames(k[1]) = names \cup ActorNames
  BY <1>5 DEF OwnedNames
<1>. QED
  BY <1>1, <1>11, <1>14, <1>15 DEF Shows

\* The row of a recheck shows the recheck.
LEMMA RecheckShows ==
  ASSUME NEW r, Sound(r), NEW k, NEW p, RecheckForm(r, k, p)
  PROVE  Shows(ProjectedAttributes(k, p), OwnedNames(k[1]), r.attrs)
<1>1. PICK x, a : x = r.attrs /\ a = ProjectedAttributes(k, p)
  OBVIOUS
<1>2. PICK id, scope, kind, target, artifact, recheck :
        /\ id = x.finding_id /\ scope = x.finding_scope_id
        /\ kind = x.finding_target_kind /\ target = x.finding_target_id
        /\ artifact = Get(x, "finding_target_artifact_id")
        /\ recheck = Get(x, "recheck_id")
  OBVIOUS
<1>3. /\ IsFinding(r) /\ k = <<"finding_recheck">> \o TargetAnd(x, recheck)
      /\ "recheck_id" \in DOMAIN x
  BY <1>1, <1>2 DEF RecheckForm
<1>4. k = <<"finding_recheck", id, scope, kind, target, artifact, recheck>>
  BY <1>2, <1>3, TargetKeys
<1>5. k[1] = "finding_recheck" /\ k[2] = id /\ k[3] = scope /\ k[7] = recheck
  BY <1>4
<1>6. PICK rest : rest = [review_id |-> x.review_id,
                          prior_review_id |-> Get(x, "recheck_review_id"),
                          finding_id |-> Get(x, "recheck_finding_id"),
                          fix_id |-> Get(x, "recheck_fix_id"),
                          iteration_id |-> Get(x, "iteration_id"),
                          recheck_role_id |-> Get(x, "recheck_role_id"),
                          recheck_invocation_id |-> Get(x, "recheck_invocation_id")]
  OBVIOUS
<1>7. PICK own : own = WithActors(x, rest)
  OBVIOUS
<1>8. Carries(r, p, own)
  BY <1>1, <1>6, <1>7 DEF RecheckForm, RecheckEffect, FirstWriteOf
<1>. DEFINE members == {"review_id", "prior_review_id", "finding_id", "fix_id",
                        "iteration_id", "recheck_role_id", "recheck_invocation_id"}
<1>9. DOMAIN rest = members /\ members \cap ActorNames = {}
  BY <1>6 DEF ActorNames
<1>10. /\ DOMAIN own = ActorNames \cup members
       /\ \A name \in members : own[name] = rest[name]
       /\ \A name \in ActorNames : own[name] = x[name]
  BY <1>7, <1>9 DEF WithActors
<1>11. "_otel_context" \notin ActorNames \cup members
  BY DEF ActorNames
<1>12. /\ \A name \in members : p[name] = rest[name]
       /\ \A name \in ActorNames : p[name] = x[name]
  BY <1>8, <1>10, <1>11, CarriedAt
<1>. DEFINE always == RecheckNames \ {"recheck_fix_id"}
<1>13. /\ ActorNames \cup always \cup {"finding_id", "finding_scope_id", "review_id"}
            \subseteq DOMAIN x
       /\ "recheck_fix_id" \in DOMAIN x => x.recheck_fix_id # Null
  BY <1>1, <1>3, FindingHas
<1>14. /\ p.review_id = x.review_id /\ p.prior_review_id = x.recheck_review_id
       /\ p.finding_id = x.recheck_finding_id /\ p.iteration_id = x.iteration_id
       /\ p.recheck_role_id = x.recheck_role_id
       /\ p.recheck_invocation_id = x.recheck_invocation_id
       /\ recheck = x.recheck_id /\ p.fix_id = Get(x, "recheck_fix_id")
  <2>1. /\ rest.review_id = x.review_id /\ rest.prior_review_id = x.recheck_review_id
        /\ rest.finding_id = x.recheck_finding_id
        /\ rest.iteration_id = x.iteration_id
        /\ rest.recheck_role_id = x.recheck_role_id
        /\ rest.recheck_invocation_id = x.recheck_invocation_id
        /\ rest.fix_id = Get(x, "recheck_fix_id") /\ recheck = x.recheck_id
    BY <1>2, <1>3, <1>6, <1>13 DEF Get, RecheckNames
  <2>. QED
    BY <1>12, <2>1
<1>15. PICK named, middle, last :
         /\ named = [finding_id |-> id, finding_scope_id |-> scope]
         /\ middle = [recheck_id |-> recheck, review_id |-> p.review_id,
                      recheck_review_id |-> p.prior_review_id,
                      recheck_finding_id |-> p.finding_id,
                      iteration_id |-> p.iteration_id,
                      recheck_role_id |-> p.recheck_role_id,
                      recheck_invocation_id |-> p.recheck_invocation_id]
         /\ last = IF p.fix_id # Null THEN [recheck_fix_id |-> p.fix_id]
                                      ELSE EmptyPayload
  OBVIOUS
<1>16. a = Extend(Extend(Extend(named, Pick(p, ActorNames)), middle), last)
  BY <1>1, <1>5, <1>15 DEF ProjectedAttributes, FindingNamed
<1>17. /\ DOMAIN named = {"finding_id", "finding_scope_id"}
       /\ \A name \in DOMAIN named : named[name] = x[name]
       /\ DOMAIN middle = always \cup {"review_id"}
       /\ \A name \in DOMAIN middle : middle[name] = x[name]
  BY <1>2, <1>14, <1>15 DEF RecheckNames
<1>18. /\ DOMAIN last = {"recheck_fix_id"} \cap DOMAIN x
       /\ \A name \in DOMAIN last : last[name] = x[name]
  <2>1. CASE "recheck_fix_id" \in DOMAIN x
    BY <1>13, <1>14, <1>15, <2>1 DEF Get
  <2>2. CASE "recheck_fix_id" \notin DOMAIN x
    <3>1. p.fix_id = Null
      BY <1>14, <2>2 DEF Get
    <3>. QED
      BY <1>15, <2>2, <3>1 DEF EmptyPayload
  <2>. QED
    BY <2>1, <2>2
<1>19. /\ DOMAIN Pick(p, ActorNames) = ActorNames
       /\ \A name \in ActorNames : Pick(p, ActorNames)[name] = x[name]
  BY <1>12 DEF Pick
<1>. DEFINE Same(y) == \A name \in DOMAIN y : y[name] = x[name]
<1>20. ASSUME NEW y, NEW z, Same(y), Same(z)
       PROVE  DOMAIN Extend(y, z) = DOMAIN y \cup DOMAIN z /\ Same(Extend(y, z))
  BY <1>20 DEF Extend
<1>21. PICK actors : actors = Pick(p, ActorNames)
  OBVIOUS
<1>22. Same(named) /\ Same(actors) /\ Same(middle) /\ Same(last)
  BY <1>17, <1>18, <1>19, <1>21
<1>. HIDE DEF Same
<1>23. PICK b : b = Extend(named, actors)
  OBVIOUS
<1>24. PICK c : c = Extend(b, middle)
  OBVIOUS
<1>25. /\ DOMAIN a = DOMAIN named \cup DOMAIN actors \cup DOMAIN middle \cup DOMAIN last
       /\ Same(a)
  <2>1. DOMAIN b = DOMAIN named \cup DOMAIN actors /\ Same(b)
    BY <1>20, <1>22, <1>23
  <2>2. DOMAIN c = DOMAIN b \cup DOMAIN middle /\ Same(c)
    BY <1>20, <1>22, <1>24, <2>1
  <2>3. a = Extend(c, last)
    BY <1>16, <1>21, <1>23, <1>24
  <2>4. DOMAIN a = DOMAIN c \cup DOMAIN last /\ Same(a)
    BY <1>20, <1>22, <2>2, <2>3
  <2>. QED
    BY <2>1, <2>2, <2>4
<1>26. OwnedNames(k[1]) = {"finding_id", "finding_scope_id", "review_id"}
                            \cup RecheckNames \cup ActorNames
  BY <1>5 DEF OwnedNames
<1>27. DOMAIN a = {"finding_id", "finding_scope_id", "review_id"} \cup always
                    \cup ActorNames \cup ({"recheck_fix_id"} \cap DOMAIN x)
  BY <1>17, <1>18, <1>19, <1>21, <1>25
<1>28. DOMAIN a \subseteq DOMAIN x /\ DOMAIN x \cap OwnedNames(k[1]) \subseteq DOMAIN a
  BY <1>13, <1>26, <1>27
<1>. QED
  BY <1>1, <1>25, <1>28 DEF Shows, Same

\* What a Finding is asserted to be has a place in a resource.
LEMMA AssertedRegistered ==
  InvariantNames \cup ActorNames \cup ArtifactNames \subseteq Registered
<1>1. /\ CommonNames[13] = "review_lens" /\ CommonNames[14] = "review_scope"
      /\ CommonNames[15] = "review_severity" /\ CommonNames[20] = "source_review_id"
      /\ CommonNames[49] = "family_schema" /\ CommonNames[50] = "finding_summary"
      /\ CommonNames[33] = "writer_role_id" /\ CommonNames[34] = "reviewer_role_id"
      /\ CommonNames[36] = "writer_invocation_id"
      /\ CommonNames[37] = "reviewer_invocation_id"
      /\ CommonNames[28] = "artifact_id" /\ CommonNames[29] = "artifact_digest"
  BY DEF CommonNames
<1>2. {13, 14, 15, 20, 49, 50, 33, 34, 36, 37, 28, 29} \subseteq DOMAIN CommonNames
  BY DEF CommonNames
<1>3. ASSUME NEW i \in DOMAIN CommonNames
      PROVE  CommonNames[i] \in Registered
  <2>1. CommonNames[i] \in DOMAIN Numbered("C", CommonNames)
    BY NumberedAt
  <2>. QED
    BY <2>1 DEF Registered, FieldIds, Extend
<1>4. /\ CommonNames[13] \in Registered /\ CommonNames[14] \in Registered
      /\ CommonNames[15] \in Registered /\ CommonNames[20] \in Registered
      /\ CommonNames[49] \in Registered /\ CommonNames[50] \in Registered
      /\ CommonNames[33] \in Registered /\ CommonNames[34] \in Registered
      /\ CommonNames[36] \in Registered /\ CommonNames[37] \in Registered
      /\ CommonNames[28] \in Registered /\ CommonNames[29] \in Registered
  BY <1>2, <1>3
<1>. QED
  BY <1>1, <1>4 DEF InvariantNames, ActorNames, ArtifactNames

\* The fields of values are those of numbers.
LEMMA ValueNames ==
  ASSUME NEW name \in Registered, name \notin StandardNames,
         FieldId(name) \in ValueFields
  PROVE  name \in IntegerNames \cup NumberNames
<1>1. CASE \E i \in DOMAIN CommonNames : FieldId(name) = C(i) /\ CommonNames[i] = name
  <2>1. PICK i \in DOMAIN CommonNames : FieldId(name) = C(i) /\ CommonNames[i] = name
    BY <1>1
  <2>2. i \in {16, 17, 40, 41, 46, 55}
    BY <2>1 DEF ValueFields, C, I, S, Plain
  <2>3. /\ CommonNames[16] = "review_total" /\ CommonNames[17] = "review_observed_count"
        /\ CommonNames[40] = "observed_loop_count"
        /\ CommonNames[41] = "observed_intervention_count"
        /\ CommonNames[46] = "usage_value"
        /\ CommonNames[55] = "delivery_elapsed_time_ms"
    BY DEF CommonNames
  <2>. QED
    BY <2>1, <2>2, <2>3 DEF IntegerNames, NumberNames
<1>2. CASE \E i \in DOMAIN ImplementationNames :
             FieldId(name) = I(i) /\ ImplementationNames[i] = name
  <2>1. PICK i \in DOMAIN ImplementationNames :
          FieldId(name) = I(i) /\ ImplementationNames[i] = name
    BY <1>2
  <2>2. i \in {1, 2, 3, 4, 6, 7}
    BY <2>1 DEF ValueFields, C, I, S, Plain
  <2>3. /\ ImplementationNames[1] = "test_passed"
        /\ ImplementationNames[2] = "test_failed"
        /\ ImplementationNames[3] = "test_skipped"
        /\ ImplementationNames[4] = "test_duration_seconds"
        /\ ImplementationNames[6] = "coverage_covered"
        /\ ImplementationNames[7] = "coverage_total"
    BY DEF ImplementationNames
  <2>. QED
    BY <2>1, <2>2, <2>3 DEF IntegerNames, NumberNames
<1>3. CASE \E i \in DOMAIN SystemDesignNames :
             FieldId(name) = S(i) /\ SystemDesignNames[i] = name
  <2>1. PICK i \in DOMAIN SystemDesignNames :
          FieldId(name) = S(i) /\ SystemDesignNames[i] = name
    BY <1>3
  <2>2. i \in {2, 5, 6}
    BY <2>1 DEF ValueFields, C, I, S, Plain
  <2>3. /\ SystemDesignNames[2] = "fresh_reader_finding_count"
        /\ SystemDesignNames[5] = "verification_check_passed"
        /\ SystemDesignNames[6] = "verification_check_failed"
    BY DEF SystemDesignNames
  <2>. QED
    BY <2>1, <2>2, <2>3 DEF IntegerNames, NumberNames
<1>. QED
  BY <1>1, <1>2, <1>3, FieldIdAt

\* The attributes whose absence from a row's fields would be a loss.
Wanted(k, x) ==
  IF k[1] = "finding_assertion"
  THEN InvariantNames \cup ActorNames \cup ArtifactNames
  ELSE DOMAIN x \cap Registered \cap OwnedNames(k[1])

\* The attributes a fact shows are its record's, and all that are wanted.
LEMMA FactShows ==
  ASSUME NEW r, Sound(r), NEW k, NEW p, FactForm(r, k, p),
         NEW a, a = ProjectedAttributes(k, p)
  PROVE  /\ \A name \in DOMAIN a \cap OwnedNames(k[1]) :
              name \in DOMAIN r.attrs /\ a[name] = r.attrs[name]
         /\ Wanted(k, r.attrs) \subseteq DOMAIN a \cap OwnedNames(k[1]) \cap Registered
<1>1. ASSUME Shows(a, OwnedNames(k[1]), r.attrs), k[1] # "finding_assertion"
      PROVE  /\ \A name \in DOMAIN a \cap OwnedNames(k[1]) :
                  name \in DOMAIN r.attrs /\ a[name] = r.attrs[name]
             /\ Wanted(k, r.attrs)
                  \subseteq DOMAIN a \cap OwnedNames(k[1]) \cap Registered
  BY <1>1 DEF Shows, Wanted
<1>2. CASE RootForm(r, k, p) \/ ModelForm(r, k, p)
  BY <1>1, <1>2, SpanShows, FormKinds
<1>3. CASE ContributionForm(r, k, p) \/ LineageForm(r, k, p)
  <2>1. Shows(a, OwnedNames(k[1]), r.attrs)
    BY <1>3, EventShows DEF Shows
  <2>. QED
    BY <1>1, <1>3, <2>1, FormKinds
<1>4. CASE AimForm(r, k, p)
  BY <1>1, <1>4, AimShows, FormKinds
<1>5. CASE StatusForm(r, k, p)
  BY <1>1, <1>5, StatusShows, FormKinds
<1>6. CASE FixForm(r, k, p)
  BY <1>1, <1>6, FixShows, FormKinds
<1>7. CASE RecheckForm(r, k, p)
  BY <1>1, <1>7, RecheckShows, FormKinds
<1>8. CASE OpenForm(r, k, p)
  <2>1. /\ k[1] = "finding_assertion"
        /\ DOMAIN a = InvariantNames \cup ActorNames \cup ArtifactNames
        /\ \A name \in DOMAIN a : name \in DOMAIN r.attrs /\ a[name] = r.attrs[name]
    BY <1>8, OpenShows
  <2>2. OwnedNames(k[1]) = Registered
    BY <2>1 DEF OwnedNames
  <2>. QED
    BY <2>1, <2>2, AssertedRegistered DEF Wanted
<1>. QED
  BY <1>2, <1>3, <1>4, <1>5, <1>6, <1>7, <1>8 DEF FactForm

\* Values are withheld for a contribution whose summary has none, and no others.
LEMMA WithheldOnly ==
  ASSUME NEW r, Sound(r), NEW k, NEW p, FactForm(r, k, p),
         NEW a, a = ProjectedAttributes(k, p),
         NEW name \in DOMAIN a \cap Registered,
         Withheld(Get(a, "summary_state"), name)
  PROVE  /\ Get(r.attrs, "summary_state") \in {"NOT_APPLICABLE", "UNAVAILABLE"}
         /\ name \in IntegerNames \cup NumberNames
<1>1. /\ Get(a, "summary_state") \in {"NOT_APPLICABLE", "UNAVAILABLE"}
      /\ FieldId(name) \in ValueFields
  BY DEF Withheld
<1>2. "summary_state" \in DOMAIN a
  BY <1>1 DEF Get, Null
<1>3. k[1] = "factual_contribution"
  BY <1>2, NoSummaryState
<1>4. ContributionForm(r, k, p)
  BY <1>3, FormKinds DEF FactForm
<1>5. DOMAIN a = DOMAIN r.attrs /\ \A n \in DOMAIN r.attrs : a[n] = r.attrs[n]
  BY <1>4, EventShows
<1>6. name \notin StandardNames
  BY <1>4, <1>5 DEF ContributionForm, Sound, SoundEvent
<1>. QED
  BY <1>1, <1>2, <1>5, <1>6, ValueNames DEF Get

\* The fields of an active fact.
LEMMA FactFields ==
  ASSUME NEW r, Sound(r), NEW k, NEW p, FactForm(r, k, p)
  PROVE  /\ \A field \in Fields(k, p) :
              /\ NameOf(field[1]) \in DOMAIN r.attrs \cap Registered
              /\ r.attrs[NameOf(field[1])] = field[2]
         /\ \A name \in Wanted(k, r.attrs) :
              \/ <<FieldId(name), r.attrs[name]>> \in Fields(k, p)
              \/ /\ Get(r.attrs, "summary_state") \in {"NOT_APPLICABLE",
                                                       "UNAVAILABLE"}
                 /\ name \in IntegerNames \cup NumberNames
<1>1. PICK a, x : a = ProjectedAttributes(k, p) /\ x = r.attrs
  OBVIOUS
<1>2. PICK names : names = DOMAIN a \cap OwnedNames(k[1]) \cap Registered
  OBVIOUS
<1>3. /\ \A name \in names : name \in DOMAIN x /\ a[name] = x[name]
      /\ Wanted(k, x) \subseteq names
  BY <1>1, <1>2, FactShows
<1>4. Fields(k, p) =
        {<<FieldId(name), a[name]>> :
           name \in {n \in names : ~Withheld(Get(a, "summary_state"), n)}}
  BY <1>1, <1>2 DEF Fields
<1>5. ASSUME NEW field \in Fields(k, p)
      PROVE  /\ NameOf(field[1]) \in DOMAIN x \cap Registered
             /\ x[NameOf(field[1])] = field[2]
  <2>1. PICK name \in names : field = <<FieldId(name), a[name]>>
    BY <1>4
  <2>2. field[1] = FieldId(name) /\ field[2] = a[name] /\ name \in Registered
    BY <1>2, <2>1
  <2>3. NameOf(field[1]) = name
    BY <2>2, NameOfField
  <2>. QED
    BY <1>3, <2>2, <2>3
<1>6. ASSUME NEW name \in Wanted(k, x),
             <<FieldId(name), x[name]>> \notin Fields(k, p)
      PROVE  /\ Get(x, "summary_state") \in {"NOT_APPLICABLE", "UNAVAILABLE"}
             /\ name \in IntegerNames \cup NumberNames
  <2>1. name \in names /\ a[name] = x[name]
    BY <1>3
  <2>2. Withheld(Get(a, "summary_state"), name)
    BY <1>4, <1>6, <2>1
  <2>. QED
    BY <1>1, <1>2, <2>1, <2>2, WithheldOnly
<1>. QED
  BY <1>1, <1>5, <1>6

\* Every field that an answer shows of a fact or a trace node is the attribute of
\* that number in the record the row came from, and none that its kind owns is
\* missing but the values of a summary that has none, for every record that
\* validation lets through (_fields, _trace_resource).
THEOREM FieldsAreFaithful == Spec => []FieldsFaithful
<1>1. ServiceInductive /\ DetailInductive => FieldsFaithful
  <2>. SUFFICES ASSUME ServiceInductive, DetailInductive,
                       NEW k \in DOMAIN effects \ DOMAIN markers,
                       NEW r, r = SourceOf(k), NEW p, p = effects[k].payload
                PROVE  /\ k[1] \in FactualKinds =>
                            /\ \A field \in Fields(k, p) :
                                 /\ NameOf(field[1]) \in DOMAIN r.attrs \cap Registered
                                 /\ r.attrs[NameOf(field[1])] = field[2]
                            /\ \A name \in Wanted(k, r.attrs) :
                                 \/ <<FieldId(name), r.attrs[name]>> \in Fields(k, p)
                                 \/ /\ Get(r.attrs, "summary_state")
                                         \in {"NOT_APPLICABLE", "UNAVAILABLE"}
                                    /\ name \in IntegerNames \cup NumberNames
                       /\ k[1] = "trace_node" =>
                            NodeFields(p) =
                              {<<FieldId(name), r.attrs[name]>> :
                                 name \in DOMAIN r.attrs \cap Registered}
    BY DEF FieldsFaithful, Wanted
  <2>1. CASE k[1] \in FactualKinds
    <3>1. k \in RowsOf(FactualKinds)
      BY <2>1 DEF RowsOf
    <3>2. FactForm(r, k, p) /\ Sound(r)
      BY <3>1, FactWritten
    <3>3. k[1] # "trace_node"
      BY <2>1 DEF FactualKinds, PublicFactKinds
    <3>. QED
      BY <3>2, <3>3, FactFields
  <2>2. CASE k[1] = "trace_node"
    <3>1. k[1] \in Expirable /\ k[1] \in TraceKinds /\ k[1] \notin FactualKinds
      BY <2>2 DEF Expirable, TraceKinds, FactualKinds, PublicFactKinds
    <3>2. PICK e : e \in Writes(r, k)
      BY <3>1, SourceWrote
    <3>3. Sound(r) /\ Told(k)
      BY <3>1, SourceWrote
    <3>4. p = e.payload
      BY <3>2, <3>3 DEF Told
    <3>5. TraceForm(r, k, e.payload)
      BY <3>1, <3>2, <3>3, WrittenForms
    <3>6. p.attributes = r.attrs
      BY <2>2, <3>4, <3>5 DEF TraceForm
    <3>. QED
      BY <3>1, <3>6 DEF NodeFields
  <2>3. CASE k[1] \notin FactualKinds /\ k[1] # "trace_node"
    BY <2>3
  <2>. QED
    BY <2>1, <2>2, <2>3
<1>. QED
  BY <1>1, DetailInvariant, PTL
===============================================================================
