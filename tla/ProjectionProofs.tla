---------------------------- MODULE ProjectionProofs ----------------------------
(***************************************************************************)
(* Which rows a record can project, for every record: the rows of a Task   *)
(* and of a Delivery's place in it come from task bindings alone, and their *)
(* keys are the binding's own Task and Delivery.                           *)
(***************************************************************************)
EXTENDS Projection, TLAPS

\* The kinds of row that _task_binding writes.
BindingKinds ==
  {"task_declaration", "task_display_name", "delivery_task_membership",
   "delivery_task_guard", "delivery_manifest"}

OtherKinds ==
  {"delivery_root_binding", "model_attribution", "trace_node",
   "trace_parent_edge", "trace_link", "finding_scope_guard",
   "finding_target_guard", "finding_assertion", "finding_target",
   "finding_status", "finding_fix", "finding_recheck", "factual_contribution",
   "role_lineage"}

IsSequence(s) == \E S : s \in Seq(S)

IsEffect(e) ==
  /\ e = [op |-> e.op, kind |-> e.kind, key |-> e.key, payload |-> e.payload]
  /\ IsSequence(e.key)

\* s is a sequence of effects of the kinds in K.
Effects(s, K) ==
  IsSequence(s) /\ \A i \in DOMAIN s : IsEffect(s[i]) /\ s[i].kind \in K

-------------------------------------------------------------------------------
(* Sequences *)

\* Tuples are sequences.
LEMMA Tuples ==
  /\ \A a : IsSequence(<<a>>)
  /\ \A a, b : IsSequence(<<a, b>>)
  /\ \A a, b, c : IsSequence(<<a, b, c>>)
  /\ \A a, b, c, d : IsSequence(<<a, b, c, d>>)
  /\ \A a, b, c, d, e, f : IsSequence(<<a, b, c, d, e, f>>)
  /\ IsSequence(<< >>)
<1>1. \A a : <<a>> \in Seq({a})
  OBVIOUS
<1>2. \A a, b : <<a, b>> \in Seq({a, b})
  OBVIOUS
<1>3. \A a, b, c : <<a, b, c>> \in Seq({a, b, c})
  OBVIOUS
<1>4. \A a, b, c, d : <<a, b, c, d>> \in Seq({a, b, c, d})
  OBVIOUS
<1>5. \A a, b, c, d, e, f : <<a, b, c, d, e, f>> \in Seq({a, b, c, d, e, f})
  OBVIOUS
<1>6. << >> \in Seq({})
  OBVIOUS
<1>. QED
  BY <1>1, <1>2, <1>3, <1>4, <1>5, <1>6, Zenon DEF IsSequence

\* So is the concatenation of two sequences, which has the elements of both, and
\* those of the first come first.
LEMMA Concatenation ==
  ASSUME NEW s, NEW t, IsSequence(s), IsSequence(t)
  PROVE  /\ IsSequence(s \o t)
         /\ \A i \in DOMAIN (s \o t) :
              (\E j \in DOMAIN s : (s \o t)[i] = s[j])
                \/ (\E j \in DOMAIN t : (s \o t)[i] = t[j])
         /\ \A i \in DOMAIN s : i \in DOMAIN (s \o t) /\ (s \o t)[i] = s[i]
         /\ \A i \in DOMAIN t : /\ Len(s) + i \in DOMAIN (s \o t)
                                /\ (s \o t)[Len(s) + i] = t[i]
<1>1. PICK S : s \in Seq(S)
  BY Zenon DEF IsSequence
<1>2. PICK T : t \in Seq(T)
  BY Zenon DEF IsSequence
<1>. DEFINE U == S \cup T
<1>3. s \in Seq(U) /\ t \in Seq(U)
  BY <1>1, <1>2
<1>. HIDE DEF U
<1>4. s \o t \in Seq(U)
  BY <1>3
<1>5. /\ \A i \in DOMAIN (s \o t) :
           (\E j \in DOMAIN s : (s \o t)[i] = s[j])
             \/ (\E j \in DOMAIN t : (s \o t)[i] = t[j])
      /\ \A i \in DOMAIN s : i \in DOMAIN (s \o t) /\ (s \o t)[i] = s[i]
      /\ \A i \in DOMAIN t : /\ Len(s) + i \in DOMAIN (s \o t)
                             /\ (s \o t)[Len(s) + i] = t[i]
  BY <1>3
<1>6. IsSequence(s \o t)
  BY <1>4, Zenon DEF IsSequence
<1>. QED
  BY <1>5, <1>6, Zenon

\* Two sequences of effects make one.
LEMMA EffectsConcatenation ==
  ASSUME NEW s, NEW t, NEW K, Effects(s, K), Effects(t, K)
  PROVE  Effects(s \o t, K)
  BY Concatenation DEF Effects

\* Sequences of one effect, of at most one and of two.
LEMMA EffectsFew ==
  ASSUME NEW K, NEW e, IsEffect(e), e.kind \in K
  PROVE  /\ Effects(<<e>>, K)
         /\ \A condition : Effects(If(condition, e), K)
         /\ \A f : IsEffect(f) /\ f.kind \in K => Effects(<<e, f>>, K)
  BY Tuples DEF Effects, If

\* The two constructors make effects.
LEMMA Constructors ==
  ASSUME NEW kind, NEW key, NEW payload, IsSequence(key)
  PROVE  /\ IsEffect(FirstWriteOf(kind, key, payload))
         /\ FirstWriteOf(kind, key, payload).kind = kind
         /\ IsEffect(RequireOf(kind, key, payload))
         /\ RequireOf(kind, key, payload).kind = kind
  BY DEF IsEffect, FirstWriteOf, RequireOf

\* The primary key starts with the kind.
LEMMA KindFirst ==
  ASSUME NEW e, IsEffect(e)
  PROVE  EffectKey(e)[1] = e.kind
  BY DEF IsEffect, IsSequence, EffectKey

-------------------------------------------------------------------------------
(* The effects of each record *)

\* A sequence whose elements are changed one by one is a sequence.
LEMMA SameDomain ==
  ASSUME NEW s, NEW t, IsSequence(s), DOMAIN t = DOMAIN s,
         t = [i \in DOMAIN t |-> t[i]]
  PROVE  IsSequence(t)
<1>1. PICK S : s \in Seq(S)
  BY Zenon DEF IsSequence
<1>. DEFINE T == {t[i] : i \in DOMAIN t}
<1>2. Len(s) \in Nat /\ DOMAIN t = 1..Len(s)
  BY <1>1
<1>3. t \in [1..Len(s) -> T]
  BY <1>2
<1>. HIDE DEF T
<1>4. t \in Seq(T)
  BY <1>2, <1>3
<1>. QED
  BY <1>4, Zenon DEF IsSequence

\* project_span writes the rows of traces, the root binding and the model.
LEMMA SpanEffects ==
  ASSUME NEW r, IsSequence(r.links)
  PROVE  Effects(ProjectSpan(r), OtherKinds)
<1>. DEFINE a == r.attrs
            root == FirstWriteOf("delivery_root_binding", <<r.trace>>,
                      [delivery_id |-> Get(a, "delivery_id"),
                       runtime_id |-> Get(a, "runtime_id"),
                       manifest_digest |-> Get(a, "manifest_digest"),
                       family_schema |-> Schema(Get(a, "workflow_family")),
                       workflow_family |-> Get(a, "workflow_family")])
            required == RequireOf("delivery_root_binding", <<r.trace>>,
                                  [runtime_id |-> a.runtime_id])
            model == FirstWriteOf("model_attribution",
                       <<a.gen_ai_provider_name, a.model_id, a.role_id,
                         a.runtime_id, r.trace, r.span>>,
                       [request_model |-> a.gen_ai_request_model])
            node == FirstWriteOf("trace_node", <<r.trace, r.span>>,
                      [span_name |-> r.name, detail |-> r.detail,
                       attributes |-> a])
            edge == FirstWriteOf("trace_parent_edge",
                                 <<r.trace, r.span, r.parent>>, EmptyPayload)
            link(i) == FirstWriteOf("trace_link",
                         <<r.trace, r.span, r.links[i].trace_id,
                           r.links[i].span_id>>, r.links[i])
            links == [i \in DOMAIN r.links |-> link(i)]
            models == IF "model_id" \in DOMAIN a THEN <<required, model>>
                                                 ELSE << >>
<1>1. /\ IsEffect(root) /\ root.kind \in OtherKinds
      /\ IsEffect(required) /\ required.kind \in OtherKinds
      /\ IsEffect(model) /\ model.kind \in OtherKinds
      /\ IsEffect(node) /\ node.kind \in OtherKinds
      /\ IsEffect(edge) /\ edge.kind \in OtherKinds
  BY Tuples, Constructors DEF OtherKinds
<1>2. ASSUME NEW i \in DOMAIN r.links
      PROVE  IsEffect(link(i)) /\ link(i).kind \in OtherKinds
  BY Tuples, Constructors DEF OtherKinds
<1>. HIDE DEF root, required, model, node, edge, link
<1>3. Effects(links, OtherKinds)
  <2>1. IsSequence(links)
    BY SameDomain
  <2>. QED
    BY <1>2, <2>1 DEF Effects
<1>4. Effects(models, OtherKinds)
  BY <1>1, EffectsFew, Tuples DEF Effects
<1>. HIDE DEF links, models
<1>5. /\ Effects(If(r.name = "invoke_workflow", root), OtherKinds)
      /\ Effects(<<node>>, OtherKinds)
      /\ Effects(If(r.parent # Null, edge), OtherKinds)
  BY <1>1, EffectsFew
<1>6. Effects(If(r.name = "invoke_workflow", root) \o models \o <<node>>
                \o If(r.parent # Null, edge) \o links, OtherKinds)
  BY <1>3, <1>4, <1>5, EffectsConcatenation
<1>. QED
  BY <1>6 DEF ProjectSpan, root, required, model, node, edge, link, links, models

\* project_finding writes and requires the rows of Findings.
LEMMA FindingEffects ==
  ASSUME NEW a
  PROVE  Effects(ProjectFinding(a), OtherKinds)
<1>. DEFINE assertion == <<a.finding_id, a.finding_scope_id>>
            target == assertion \o <<a.finding_target_kind, a.finding_target_id,
                                     Get(a, "finding_target_artifact_id")>>
            lifecycle == "fix_id" \in DOMAIN a \/ "recheck_id" \in DOMAIN a
            scope == FirstWriteOf("finding_scope_guard", <<a.finding_id>>,
                                  [scope_id |-> a.finding_scope_id])
            guard == FirstWriteOf("finding_target_guard",
                                  assertion \o <<a.finding_target_id>>,
                                  [kind |-> a.finding_target_kind,
                                   containing_artifact_id |->
                                     Get(a, "finding_target_artifact_id")])
            known == RequireOf("finding_assertion", assertion,
                               Pick(a, InvariantNames))
            aimed == RequireOf("finding_target", target, EmptyPayload)
            opened == FirstWriteOf("finding_assertion", assertion,
                        Pick(a, InvariantNames \cup ActorNames
                                  \cup {"artifact_id", "artifact_digest"}))
            aim == FirstWriteOf("finding_target", target, EmptyPayload)
            status == FirstWriteOf("finding_status", assertion \o <<a.review_id>>,
                                   WithActors(a, [status |-> a.finding_status]))
            fix == FirstWriteOf("finding_fix", target \o <<Get(a, "fix_id")>>,
                     WithActors(a, [finding_id |-> Get(a, "fix_finding_id"),
                                    review_id |-> a.review_id]))
            fixed == RequireOf("finding_fix",
                               target \o <<Get(a, "recheck_fix_id")>>,
                               EmptyPayload)
            recheck == FirstWriteOf("finding_recheck",
                         target \o <<Get(a, "recheck_id")>>,
                         WithActors(a, [review_id |-> a.review_id,
                             prior_review_id |-> Get(a, "recheck_review_id"),
                             finding_id |-> Get(a, "recheck_finding_id"),
                             fix_id |-> Get(a, "recheck_fix_id"),
                             iteration_id |-> Get(a, "iteration_id"),
                             recheck_role_id |-> Get(a, "recheck_role_id"),
                             recheck_invocation_id |->
                               Get(a, "recheck_invocation_id")]))
            middle == IF lifecycle THEN <<known, aimed>> ELSE <<opened, aim>>
<1>1. /\ IsSequence(assertion) /\ IsSequence(target)
      /\ IsSequence(assertion \o <<a.finding_target_id>>)
      /\ IsSequence(assertion \o <<a.review_id>>)
      /\ IsSequence(target \o <<Get(a, "fix_id")>>)
      /\ IsSequence(target \o <<Get(a, "recheck_fix_id")>>)
      /\ IsSequence(target \o <<Get(a, "recheck_id")>>)
  BY Tuples, Concatenation, Zenon
<1>. HIDE DEF assertion, target
<1>2. /\ IsEffect(scope) /\ scope.kind \in OtherKinds
      /\ IsEffect(guard) /\ guard.kind \in OtherKinds
      /\ IsEffect(known) /\ known.kind \in OtherKinds
      /\ IsEffect(aimed) /\ aimed.kind \in OtherKinds
      /\ IsEffect(opened) /\ opened.kind \in OtherKinds
      /\ IsEffect(aim) /\ aim.kind \in OtherKinds
      /\ IsEffect(status) /\ status.kind \in OtherKinds
      /\ IsEffect(fix) /\ fix.kind \in OtherKinds
      /\ IsEffect(fixed) /\ fixed.kind \in OtherKinds
      /\ IsEffect(recheck) /\ recheck.kind \in OtherKinds
  BY <1>1, Tuples, Constructors DEF OtherKinds
<1>. HIDE DEF scope, guard, known, aimed, opened, aim, status, fix, fixed, recheck
<1>3. /\ Effects(<<scope, guard>>, OtherKinds)
      /\ Effects(middle, OtherKinds)
      /\ Effects(<<status>>, OtherKinds)
      /\ Effects(If("fix_id" \in DOMAIN a, fix), OtherKinds)
      /\ Effects(If("recheck_id" \in DOMAIN a /\ "recheck_fix_id" \in DOMAIN a,
                    fixed), OtherKinds)
      /\ Effects(If("recheck_id" \in DOMAIN a, recheck), OtherKinds)
  BY <1>2, EffectsFew
<1>. HIDE DEF middle
<1>4. Effects(<<scope, guard>> \o middle \o <<status>>
                \o If("fix_id" \in DOMAIN a, fix)
                \o If("recheck_id" \in DOMAIN a /\ "recheck_fix_id" \in DOMAIN a,
                      fixed)
                \o If("recheck_id" \in DOMAIN a, recheck), OtherKinds)
  BY <1>3, EffectsConcatenation
<1>. QED
  BY <1>4 DEF ProjectFinding, assertion, target, lifecycle, scope, guard, known,
              aimed, opened, aim, status, fix, fixed, recheck, middle

\* A factual contribution and a role lineage are one row each.
LEMMA OtherEffects ==
  ASSUME NEW r
  PROVE  /\ Effects(ProjectContribution(r), OtherKinds)
         /\ Effects(ProjectRoleLineage(r), OtherKinds)
<1>1. Effects(ProjectContribution(r), OtherKinds)
  BY Tuples, Constructors, EffectsFew DEF ProjectContribution, OtherKinds
<1>2. IsSequence(If(r.profile = 2, DeliveryOf(r))
                   \o <<r.attrs.family_schema, r.attrs.role_id>>)
  <2>1. IsSequence(If(r.profile = 2, DeliveryOf(r)))
    BY Tuples DEF If
  <2>. QED
    BY <2>1, Tuples, Concatenation
<1>3. Effects(ProjectRoleLineage(r), OtherKinds)
  BY <1>2, Constructors, EffectsFew DEF ProjectRoleLineage, OtherKinds
<1>. QED
  BY <1>1, <1>3

\* The context of an event changes payloads only.
LEMMA ContextEffects ==
  ASSUME NEW r, NEW es, Effects(es, OtherKinds)
  PROVE  Effects(BindEventContext(r, es), OtherKinds)
<1>. DEFINE bound == BindEventContext(r, es)
<1>1. CASE r.trace = Null \/ r.span = Null
  BY <1>1 DEF BindEventContext
<1>2. CASE ~(r.trace = Null \/ r.span = Null)
  <2>1. DOMAIN bound = DOMAIN es /\ bound = [i \in DOMAIN bound |-> bound[i]]
    BY <1>2 DEF BindEventContext
  <2>2. IsSequence(bound)
    BY <2>1, SameDomain DEF Effects
  <2>3. ASSUME NEW i \in DOMAIN bound
        PROVE  IsEffect(bound[i]) /\ bound[i].kind \in OtherKinds
    <3>1. PICK p : bound[i] = es[i] \/ bound[i] = [es[i] EXCEPT !.payload = p]
      BY <1>2, <2>1 DEF BindEventContext
    <3>2. IsEffect(es[i]) /\ es[i].kind \in OtherKinds
      BY <2>1 DEF Effects
    <3>. QED
      BY <3>1, <3>2 DEF IsEffect
  <2>. QED
    BY <2>2, <2>3 DEF Effects
<1>. QED
  BY <1>1, <1>2

-------------------------------------------------------------------------------
(* Task bindings *)

\* The keys of a Delivery's place in a Task.
LEMMA BindingKeys ==
  ASSUME NEW kind, NEW a, NEW b
  PROVE  <<kind>> \o <<a>> = <<kind, a>> /\ <<kind>> \o <<a, b>> = <<kind, a, b>>
<1>1. <<kind>> \o <<a>> = <<kind, a>>
  <2>. DEFINE s == <<kind>> \o <<a>>
              t == <<kind, a>>
  <2>1. /\ s \in Seq({kind, a}) /\ Len(s) = 2 /\ s[1] = kind /\ s[2] = a
        /\ t \in Seq({kind, a}) /\ Len(t) = 2 /\ t[1] = kind /\ t[2] = a
    OBVIOUS
  <2>. HIDE DEF s, t
  <2>2. s = [i \in 1..2 |-> s[i]] /\ t = [i \in 1..2 |-> t[i]]
    BY <2>1
  <2>3. \A i \in 1..2 : s[i] = t[i]
    BY <2>1
  <2>4. s = t
    BY <2>2, <2>3
  <2>. QED
    BY <2>4 DEF s, t
<1>2. <<kind>> \o <<a, b>> = <<kind, a, b>>
  <2>. DEFINE s == <<kind>> \o <<a, b>>
              t == <<kind, a, b>>
              S == {kind, a, b}
  <2>1. /\ s \in Seq(S) /\ Len(s) = 3 /\ s[1] = kind /\ s[2] = a /\ s[3] = b
        /\ t \in Seq(S) /\ Len(t) = 3 /\ t[1] = kind /\ t[2] = a /\ t[3] = b
    OBVIOUS
  <2>. HIDE DEF s, t
  <2>2. s = [i \in 1..3 |-> s[i]] /\ t = [i \in 1..3 |-> t[i]]
    BY <2>1
  <2>3. \A i \in 1..3 : s[i] = t[i]
    BY <2>1
  <2>4. s = t
    BY <2>2, <2>3
  <2>. QED
    BY <2>4 DEF s, t
<1>. QED
  BY <1>1, <1>2

MembershipKey(a) == <<"delivery_task_membership", a.task_id, a.delivery_id>>
GuardKey(a) == <<"delivery_task_guard", a.delivery_id>>
ManifestKey(a) == <<"delivery_manifest", a.manifest_digest>>
ManifestPayload(a) ==
  [canonical_projection |-> a.delivery_manifest_projection,
   projection_digest |-> a.delivery_manifest_projection_digest]

\* A binding writes, in this order, its Task, its Delivery's place in the Task
\* and the Delivery's guard, which names the Task; then perhaps the Task's name.
LEMMA BindingEffects ==
  ASSUME NEW a
  PROVE  LET es == ProjectTaskBinding(a) IN
         /\ Effects(es, BindingKinds)
         /\ {2, 3} \subseteq DOMAIN es
         /\ EffectKey(es[2]) = MembershipKey(a)
         /\ EffectKey(es[3]) = GuardKey(a)
         /\ es[2].op = "first_write" /\ es[3].op = "first_write"
         /\ Get(es[3].payload, "task_id") = a.task_id
         /\ \A i \in DOMAIN es :
              /\ es[i].op = "first_write"
              /\ es[i].kind \in {"task_declaration", "task_display_name"} =>
                   EffectKey(es[i]) = <<es[i].kind, a.task_id>>
              /\ es[i].kind = "delivery_task_membership" =>
                   EffectKey(es[i]) = MembershipKey(a)
              /\ es[i].kind = "delivery_task_guard" =>
                   EffectKey(es[i]) = GuardKey(a)
              /\ es[i].kind = "delivery_manifest" =>
                   /\ EffectKey(es[i]) = ManifestKey(a)
                   /\ es[i].payload = ManifestPayload(a)
<1>. DEFINE
       declaration == FirstWriteOf("task_declaration", <<a.task_id>>, EmptyPayload)
       membership == FirstWriteOf("delivery_task_membership",
                                  <<a.task_id, a.delivery_id>>,
                                  [manifest_digest |-> a.manifest_digest])
       guard == FirstWriteOf("delivery_task_guard", <<a.delivery_id>>,
                             [task_id |-> a.task_id,
                              manifest_digest |-> a.manifest_digest])
       name == FirstWriteOf("task_display_name", <<a.task_id>>,
                            [display_name |-> Get(a, "task_display_name")])
       manifest == FirstWriteOf("delivery_manifest", <<a.manifest_digest>>,
                     [canonical_projection |-> a.delivery_manifest_projection,
                      projection_digest |->
                        a.delivery_manifest_projection_digest])
       named == If("task_display_name" \in DOMAIN a, name)
       first == <<declaration, membership, guard>>
       es == first \o named \o <<manifest>>
       All == {declaration, membership, guard, name, manifest}
       K == BindingKinds
<1>1. \A e \in All : IsEffect(e) /\ e.kind \in K /\ e.op = "first_write"
  BY Tuples, Constructors DEF BindingKinds, OtherKinds, FirstWriteOf
<1>2. /\ EffectKey(declaration) = <<"task_declaration", a.task_id>>
      /\ EffectKey(membership) = MembershipKey(a)
      /\ EffectKey(guard) = GuardKey(a)
      /\ EffectKey(name) = <<"task_display_name", a.task_id>>
      /\ EffectKey(manifest) = ManifestKey(a)
  BY BindingKeys
  DEF EffectKey, FirstWriteOf, MembershipKey, GuardKey, ManifestKey
<1>3. /\ declaration.kind = "task_declaration"
      /\ membership.kind = "delivery_task_membership"
      /\ guard.kind = "delivery_task_guard"
      /\ name.kind = "task_display_name" /\ manifest.kind = "delivery_manifest"
      /\ Get(guard.payload, "task_id") = a.task_id
      /\ manifest.payload = ManifestPayload(a)
  BY DEF FirstWriteOf, Get, ManifestPayload
<1>. HIDE DEF declaration, membership, guard, name, manifest
<1>4. IsSequence(first) /\ IsSequence(named) /\ IsSequence(<<manifest>>)
  BY Tuples DEF If
<1>5. /\ \A i \in DOMAIN first : first[i] \in All
      /\ \A i \in DOMAIN named : named[i] \in All
      /\ \A i \in DOMAIN <<manifest>> : <<manifest>>[i] \in All
      /\ {2, 3} \subseteq DOMAIN first
      /\ first[2] = membership /\ first[3] = guard
  BY DEF If
<1>. HIDE DEF first, named, All
<1>6. /\ IsSequence(first \o named)
      /\ \A i \in DOMAIN (first \o named) : (first \o named)[i] \in All
      /\ {2, 3} \subseteq DOMAIN (first \o named)
      /\ (first \o named)[2] = membership /\ (first \o named)[3] = guard
  BY <1>4, <1>5, Concatenation
<1>7. /\ IsSequence(es)
      /\ \A i \in DOMAIN es : es[i] \in All
      /\ {2, 3} \subseteq DOMAIN es
      /\ es[2] = membership /\ es[3] = guard
  BY <1>4, <1>5, <1>6, Concatenation
<1>8. ProjectTaskBinding(a) = es
  BY DEF ProjectTaskBinding, first, named, declaration, membership, guard, name,
         manifest
<1>. HIDE DEF es
<1>9. Effects(es, K)
  BY <1>1, <1>7 DEF Effects
<1>10. ASSUME NEW i \in DOMAIN es
       PROVE  /\ es[i].op = "first_write"
              /\ es[i].kind \in {"task_declaration", "task_display_name"} =>
                   EffectKey(es[i]) = <<es[i].kind, a.task_id>>
              /\ es[i].kind = "delivery_task_membership" =>
                   EffectKey(es[i]) = MembershipKey(a)
              /\ es[i].kind = "delivery_task_guard" =>
                   EffectKey(es[i]) = GuardKey(a)
              /\ es[i].kind = "delivery_manifest" =>
                   /\ EffectKey(es[i]) = ManifestKey(a)
                   /\ es[i].payload = ManifestPayload(a)
  BY <1>1, <1>2, <1>3, <1>7 DEF All
<1>11. /\ {2, 3} \subseteq DOMAIN es
       /\ EffectKey(es[2]) = MembershipKey(a)
       /\ EffectKey(es[3]) = GuardKey(a)
       /\ es[2].op = "first_write" /\ es[3].op = "first_write"
       /\ Get(es[3].payload, "task_id") = a.task_id
  BY <1>2, <1>3, <1>7, <1>10
<1>. HIDE DEF K
<1>. QED
  BY <1>8, <1>9, <1>10, <1>11 DEF K

-------------------------------------------------------------------------------

\* The effects of any record: a sequence, whose keys start with their kinds; the
\* rows of a Task and of a Delivery's place in it come from bindings only.
LEMMA ProjectShape ==
  ASSUME NEW r, IsSequence(r.links), IsEvent(r, "task.binding") => r.profile = 2
  PROVE  LET es == Project(r) IN
         /\ Len(es) \in Nat /\ DOMAIN es = 1..Len(es)
         /\ \A i \in DOMAIN es :
              /\ EffectKey(es[i])[1] = es[i].kind
              /\ es[i].kind \in BindingKinds => /\ IsBinding(r)
                                                /\ es[i].op = "first_write"
              /\ es[i].kind \in {"task_declaration", "task_display_name"} =>
                   EffectKey(es[i]) = <<es[i].kind, r.attrs.task_id>>
              /\ es[i].kind = "delivery_task_membership" =>
                   EffectKey(es[i]) = MembershipKey(r.attrs)
              /\ es[i].kind = "delivery_task_guard" =>
                   EffectKey(es[i]) = GuardKey(r.attrs)
              /\ es[i].kind = "delivery_manifest" =>
                   /\ EffectKey(es[i]) = ManifestKey(r.attrs)
                   /\ es[i].payload = ManifestPayload(r.attrs)
         /\ IsBinding(r) =>
              /\ \E i \in DOMAIN es : /\ es[i].op = "first_write"
                                      /\ EffectKey(es[i]) = MembershipKey(r.attrs)
              /\ \E i \in DOMAIN es :
                   /\ es[i].op = "first_write"
                   /\ EffectKey(es[i]) = GuardKey(r.attrs)
                   /\ Get(es[i].payload, "task_id") = r.attrs.task_id
<1>. DEFINE es == Project(r)
            K == BindingKinds
<1>1. ASSUME NEW s, NEW K1, Effects(s, K1)
      PROVE  /\ Len(s) \in Nat /\ DOMAIN s = 1..Len(s)
             /\ \A i \in DOMAIN s : EffectKey(s[i])[1] = s[i].kind
  <2>1. PICK S : s \in Seq(S)
    BY <1>1, Zenon DEF Effects, IsSequence
  <2>. QED
    BY <1>1, <2>1, KindFirst DEF Effects
<1>2. CASE IsEvent(r, "task.binding")
  <2>1. es = ProjectTaskBinding(r.attrs) /\ IsBinding(r)
    BY <1>2 DEF Project, IsEvent, IsBinding
  <2>. HIDE DEF es
  <2>2. Effects(es, K)
    BY <2>1, BindingEffects
  <2>3. /\ {2, 3} \subseteq DOMAIN es
        /\ EffectKey(es[2]) = MembershipKey(r.attrs)
        /\ EffectKey(es[3]) = GuardKey(r.attrs)
        /\ es[2].op = "first_write" /\ es[3].op = "first_write"
        /\ Get(es[3].payload, "task_id") = r.attrs.task_id
        /\ \A i \in DOMAIN es :
             /\ es[i].op = "first_write"
             /\ es[i].kind \in {"task_declaration", "task_display_name"} =>
                  EffectKey(es[i]) = <<es[i].kind, r.attrs.task_id>>
             /\ es[i].kind = "delivery_task_membership" =>
                  EffectKey(es[i]) = MembershipKey(r.attrs)
             /\ es[i].kind = "delivery_task_guard" =>
                  EffectKey(es[i]) = GuardKey(r.attrs)
             /\ es[i].kind = "delivery_manifest" =>
                  /\ EffectKey(es[i]) = ManifestKey(r.attrs)
                  /\ es[i].payload = ManifestPayload(r.attrs)
    BY <2>1, BindingEffects
  <2>4. /\ Len(es) \in Nat /\ DOMAIN es = 1..Len(es)
        /\ \A i \in DOMAIN es : EffectKey(es[i])[1] = es[i].kind
    BY <1>1, <2>2
  <2>5. /\ \E i \in DOMAIN es : /\ es[i].op = "first_write"
                                /\ EffectKey(es[i]) = MembershipKey(r.attrs)
        /\ \E i \in DOMAIN es :
             /\ es[i].op = "first_write"
             /\ EffectKey(es[i]) = GuardKey(r.attrs)
             /\ Get(es[i].payload, "task_id") = r.attrs.task_id
    BY <2>3
  <2>6. \A i \in DOMAIN es :
          /\ EffectKey(es[i])[1] = es[i].kind
          /\ es[i].kind \in BindingKinds => /\ IsBinding(r)
                                            /\ es[i].op = "first_write"
          /\ es[i].kind \in {"task_declaration", "task_display_name"} =>
               EffectKey(es[i]) = <<es[i].kind, r.attrs.task_id>>
          /\ es[i].kind = "delivery_task_membership" =>
               EffectKey(es[i]) = MembershipKey(r.attrs)
          /\ es[i].kind = "delivery_task_guard" =>
               EffectKey(es[i]) = GuardKey(r.attrs)
          /\ es[i].kind = "delivery_manifest" =>
               /\ EffectKey(es[i]) = ManifestKey(r.attrs)
               /\ es[i].payload = ManifestPayload(r.attrs)
    BY <2>1, <2>3, <2>4
  <2>. QED
    BY <2>4, <2>5, <2>6, Zenon DEF es
<1>3. CASE ~IsEvent(r, "task.binding")
  <2>1. Effects(es, OtherKinds)
    <3>1. CASE r.type = "span"
      BY <3>1, SpanEffects DEF Project, IsEvent
    <3>2. CASE r.type # "span" /\ IsEvent(r, "review.finding")
      BY <3>2, FindingEffects, ContextEffects DEF Project, IsEvent
    <3>3. CASE r.type # "span" /\ IsEvent(r, "role.lineage")
      BY <3>3, OtherEffects, ContextEffects DEF Project, IsEvent
    <3>4. CASE /\ r.type # "span"
               /\ ~IsEvent(r, "review.finding") /\ ~IsEvent(r, "role.lineage")
      <4>1. es = BindEventContext(r, ProjectContribution(r))
        BY <1>3, <3>4 DEF Project
      <4>. QED
        BY <4>1, OtherEffects, ContextEffects
    <3>. QED
      BY <3>1, <3>2, <3>3, <3>4
  <2>2. ~IsBinding(r)
    BY <1>3 DEF IsBinding
  <2>3. \A i \in DOMAIN es :
          es[i].kind \notin BindingKinds
            \cup {"task_declaration", "task_display_name",
                  "delivery_task_membership", "delivery_task_guard",
                  "delivery_manifest"}
    BY <2>1 DEF Effects, BindingKinds, OtherKinds
  <2>. HIDE DEF es
  <2>. QED
    BY <1>1, <2>1, <2>2, <2>3 DEF es
<1>. QED
  BY <1>2, <1>3
===============================================================================
