----------------------------- MODULE ServiceStore -----------------------------
(***************************************************************************)
(* The store as the HTTP requests and the maintenance callers see it: each *)
(* transaction is one step.  EvidenceSystem has the statements inside the  *)
(* transactions and shows that they implement such steps.                  *)
(***************************************************************************)
EXTENDS Validation, Tables, FiniteSets

CONSTANTS
  Workloads,    \* the sets of requests the exporters may have to send
  Exporters,    \* requests served at a time
  MaxRecords,   \* MAX_BATCH_RECORDS, 512
  MaxValues,    \* distinct values of a bounded attribute in a request, 256
  TraceTTL,     \* trace_detail_ttl
  FactTTL,      \* factual_projection_ttl
  DeliveryTTL,  \* delivery_ttl
  ExpiryLimit,  \* the limit of an expiry plan
  MaxTime,      \* bound: clock ticks
  MaxFaults     \* bound: store faults and lost replies

ASSUME ServiceAssumption ==
  /\ {MaxRecords, MaxValues, TraceTTL, FactTTL, DeliveryTTL, ExpiryLimit,
      MaxTime, MaxFaults} \subseteq Nat
  /\ ExpiryLimit > 0

\* What the decoder makes of any request: sequences of items, Delivery ids that
\* are ranks, and an attribute that is null has a wrong type.
IsItem(item) ==
  /\ item.links \in Seq({item.links[i] : i \in DOMAIN item.links})
  /\ "delivery_id" \in DOMAIN item.attrs =>
       item.attrs.delivery_id \in Nat \ {NoDelivery}
  /\ \A name \in {"finding_id", "finding_target_artifact_id", "recheck_fix_id"} :
       name \in DOMAIN item.attrs /\ item.attrs[name] = Null => name \in item.bad

IsRequest(q) ==
  /\ q.records \in Seq({q.records[i] : i \in DOMAIN q.records})
  /\ \A i \in DOMAIN q.records : IsItem(q.records[i])

ItemsOf(workload) ==
  UNION {{q.records[i] : i \in DOMAIN q.records} : q \in workload}

\* The identity of a span is its coordinates.
ASSUME WorkloadAssumption ==
  \A workload \in Workloads :
    /\ \A q \in workload : IsRequest(q)
    /\ \A item, other \in ItemsOf(workload) :
         item.type = "span" =>
           (item.id = other.id <=> /\ other.type = "span"
                                   /\ item.trace = other.trace
                                   /\ item.span = other.span)

VARIABLES
  now,       \* the clock
  accepted,  \* accepted_records with their Delivery memberships
  effects,   \* projection_effects
  anchors,   \* delivery_terminal_anchors: the identity of the summary
  fences,    \* delivery_retirement_fences
  markers,   \* retention_expiry_markers of effect rows, by effect row
  inbox,     \* requests the exporters have not given up or seen answered
  export,    \* the request each exporter has in flight
  plan,      \* the ExpiryBatch a maintenance caller holds
  faults     \* faults so far

tables == <<accepted, effects, anchors, fences, markers>>
vars == <<now, accepted, effects, anchors, fences, markers, inbox, export, plan,
          faults>>

\* The accepted rows that are members of a Delivery, and the effect rows they
\* are the source of.
MembersOf(d) == {id \in DOMAIN accepted : DeliveryOf(accepted[id].rec) = d}
OwnedBy(d) == {k \in DOMAIN effects : effects[k].src \in MembersOf(d)}

-------------------------------------------------------------------------------
(* One admission transaction *)

\* The attributes project() reads with a subscript: a KeyError if one is
\* missing.  A fix's and a recheck's own attributes are read only there.
ProjectionReads(r) ==
  LET a == r.attrs
      fixed == IF "fix_id" \in DOMAIN a THEN {"fix_finding_id"} ELSE {}
      rechecked == IF "recheck_id" \in DOMAIN a
                   THEN RecheckNames \ {"recheck_id", "recheck_fix_id"} ELSE {}
      opened == IF {"fix_id", "recheck_id"} \cap DOMAIN a = {}
                THEN ArtifactNames ELSE {}
  IN
  CASE r.type = "span" ->
         (IF r.name = "invoke_workflow"
          THEN {"workflow_family", "delivery_id", "runtime_id",
                "manifest_digest"} ELSE {})
           \cup (IF "model_id" \in DOMAIN a
                 THEN {"runtime_id", "gen_ai_provider_name", "role_id",
                       "gen_ai_request_model"} ELSE {})
    [] IsEvent(r, "task.binding") ->
         {"task_id", "delivery_id", "manifest_digest",
          "delivery_manifest_projection", "delivery_manifest_projection_digest"}
    [] IsEvent(r, "review.finding") ->
         InvariantNames \cup ActorNames \cup fixed \cup rechecked \cup opened
           \cup {"finding_id", "finding_scope_id", "finding_target_kind",
                 "finding_target_id", "finding_status", "review_id"}
    [] IsEvent(r, "role.lineage") -> {"family_schema", "role_id"}
    [] OTHER -> {}

\* The i-th effect of a record finds a row: of the table, or one that an
\* earlier effect of the record wrote.
Earlier(es, i) ==
  {j \in 1..(i - 1) :
     es[j].op = "first_write" /\ EffectKey(es[j]) = EffectKey(es[i])}
Finds(es, i) == EffectKey(es[i]) \in DOMAIN effects \/ Earlier(es, i) # {}
Found(es, i) ==
  IF EffectKey(es[i]) \in DOMAIN effects
  THEN effects[EffectKey(es[i])].payload
  ELSE es[MinOf(Earlier(es, i))].payload

\* Mutant: a first write does not compare its payload with the row.
RefusedNoCompare(es, i) ==
  /\ es[i].op = "require"
  /\ Finds(es, i) => \E name \in DOMAIN es[i].payload :
                       \/ name \notin DOMAIN Found(es, i)
                       \/ Found(es, i)[name] # es[i].payload[name]

\* Mutant: a required row is not looked up.
RefusedNoRequire(es, i) ==
  /\ es[i].op = "first_write"
  /\ Finds(es, i) /\ Found(es, i) # es[i].payload

Refused(es, i) ==
  \/ /\ es[i].op = "require"
     /\ Finds(es, i) => \E name \in DOMAIN es[i].payload :
                          \/ name \notin DOMAIN Found(es, i)
                          \/ Found(es, i)[name] # es[i].payload[name]
  \/ /\ es[i].op = "first_write"
     /\ Finds(es, i) /\ Found(es, i) # es[i].payload

\* claim_identity, project and apply_effects: the first effect that is refused
\* decides.
Disposition(r) ==
  LET es == Project(r)
      refused == {i \in DOMAIN es : Refused(es, i)}
  IN
  CASE DeliveryOf(r) \in fences -> "rejected"
    [] DeliveryOf(r) \notin fences /\ r.id \in DOMAIN accepted ->
         IF accepted[r.id].rec = r THEN "duplicate" ELSE "conflict"
    [] DeliveryOf(r) \notin fences /\ r.id \notin DOMAIN accepted
         /\ IsSummary(r) /\ DeliveryOf(r) \in DOMAIN anchors -> "conflict"
    [] OTHER ->
         IF ~(ProjectionReads(r) \subseteq DOMAIN r.attrs) THEN "error"
         ELSE IF refused = {} THEN "accepted"
         ELSE IF es[MinOf(refused)].op = "require" THEN "rejected"
         ELSE "conflict"

\* What the transaction of an accepted record commits.
Store(r) ==
  LET es == Project(r)
      new == {i \in DOMAIN es : es[i].op = "first_write" /\ ~Finds(es, i)}
  IN
  /\ accepted' = With(accepted, Row(r.id, [rec |-> r, at |-> now]))
  /\ effects' = With(effects,
                     [k \in {EffectKey(es[i]) : i \in new} |->
                        [payload |-> es[CHOOSE i \in new :
                                          EffectKey(es[i]) = k].payload,
                         src |-> r.id, at |-> now]])
  /\ anchors' = IF IsSummary(r) THEN With(anchors, Row(DeliveryOf(r), r.id))
                                ELSE anchors
  /\ UNCHANGED <<fences, markers>>

\* The transaction of a record: its disposition and its commit.
Transact(r) == IF Disposition(r) = "accepted" THEN Store(r) ELSE UNCHANGED tables

-------------------------------------------------------------------------------
(* One deletion transaction *)

\* The rows of a Delivery's Task that _preserve_referenced_task moves to the
\* first of the other Deliveries in it.
Preserved(d) ==
  LET guard == <<"delivery_task_guard", d>> IN
  IF guard \notin DOMAIN effects THEN {}
  ELSE {<<"task_declaration", effects[guard].payload.task_id>>,
        <<"task_display_name", effects[guard].payload.task_id>>} \cap OwnedBy(d)

\* Mutant: the Delivery may be its own heir.
HeirsAny(d) ==
  {k \in DOMAIN effects :
     /\ k[1] = "delivery_task_membership"
     /\ <<"delivery_task_guard", d>> \in DOMAIN effects
     /\ k[2] = effects[<<"delivery_task_guard", d>>].payload.task_id}

\* The membership rows of the other Deliveries of a Delivery's Task.
Heirs(d) ==
  {k \in DOMAIN effects :
     /\ k[1] = "delivery_task_membership" /\ k[3] # d
     /\ <<"delivery_task_guard", d>> \in DOMAIN effects
     /\ k[2] = effects[<<"delivery_task_guard", d>>].payload.task_id}

\* Mutant: the tombstones are left behind.
NoTombstones(d) == {}

\* The tombstones of a Delivery's rows.
Tombstones(d) == {k \in DOMAIN markers : markers[k].src \in MembersOf(d)}

\* apply_delivery_deletion of a batch of one Delivery.
Retire(d) ==
  LET heir == CHOOSE k \in Heirs(d) : \A h \in Heirs(d) : k[3] <= h[3]
      moved == IF Heirs(d) = {} THEN {} ELSE Preserved(d)
  IN
  /\ d \in DOMAIN anchors \ fences
  /\ accepted[anchors[d]].at + DeliveryTTL <= now
  /\ effects' = [k \in DOMAIN effects \ (OwnedBy(d) \ moved) |->
                   IF k \in moved
                   THEN [effects[k] EXCEPT !.src = effects[heir].src]
                   ELSE effects[k]]
  /\ markers' = Without(markers, Tombstones(d))
  /\ accepted' = Without(accepted, MembersOf(d))
  /\ anchors' = Without(anchors, {d})
  /\ fences' = fences \cup {d}
  /\ UNCHANGED <<now, inbox, export, plan, faults>>
===============================================================================
