----------------------------- MODULE ServiceProofs -----------------------------
(***************************************************************************)
(* Proofs about the service: that what passes validation has all that the  *)
(* projection reads, that answers are true, and that tombstones stay with  *)
(* their rows.                                                             *)
(***************************************************************************)
EXTENDS ServiceInvariants, ProjectionProofs, FiniteSetTheorems,
        WellFoundedInduction

USE DEF tables

-------------------------------------------------------------------------------
(* Validation *)

\* A record that is valid was decoded without a carrier fault.
LEMMA DecodedWhole ==
  ASSUME NEW item, Validates(Decode(item))
  PROVE  /\ Decode(item).attrs = item.attrs /\ Decode(item).links = item.links
         /\ item.bad \cap DOMAIN item.attrs = {}
<1>1. "carrier" \notin Decode(item).defects
  BY DEF Validates, ValidateEnvelope
<1>2. item.carrier = {}
  BY <1>1 DEF Decode
<1>3. Decode(item).bad = {}
  BY DEF Validates, ValidateAttributes
<1>. QED
  BY <1>2, <1>3 DEF Decode

\* What validation accepts is well formed.
LEMMA ValidWellFormed ==
  ASSUME NEW item, IsItem(item), NEW l, l = Decode(item), Validates(l)
  PROVE  WellFormed(Validated(l))
<1>1. l.attrs = item.attrs /\ l.links = item.links
  BY DecodedWhole
<1>. DEFINE r == Validated(l)
<1>2. /\ r.attrs = l.attrs /\ r.links = l.links /\ r.type = l.type
      /\ r.name = l.name /\ r.profile = l.profile
  BY DEF Validated
<1>3. l.type = "event" /\ l.name = "task.binding" =>
        l.profile = 2 /\ ParseClosedManifestProjection(l.attrs)
  BY DEF Validates, ValidateEvent, EventClosed, EventNames
<1>4. l.profile = 2 => "delivery_id" \in DOMAIN l.attrs
  BY DEF Validates, ValidateEvent, EventClosed, ValidateSpan
<1>. HIDE DEF r
<1>5. r.links \in Seq({r.links[j] : j \in DOMAIN r.links})
  BY <1>1, <1>2 DEF IsItem
<1>6. IsEvent(r, "task.binding") =>
        r.profile = 2 /\ ParseClosedManifestProjection(r.attrs)
  BY <1>2, <1>3 DEF IsEvent
<1>7. r.profile = 2 => r.attrs.delivery_id \in Nat
  BY <1>1, <1>2, <1>4 DEF IsItem
<1>8. WellFormed(r)
  BY <1>5, <1>6, <1>7 DEF WellFormed
<1>. QED
  BY <1>8 DEF r

\* A valid record has every attribute that project() subscripts: no KeyError.
LEMMA ReadsPresent ==
  ASSUME NEW item, IsItem(item), NEW l, l = Decode(item), Validates(l)
  PROVE  ProjectionReads(Validated(l)) \subseteq DOMAIN Validated(l).attrs
<1>1. l.attrs = item.attrs /\ item.bad \cap DOMAIN item.attrs = {}
  BY DecodedWhole
<1>. DEFINE r == Validated(l)
            a == l.attrs
            fixed == IF "fix_id" \in DOMAIN a THEN {"fix_finding_id"} ELSE {}
            rechecked == IF "recheck_id" \in DOMAIN a
                         THEN RecheckNames \ {"recheck_id", "recheck_fix_id"}
                         ELSE {}
            opened == IF {"fix_id", "recheck_id"} \cap DOMAIN a = {}
                      THEN ArtifactNames ELSE {}
<1>2. r.attrs = a /\ r.type = l.type /\ r.name = l.name
  BY DEF Validated
<1>3. "finding_id" \in DOMAIN a => a.finding_id # Null
  BY <1>1 DEF IsItem
<1>. HIDE DEF r
<1>4. CASE l.type = "span"
  <2>1. ValidateSpan(l)
    BY <1>4 DEF Validates
  <2>2. l.name = "invoke_workflow" =>
          {"workflow_family", "delivery_id", "runtime_id", "manifest_digest"}
            \subseteq DOMAIN a
    BY <2>1 DEF ValidateSpan, RootFields, SpanAllowed
  <2>3. "model_id" \in DOMAIN a =>
          {"runtime_id", "gen_ai_provider_name", "role_id",
           "gen_ai_request_model"} \subseteq DOMAIN a
    BY <2>1 DEF ValidateSpan, RequiredByOperation, ModelCall
  <2>4. ProjectionReads(r) =
          (IF l.name = "invoke_workflow"
           THEN {"workflow_family", "delivery_id", "runtime_id",
                 "manifest_digest"} ELSE {})
            \cup (IF "model_id" \in DOMAIN a
                  THEN {"runtime_id", "gen_ai_provider_name", "role_id",
                        "gen_ai_request_model"} ELSE {})
    BY <1>2, <1>4 DEF ProjectionReads, IsEvent
  <2>. HIDE DEF a
  <2>5. ProjectionReads(r) \subseteq DOMAIN a
    BY <2>2, <2>3, <2>4
  <2>. QED
    BY <2>5, <1>2 DEF r, a
<1>5. CASE l.type = "event"
  <2>1. ValidateEvent(l)
    BY <1>5 DEF Validates
  <2>2. Required(l.name) \subseteq DOMAIN a
    BY <2>1 DEF ValidateEvent, EventClosed
  <2>3. CASE l.name = "task.binding"
    <3>1. ProjectionReads(r) =
            {"task_id", "delivery_id", "manifest_digest",
             "delivery_manifest_projection", "delivery_manifest_projection_digest"}
      BY <1>2, <1>5, <2>3 DEF ProjectionReads, IsEvent
    <3>2. ProjectionReads(r) \subseteq Required(l.name)
      BY <2>3, <3>1 DEF Required
    <3>. QED
      BY <2>2, <3>2, <1>2 DEF r
  <2>4. CASE l.name = "role.lineage"
    <3>1. ProjectionReads(r) = {"family_schema", "role_id"}
      BY <1>2, <1>5, <2>4 DEF ProjectionReads, IsEvent
    <3>2. ProjectionReads(r) \subseteq Required(l.name)
      BY <2>4, <3>1 DEF Required, FamilyNames
    <3>. QED
      BY <2>2, <3>2, <1>2 DEF r
  <2>5. CASE l.name = "review.finding"
    <3>. DEFINE plain == InvariantNames \cup ActorNames
                           \cup {"finding_id", "finding_scope_id",
                                 "finding_target_kind", "finding_target_id",
                                 "finding_status", "review_id"}
    <3>1. ProjectionReads(r) = plain \cup fixed \cup rechecked \cup opened
      BY <1>2, <1>5, <2>5 DEF ProjectionReads, IsEvent
    <3>2. plain \cup ArtifactNames \subseteq DOMAIN a
      BY <2>2, <2>5 DEF Required, FamilyNames, ArtifactNames, InvariantNames
    <3>3. ValidateFinding(a) /\ ValidateRecheck(a)
      BY <2>1, <2>5 DEF ValidateEvent
    <3>4. "fix_id" \in DOMAIN a => "fix_finding_id" \in DOMAIN a
      BY <1>3, <3>2, <3>3 DEF ValidateFinding, Get
    <3>5. "recheck_id" \in DOMAIN a => "recheck_finding_id" \in DOMAIN a
      BY <1>3, <3>2, <3>3 DEF ValidateFinding, Get
    <3>6. "recheck_id" \in DOMAIN a =>
            {"recheck_review_id", "iteration_id", "recheck_role_id",
             "recheck_invocation_id"} \subseteq DOMAIN a
      BY <3>3 DEF ValidateRecheck
    <3>. HIDE DEF a
    <3>7. fixed \cup rechecked \cup opened \subseteq DOMAIN a
      BY <3>2, <3>4, <3>5, <3>6 DEF RecheckNames
    <3>. HIDE DEF plain, fixed, rechecked, opened
    <3>8. ProjectionReads(r) \subseteq DOMAIN a
      BY <3>1, <3>2, <3>7
    <3>. QED
      BY <3>8, <1>2 DEF r, a
  <2>6. CASE l.name \notin {"task.binding", "role.lineage", "review.finding"}
    <3>1. ProjectionReads(r) = {}
      BY <1>2, <1>5, <2>6 DEF ProjectionReads, IsEvent
    <3>. QED
      BY <3>1 DEF r
  <2>. QED
    BY <2>3, <2>4, <2>5, <2>6
<1>. QED
  BY <1>4, <1>5 DEF Validates

\* So the transaction of a valid record does not raise.
LEMMA NoError ==
  ASSUME NEW item, IsItem(item), NEW l, l = Decode(item), Validates(l)
  PROVE  Disposition(Validated(l)) # "error"
<1>. DEFINE r == Validated(l)
<1>1. ProjectionReads(r) \subseteq DOMAIN r.attrs
  BY ReadsPresent
<1>. HIDE DEF r
<1>2. Disposition(r) # "error"
  BY <1>1 DEF Disposition
<1>. QED
  BY <1>2 DEF r

\* A record that is accepted is new, and its Delivery is not retired; a
\* duplicate is in the store.
LEMMA Dispositions ==
  ASSUME NEW r
  PROVE  /\ Disposition(r) = "accepted" =>
              r.id \notin DOMAIN accepted /\ DeliveryOf(r) \notin fences
         /\ Disposition(r) = "duplicate" =>
              r.id \in DOMAIN accepted /\ accepted[r.id].rec = r
         /\ Disposition(r) \in {"accepted", "duplicate", "conflict", "rejected",
                                "error"}
  BY DEF Disposition

-------------------------------------------------------------------------------
(* What a step does to the records *)

\* No record is lost but those of a Delivery that gets its fence.
RecordsKept ==
  /\ fences \subseteq fences'
  /\ \A id \in DOMAIN accepted :
       \/ id \in DOMAIN accepted' /\ accepted'[id].rec = accepted[id].rec
       \/ DeliveryOf(accepted[id].rec) \in fences'

\* What a request has settled stays settled.
LEMMA SettledKept ==
  ASSUME RecordsKept, NEW q
  PROVE  Settled(q) \subseteq Settled(q)'
  BY DEF RecordsKept, Settled

\* The exports that a step leaves alone stay as they should be.
LEMMA SlotKept ==
  ASSUME RecordsKept, NEW c, SlotOK(c), export'[c] = export[c]
  PROVE  SlotOK(c)'
<1>0. PICK q, n : q = export[c].req /\ n = export[c].i
  OBVIOUS
<1>. DEFINE done == 1..(n - 1)
<1>1. Settled(q) \cap done \subseteq Settled(q)' \cap done
  BY SettledKept
<1>2. n \in Nat /\ n - 1 \in Int
  BY <1>0 DEF SlotOK, Accounted, IsRequest
<1>3. IsFiniteSet(done)
  BY <1>2, FS_Interval
<1>4. IsFiniteSet(Settled(q)' \cap done)
  BY <1>3, FS_Subset
<1>5. /\ Cardinality(Settled(q) \cap done) \in Nat
      /\ Cardinality(Settled(q)' \cap done) \in Nat
      /\ Cardinality(Settled(q) \cap done) <= Cardinality(Settled(q)' \cap done)
  BY <1>1, <1>3, <1>4, FS_Subset, FS_CardinalityType
<1>. HIDE DEF done
<1>6. Accounted(c)'
  <2>1. /\ n \in 1..(Len(q.records) + 1)
        /\ export[c].rejected \in 0..(n - 1)
        /\ Cardinality(Settled(q) \cap done) + export[c].rejected >= n - 1
        /\ IsFiniteSet(export[c].landed)
        /\ export[c].status # 500 =>
             Cardinality(export[c].landed) + export[c].rejected <= n - 1
    BY <1>0 DEF SlotOK, Accounted, done
  <2>2. Cardinality(Settled(q)' \cap done) + export[c].rejected >= n - 1
    BY <1>2, <1>5, <2>1
  <2>. QED
    BY <1>0, <2>1, <2>2 DEF Accounted, done
<1>7. StatusEarned(c)'
  BY DEF SlotOK, StatusEarned
<1>. QED
  BY <1>6, <1>7 DEF SlotOK

-------------------------------------------------------------------------------
(* Admission *)

\* What the transaction of an accepted record adds to the tables.
LEMMA StoreAdds ==
  ASSUME NEW r, Store(r), r.id \notin DOMAIN accepted
  PROVE  /\ DOMAIN accepted' = DOMAIN accepted \cup {r.id}
         /\ accepted'[r.id] = [rec |-> r, at |-> now]
         /\ \A id \in DOMAIN accepted : accepted'[id] = accepted[id]
         /\ DOMAIN effects \subseteq DOMAIN effects'
         /\ \A k \in DOMAIN effects : effects'[k] = effects[k]
         /\ \A k \in DOMAIN effects' \ DOMAIN effects :
              \E i \in DOMAIN Project(r) :
                /\ Project(r)[i].op = "first_write"
                /\ EffectKey(Project(r)[i]) = k
                /\ effects'[k] = [payload |-> Project(r)[i].payload,
                                  src |-> r.id, at |-> now]
         /\ \A d \in DOMAIN anchors' :
              \/ d \in DOMAIN anchors /\ anchors'[d] = anchors[d]
              \/ d = DeliveryOf(r) /\ anchors'[d] = r.id
         /\ fences' = fences /\ markers' = markers
<1>. DEFINE es == Project(r)
            new == {i \in DOMAIN es : es[i].op = "first_write" /\ ~Finds(es, i)}
            chosen(k) == CHOOSE i \in new : EffectKey(es[i]) = k
            added == [k \in {EffectKey(es[i]) : i \in new} |->
                        [payload |-> es[chosen(k)].payload, src |-> r.id, at |-> now]]
<1>1. effects' = With(effects, added)
  BY DEF Store
<1>2. \A k \in DOMAIN added : k \notin DOMAIN effects
  BY DEF Finds
<1>3. ASSUME NEW k \in DOMAIN added
      PROVE  /\ chosen(k) \in new /\ EffectKey(es[chosen(k)]) = k
             /\ added[k] = [payload |-> es[chosen(k)].payload,
                            src |-> r.id, at |-> now]
  <2>1. \E i \in new : EffectKey(es[i]) = k
    OBVIOUS
  <2>2. chosen(k) \in new /\ EffectKey(es[chosen(k)]) = k
    BY <2>1
  <2>. QED
    BY <2>2
<1>4. \A i \in new : i \in DOMAIN es /\ es[i].op = "first_write"
  OBVIOUS
<1>. HIDE DEF added, new, es, chosen
<1>5. /\ DOMAIN effects' = DOMAIN effects \cup DOMAIN added
      /\ \A k \in DOMAIN effects : effects'[k] = effects[k]
      /\ \A k \in DOMAIN added : effects'[k] = added[k]
  BY <1>1, <1>2 DEF With
<1>6. ASSUME NEW k \in DOMAIN effects' \ DOMAIN effects
      PROVE  \E i \in DOMAIN es :
               /\ es[i].op = "first_write" /\ EffectKey(es[i]) = k
               /\ effects'[k] = [payload |-> es[i].payload, src |-> r.id,
                                 at |-> now]
  <2>1. k \in DOMAIN added /\ effects'[k] = added[k]
    BY <1>5
  <2>. QED
    BY <1>3, <1>4, <2>1
<1>7. /\ DOMAIN accepted' = DOMAIN accepted \cup {r.id}
      /\ accepted'[r.id] = [rec |-> r, at |-> now]
      /\ \A id \in DOMAIN accepted : accepted'[id] = accepted[id]
      /\ fences' = fences /\ markers' = markers
  BY DEF Store, With, Row
<1>8. \A d \in DOMAIN anchors' :
        \/ d \in DOMAIN anchors /\ anchors'[d] = anchors[d]
        \/ d = DeliveryOf(r) /\ anchors'[d] = r.id
  BY DEF Store, With, Row
<1>. QED
  BY <1>5, <1>6, <1>7, <1>8 DEF es

\* The row of a Delivery's place in a Task comes from a record of the Delivery.
LEMMA MembershipProjected ==
  ASSUME NEW r, WellFormed(r), NEW i \in DOMAIN Project(r), NEW k,
         k = EffectKey(Project(r)[i]), k[1] = "delivery_task_membership"
  PROVE  k[3] \in Nat /\ k[3] = DeliveryOf(r)
<1>1. IsSequence(r.links)
  BY Zenon DEF WellFormed, IsSequence
<1>2. IsEvent(r, "task.binding") => r.profile = 2
  BY DEF WellFormed
<1>3. Project(r)[i].kind = "delivery_task_membership"
  BY <1>1, <1>2, ProjectShape
<1>4. IsBinding(r) /\ k = MembershipKey(r.attrs)
  BY <1>1, <1>2, <1>3, ProjectShape DEF BindingKinds
<1>. QED
  BY <1>4 DEF MembershipKey, IsBinding, WellFormed, DeliveryOf

\* The row of a Manifest has the text that validation has compared with it.
LEMMA ManifestProjected ==
  ASSUME NEW r, WellFormed(r), NEW i \in DOMAIN Project(r), NEW k,
         k = EffectKey(Project(r)[i]), k[1] = "delivery_manifest"
  PROVE  ManifestIntact(k, Project(r)[i].payload)
<1>1. IsSequence(r.links)
  BY Zenon DEF WellFormed, IsSequence
<1>2. IsEvent(r, "task.binding") => r.profile = 2
  BY DEF WellFormed
<1>3. Project(r)[i].kind = "delivery_manifest"
  BY <1>1, <1>2, ProjectShape
<1>4. /\ IsBinding(r) /\ k = ManifestKey(r.attrs)
      /\ Project(r)[i].payload = ManifestPayload(r.attrs)
  BY <1>1, <1>2, <1>3, ProjectShape DEF BindingKinds
<1>5. ParseClosedManifestProjection(r.attrs)
  BY <1>4 DEF IsBinding, WellFormed
<1>. QED
  BY <1>4, <1>5
  DEF ManifestIntact, ManifestKey, ManifestPayload, ParseClosedManifestProjection,
      ManifestHead

\* The transaction of an accepted record keeps the tables as they should be.
LEMMA StoreTables ==
  ASSUME NEW r, WellFormed(r), TablesOK, now \in Nat, now' = now, Store(r),
         r.id \notin DOMAIN accepted
  PROVE  TablesOK' /\ RecordsKept
<1>a. /\ DOMAIN accepted' = DOMAIN accepted \cup {r.id}
      /\ accepted'[r.id] = [rec |-> r, at |-> now]
      /\ \A id \in DOMAIN accepted : accepted'[id] = accepted[id]
      /\ fences' = fences /\ markers' = markers
  BY StoreAdds
<1>b. /\ DOMAIN effects \subseteq DOMAIN effects'
      /\ \A k \in DOMAIN effects : effects'[k] = effects[k]
  BY StoreAdds
<1>c. \A k \in DOMAIN effects' \ DOMAIN effects :
        \E i \in DOMAIN Project(r) :
          /\ Project(r)[i].op = "first_write"
          /\ EffectKey(Project(r)[i]) = k
          /\ effects'[k] = [payload |-> Project(r)[i].payload,
                            src |-> r.id, at |-> now]
  BY StoreAdds
<1>d. \A d \in DOMAIN anchors' :
        \/ d \in DOMAIN anchors /\ anchors'[d] = anchors[d]
        \/ d = DeliveryOf(r) /\ anchors'[d] = r.id
  BY StoreAdds
<1>1. ASSUME NEW id \in DOMAIN accepted'
      PROVE  RecordOK(id)'
  <2>1. CASE id = r.id
    <3>1. accepted'[id] = [rec |-> r, at |-> now]
      BY <2>1, <1>a
    <3>. QED
      BY <2>1, <3>1 DEF RecordOK
  <2>2. CASE id # r.id
    <3>1. id \in DOMAIN accepted /\ accepted'[id] = accepted[id]
      BY <2>2, <1>a
    <3>. QED
      BY <3>1 DEF TablesOK, RecordOK
  <2>. QED
    BY <2>1, <2>2
<1>2. ASSUME NEW k \in DOMAIN effects'
      PROVE  RowOK(k)'
  <2>1. CASE k \in DOMAIN effects
    BY <2>1, <1>a, <1>b DEF TablesOK, RowOK, SourceOf
  <2>2. CASE k \notin DOMAIN effects
    <3>0. PICK i \in DOMAIN Project(r) :
            /\ EffectKey(Project(r)[i]) = k
            /\ effects'[k] = [payload |-> Project(r)[i].payload,
                              src |-> r.id, at |-> now]
      BY <2>2, <1>c
    <3>1. /\ effects'[k].src = r.id /\ effects'[k].at = now
          /\ effects'[k] = [payload |-> effects'[k].payload,
                            src |-> effects'[k].src, at |-> effects'[k].at]
      BY <3>0
    <3>2. SourceOf(k)' = r /\ effects'[k].src \in DOMAIN accepted'
      BY <3>1, <1>a DEF SourceOf
    <3>3. k[1] = "delivery_task_membership" => k[3] \in Nat /\ k[3] = DeliveryOf(r)
      BY <3>0, MembershipProjected
    <3>. QED
      BY <3>1, <3>2, <3>3 DEF RowOK
  <2>. QED
    BY <2>1, <2>2
<1>3. ASSUME NEW d \in DOMAIN anchors'
      PROVE  anchors'[d] \in MembersOf(d)'
  BY <1>a, <1>d DEF TablesOK, MembersOf
<1>4. TombstonesMatch'
  BY <1>a, <1>b DEF TablesOK, TombstonesMatch
<1>5. RecordsKept
  BY <1>a DEF RecordsKept
<1>6. ManifestsIntact'
  <2>1. ASSUME NEW k \in DOMAIN effects', k[1] = "delivery_manifest"
        PROVE  ManifestIntact(k, effects'[k].payload)
    <3>1. CASE k \in DOMAIN effects
      BY <1>b, <2>1, <3>1 DEF TablesOK, ManifestsIntact, RowsOf
    <3>2. CASE k \notin DOMAIN effects
      <4>1. PICK i \in DOMAIN Project(r) :
              /\ EffectKey(Project(r)[i]) = k
              /\ effects'[k] = [payload |-> Project(r)[i].payload,
                                src |-> r.id, at |-> now]
        BY <3>2, <1>c
      <4>2. effects'[k].payload = Project(r)[i].payload
        BY <4>1
      <4>. QED
        BY <2>1, <4>1, <4>2, ManifestProjected
    <3>. QED
      BY <3>1, <3>2
  <2>. QED
    BY <2>1 DEF ManifestsIntact, RowsOf
<1>. QED
  BY <1>1, <1>2, <1>3, <1>4, <1>5, <1>6 DEF TablesOK

-------------------------------------------------------------------------------
(* Retirement *)

\* A non-empty set of naturals has a least element.
LEMMA LeastIn ==
  ASSUME NEW T \in SUBSET Nat, T # {}
  PROVE  \E x \in T : \A y \in T : x <= y
<1>. DEFINE Less == {ss \in Nat \X Nat : ss[1] < ss[2]}
<1>0. IsWellFoundedOn(Less, Nat)
  BY NatLessThanWellFounded DEF OpToRel
<1>. HIDE DEF Less
<1>1. PICK x \in T : \A y \in T : ~(<<y, x>> \in Less)
  BY <1>0, WFMin
<1>2. ASSUME NEW y \in T
      PROVE  x <= y
  <2>1. <<y, x>> \in Nat \X Nat /\ <<y, x>>[1] = y /\ <<y, x>>[2] = x
    OBVIOUS
  <2>2. ~(y < x)
    BY <1>1, <2>1 DEF Less
  <2>. QED
    BY <2>2
<1>. QED
  BY <1>2

\* The heir of a Task's rows is the row of another Delivery, and its source is
\* not a record of the one that is retired.
LEMMA HeirLives ==
  ASSUME TablesOK, NEW d, Heirs(d) # {}
  PROVE  LET heir == CHOOSE k \in Heirs(d) : \A h \in Heirs(d) : k[3] <= h[3]
         IN  /\ heir \in Heirs(d)
             /\ effects[heir].src \in DOMAIN accepted \ MembersOf(d)
<1>. DEFINE heir == CHOOSE k \in Heirs(d) : \A h \in Heirs(d) : k[3] <= h[3]
            ranks == {k[3] : k \in Heirs(d)}
<1>1. \A k \in Heirs(d) : /\ k \in DOMAIN effects /\ k[3] # d
                          /\ k[3] \in Nat /\ k[3] = DeliveryOf(SourceOf(k))
                          /\ effects[k].src \in DOMAIN accepted
  BY DEF Heirs, TablesOK, RowOK
<1>2. PICK x \in ranks : \A y \in ranks : x <= y
  <2>1. ranks \in SUBSET Nat /\ ranks # {}
    BY <1>1
  <2>. QED
    BY <2>1, LeastIn
<1>3. PICK k \in Heirs(d) : k[3] = x
  OBVIOUS
<1>4. \A h \in Heirs(d) : k[3] <= h[3]
  BY <1>2, <1>3
<1>5. heir \in Heirs(d)
  BY <1>3, <1>4
<1>. HIDE DEF heir
<1>6. effects[heir].src \notin MembersOf(d)
  BY <1>1, <1>5 DEF MembersOf, SourceOf
<1>7. effects[heir].src \in DOMAIN accepted \ MembersOf(d)
  BY <1>1, <1>5, <1>6
<1>. QED
  BY <1>5, <1>7 DEF heir

\* The deletion of a Delivery keeps the tables as they should be, and leaves a
\* fence for the records it takes.
LEMMA RetireTables ==
  ASSUME TablesOK, NEW d, Retire(d)
  PROVE  TablesOK' /\ RecordsKept
<1>. DEFINE heir == CHOOSE k \in Heirs(d) : \A h \in Heirs(d) : k[3] <= h[3]
            moved == IF Heirs(d) = {} THEN {} ELSE Preserved(d)
<1>a. /\ DOMAIN accepted' = DOMAIN accepted \ MembersOf(d)
      /\ \A id \in DOMAIN accepted' : accepted'[id] = accepted[id]
      /\ DOMAIN anchors' = DOMAIN anchors \ {d}
      /\ \A e \in DOMAIN anchors' : anchors'[e] = anchors[e]
      /\ DOMAIN markers' = DOMAIN markers \ Tombstones(d)
      /\ \A k \in DOMAIN markers' : markers'[k] = markers[k]
      /\ fences' = fences \cup {d} /\ now' = now
  BY DEF Retire, Without
<1>b. /\ DOMAIN effects' = DOMAIN effects \ (OwnedBy(d) \ moved)
      /\ \A k \in DOMAIN effects' :
           effects'[k] = IF k \in moved
                         THEN [effects[k] EXCEPT !.src = effects[heir].src]
                         ELSE effects[k]
  BY DEF Retire
<1>c. /\ moved \subseteq OwnedBy(d)
      /\ \A k \in moved : k[1] \in {"task_declaration", "task_display_name"}
  BY DEF Preserved
<1>d. moved # {} => effects[heir].src \in DOMAIN accepted'
  BY <1>a, HeirLives
<1>. HIDE DEF heir, moved
<1>e. \A k \in DOMAIN effects' \ moved :
        /\ effects'[k] = effects[k]
        /\ k \in DOMAIN effects /\ effects[k].src \notin MembersOf(d)
  BY <1>b DEF OwnedBy
<1>1. ASSUME NEW id \in DOMAIN accepted'
      PROVE  RecordOK(id)'
  <2>1. id \in DOMAIN accepted /\ accepted'[id] = accepted[id]
    BY <1>a
  <2>. QED
    BY <1>a, <2>1 DEF TablesOK, RecordOK
<1>2. ASSUME NEW k \in DOMAIN effects'
      PROVE  RowOK(k)'
  <2>1. CASE k \in moved
    <3>1. k[1] # "delivery_task_membership" /\ k \in DOMAIN effects
      BY <1>c, <2>1 DEF OwnedBy
    <3>2. /\ effects'[k].src = effects[heir].src /\ effects'[k].at = effects[k].at
          /\ effects'[k] = [payload |-> effects'[k].payload,
                            src |-> effects'[k].src, at |-> effects'[k].at]
      BY <1>b, <2>1, <3>1 DEF TablesOK, RowOK
    <3>. QED
      BY <1>a, <1>d, <2>1, <3>1, <3>2 DEF TablesOK, RowOK
  <2>2. CASE k \notin moved
    <3>1. /\ effects'[k] = effects[k] /\ RowOK(k)
          /\ effects[k].src \in DOMAIN accepted'
          /\ accepted'[effects[k].src] = accepted[effects[k].src]
      BY <1>a, <1>e, <2>2 DEF TablesOK, RowOK
    <3>. QED
      BY <1>a, <3>1 DEF RowOK, SourceOf
  <2>. QED
    BY <2>1, <2>2
<1>3. ASSUME NEW e \in DOMAIN anchors'
      PROVE  anchors'[e] \in MembersOf(e)'
  BY <1>a DEF TablesOK, MembersOf
<1>4. TombstonesMatch'
  <2>1. ASSUME NEW k \in DOMAIN markers'
        PROVE  /\ k \in DOMAIN effects' /\ effects'[k] = effects[k]
               /\ k \in DOMAIN markers /\ markers'[k] = markers[k]
    <3>1. /\ k \in DOMAIN markers /\ markers[k].src \notin MembersOf(d)
          /\ markers'[k] = markers[k]
      BY <1>a DEF Tombstones
    <3>2. k \in DOMAIN effects /\ k \notin OwnedBy(d)
      BY <3>1 DEF TablesOK, TombstonesMatch, OwnedBy
    <3>. QED
      BY <1>b, <1>c, <3>1, <3>2
  <2>. QED
    BY <2>1 DEF TablesOK, TombstonesMatch
<1>5. RecordsKept
  BY <1>a DEF RecordsKept, MembersOf
<1>6. ManifestsIntact'
  <2>1. ASSUME NEW k \in DOMAIN effects', k[1] = "delivery_manifest"
        PROVE  k \in DOMAIN effects /\ effects'[k] = effects[k]
    BY <1>c, <1>e, <2>1
  <2>. QED
    BY <2>1 DEF TablesOK, ManifestsIntact, RowsOf
<1>. QED
  BY <1>1, <1>2, <1>3, <1>4, <1>5, <1>6 DEF TablesOK

-------------------------------------------------------------------------------
(* Expiry, and steps that leave the tables alone *)

\* An expiry empties rows that keep their sources, each with its tombstone.
LEMMA ExpiryTables ==
  ASSUME TablesOK, PlanOK, ApplyExpiry
  PROVE  TablesOK' /\ RecordsKept /\ PlanOK'
<1>. DEFINE fresh == {k \in plan.members : ~AlreadyExpired(k)}
            tombs == [k \in fresh |->
               [src |-> effects[k].src, at |-> effects[k].at,
                compatibility |-> ProjectionCompatibility(k, effects[k].payload,
                  Get(accepted[effects[k].src].rec.attrs, "family_schema")),
                expires |-> effects[k].at + TTL(plan.class)]]
<1>1. /\ accepted' = accepted /\ anchors' = anchors /\ fences' = fences
      /\ now' = now /\ plan' \in {plan, NoPlan}
  BY DEF ApplyExpiry
<1>2. RecordsKept
  BY <1>1 DEF RecordsKept
<1>3. PlanOK'
  BY <1>1 DEF PlanOK, NoPlan
<1>4. CASE ~(fresh \subseteq DOMAIN effects)
  <2>1. markers' = markers /\ effects' = effects
    BY <1>4 DEF ApplyExpiry
  <2>. QED
    BY <1>1, <1>2, <1>3, <2>1
    DEF TablesOK, RecordOK, RowOK, SourceOf, MembersOf, TombstonesMatch,
        ManifestsIntact, RowsOf
<1>5. CASE fresh \subseteq DOMAIN effects
  <2>1. /\ markers' = With(markers, tombs)
        /\ effects' = [k \in DOMAIN effects |->
                         IF k \in fresh
                         THEN [effects[k] EXCEPT !.payload = EmptyPayload]
                         ELSE effects[k]]
    BY <1>5 DEF ApplyExpiry
  <2>2. \A k \in fresh : k[1] \in Expirable
    BY DEF PlanOK
  <2>3. /\ DOMAIN tombs = fresh
        /\ \A k \in fresh : /\ tombs[k].src = effects[k].src
                            /\ tombs[k].at = effects[k].at
    OBVIOUS
  <2>4. \A k \in fresh : k \notin DOMAIN markers
    BY DEF AlreadyExpired
  <2>. HIDE DEF tombs, fresh
  <2>5. /\ DOMAIN effects' = DOMAIN effects
        /\ \A k \in DOMAIN effects \ fresh : effects'[k] = effects[k]
        /\ \A k \in DOMAIN effects \cap fresh :
             effects'[k] = [payload |-> EmptyPayload, src |-> effects[k].src,
                            at |-> effects[k].at]
    BY <2>1 DEF TablesOK, RowOK
  <2>6. /\ DOMAIN markers' = DOMAIN markers \cup fresh
        /\ \A k \in DOMAIN markers : markers'[k] = markers[k]
        /\ \A k \in fresh : markers'[k] = tombs[k]
    BY <2>1, <2>3, <2>4 DEF With
  <2>7. ASSUME NEW k \in DOMAIN effects'
        PROVE  RowOK(k)'
    <3>1. /\ k \in DOMAIN effects
          /\ effects'[k].src = effects[k].src /\ effects'[k].at = effects[k].at
          /\ effects'[k] = [payload |-> effects'[k].payload,
                            src |-> effects'[k].src, at |-> effects'[k].at]
      BY <2>5 DEF TablesOK, RowOK
    <3>. QED
      BY <1>1, <3>1 DEF TablesOK, RowOK, SourceOf
  <2>8. TombstonesMatch'
    <3>1. ASSUME NEW k \in DOMAIN markers'
          PROVE  /\ k \in DOMAIN effects'
                 /\ effects'[k].src = markers'[k].src
                 /\ effects'[k].at = markers'[k].at
                 /\ effects'[k].payload = EmptyPayload
      <4>1. CASE k \in fresh
        BY <1>5, <2>3, <2>5, <2>6, <4>1
      <4>2. CASE k \notin fresh
        BY <2>5, <2>6, <4>2 DEF TablesOK, TombstonesMatch
      <4>. QED
        BY <4>1, <4>2
    <3>. QED
      BY <3>1 DEF TombstonesMatch
  <2>9. ManifestsIntact'
    <3>1. ASSUME NEW k \in DOMAIN effects', k[1] = "delivery_manifest"
          PROVE  k \in DOMAIN effects /\ effects'[k] = effects[k]
      BY <2>2, <2>5, <3>1 DEF Expirable, TraceKinds, FactualKinds, PublicFactKinds
    <3>. QED
      BY <3>1 DEF TablesOK, ManifestsIntact, RowsOf
  <2>. QED
    BY <1>1, <1>2, <1>3, <2>7, <2>8, <2>9 DEF TablesOK, RecordOK, MembersOf
<1>. QED
  BY <1>4, <1>5

\* A step that leaves the tables alone may let time pass.
LEMMA SameTables ==
  ASSUME TablesOK, UNCHANGED tables, now \in Nat, now' \in {now, now + 1}
  PROVE  TablesOK' /\ RecordsKept
<1>1. RecordsKept
  BY DEF RecordsKept
<1>2. \A at : at \in 0..now => at \in 0..now'
  OBVIOUS
<1>3. ASSUME NEW id \in DOMAIN accepted
      PROVE  RecordOK(id)'
  BY <1>2 DEF TablesOK, RecordOK
<1>4. ASSUME NEW k \in DOMAIN effects
      PROVE  RowOK(k)'
  BY <1>2 DEF TablesOK, RowOK, SourceOf
<1>. QED
  BY <1>1, <1>3, <1>4
  DEF TablesOK, MembersOf, TombstonesMatch, ManifestsIntact, RowsOf

\* A plan has rows of its class only.
LEMMA PlanMade ==
  ASSUME NEW class \in Classes, PlanExpiry(class)
  PROVE  PlanOK'
<1>1. PICK members \in SUBSET Due(class) :
        members # {} /\ plan' = [class |-> class, members |-> members]
  BY DEF PlanExpiry
<1>2. \A k \in members : k[1] \in Expirable
  BY DEF Due, KindsOf, Expirable
<1>. QED
  BY <1>1, <1>2 DEF PlanOK

-------------------------------------------------------------------------------
(* Requests *)

\* The records of a request are numbered from 1, and what it has settled of
\* them is finite.
LEMMA RequestNumbered ==
  ASSUME NEW q, IsRequest(q)
  PROVE  /\ Len(q.records) \in Nat /\ DOMAIN q.records = 1..Len(q.records)
         /\ \A n \in Nat : /\ IsFiniteSet(Settled(q) \cap 1..(n - 1))
                           /\ IsFiniteSet(Settled(q)' \cap 1..(n - 1))
<1>1. Len(q.records) \in Nat /\ DOMAIN q.records = 1..Len(q.records)
  BY DEF IsRequest
<1>2. ASSUME NEW n \in Nat
      PROVE  /\ IsFiniteSet(Settled(q) \cap 1..(n - 1))
             /\ IsFiniteSet(Settled(q)' \cap 1..(n - 1))
  <2>1. IsFiniteSet(1..(n - 1))
    BY FS_Interval
  <2>. QED
    BY <2>1, FS_Subset
<1>. QED
  BY <1>1, <1>2

\* The fields of the slot after a turn of the loop.
LEMMA CountedIs ==
  ASSUME NEW s, s = Slot(s.pc, s.req, s.i, s.rejected, s.status, s.landed, s.failed),
         NEW result, NEW l
  PROVE  Counted(s, result, l) =
           Slot(s.pc, s.req, s.i + 1,
                IF result \in {"invalid", "conflict", "rejected"}
                THEN s.rejected + 1 ELSE s.rejected,
                s.status,
                IF result = "accepted" THEN s.landed \cup {Validated(l)}
                                       ELSE s.landed,
                s.failed)
<1>. DEFINE n == s.i + 1
            rejected == IF result \in {"invalid", "conflict", "rejected"}
                        THEN s.rejected + 1 ELSE s.rejected
            landed == IF result = "accepted" THEN s.landed \cup {Validated(l)}
                                             ELSE s.landed
<1>0. Counted(s, result, l) =
        [s EXCEPT !.i = n, !.rejected = rejected, !.landed = landed]
  BY DEF Counted
<1>. HIDE DEF n, rejected, landed
<1>1. PICK s1 : s1 = [s EXCEPT !.i = n]
  OBVIOUS
<1>2. s1 = Slot(s.pc, s.req, n, s.rejected, s.status, s.landed, s.failed)
  BY <1>1 DEF Slot
<1>3. PICK s2 : s2 = [s1 EXCEPT !.rejected = rejected]
  OBVIOUS
<1>4. s2 = Slot(s.pc, s.req, n, rejected, s.status, s.landed, s.failed)
  BY <1>2, <1>3 DEF Slot
<1>5. [s2 EXCEPT !.landed = landed] =
        Slot(s.pc, s.req, n, rejected, s.status, landed, s.failed)
  BY <1>4 DEF Slot
<1>6. Counted(s, result, l) =
        Slot(s.pc, s.req, n, rejected, s.status, landed, s.failed)
  BY <1>0, <1>1, <1>3, <1>5
<1>. QED
  BY <1>6 DEF n, rejected, landed

\* A slot that has just been filled, or emptied, has settled nothing.
LEMMA FreshSlot ==
  ASSUME NEW c, NEW q, IsRequest(q), NEW pc, NEW status,
         \/ pc = "admit" /\ status = 0
         \/ pc = "idle" /\ status = 0
         \/ pc = "answer" /\ status = 400
         \/ pc = "answer" /\ status = 500 /\ NotFinite(DecodeRequest(q)),
         export'[c] = [pc |-> pc, req |-> q, i |-> 1, rejected |-> 0,
                       status |-> status, landed |-> {}, failed |-> FALSE]
  PROVE  SlotOK(c)'
<1>. DEFINE slot == export'[c]
<1>1. /\ slot.pc = pc /\ slot.req = q /\ slot.i = 1 /\ slot.rejected = 0
      /\ slot.status = status /\ slot.landed = {} /\ slot.failed = FALSE
  OBVIOUS
<1>2. Settled(q)' \cap 1..(1 - 1) = {}
  OBVIOUS
<1>3. Cardinality(Settled(q)' \cap 1..(1 - 1)) = 0 /\ Cardinality({}) = 0
      /\ IsFiniteSet({})
  BY <1>2, FS_EmptySet
<1>4. Accounted(c)'
  <2>1. /\ 1 \in 1..(Len(q.records) + 1) /\ 0 \in 0..(1 - 1)
        /\ Cardinality(Settled(q)' \cap 1..(1 - 1)) + 0 >= 1 - 1
        /\ Cardinality({}) + 0 <= 1 - 1
    BY <1>3, RequestNumbered
  <2>. QED
    BY <1>1, <1>3, <2>1 DEF Accounted
<1>5. StatusEarned(c)'
  BY <1>1 DEF StatusEarned
<1>. QED
  BY <1>1, <1>4, <1>5 DEF SlotOK, Slot

\* An exporter that has its answer, or that lost it, has no request.
LEMMA QuietSlot ==
  ASSUME NEW c, export'[c] = Quiet
  PROVE  SlotOK(c)'
<1>1. IsRequest(NoRequest)
  BY DEF IsRequest, NoRequest
<1>. QED
  BY <1>1, FreshSlot DEF Quiet

\* A request that is refused before its records are looked at has a reason.
LEMMA ReceiveSlot ==
  ASSUME NEW c \in Exporters, NEW q, IsRequest(q), Receive(c, q),
         export = [e \in Exporters |-> export[e]]
  PROVE  SlotOK(c)'
<1>1. CASE EarlyStatus(q) = {}
  <2>1. export'[c] = [pc |-> "admit", req |-> q, i |-> 1, rejected |-> 0,
                      status |-> 0, landed |-> {}, failed |-> FALSE]
    BY <1>1 DEF Receive, Quiet
  <2>. QED
    BY <2>1, FreshSlot
<1>2. CASE EarlyStatus(q) # {}
  <2>1. PICK status \in EarlyStatus(q) :
          export' = [export EXCEPT ![c] = [Quiet EXCEPT !.pc = "answer",
                                                        !.req = q,
                                                        !.status = status]]
    BY <1>2 DEF Receive
  <2>2. export'[c] = [pc |-> "answer", req |-> q, i |-> 1, rejected |-> 0,
                      status |-> status, landed |-> {}, failed |-> FALSE]
    BY <2>1 DEF Quiet
  <2>3. status = 400 \/ (status = 500 /\ NotFinite(DecodeRequest(q)))
    BY DEF EarlyStatus
  <2>. QED
    BY <2>2, <2>3, FreshSlot
<1>. QED
  BY <1>1, <1>2

\* The slot after a turn of the loop: a record that is not counted as rejected
\* is settled.
LEMMA CountedSlot ==
  ASSUME NEW c, SlotOK(c), export[c].pc = "admit", RecordsKept,
         NEW q, q = export[c].req, NEW n \in DOMAIN q.records, n = export[c].i,
         NEW l, NEW result \in {"accepted", "duplicate", "invalid", "conflict",
                                "rejected"},
         export'[c] = Counted(export[c], result, l),
         \/ result \in {"accepted", "duplicate"} /\ n \in Settled(q)'
         \/ result \in {"invalid", "conflict", "rejected"}
  PROVE  SlotOK(c)'
<1>. DEFINE slot == export[c]
            bad == result \in {"invalid", "conflict", "rejected"}
            rejected == IF bad THEN slot.rejected + 1 ELSE slot.rejected
            landed == IF result = "accepted" THEN slot.landed \cup {Validated(l)}
                                             ELSE slot.landed
            before == Settled(q) \cap 1..(n - 1)
            after == Settled(q)' \cap 1..((n + 1) - 1)
<1>0. /\ IsRequest(q) /\ slot.status = 0 /\ IsFiniteSet(slot.landed)
      /\ slot.rejected \in 0..(n - 1)
      /\ Cardinality(before) + slot.rejected >= n - 1
      /\ Cardinality(slot.landed) + slot.rejected <= n - 1
  BY DEF SlotOK, Accounted, StatusEarned
<1>1. /\ Len(q.records) \in Nat /\ n \in 1..Len(q.records) /\ n \in Nat
      /\ IsFiniteSet(before) /\ IsFiniteSet(after)
  <2>1. Len(q.records) \in Nat /\ DOMAIN q.records = 1..Len(q.records)
    BY <1>0, RequestNumbered
  <2>2. n \in Nat /\ n + 1 \in Nat
    BY <2>1
  <2>. QED
    BY <1>0, <2>1, <2>2, RequestNumbered
<1>2. export'[c] = Slot("admit", q, n + 1, rejected, slot.status, landed,
                        slot.failed)
  <2>1. slot = Slot(slot.pc, slot.req, slot.i, slot.rejected, slot.status,
                    slot.landed, slot.failed)
    BY DEF SlotOK
  <2>2. slot.pc = "admit" /\ slot.req = q /\ slot.i = n
    OBVIOUS
  <2>3. export'[c] = Counted(slot, result, l)
    OBVIOUS
  <2>. HIDE DEF slot
  <2>. QED
    BY <2>1, <2>2, <2>3, CountedIs
<1>3. /\ Cardinality(before) \in Nat /\ Cardinality(after) \in Nat
      /\ Cardinality(after) + rejected >= n
  <2>1. before \subseteq after
    BY <1>1, SettledKept
  <2>2. Cardinality(before) \in Nat /\ Cardinality(after) \in Nat
    BY <1>1, FS_CardinalityType
  <2>3. CASE bad
    <3>1. Cardinality(before) <= Cardinality(after)
      BY <1>1, <2>1, FS_Subset
    <3>. HIDE DEF before, after
    <3>. QED
      BY <1>0, <1>1, <2>2, <2>3, <3>1
  <2>4. CASE ~bad
    <3>1. n \in after /\ n \notin before
      BY <1>1, <2>4
    <3>. HIDE DEF before, after
    <3>2. before \cup {n} \in SUBSET after
      BY <2>1, <3>1
    <3>3. Cardinality(before \cup {n}) = Cardinality(before) + 1
      BY <1>1, <3>1, FS_AddElement
    <3>4. Cardinality(before \cup {n}) <= Cardinality(after)
      BY <1>1, <3>2, FS_Subset
    <3>. QED
      BY <1>0, <1>1, <2>2, <2>4, <3>3, <3>4
  <2>. QED
    BY <2>2, <2>3, <2>4
<1>4. IsFiniteSet(landed) /\ Cardinality(landed) + rejected <= n
  <2>1. CASE result = "accepted"
    <3>1. /\ IsFiniteSet(slot.landed \cup {Validated(l)})
          /\ Cardinality(slot.landed \cup {Validated(l)}) =
               IF Validated(l) \in slot.landed THEN Cardinality(slot.landed)
               ELSE Cardinality(slot.landed) + 1
      BY <1>0, FS_AddElement
    <3>2. Cardinality(slot.landed) \in Nat
      BY <1>0, FS_CardinalityType
    <3>3. landed = slot.landed \cup {Validated(l)} /\ rejected = slot.rejected
      BY <2>1
    <3>. QED
      BY <1>0, <1>1, <3>1, <3>2, <3>3
  <2>2. CASE result # "accepted"
    <3>1. Cardinality(slot.landed) \in Nat
      BY <1>0, FS_CardinalityType
    <3>2. landed = slot.landed /\ rejected \in {slot.rejected, slot.rejected + 1}
      BY <2>2
    <3>. QED
      BY <1>0, <1>1, <3>1, <3>2
  <2>. QED
    BY <2>1, <2>2
<1>5. /\ rejected \in 0..((n + 1) - 1) /\ n + 1 \in 1..(Len(q.records) + 1)
      /\ (n + 1) - 1 = n
  <2>1. rejected \in {slot.rejected, slot.rejected + 1}
    OBVIOUS
  <2>2. slot.rejected \in 0..(n - 1)
    BY <1>0
  <2>. HIDE DEF rejected, slot
  <2>3. Len(q.records) \in Nat /\ n \in 1..Len(q.records)
    BY <1>1
  <2>4. \A m \in Nat : n \in 1..m => n + 1 \in 1..(m + 1) /\ (n + 1) - 1 = n
    OBVIOUS
  <2>5. n \in Nat /\ rejected \in 0..n
    BY <2>1, <2>2, <2>3
  <2>. QED
    BY <2>3, <2>4, <2>5
<1>. HIDE DEF rejected, landed, bad
<1>6. /\ export'[c].pc = "admit" /\ export'[c].req = q /\ export'[c].i = n + 1
      /\ export'[c].rejected = rejected /\ export'[c].status = 0
      /\ export'[c].landed = landed /\ export'[c].failed = slot.failed
  BY <1>0, <1>2 DEF Slot
<1>7. Accounted(c)'
  <2>. HIDE DEF slot
  <2>1. after = Settled(q)' \cap 1..(export'[c].i - 1)
    BY <1>6
  <2>. HIDE DEF after
  <2>. QED
    BY <1>3, <1>4, <1>5, <1>6, <2>1 DEF Accounted
<1>8. StatusEarned(c)'
  BY <1>6 DEF StatusEarned
<1>. QED
  BY <1>0, <1>2, <1>6, <1>7, <1>8 DEF SlotOK

\* The transaction of a valid record keeps the tables as they should be, and
\* leaves a record that is accepted or a duplicate in the store.
LEMMA TransactTables ==
  ASSUME TablesOK, now \in Nat, now' = now, NEW item, IsItem(item),
         NEW l, l = Decode(item), Validates(l), NEW r, r = Validated(l),
         Transact(r)
  PROVE  /\ TablesOK' /\ RecordsKept
         /\ Disposition(r) \in {"accepted", "duplicate"} =>
              l.id \in DOMAIN accepted' /\ accepted'[l.id].rec = r
<1>1. r.id = l.id
  BY DEF Validated
<1>2. CASE Disposition(r) = "accepted"
  <2>1. Store(r) /\ r.id \notin DOMAIN accepted
    BY <1>2, Dispositions DEF Transact
  <2>2. WellFormed(r)
    BY ValidWellFormed
  <2>3. TablesOK' /\ RecordsKept
    BY <2>1, <2>2, StoreTables
  <2>4. r.id \in DOMAIN accepted' /\ accepted'[r.id] = [rec |-> r, at |-> now]
    BY <2>1, StoreAdds
  <2>. QED
    BY <1>1, <2>3, <2>4
<1>3. CASE Disposition(r) # "accepted"
  <2>1. UNCHANGED tables
    BY <1>3 DEF Transact
  <2>2. TablesOK' /\ RecordsKept
    BY <2>1, SameTables
  <2>3. Disposition(r) = "duplicate" =>
          r.id \in DOMAIN accepted /\ accepted[r.id].rec = r
    BY Dispositions
  <2>. QED
    BY <1>1, <1>3, <2>1, <2>2, <2>3
<1>. QED
  BY <1>2, <1>3

\* The record a request is at.
LEMMA NextItem ==
  ASSUME NEW q, IsRequest(q), NEW n \in DOMAIN q.records
  PROVE  /\ IsItem(q.records[n])
         /\ DecodeRequest(q)[n] = Decode(q.records[n])
  BY DEF IsRequest, DecodeRequest

\* One turn of the loop of _ingest.
LEMMA AdmitStep ==
  ASSUME ServiceInductive, NEW c \in Exporters, AdmitNext(c)
  PROVE  TablesOK' /\ RecordsKept /\ SlotOK(c)'
<1>0. PICK q, n : q = export[c].req /\ n = export[c].i
  OBVIOUS
<1>1. PICK l : l = DecodeRequest(q)[n]
  OBVIOUS
<1>2. /\ TablesOK /\ SlotOK(c) /\ IsRequest(q) /\ now \in Nat /\ now' = now
      /\ export[c].pc = "admit" /\ n \in DOMAIN q.records
      /\ export = [e \in Exporters |-> export[e]]
  BY <1>0, ServiceAssumption
  DEF ServiceInductive, SlotOK, AdmitNext, IngestUnchanged
<1>3. IsItem(q.records[n]) /\ l = Decode(q.records[n])
  BY <1>1, <1>2, NextItem
<1>4. CASE ~Validates(l)
  <2>1. /\ export' = [export EXCEPT ![c] = Counted(@, "invalid", l)]
        /\ UNCHANGED tables
    BY <1>0, <1>1, <1>4 DEF AdmitNext
  <2>2. TablesOK' /\ RecordsKept
    BY <1>2, <2>1, SameTables
  <2>3. export'[c] = Counted(export[c], "invalid", l)
    BY <1>2, <2>1
  <2>. QED
    BY <1>0, <1>2, <2>2, <2>3, CountedSlot
<1>5. CASE Validates(l)
  <2>. PICK r : r = Validated(l)
    OBVIOUS
  <2>0. Disposition(r) # "error"
    BY <1>3, <1>5, NoError
  <2>1. /\ export' = [export EXCEPT ![c] = Counted(@, Disposition(r), l)]
        /\ Transact(r)
    BY <1>0, <1>1, <1>5, <2>0 DEF AdmitNext
  <2>2. /\ TablesOK' /\ RecordsKept
        /\ Disposition(r) \in {"accepted", "duplicate"} =>
             l.id \in DOMAIN accepted' /\ accepted'[l.id].rec = r
    BY <1>2, <1>3, <1>5, <2>1, TransactTables
  <2>3. export'[c] = Counted(export[c], Disposition(r), l)
    BY <1>2, <2>1
  <2>4. Disposition(r) \in {"accepted", "duplicate"} => n \in Settled(q)'
    BY <1>2, <1>3, <1>5, <2>2 DEF Settled
  <2>5. Disposition(r) \in {"accepted", "duplicate", "conflict", "rejected"}
    BY <2>0, Dispositions
  <2>. QED
    BY <1>0, <1>2, <2>2, <2>3, <2>4, <2>5, CountedSlot
<1>. QED
  BY <1>4, <1>5

\* A request under which the store fails is where it was: its record may have
\* been committed.
LEMMA FailStep ==
  ASSUME ServiceInductive, NEW c \in Exporters, FailStore(c)
  PROVE  TablesOK' /\ RecordsKept /\ SlotOK(c)'
<1>0. PICK q, n : q = export[c].req /\ n = export[c].i
  OBVIOUS
<1>1. PICK l, r : l = DecodeRequest(q)[n] /\ r = Validated(l)
  OBVIOUS
<1>2. /\ TablesOK /\ SlotOK(c) /\ IsRequest(q) /\ now \in Nat /\ now' = now
      /\ n \in DOMAIN q.records /\ Validates(l)
      /\ export = [e \in Exporters |-> export[e]]
  BY <1>0, <1>1, ServiceAssumption
  DEF ServiceInductive, SlotOK, FailStore, IngestUnchanged
<1>3. PICK committed \in BOOLEAN :
        /\ IF committed THEN Transact(r) ELSE UNCHANGED tables
        /\ export' = [export EXCEPT ![c] = Broken(@, committed, l)]
  BY <1>0, <1>1 DEF FailStore
<1>4. TablesOK' /\ RecordsKept
  <2>1. IsItem(q.records[n]) /\ l = Decode(q.records[n])
    BY <1>1, <1>2, NextItem
  <2>2. CASE Transact(r)
    BY <1>1, <1>2, <2>1, <2>2, TransactTables
  <2>3. CASE UNCHANGED tables
    BY <1>2, <2>3, SameTables
  <2>. QED
    BY <1>3, <2>2, <2>3
<1>5. PICK s, landed, f :
        /\ s = export[c] /\ f = TRUE
        /\ landed = IF committed /\ Disposition(Validated(l)) = "accepted"
                    THEN s.landed \cup {Validated(l)} ELSE s.landed
  OBVIOUS
<1>6. export'[c] = [pc |-> "answer", req |-> q, i |-> n, rejected |-> s.rejected,
                    status |-> 500, landed |-> landed, failed |-> f]
  <2>1. s = [pc |-> s.pc, req |-> q, i |-> n, rejected |-> s.rejected,
             status |-> s.status, landed |-> s.landed, failed |-> s.failed]
    BY <1>0, <1>2, <1>5 DEF SlotOK, Slot
  <2>2. PICK s1 : s1 = [s EXCEPT !.pc = "answer"]
    OBVIOUS
  <2>3. s1 = [pc |-> "answer", req |-> q, i |-> n, rejected |-> s.rejected,
              status |-> s.status, landed |-> s.landed, failed |-> s.failed]
    BY <2>1, <2>2
  <2>4. PICK s2 : s2 = [s1 EXCEPT !.status = 500]
    OBVIOUS
  <2>5. s2 = [pc |-> "answer", req |-> q, i |-> n, rejected |-> s.rejected,
              status |-> 500, landed |-> s.landed, failed |-> s.failed]
    BY <2>3, <2>4
  <2>6. PICK s3 : s3 = [s2 EXCEPT !.failed = f]
    OBVIOUS
  <2>7. s3 = [pc |-> "answer", req |-> q, i |-> n, rejected |-> s.rejected,
              status |-> 500, landed |-> s.landed, failed |-> f]
    BY <2>5, <2>6
  <2>8. [s3 EXCEPT !.landed = landed] =
          [pc |-> "answer", req |-> q, i |-> n, rejected |-> s.rejected,
           status |-> 500, landed |-> landed, failed |-> f]
    BY <2>7
  <2>9. export'[c] = [s3 EXCEPT !.landed = landed]
    BY <1>2, <1>3, <1>5, <2>2, <2>4, <2>6 DEF Broken
  <2>. QED
    BY <2>8, <2>9
<1>7. /\ export'[c].pc = "answer" /\ export'[c].req = q /\ export'[c].i = n
      /\ export'[c].rejected = s.rejected /\ export'[c].status = 500
      /\ export'[c].landed = landed /\ export'[c].failed
  BY <1>5, <1>6
<1>8. IsFiniteSet(landed)
  <2>1. IsFiniteSet(export[c].landed)
    BY <1>2 DEF SlotOK, Accounted
  <2>. QED
    BY <1>5, <2>1, FS_AddElement
<1>9. Cardinality(Settled(q)' \cap 1..(n - 1)) + s.rejected >= n - 1
  <2>1. Cardinality(Settled(q) \cap 1..(n - 1)) + s.rejected >= n - 1
        /\ s.rejected \in 0..(n - 1)
    BY <1>0, <1>2, <1>5 DEF SlotOK, Accounted
  <2>2. n \in Nat /\ Len(q.records) \in Nat
    BY <1>2, RequestNumbered
  <2>3. /\ IsFiniteSet(Settled(q) \cap 1..(n - 1))
        /\ IsFiniteSet(Settled(q)' \cap 1..(n - 1))
    BY <1>2, <2>2, RequestNumbered
  <2>4. Settled(q) \cap 1..(n - 1) \in SUBSET (Settled(q)' \cap 1..(n - 1))
    BY <1>4, SettledKept
  <2>5. /\ Cardinality(Settled(q) \cap 1..(n - 1)) \in Nat
        /\ Cardinality(Settled(q)' \cap 1..(n - 1)) \in Nat
        /\ Cardinality(Settled(q) \cap 1..(n - 1)) <=
             Cardinality(Settled(q)' \cap 1..(n - 1))
    BY <2>3, <2>4, FS_Subset, FS_CardinalityType
  <2>. QED
    BY <2>1, <2>2, <2>5
<1>10. Accounted(c)'
  <2>1. n \in 1..(Len(q.records) + 1) /\ s.rejected \in 0..(n - 1)
    BY <1>0, <1>2, <1>5 DEF SlotOK, Accounted
  <2>. QED
    BY <1>7, <1>8, <1>9, <2>1 DEF Accounted
<1>11. StatusEarned(c)'
  BY <1>7 DEF StatusEarned
<1>. QED
  BY <1>2, <1>4, <1>6, <1>7, <1>10, <1>11 DEF SlotOK, Slot

AnsweredWith(c, status) ==
  export' = [export EXCEPT ![c].pc = "answer", ![c].status = status]

\* A request that gets its answer keeps its account.
LEMMA AnsweredSlot ==
  ASSUME ServiceInductive, NEW c \in Exporters, RecordsKept,
         export[c].pc = "admit", NEW status, AnsweredWith(c, status)
  PROVE  /\ export'[c] = Slot("answer", export[c].req, export[c].i,
                              export[c].rejected, status, export[c].landed,
                              export[c].failed)
         /\ Accounted(c)'
<1>0. PICK q, n, s : q = export[c].req /\ n = export[c].i /\ s = export[c]
  OBVIOUS
<1>1. /\ SlotOK(c) /\ IsRequest(q) /\ export = [e \in Exporters |-> export[e]]
      /\ s.status = 0
  BY <1>0 DEF ServiceInductive, SlotOK, StatusEarned
<1>2. /\ n \in 1..(Len(q.records) + 1)
      /\ IsFiniteSet(s.landed) /\ s.rejected \in 0..(n - 1)
      /\ Cardinality(s.landed) + s.rejected <= n - 1
      /\ Cardinality(Settled(q) \cap 1..(n - 1)) + s.rejected >= n - 1
  BY <1>0, <1>1 DEF SlotOK, Accounted
<1>3. n \in Nat
  BY <1>1, <1>2, RequestNumbered
<1>4. export'[c] = [pc |-> "answer", req |-> q, i |-> n, rejected |-> s.rejected,
                    status |-> status, landed |-> s.landed, failed |-> s.failed]
  <2>1. s = [pc |-> s.pc, req |-> q, i |-> n, rejected |-> s.rejected,
             status |-> s.status, landed |-> s.landed, failed |-> s.failed]
    BY <1>0, <1>1 DEF SlotOK, Slot
  <2>2. PICK s1 : s1 = [s EXCEPT !.pc = "answer"]
    OBVIOUS
  <2>3. s1 = [pc |-> "answer", req |-> q, i |-> n, rejected |-> s.rejected,
              status |-> s.status, landed |-> s.landed, failed |-> s.failed]
    BY <2>1, <2>2
  <2>4. [s1 EXCEPT !.status = status] =
          [pc |-> "answer", req |-> q, i |-> n, rejected |-> s.rejected,
           status |-> status, landed |-> s.landed, failed |-> s.failed]
    BY <2>3
  <2>5. export'[c] = [s1 EXCEPT !.status = status]
    BY <1>0, <1>1, <2>2 DEF AnsweredWith
  <2>. QED
    BY <2>4, <2>5
<1>5. /\ export'[c].req = q /\ export'[c].i = n
      /\ export'[c].rejected = s.rejected /\ export'[c].landed = s.landed
  BY <1>4
<1>6. Accounted(c)'
  <2>1. /\ IsFiniteSet(Settled(q) \cap 1..(n - 1))
        /\ IsFiniteSet(Settled(q)' \cap 1..(n - 1))
    BY <1>1, <1>3, RequestNumbered
  <2>2. Settled(q) \cap 1..(n - 1) \in SUBSET (Settled(q)' \cap 1..(n - 1))
    BY SettledKept
  <2>3. /\ Cardinality(Settled(q) \cap 1..(n - 1)) \in Nat
        /\ Cardinality(Settled(q)' \cap 1..(n - 1)) \in Nat
        /\ Cardinality(Settled(q) \cap 1..(n - 1)) <=
             Cardinality(Settled(q)' \cap 1..(n - 1))
    BY <2>1, <2>2, FS_Subset, FS_CardinalityType
  <2>4. Cardinality(Settled(q)' \cap 1..(n - 1)) + s.rejected >= n - 1
    BY <1>2, <1>3, <2>3
  <2>. QED
    BY <1>2, <1>5, <2>4 DEF Accounted
<1>. QED
  BY <1>0, <1>4, <1>6 DEF Slot

\* A request whose records have all had their turn gets the status they add up
\* to: a refusal when each of them was rejected, so that none has landed.
LEMMA ConcludeSlot ==
  ASSUME ServiceInductive, NEW c \in Exporters, Conclude(c), RecordsKept
  PROVE  SlotOK(c)'
<1>0. PICK q, n, s : q = export[c].req /\ n = export[c].i /\ s = export[c]
  OBVIOUS
<1>1. PICK status : status = OutcomeStatus(s)
  OBVIOUS
<1>2. /\ SlotOK(c) /\ IsRequest(q) /\ s.pc = "admit" /\ n \notin DOMAIN q.records
      /\ AnsweredWith(c, status)
      /\ s.status = 0
  BY <1>0, <1>1
  DEF ServiceInductive, SlotOK, StatusEarned, Conclude, AnsweredWith
<1>3. /\ Len(q.records) \in Nat /\ DOMAIN q.records = 1..Len(q.records)
      /\ n \in 1..(Len(q.records) + 1)
  BY <1>0, <1>2, RequestNumbered DEF SlotOK, Accounted
<1>4. n = Len(q.records) + 1
  BY <1>2, <1>3
<1>5. /\ IsFiniteSet(s.landed) /\ s.rejected \in 0..(n - 1)
      /\ Cardinality(s.landed) + s.rejected <= n - 1
  BY <1>0, <1>2 DEF SlotOK, Accounted
<1>6. status \in {200, 400} /\ (status = 400 => s.rejected = Len(q.records))
  BY <1>0, <1>1 DEF OutcomeStatus
<1>7. status = 400 => s.landed = {}
  <2>1. Cardinality(s.landed) \in Nat
    BY <1>5, FS_CardinalityType
  <2>2. status = 400 => Cardinality(s.landed) = 0
    BY <1>3, <1>4, <1>5, <1>6, <2>1
  <2>. QED
    BY <1>5, <2>2, FS_EmptySet
<1>8. /\ export'[c] = Slot("answer", q, n, s.rejected, status, s.landed, s.failed)
      /\ Accounted(c)'
  BY <1>0, <1>2, AnsweredSlot
<1>9. /\ export'[c].pc = "answer" /\ export'[c].req = q /\ export'[c].i = n
      /\ export'[c].rejected = s.rejected /\ export'[c].status = status
      /\ export'[c].landed = s.landed /\ export'[c].failed = s.failed
  BY <1>8 DEF Slot
<1>10. StatusEarned(c)'
  BY <1>4, <1>6, <1>7, <1>9 DEF StatusEarned
<1>. QED
  BY <1>2, <1>6, <1>8, <1>9, <1>10 DEF SlotOK

\* A request that validation leaves with an exception fails at that record.
LEMMA RaisesSlot ==
  ASSUME ServiceInductive, NEW c \in Exporters, AdmitRaises(c), RecordsKept
  PROVE  SlotOK(c)'
<1>0. PICK q, n, s : q = export[c].req /\ n = export[c].i /\ s = export[c]
  OBVIOUS
<1>1. PICK status : status = 500
  OBVIOUS
<1>2. /\ SlotOK(c) /\ IsRequest(q) /\ s.pc = "admit"
      /\ AnsweredWith(c, status)
  BY <1>0, <1>1 DEF ServiceInductive, SlotOK, AdmitRaises, AnsweredWith
<1>3. n \in DOMAIN q.records /\ ValidationRaises(DecodeRequest(q)[n])
  BY <1>0 DEF AdmitRaises, RaisesAt
<1>4. /\ export'[c] = Slot("answer", q, n, s.rejected, status, s.landed, s.failed)
      /\ Accounted(c)'
  BY <1>0, <1>2, AnsweredSlot
<1>5. /\ export'[c].pc = "answer" /\ export'[c].req = q /\ export'[c].i = n
      /\ export'[c].rejected = s.rejected /\ export'[c].status = 500
      /\ export'[c].landed = s.landed /\ export'[c].failed = s.failed
  BY <1>1, <1>4 DEF Slot
<1>6. RaisesAt(export'[c])
  BY <1>3, <1>5 DEF RaisesAt
<1>7. StatusEarned(c)'
  BY <1>5, <1>6 DEF StatusEarned
<1>. QED
  BY <1>1, <1>2, <1>4, <1>5, <1>7 DEF SlotOK

-------------------------------------------------------------------------------
(* The invariant *)

\* A step of one exporter keeps the invariant when it keeps the tables and its
\* own slot.
LEMMA ExporterStep ==
  ASSUME ServiceInductive, NEW c \in Exporters,
         TablesOK', RecordsKept, SlotOK(c)',
         export' = [e \in Exporters |-> export'[e]],
         \A e \in Exporters \ {c} : export'[e] = export[e],
         inbox' \subseteq inbox, faults' \in 0..MaxFaults, UNCHANGED <<now, plan>>
  PROVE  ServiceInductive'
<1>1. ASSUME NEW e \in Exporters
      PROVE  SlotOK(e)'
  <2>1. CASE e = c
    BY <2>1
  <2>2. CASE e # c
    BY <2>2, SlotKept DEF ServiceInductive
  <2>. QED
    BY <2>1, <2>2
<1>2. PlanOK'
  BY DEF ServiceInductive, PlanOK
<1>. QED
  BY <1>1, <1>2 DEF ServiceInductive

\* A step of no exporter keeps the invariant when it keeps the tables.
LEMMA OtherStep ==
  ASSUME ServiceInductive, TablesOK', RecordsKept, PlanOK', now' \in 0..MaxTime,
         UNCHANGED <<inbox, export, faults>>
  PROVE  ServiceInductive'
<1>1. ASSUME NEW e \in Exporters
      PROVE  SlotOK(e)'
  BY SlotKept DEF ServiceInductive
<1>. QED
  BY <1>1 DEF ServiceInductive

\* Every action keeps the invariant.
LEMMA ServiceStep ==
  ASSUME ServiceInductive, [Next]_vars
  PROVE  ServiceInductive'
<1>0. /\ TablesOK /\ PlanOK /\ now \in Nat /\ now \in 0..MaxTime /\ MaxTime \in Nat
      /\ faults \in 0..MaxFaults /\ MaxFaults \in Nat
      /\ export = [e \in Exporters |-> export[e]]
  BY ServiceAssumption DEF ServiceInductive
<1>1. ASSUME NEW c \in Exporters, NEW q \in inbox, Receive(c, q)
      PROVE  ServiceInductive'
  <2>1. TablesOK' /\ RecordsKept
    BY <1>0, <1>1, SameTables DEF Receive, IngestUnchanged
  <2>2. SlotOK(c)'
    BY <1>0, <1>1, ReceiveSlot DEF ServiceInductive
  <2>3. /\ export' = [e \in Exporters |-> export'[e]]
        /\ \A e \in Exporters \ {c} : export'[e] = export[e]
    BY <1>0, <1>1 DEF Receive
  <2>. QED
    BY <1>0, <1>1, <2>1, <2>2, <2>3, ExporterStep DEF Receive, IngestUnchanged
<1>2. ASSUME NEW c \in Exporters, AdmitNext(c)
      PROVE  ServiceInductive'
  <2>1. TablesOK' /\ RecordsKept /\ SlotOK(c)'
    BY <1>2, AdmitStep
  <2>2. /\ export' = [e \in Exporters |-> export'[e]]
        /\ \A e \in Exporters \ {c} : export'[e] = export[e]
    BY <1>0, <1>2 DEF AdmitNext
  <2>. QED
    BY <1>0, <1>2, <2>1, <2>2, ExporterStep DEF AdmitNext, IngestUnchanged
<1>3. ASSUME NEW c \in Exporters, FailStore(c)
      PROVE  ServiceInductive'
  <2>1. TablesOK' /\ RecordsKept /\ SlotOK(c)'
    BY <1>3, FailStep
  <2>2. /\ export' = [e \in Exporters |-> export'[e]]
        /\ \A e \in Exporters \ {c} : export'[e] = export[e]
    BY <1>0, <1>3 DEF FailStore
  <2>3. faults' \in 0..MaxFaults
    BY <1>0, <1>3 DEF FailStore
  <2>. QED
    BY <1>3, <2>1, <2>2, <2>3, ExporterStep DEF FailStore, IngestUnchanged
<1>4. ASSUME NEW c \in Exporters, Conclude(c)
      PROVE  ServiceInductive'
  <2>1. TablesOK' /\ RecordsKept
    BY <1>0, <1>4, SameTables DEF Conclude, IngestUnchanged
  <2>2. SlotOK(c)'
    BY <1>4, <2>1, ConcludeSlot
  <2>3. /\ export' = [e \in Exporters |-> export'[e]]
        /\ \A e \in Exporters \ {c} : export'[e] = export[e]
    BY <1>0, <1>4 DEF Conclude
  <2>. QED
    BY <1>0, <1>4, <2>1, <2>2, <2>3, ExporterStep DEF Conclude, IngestUnchanged
<1>5. ASSUME NEW c \in Exporters, Answer(c) \/ LoseAnswer(c)
      PROVE  ServiceInductive'
  <2>1. /\ export' = [export EXCEPT ![c] = Quiet] /\ UNCHANGED <<tables, now, plan>>
        /\ inbox' \subseteq inbox
    BY <1>5 DEF Answer, LoseAnswer, IngestUnchanged
  <2>2. faults' \in 0..MaxFaults
    BY <1>0, <1>5 DEF Answer, LoseAnswer
  <2>3. TablesOK' /\ RecordsKept
    BY <1>0, <2>1, SameTables
  <2>4. SlotOK(c)'
    BY <1>0, <2>1, QuietSlot
  <2>5. /\ export' = [e \in Exporters |-> export'[e]]
        /\ \A e \in Exporters \ {c} : export'[e] = export[e]
    BY <1>0, <2>1
  <2>. QED
    BY <2>1, <2>2, <2>3, <2>4, <2>5, ExporterStep
<1>6. ASSUME NEW class \in Classes, PlanExpiry(class)
      PROVE  ServiceInductive'
  <2>1. TablesOK' /\ RecordsKept
    BY <1>0, <1>6, SameTables DEF PlanExpiry
  <2>2. PlanOK'
    BY <1>6, PlanMade
  <2>. QED
    BY <1>0, <1>6, <2>1, <2>2, OtherStep DEF PlanExpiry
<1>7. CASE ApplyExpiry
  <2>1. TablesOK' /\ RecordsKept /\ PlanOK'
    BY <1>0, <1>7, ExpiryTables
  <2>. QED
    BY <1>0, <1>7, <2>1, OtherStep DEF ApplyExpiry
<1>8. ASSUME NEW d, Retire(d)
      PROVE  ServiceInductive'
  <2>1. TablesOK' /\ RecordsKept
    BY <1>0, <1>8, RetireTables
  <2>2. PlanOK'
    BY <1>0, <1>8 DEF Retire, PlanOK
  <2>. QED
    BY <1>0, <1>8, <2>1, <2>2, OtherStep DEF Retire
<1>9. CASE Tick
  <2>1. TablesOK' /\ RecordsKept
    BY <1>0, <1>9, SameTables DEF Tick
  <2>2. PlanOK' /\ now' \in 0..MaxTime
    BY <1>0, <1>9 DEF Tick, PlanOK
  <2>. QED
    BY <1>9, <2>1, <2>2, OtherStep DEF Tick
<1>10. CASE UNCHANGED vars
  <2>1. TablesOK' /\ RecordsKept
    BY <1>0, <1>10, SameTables DEF vars
  <2>2. PlanOK'
    BY <1>0, <1>10 DEF vars, PlanOK
  <2>. QED
    BY <1>0, <1>10, <2>1, <2>2, OtherStep DEF vars
<1>11. ASSUME NEW c \in Exporters, AdmitRaises(c)
       PROVE  ServiceInductive'
  <2>1. TablesOK' /\ RecordsKept
    BY <1>0, <1>11, SameTables DEF AdmitRaises, IngestUnchanged
  <2>2. SlotOK(c)'
    BY <1>11, <2>1, RaisesSlot
  <2>3. /\ export' = [e \in Exporters |-> export'[e]]
        /\ \A e \in Exporters \ {c} : export'[e] = export[e]
    BY <1>0, <1>11 DEF AdmitRaises
  <2>. QED
    BY <1>0, <1>11, <2>1, <2>2, <2>3, ExporterStep DEF AdmitRaises, IngestUnchanged
<1>. QED
  BY <1>1, <1>2, <1>3, <1>4, <1>5, <1>6, <1>7, <1>8, <1>9, <1>10, <1>11 DEF Next

\* The invariant holds at first, whatever the exporters have to send.
LEMMA ServiceStart == Init => ServiceInductive
<1>. SUFFICES ASSUME Init
              PROVE  ServiceInductive
  OBVIOUS
<1>1. /\ DOMAIN accepted = {} /\ DOMAIN effects = {} /\ DOMAIN anchors = {}
      /\ DOMAIN markers = {}
  BY DEF Init, EmptyTable
<1>2. TablesOK
  BY <1>1 DEF TablesOK, TombstonesMatch, ManifestsIntact, RowsOf
<1>3. PlanOK
  BY DEF Init, PlanOK, NoPlan
<1>4. ASSUME NEW c \in Exporters
      PROVE  SlotOK(c)
  <2>1. export[c] = Quiet
    BY DEF Init
  <2>2. IsRequest(NoRequest) /\ Len(NoRequest.records) = 0
    BY DEF IsRequest, NoRequest
  <2>3. /\ export[c].pc = "idle" /\ export[c].req = NoRequest /\ export[c].i = 1
        /\ export[c].rejected = 0 /\ export[c].status = 0
        /\ export[c].landed = {}
    BY <2>1 DEF Quiet
  <2>4. Settled(NoRequest) \cap 1..(1 - 1) = {}
    OBVIOUS
  <2>5. /\ Cardinality(Settled(NoRequest) \cap 1..(1 - 1)) = 0
        /\ Cardinality({}) = 0 /\ IsFiniteSet({})
    BY <2>4, FS_EmptySet
  <2>6. Accounted(c)
    BY <2>2, <2>3, <2>5 DEF Accounted
  <2>7. StatusEarned(c)
    BY <2>3 DEF StatusEarned
  <2>. QED
    BY <2>1, <2>2, <2>3, <2>6, <2>7 DEF SlotOK, Slot, Quiet
<1>5. /\ now \in 0..MaxTime /\ faults \in 0..MaxFaults
      /\ \A q \in inbox : IsRequest(q)
      /\ export = [c \in Exporters |-> export[c]]
  BY ServiceAssumption, WorkloadAssumption DEF Init
<1>. QED
  BY <1>2, <1>3, <1>4, <1>5 DEF ServiceInductive

-------------------------------------------------------------------------------
(* Theorems *)

\* The inductive invariant of requests, rows, tombstones and Manifests, for
\* every workload of decoded requests and every number of exporters.
THEOREM ServiceInvariant == Spec => []ServiceInductive
  BY ServiceStart, ServiceStep, PTL DEF Spec

\* The types: rows and anchors name live records, whatever is admitted, expired
\* and retired in between (claim_identity, apply_delivery_deletion).
THEOREM ServiceTypes == Spec => []ServiceTypeOK
<1>1. ServiceInductive => ServiceTypeOK
  <2>. SUFFICES ASSUME ServiceInductive
                PROVE  ServiceTypeOK
    OBVIOUS
  <2>1. ASSUME NEW c \in Exporters
        PROVE  /\ export[c].pc \in {"idle", "admit", "answer"}
               /\ export[c].status \in {0, 200, 400, 500}
               /\ export[c].rejected \in 0..Len(export[c].req.records)
    <3>1. /\ IsRequest(export[c].req)
          /\ export[c].i \in 1..(Len(export[c].req.records) + 1)
          /\ export[c].rejected \in 0..(export[c].i - 1)
      BY DEF ServiceInductive, SlotOK, Accounted
    <3>2. Len(export[c].req.records) \in Nat
      BY <3>1 DEF IsRequest
    <3>. QED
      BY <3>1, <3>2 DEF ServiceInductive, SlotOK
  <2>. QED
    BY <2>1
    DEF ServiceInductive, ServiceTypeOK, TablesOK, RecordOK, RowOK, PlanOK
<1>. QED
  BY <1>1, ServiceInvariant, PTL

\* A request fails only under a fault of the store, for a number that is not
\* finite, or at a task.binding whose Manifest text makes validate_record raise
\* something other than a ValidationError: nothing that it lets through makes
\* project() raise.
THEOREM FailuresAreFaults == Spec => []FailsOnlyOnFault
<1>1. ServiceInductive => FailsOnlyOnFault
  BY DEF ServiceInductive, SlotOK, StatusEarned, FailsOnlyOnFault
<1>. QED
  BY <1>1, ServiceInvariant, PTL

\* An answer is true: of a success, all records but those reported as rejected
\* are in the store or went with their Delivery; a refusal has left nothing
\* (OtlpIngestor._ingest), for any number of concurrent requests, retirements
\* and retries.
THEOREM AnswersTruthful == Spec => []AnswerTruthful
<1>1. ServiceInductive => AnswerTruthful
  <2>. SUFFICES ASSUME ServiceInductive, NEW c \in Exporters
                PROVE  /\ export[c].status = 200 =>
                            /\ Cardinality(Settled(export[c].req)) >=
                                 Len(export[c].req.records) - export[c].rejected
                            /\ Cardinality(export[c].landed) <=
                                 Len(export[c].req.records) - export[c].rejected
                       /\ export[c].status = 400 => export[c].landed = {}
    BY DEF AnswerTruthful
  <2>1. SlotOK(c)
    BY DEF ServiceInductive
  <2>2. export[c].status = 400 => export[c].landed = {}
    BY <2>1 DEF SlotOK, StatusEarned
  <2>3. ASSUME export[c].status = 200
        PROVE  /\ Cardinality(Settled(export[c].req)) >=
                    Len(export[c].req.records) - export[c].rejected
               /\ Cardinality(export[c].landed) <=
                    Len(export[c].req.records) - export[c].rejected
    <3>0. PICK q, n, m :
            q = export[c].req /\ n = Len(q.records) /\ m = export[c].i
      OBVIOUS
    <3>1. m = n + 1 /\ IsRequest(q)
      BY <2>1, <2>3, <3>0 DEF SlotOK, StatusEarned
    <3>2. n \in Nat /\ m \in Nat /\ DOMAIN q.records = 1..n /\ m - 1 = n
      BY <3>0, <3>1, RequestNumbered
    <3>3. Settled(q) \cap 1..(m - 1) = Settled(q)
      BY <3>2 DEF Settled
    <3>4. /\ export[c].rejected \in 0..(m - 1)
          /\ Cardinality(Settled(q) \cap 1..(m - 1)) + export[c].rejected >= m - 1
          /\ Cardinality(export[c].landed) + export[c].rejected <= m - 1
          /\ IsFiniteSet(export[c].landed)
      BY <2>1, <2>3, <3>0 DEF SlotOK, Accounted
    <3>5. IsFiniteSet(Settled(q) \cap 1..(m - 1))
      BY <3>1, <3>2, RequestNumbered
    <3>6. Cardinality(Settled(q)) \in Nat /\ Cardinality(export[c].landed) \in Nat
      BY <3>3, <3>4, <3>5, FS_CardinalityType
    <3>7. /\ export[c].rejected \in 0..n
          /\ Cardinality(Settled(q)) + export[c].rejected >= n
          /\ Cardinality(export[c].landed) + export[c].rejected <= n
      BY <3>2, <3>3, <3>4
    <3>. QED
      BY <3>0, <3>2, <3>6, <3>7
  <2>. QED
    BY <2>2, <2>3
<1>. QED
  BY <1>1, ServiceInvariant, PTL

\* A tombstone always stands for an empty row of the same source: a retirement
\* takes the tombstones of exactly the rows it takes, so none is left to hide a
\* row written later under its key (apply_expiry, apply_delivery_deletion).
THEOREM TombstonesStay == Spec => []TombstonesMatch
<1>1. ServiceInductive => TombstonesMatch
  BY DEF ServiceInductive, TablesOK
<1>. QED
  BY <1>1, ServiceInvariant, PTL

\* Every stored Manifest is one its route can serve, as no expiry, retirement
\* or hand-over touches the text that validation has compared with its digests
\* (_parse_closed_manifest_projection, QueryService.manifest).
THEOREM ManifestsServed == Spec => []ManifestsIntact
<1>1. ServiceInductive => ManifestsIntact
  BY DEF ServiceInductive, TablesOK
<1>. QED
  BY <1>1, ServiceInvariant, PTL
===============================================================================
