--------------------------- MODULE EvidenceTypeProofs ---------------------------
(***************************************************************************)
(* Type correctness of the service, for every set of records, connections  *)
(* and workers and every value of the bounds.                              *)
(***************************************************************************)
EXTENDS EvidenceInvariants, TLAPS, WellFoundedInduction

USE DEF tables

-------------------------------------------------------------------------------
(* Operators *)

\* The minimum of a non-empty set of naturals is one of its elements.
LEMMA MinOfIn ==
  ASSUME NEW S \in SUBSET Nat, S # {}
  PROVE  MinOf(S) \in S
<1>. DEFINE Less == {ss \in Nat \X Nat : ss[1] < ss[2]}
<1>0. IsWellFoundedOn(Less, Nat)
  BY NatLessThanWellFounded DEF OpToRel
<1>. HIDE DEF Less
<1>1. PICK x \in S : \A y \in S : ~(<<y, x>> \in Less)
  BY <1>0, WFMin
<1>2. ASSUME NEW y \in S
      PROVE  x <= y
  <2>1. <<y, x>> \in Nat \X Nat /\ <<y, x>>[1] = y /\ <<y, x>>[2] = x
    OBVIOUS
  <2>2. ~(y < x)
    BY <1>1, <2>1 DEF Less
  <2>. QED
    BY <2>2
<1>. QED
  BY <1>2 DEF MinOf

\* The rank of a Delivery is a natural number other than NoDelivery.
LEMMA DeliveriesNat == Deliveries \subseteq Nat /\ Ids \subseteq Nat
  BY RecordsAssumption DEF Deliveries, Ids

\* A Profile 2 record belongs to a Delivery, any other record to none.
LEMMA DeliveryOfRecord ==
  ASSUME NEW r \in Records
  PROVE  /\ r.profile = 2 => DeliveryOf(r) \in Deliveries
         /\ r.profile # 2 => DeliveryOf(r) \notin Deliveries
  BY RecordsAssumption DEF Deliveries, DeliveryOf

\* The initial records of connections and workers have their types.
LEMMA IdleType == Idle \in AdmissionType /\ Asleep \in RetentionType
<1>1. (CHOOSE r \in Records : TRUE) \in Records
  BY RecordsAssumption
<1>. QED
  BY <1>1, BoundsAssumption
  DEF Idle, Asleep, AdmissionType, RetentionType, AdmissionPCs, RetentionPCs,
      Results

\* Adding typed rows to a typed table, or removing rows, keeps its type.
LEMMA WithType ==
  ASSUME NEW K, NEW V, NEW t, NEW u, TableType(t, K, V), TableType(u, K, V)
  PROVE  TableType(With(t, u), K, V)
  BY DEF TableType, With

\* Deleting rows of a table keeps its type.
LEMMA WithoutType ==
  ASSUME NEW K, NEW V, NEW t, NEW S, TableType(t, K, V)
  PROVE  TableType(Without(t, S), K, V)
  BY DEF TableType, Without

\* A table of one row has the type of its key and its value.
LEMMA RowType ==
  ASSUME NEW K, NEW V, NEW k \in K, NEW v \in V
  PROVE  TableType(Row(k, v), K, V)
  BY DEF TableType, Row

-------------------------------------------------------------------------------
(* Admission *)

\* A transaction record with its type keeps the processes typed.
LEMMA AdmissionTyped ==
  ASSUME TypeOK, NEW c \in Conns, NEW tx, AdmissionOK(tx), NEW h,
         adm' = [adm EXCEPT ![c] = tx],
         holds' = [holds EXCEPT ![c] = h] \/ UNCHANGED holds,
         UNCHANGED wk
  PROVE  ProcessesOK'
  BY DEF TypeOK, ProcessesOK, Procs

\* So does a transaction that ends.
LEMMA FinishTyped ==
  ASSUME TypeOK, NEW c \in Conns, NEW res \in Results
  PROVE  AdmissionOK([Idle EXCEPT !.pc = "done", !.rec = adm[c].rec,
                                  !.res = res])
<1>1. adm[c].rec \in Records
  BY DEF TypeOK, ProcessesOK, AdmissionOK, AdmissionType
<1>. QED
  BY <1>1, IdleType DEF AdmissionOK, AdmissionType, AdmissionPCs, Idle

\* The rows an admission wrote are rows of effects of its record.
LEMMA WrittenType ==
  ASSUME TypeOK, NEW c \in Conns
  PROVE  /\ Written(c) \subseteq EffectKeys
         /\ \A k \in Written(c) : PayloadWritten(c, k) \in Payloads
<1>1. adm[c].rec \in Records /\ adm[c].wrote \subseteq DOMAIN Project(adm[c].rec)
  BY DEF TypeOK, ProcessesOK, AdmissionOK, AdmissionType
<1>2. \A i \in adm[c].wrote : Project(adm[c].rec)[i] \in AllEffects
  BY <1>1 DEF AllEffects, EffectsOf
<1>. QED
  BY <1>2 DEF Written, PayloadWritten, EffectKeys, Payloads

\* Every statement of AdmissionService.admit, and the arrival of a request, keep
\* the types: one step per action.
LEMMA AdmissionStepType ==
  ASSUME TypeOK, NEW c \in Conns, AdmissionStep(c)
  PROVE  TypeOK'
<1>. USE DEF AdmUnchanged, Step, Finish, Acquire, Release
<1>0. /\ AdmissionOK(adm[c]) /\ AdmissionOK(Idle)
      /\ adm[c] \in AdmissionType
  BY IdleType DEF TypeOK, ProcessesOK, AdmissionOK, Idle
<1>1. CASE LockDelivery(c)
  <2>1. AdmissionOK([adm[c] EXCEPT !.pc = "fence"])
    BY <1>0 DEF AdmissionOK, AdmissionType, AdmissionPCs
  <2>. QED
    BY <1>1, <2>1, AdmissionTyped DEF LockDelivery, TypeOK, TablesOK
<1>2. CASE CheckFence(c)
  <2>1. AdmissionOK([adm[c] EXCEPT !.pc = IF IsBinding(adm[c].rec)
                                          THEN "task_lock" ELSE "claim"])
    BY <1>0 DEF AdmissionOK, AdmissionType, AdmissionPCs
  <2>2. AdmissionOK([Idle EXCEPT !.pc = "done", !.rec = adm[c].rec,
                                 !.res = "rejected"])
    BY FinishTyped DEF Results
  <2>. QED
    BY <1>2, <2>1, <2>2, AdmissionTyped DEF CheckFence, TypeOK, TablesOK
<1>3. CASE LockTask(c)
  <2>1. AdmissionOK([adm[c] EXCEPT !.pc = "claim"])
    BY <1>0 DEF AdmissionOK, AdmissionType, AdmissionPCs
  <2>. QED
    BY <1>3, <2>1, AdmissionTyped DEF LockTask, TypeOK, TablesOK
<1>4. CASE Claim(c)
  <2>1. /\ AdmissionOK([adm[c] EXCEPT !.pc = "compare_identity"])
        /\ AdmissionOK([adm[c] EXCEPT !.pc = "apply", !.claimed = TRUE])
    BY <1>0 DEF AdmissionOK, AdmissionType, AdmissionPCs
  <2>2. AdmissionOK([Idle EXCEPT !.pc = "done", !.rec = adm[c].rec,
                                 !.res = "conflict"])
    BY FinishTyped DEF Results
  <2>. QED
    BY <1>4, <2>1, <2>2, AdmissionTyped DEF Claim, TypeOK, TablesOK
<1>5. CASE CompareIdentity(c)
  <2>1. PICK res \in Results :
          adm' = [adm EXCEPT ![c] = [Idle EXCEPT !.pc = "done",
                                                 !.rec = adm[c].rec,
                                                 !.res = res]]
    BY <1>5 DEF CompareIdentity, Results
  <2>2. ProcessesOK'
    BY <1>5, <2>1, FinishTyped, AdmissionTyped DEF CompareIdentity
  <2>. QED
    BY <1>5, <2>2 DEF CompareIdentity, TypeOK, TablesOK
<1>6. CASE RequireEffect(c)
  <2>1. AdmissionOK([adm[c] EXCEPT !.idx = @ + 1])
    BY <1>0, <1>6
    DEF RequireEffect, Applying, AdmissionOK, AdmissionType, AdmissionPCs
  <2>2. AdmissionOK([Idle EXCEPT !.pc = "done", !.rec = adm[c].rec,
                                 !.res = "rejected"])
    BY FinishTyped DEF Results
  <2>. QED
    BY <1>6, <2>1, <2>2, AdmissionTyped DEF RequireEffect, TypeOK, TablesOK
<1>7. CASE FirstWrite(c)
  <2>1. AdmissionOK([adm[c] EXCEPT !.pc = "compare"])
    BY <1>0, <1>7
    DEF FirstWrite, Applying, AdmissionOK, AdmissionType, AdmissionPCs
  <2>2. AdmissionOK([adm[c] EXCEPT !.idx = @ + 1,
                                   !.wrote = @ \cup {adm[c].idx}])
    <3>1. /\ adm[c].idx \in DOMAIN Project(adm[c].rec) /\ adm[c].idx \in Nat
          /\ adm[c].wrote \subseteq DOMAIN Project(adm[c].rec)
          /\ adm[c].wrote \in SUBSET Nat /\ adm[c].pc = "apply"
      BY <1>0, <1>7
      DEF FirstWrite, Applying, AdmissionOK, AdmissionType
    <3>2. [adm[c] EXCEPT !.idx = @ + 1, !.wrote = @ \cup {adm[c].idx}]
            \in AdmissionType
      <4>. DEFINE i == adm[c].idx + 1
                  W == adm[c].wrote \cup {adm[c].idx}
      <4>1. i \in Nat /\ W \in SUBSET Nat
        BY <3>1
      <4>. HIDE DEF i, W
      <4>2. [adm[c] EXCEPT !.idx = i, !.wrote = W] \in AdmissionType
        BY <1>0, <4>1 DEF AdmissionType
      <4>. QED
        BY <4>2 DEF i, W
    <3>. QED
      BY <1>0, <3>1, <3>2 DEF AdmissionOK, AdmissionType
  <2>. QED
    BY <1>7, <2>1, <2>2, AdmissionTyped DEF FirstWrite, TypeOK, TablesOK
<1>8. CASE CompareEffect(c)
  <2>1. CurrentKey(c) \in EffectKeys
    <3>1. Current(c) \in AllEffects
      BY <1>0, <1>8 DEF CompareEffect, Current, AllEffects, EffectsOf,
                        AdmissionOK, AdmissionType
    <3>. QED
      BY <3>1 DEF CurrentKey, EffectKeys
  <2>2. AdmissionOK([adm[c] EXCEPT !.pc = "apply", !.idx = @ + 1,
                                   !.locked = @ \cup {CurrentKey(c)}])
    <3>1. /\ adm[c].idx \in Nat /\ adm[c].locked \in SUBSET EffectKeys
          /\ adm[c].wrote \subseteq DOMAIN Project(adm[c].rec)
      BY <1>0 DEF AdmissionOK, AdmissionType
    <3>2. [adm[c] EXCEPT !.pc = "apply", !.idx = @ + 1,
                         !.locked = @ \cup {CurrentKey(c)}] \in AdmissionType
      <4>. DEFINE i == adm[c].idx + 1
                  L == adm[c].locked \cup {CurrentKey(c)}
      <4>1. i \in Nat /\ L \in SUBSET EffectKeys
        BY <2>1, <3>1
      <4>. HIDE DEF i, L
      <4>2. [adm[c] EXCEPT !.pc = "apply", !.idx = i, !.locked = L]
              \in AdmissionType
        BY <1>0, <4>1 DEF AdmissionType, AdmissionPCs
      <4>. QED
        BY <4>2 DEF i, L
    <3>. QED
      BY <1>0, <3>1, <3>2 DEF AdmissionOK, AdmissionType
  <2>3. /\ AdmissionOK([Idle EXCEPT !.pc = "done", !.rec = adm[c].rec,
                                    !.res = "error"])
        /\ AdmissionOK([Idle EXCEPT !.pc = "done", !.rec = adm[c].rec,
                                    !.res = "conflict"])
    BY FinishTyped DEF Results
  <2>. QED
    BY <1>8, <2>2, <2>3, AdmissionTyped DEF CompareEffect, TypeOK, TablesOK
<1>9. CASE CommitAdmission(c)
  <2>1. ProcessesOK'
    <3>1. AdmissionOK([Idle EXCEPT !.pc = "done", !.rec = adm[c].rec,
                                   !.res = "accepted"])
      BY FinishTyped DEF Results
    <3>. QED
      BY <1>9, <3>1, AdmissionTyped DEF CommitAdmission
  <2>2. /\ adm[c].rec \in Records /\ adm[c].rec.id \in Ids
        /\ adm[c].at \in 0..MaxTime
    BY <1>0 DEF AdmissionType, Ids
  <2>3. /\ TableType(accepted', Ids,
                     [rec : Records, at : 0..MaxTime, raw : BOOLEAN])
        /\ \A id \in DOMAIN accepted' : accepted'[id].rec.id = id
    <3>. DEFINE row == [rec |-> adm[c].rec, at |-> adm[c].at, raw |-> TRUE]
    <3>1. TableType(Row(adm[c].rec.id, row), Ids,
                    [rec : Records, at : 0..MaxTime, raw : BOOLEAN])
      BY <2>2, RowType
    <3>2. \A id \in DOMAIN Row(adm[c].rec.id, row) :
            Row(adm[c].rec.id, row)[id].rec.id = id
      BY DEF Row
    <3>3. accepted' = With(accepted, Row(adm[c].rec.id, row))
      BY <1>9 DEF CommitAdmission
    <3>. HIDE DEF row
    <3>4. \A id \in DOMAIN accepted' : accepted'[id].rec.id = id
      BY <3>2, <3>3 DEF With, TypeOK, TablesOK
    <3>. QED
      BY <3>1, <3>3, <3>4, WithType DEF TypeOK, TablesOK
  <2>4. TableType(effects', EffectKeys, [payload : Payloads, src : Ids])
    <3>. DEFINE rows == [k \in Written(c) |-> [payload |-> PayloadWritten(c, k),
                                               src |-> adm[c].rec.id]]
    <3>1. TableType(rows, EffectKeys, [payload : Payloads, src : Ids])
      BY <2>2, WrittenType DEF TableType
    <3>2. effects' = With(effects, rows)
      BY <1>9 DEF CommitAdmission
    <3>. HIDE DEF rows
    <3>. QED
      BY <3>1, <3>2, WithType DEF TypeOK, TablesOK
  <2>5. TableType(anchors', Deliveries, [id : Ids, at : 0..MaxTime])
    <3>. DEFINE row == [id |-> adm[c].rec.id, at |-> adm[c].at]
    <3>1. CASE IsSummary(adm[c].rec)
      <4>1. DeliveryOf(adm[c].rec) \in Deliveries
        BY <2>2, <3>1, DeliveryOfRecord DEF IsSummary
      <4>2. TableType(Row(DeliveryOf(adm[c].rec), row), Deliveries,
                      [id : Ids, at : 0..MaxTime])
        BY <2>2, <4>1, RowType
      <4>3. anchors' = With(anchors, Row(DeliveryOf(adm[c].rec), row))
        BY <1>9, <3>1 DEF CommitAdmission
      <4>. HIDE DEF row
      <4>. QED
        BY <4>2, <4>3, WithType DEF TypeOK, TablesOK
    <3>2. CASE ~IsSummary(adm[c].rec)
      BY <1>9, <3>2 DEF CommitAdmission, TypeOK, TablesOK
    <3>. QED
      BY <3>1, <3>2
  <2>. QED
    BY <1>9, <2>1, <2>3, <2>4, <2>5 DEF CommitAdmission, TypeOK, TablesOK
<1>10. CASE Respond(c)
  BY <1>0, <1>10, AdmissionTyped DEF Respond, TypeOK, TablesOK
<1>. QED
  BY <1>1, <1>2, <1>3, <1>4, <1>5, <1>6, <1>7, <1>8, <1>9, <1>10
  DEF AdmissionStep

-------------------------------------------------------------------------------
(* Retention *)

\* An iteration with its type keeps the processes typed.
LEMMA IterationTyped ==
  ASSUME TypeOK, NEW w \in Workers, NEW tx, RetentionOK(tx), NEW h,
         wk' = [wk EXCEPT ![w] = tx],
         holds' = [holds EXCEPT ![w] = h] \/ UNCHANGED holds,
         UNCHANGED adm
  PROVE  ProcessesOK'
  BY DEF TypeOK, ProcessesOK, Procs

\* The effects an iteration sees are typed rows of projection_effects.
LEMMA ViewType ==
  ASSUME TypeOK, NEW w \in Workers
  PROVE  /\ DOMAIN View(w) \subseteq DOMAIN effects
         /\ TableType(View(w), EffectKeys, [payload : Payloads, src : Ids])
<1>1. wk[w].moved \subseteq EffectKeys \X Ids
  BY DEF TypeOK, ProcessesOK, RetentionOK, RetentionType
<1>2. ASSUME NEW k \in MovedKeys(w)
      PROVE  (CHOOSE m \in wk[w].moved : m[1] = k)[2] \in Ids
  BY <1>1 DEF MovedKeys
<1>. QED
  BY <1>2 DEF View, TableType, TypeOK, TablesOK

\* The new source of a Task's rows is a row of the Task's memberships.
LEMMA HeirType ==
  ASSUME TypeOK, NEW w \in Workers, NEW d, NEW t, OtherMembers(w, d, t) # {}
  PROVE  /\ MinOf(OtherMembers(w, d, t)) \in OtherMembers(w, d, t)
         /\ <<"delivery_task_membership", t, MinOf(OtherMembers(w, d, t))>>
              \in DOMAIN View(w)
         /\ Heir(w, d, t) \in Ids
<1>1. OtherMembers(w, d, t) \in SUBSET Nat
  BY DeliveriesNat DEF OtherMembers
<1>2. MinOf(OtherMembers(w, d, t)) \in OtherMembers(w, d, t)
  BY <1>1, MinOfIn
<1>3. <<"delivery_task_membership", t, MinOf(OtherMembers(w, d, t))>>
        \in DOMAIN View(w)
  BY <1>2 DEF OtherMembers
<1>. QED
  BY <1>2, <1>3, ViewType DEF Heir, TableType

\* Every statement of run_once, and its start, keep the types: one step per action.
LEMMA RetentionStepType ==
  ASSUME TypeOK, NEW w \in Workers, Wake(w) \/ RetentionStep(w)
  PROVE  TypeOK'
<1>. USE DEF WkUnchanged, Work, GiveUp, Acquire, Release
<1>0. /\ RetentionOK(wk[w]) /\ RetentionOK(Asleep)
      /\ wk[w] \in RetentionType /\ Asleep \in RetentionType
  BY IdleType DEF TypeOK, ProcessesOK, RetentionOK, Asleep, DestroyingPCs
<1>1. CASE Wake(w)
  <2>1. RetentionOK([Asleep EXCEPT !.pc = "plan_expiry", !.at = now])
    BY <1>0, <1>1
    DEF Wake, RetentionOK, DestroyingPCs, RetentionType, RetentionPCs, TypeOK
  <2>. QED
    BY <1>1, <2>1, IterationTyped DEF Wake, TypeOK, TablesOK
<1>2. CASE PlanExpiry(w)
  <2>1. FirstOf(Expirable(w), BatchSize) \in SUBSET Ids
    BY DEF FirstOf, Expirable, TypeOK, TablesOK, TableType
  <2>2. RetentionOK([wk[w] EXCEPT !.pc = "scrub",
                      !.raws = FirstOf(Expirable(w), BatchSize)])
    BY <1>0, <2>1, <1>2
    DEF PlanExpiry, RetentionOK, DestroyingPCs, RetentionType, RetentionPCs
  <2>. QED
    BY <1>0, <1>2, <2>2, IterationTyped DEF PlanExpiry, TypeOK, TablesOK
<1>3. CASE ScrubMember(w)
  <2>. DEFINE id == MinOf(wk[w].raws)
              raws == wk[w].raws \ {id}
              marked == IF id \in markers THEN wk[w].marked
                                          ELSE wk[w].marked \cup {id}
  <2>1. wk[w].raws \in SUBSET Ids /\ wk[w].marked \in SUBSET Ids
    BY <1>0 DEF RetentionType
  <2>2. id \in Ids
    BY <1>3, <2>1, DeliveriesNat, MinOfIn DEF ScrubMember
  <2>3. raws \in SUBSET Ids /\ marked \in SUBSET Ids
    BY <2>1, <2>2
  <2>4. \/ wk' = [wk EXCEPT ![w] = Asleep]
        \/ wk' = [wk EXCEPT ![w] = [wk[w] EXCEPT !.raws = raws,
                                                 !.marked = marked]]
    BY <1>3 DEF ScrubMember
  <2>. HIDE DEF raws, marked
  <2>5. RetentionOK([wk[w] EXCEPT !.raws = raws, !.marked = marked])
    BY <1>0, <2>3, <1>3
    DEF ScrubMember, RetentionOK, DestroyingPCs, RetentionType
  <2>6. ProcessesOK'
    BY <1>0, <1>3, <2>4, <2>5, IterationTyped DEF ScrubMember
  <2>. QED
    BY <1>3, <2>6 DEF ScrubMember, TypeOK, TablesOK
<1>4. CASE CommitExpiry(w)
  <2>. DEFINE pc == IF NeverDelete THEN "sleep" ELSE "plan_deletion"
              at == IF NeverDelete THEN 0 ELSE wk[w].at
  <2>1. /\ pc \in RetentionPCs /\ at \in 0..MaxTime
        /\ pc # "check" /\ pc \notin DestroyingPCs
    BY <1>0, BoundsAssumption DEF RetentionPCs, RetentionType, DestroyingPCs
  <2>2. wk' = [wk EXCEPT ![w] = [Asleep EXCEPT !.pc = pc, !.at = at]]
    BY <1>4 DEF CommitExpiry
  <2>. HIDE DEF pc, at
  <2>3. RetentionOK([Asleep EXCEPT !.pc = pc, !.at = at])
    BY <1>0, <2>1 DEF RetentionOK, RetentionType
  <2>4. ProcessesOK'
    BY <1>4, <2>2, <2>3, IterationTyped DEF CommitExpiry
  <2>5. wk[w].marked \subseteq Ids
    BY <1>0 DEF RetentionType
  <2>6. /\ TableType(accepted', Ids,
                     [rec : Records, at : 0..MaxTime, raw : BOOLEAN])
        /\ \A id \in DOMAIN accepted' : accepted'[id].rec.id = id
    <3>1. DOMAIN accepted' = DOMAIN accepted
      BY <1>4 DEF CommitExpiry
    <3>2. ASSUME NEW id \in DOMAIN accepted
          PROVE  /\ accepted[id]
                      \in [rec : Records, at : 0..MaxTime, raw : BOOLEAN]
                 /\ accepted[id].rec.id = id
      BY DEF TableType, TypeOK, TablesOK
    <3>3. ASSUME NEW id \in DOMAIN accepted
          PROVE  /\ accepted'[id]
                      \in [rec : Records, at : 0..MaxTime, raw : BOOLEAN]
                 /\ accepted'[id].rec.id = id
      <4>1. \/ accepted'[id] = accepted[id]
            \/ accepted'[id] = [accepted[id] EXCEPT !.raw = FALSE]
        BY <1>4 DEF CommitExpiry
      <4>. QED
        BY <3>2, <4>1
    <3>4. accepted' = [id \in DOMAIN accepted' |-> accepted'[id]]
      BY <1>4 DEF CommitExpiry
    <3>. QED
      BY <3>1, <3>3, <3>4 DEF TableType, TypeOK, TablesOK
  <2>. QED
    BY <1>4, <2>4, <2>5, <2>6 DEF CommitExpiry, TypeOK, TablesOK
<1>5. CASE PlanDeletion(w)
  <2>1. FirstOf(Retirable(w), BatchSize) \in SUBSET Deliveries
    BY DEF FirstOf, Retirable, TypeOK, TablesOK, TableType
  <2>2. RetentionOK([wk[w] EXCEPT !.pc = "delivery_lock",
                      !.batch = FirstOf(Retirable(w), BatchSize)])
    BY <1>0, <2>1, <1>5
    DEF PlanDeletion, RetentionOK, DestroyingPCs, RetentionType, RetentionPCs
  <2>. QED
    BY <1>5, <2>2, IterationTyped DEF PlanDeletion, TypeOK, TablesOK
<1>6. CASE LockRetiring(w)
  <2>1. RetentionOK([wk[w] EXCEPT !.pc = "check"])
    BY <1>0, <1>6
    DEF LockRetiring, RetentionOK, DestroyingPCs, RetentionType, RetentionPCs
  <2>. QED
    BY <1>6, <2>1, IterationTyped DEF LockRetiring, TypeOK, TablesOK
<1>7. CASE CheckRetiring(w)
  <2>. DEFINE guard == <<"delivery_task_guard", Retiring(w)>>
              batch == wk[w].batch \ {Retiring(w)}
              task == Get(View(w)[guard].payload, "task_id")
  <2>1. batch \in SUBSET Deliveries
    BY <1>0 DEF RetentionType
  <2>2. guard \in DOMAIN View(w) => task \in TaskRefs
    BY ViewType DEF TaskRefs, TableType
  <2>3. \/ wk' = [wk EXCEPT ![w] = Asleep]
        \/ wk' = [wk EXCEPT ![w] = [wk[w] EXCEPT !.pc = "delivery_lock",
                                                 !.batch = batch]]
        \/ /\ guard \in DOMAIN View(w)
           /\ wk' = [wk EXCEPT ![w] = [wk[w] EXCEPT !.pc = "task_lock",
                                                    !.task = task]]
        \/ wk' = [wk EXCEPT ![w] = [wk[w] EXCEPT !.pc = "delete_effects"]]
    BY <1>7 DEF CheckRetiring
  <2>. HIDE DEF guard, batch, task
  <2>4. /\ RetentionOK([wk[w] EXCEPT !.pc = "delivery_lock", !.batch = batch])
        /\ guard \in DOMAIN View(w) =>
             RetentionOK([wk[w] EXCEPT !.pc = "task_lock", !.task = task])
        /\ RetentionOK([wk[w] EXCEPT !.pc = "delete_effects"])
    BY <1>0, <2>1, <2>2, <1>7
    DEF CheckRetiring, RetentionOK, DestroyingPCs, RetentionType, RetentionPCs
  <2>5. ProcessesOK'
    BY <1>0, <1>7, <2>3, <2>4, IterationTyped DEF CheckRetiring
  <2>. QED
    BY <1>7, <2>5 DEF CheckRetiring, TypeOK, TablesOK
<1>8. CASE LockRetiringTask(w)
  <2>1. RetentionOK([wk[w] EXCEPT !.pc = "preserve"])
    BY <1>0, <1>8
    DEF LockRetiringTask, RetentionOK, DestroyingPCs, RetentionType, RetentionPCs
  <2>. QED
    BY <1>8, <2>1, IterationTyped DEF LockRetiringTask, TypeOK, TablesOK
<1>9. CASE PreserveTask(w)
  <2>. DEFINE d == Retiring(w)
              t == wk[w].task
              keys == IF OtherMembers(w, d, t) = {} THEN {}
                                                    ELSE Preserved(w, d, t)
              moved == {m \in wk[w].moved : m[1] \notin keys}
                         \cup {<<k, Heir(w, d, t)>> : k \in keys}
  <2>1. keys \subseteq EffectKeys
    BY ViewType DEF Preserved, OwnedBy, TableType
  <2>2. keys # {} => Heir(w, d, t) \in Ids
    BY HeirType
  <2>3. moved \in SUBSET (EffectKeys \X Ids)
    BY <1>0, <2>1, <2>2 DEF RetentionType
  <2>4. \/ wk' = [wk EXCEPT ![w] = Asleep]
        \/ wk' = [wk EXCEPT ![w] = [wk[w] EXCEPT !.pc = "delete_effects",
                                                 !.task = Null,
                                                 !.moved = moved]]
    BY <1>9 DEF PreserveTask
  <2>. HIDE DEF moved
  <2>5. RetentionOK([wk[w] EXCEPT !.pc = "delete_effects", !.task = Null, !.moved = moved])
    BY <1>0, <2>3, <1>9
    DEF PreserveTask, RetentionOK, DestroyingPCs, RetentionType, RetentionPCs
  <2>6. ProcessesOK'
    BY <1>0, <1>9, <2>4, <2>5, IterationTyped DEF PreserveTask
  <2>. QED
    BY <1>9, <2>6 DEF PreserveTask, TypeOK, TablesOK
<1>10. CASE DeleteEffects(w)
  <2>. DEFINE dropped == wk[w].dropped \cup OwnedBy(w, Retiring(w))
              moved == {m \in wk[w].moved : m[1] \notin OwnedBy(w, Retiring(w))}
  <2>1. dropped \in SUBSET EffectKeys /\ moved \in SUBSET (EffectKeys \X Ids)
    BY <1>0, ViewType DEF OwnedBy, RetentionType, TableType
  <2>2. wk' = [wk EXCEPT ![w] = [wk[w] EXCEPT !.pc = "delete_markers",
                                              !.dropped = dropped,
                                              !.moved = moved]]
    BY <1>10 DEF DeleteEffects
  <2>. HIDE DEF dropped, moved
  <2>3. RetentionOK([wk[w] EXCEPT !.pc = "delete_markers", !.dropped = dropped,
                      !.moved = moved])
    BY <1>0, <2>1, <1>10
    DEF DeleteEffects, RetentionOK, DestroyingPCs, RetentionType, RetentionPCs
  <2>4. ProcessesOK'
    BY <1>10, <2>2, <2>3, IterationTyped DEF DeleteEffects
  <2>. QED
    BY <1>10, <2>4 DEF DeleteEffects, TypeOK, TablesOK
<1>11. CASE DeleteMarkers(w)
  <2>. DEFINE unmarked ==
                wk[w].unmarked \cup (markers \cap MembersOf(Retiring(w)))
  <2>1. unmarked \in SUBSET Ids
    BY <1>0 DEF RetentionType, TypeOK, TablesOK
  <2>2. wk' = [wk EXCEPT ![w] = [wk[w] EXCEPT !.pc = "delete_records",
                                              !.unmarked = unmarked]]
    BY <1>11 DEF DeleteMarkers
  <2>. HIDE DEF unmarked
  <2>3. RetentionOK([wk[w] EXCEPT !.pc = "delete_records", !.unmarked = unmarked])
    BY <1>0, <2>1, <1>11
    DEF DeleteMarkers, RetentionOK, DestroyingPCs, RetentionType, RetentionPCs
  <2>4. ProcessesOK'
    BY <1>11, <2>2, <2>3, IterationTyped DEF DeleteMarkers
  <2>. QED
    BY <1>11, <2>4 DEF DeleteMarkers, TypeOK, TablesOK
<1>12. CASE DeleteRecords(w)
  <2>. DEFINE d == Retiring(w)
              batch == wk[w].batch \ {d}
              gone == wk[w].gone \cup MembersOf(d)
              fenced == wk[w].fenced \cup {d}
  <2>1. /\ wk[w].batch \in SUBSET Deliveries /\ wk[w].batch \in SUBSET Nat
        /\ wk[w].fenced \in SUBSET Deliveries /\ wk[w].gone \in SUBSET Ids
    BY <1>0, DeliveriesNat DEF RetentionType
  <2>2. d \in wk[w].batch
    BY <1>0, <1>12, <2>1, MinOfIn
    DEF DeleteRecords, Retiring, RetentionOK, DestroyingPCs
  <2>3. /\ batch \in SUBSET Deliveries /\ gone \in SUBSET Ids
        /\ fenced \in SUBSET Deliveries
    BY <2>1, <2>2 DEF MembersOf, TypeOK, TablesOK, TableType
  <2>4. \/ wk' = [wk EXCEPT ![w] = Asleep]
        \/ wk' = [wk EXCEPT ![w] = [wk[w] EXCEPT !.pc = "delivery_lock",
                                                 !.batch = batch,
                                                 !.gone = gone,
                                                 !.fenced = fenced]]
    BY <1>12 DEF DeleteRecords
  <2>. HIDE DEF batch, gone, fenced
  <2>5. RetentionOK([wk[w] EXCEPT !.pc = "delivery_lock", !.batch = batch,
                                  !.gone = gone, !.fenced = fenced])
    BY <1>0, <2>3 DEF RetentionOK, RetentionType, RetentionPCs, DestroyingPCs
  <2>6. ProcessesOK'
    BY <1>0, <1>12, <2>4, <2>5, IterationTyped DEF DeleteRecords
  <2>. QED
    BY <1>12, <2>6 DEF DeleteRecords, TypeOK, TablesOK
<1>13. CASE CommitDeletion(w)
  <2>1. ProcessesOK'
    BY <1>0, <1>13, IterationTyped DEF CommitDeletion
  <2>2. /\ TableType(accepted', Ids,
                     [rec : Records, at : 0..MaxTime, raw : BOOLEAN])
        /\ TableType(anchors', Deliveries, [id : Ids, at : 0..MaxTime])
    BY <1>13, WithoutType DEF CommitDeletion, TypeOK, TablesOK
  <2>3. \A id \in DOMAIN accepted' : accepted'[id].rec.id = id
    BY <1>13 DEF CommitDeletion, Without, TypeOK, TablesOK
  <2>4. TableType(effects', EffectKeys, [payload : Payloads, src : Ids])
    BY <1>13, ViewType DEF CommitDeletion
  <2>5. wk[w].fenced \subseteq Deliveries
    BY <1>0 DEF RetentionType
  <2>. QED
    BY <1>13, <2>1, <2>2, <2>3, <2>4, <2>5
    DEF CommitDeletion, TypeOK, TablesOK
<1>. QED
  BY <1>1, <1>2, <1>3, <1>4, <1>5, <1>6, <1>7, <1>8, <1>9, <1>10, <1>11,
     <1>12, <1>13
  DEF RetentionStep

-------------------------------------------------------------------------------

\* Every step of the service preserves the types.
LEMMA TypeStep == TypeOK /\ [Next]_vars => TypeOK'
<1>. SUFFICES ASSUME TypeOK, [Next]_vars
              PROVE  TypeOK'
  OBVIOUS
<1>1. ASSUME NEW c \in Conns, NEW r \in Records, Receive(c, r)
      PROVE  TypeOK'
  <2>. DEFINE pc == IF r.profile = 2 THEN "delivery_lock" ELSE "claim"
  <2>1. pc \in AdmissionPCs /\ pc # "compare"
    BY DEF AdmissionPCs
  <2>2. adm' = [adm EXCEPT ![c] = [Idle EXCEPT !.rec = r, !.at = now,
                                               !.pc = pc]]
    BY <1>1 DEF Receive, Step
  <2>. HIDE DEF pc
  <2>3. AdmissionOK([Idle EXCEPT !.rec = r, !.at = now, !.pc = pc])
    BY <2>1, IdleType DEF AdmissionOK, AdmissionType, Idle, TypeOK
  <2>4. ProcessesOK'
    BY <1>1, <2>2, <2>3, AdmissionTyped DEF Receive, AdmUnchanged
  <2>. QED
    BY <1>1, <2>4, BoundsAssumption
    DEF Receive, Step, AdmUnchanged, TypeOK, TablesOK
<1>2. ASSUME NEW p \in Procs, Abort(p), faults' \in 0..MaxFaults
      PROVE  TypeOK'
  <2>1. CASE p \in Conns
    <3>1. AdmissionOK([Idle EXCEPT !.pc = "done", !.rec = adm[p].rec,
                                   !.res = "error"])
      BY <2>1, FinishTyped DEF Results
    <3>. QED
      BY <1>2, <2>1, <3>1, AdmissionTyped DEF Abort, Release, TypeOK, TablesOK
  <2>2. CASE p \notin Conns
    <3>1. RetentionOK(Asleep)
      BY IdleType DEF RetentionOK, Asleep, DestroyingPCs
    <3>. QED
      BY <1>2, <2>2, <3>1, IterationTyped
      DEF Abort, Release, TypeOK, TablesOK, Procs
  <2>. QED
    BY <2>1, <2>2
<1>3. ASSUME NEW p \in Procs, DeadlockVictim(p) \/ Fault(p)
      PROVE  TypeOK'
  BY <1>2, <1>3, BoundsAssumption DEF DeadlockVictim, Fault, TypeOK
<1>4. CASE Tick
  BY <1>4, BoundsAssumption DEF Tick, TypeOK, TablesOK, ProcessesOK
<1>5. CASE UNCHANGED vars
  BY <1>5 DEF vars, TypeOK, TablesOK, ProcessesOK
<1>. QED
  BY <1>1, <1>3, <1>4, <1>5, AdmissionStepType, RetentionStepType DEF Next

\* The empty database with idle connections and sleeping workers is well typed.
LEMMA TypeInit == Init => TypeOK
<1>1. RetentionOK(Asleep) /\ AdmissionOK(Idle)
  BY IdleType DEF RetentionOK, Asleep, DestroyingPCs, AdmissionOK, Idle
<1>. QED
  BY <1>1, BoundsAssumption
  DEF Init, TypeOK, TablesOK, ProcessesOK, TableType, EmptyTable

\* TypeOK holds in every reachable state of the service, whatever records
\* clients send and however many connections and workers run.
THEOREM TypeCorrect == Spec => []TypeOK
  BY TypeInit, TypeStep, PTL DEF Spec
===============================================================================
