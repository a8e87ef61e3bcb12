----------------------------- MODULE EvidenceProofs -----------------------------
(***************************************************************************)
(* The safety of admission and retention, for every set of records,        *)
(* connections and workers and every value of the bounds: the conjunction  *)
(* Inductive is an invariant, the properties of the store follow from it,  *)
(* and the service implements the ledger.                                  *)
(***************************************************************************)
EXTENDS EvidenceTypeProofs

USE DEF tables

-------------------------------------------------------------------------------
(* Steps that change one transaction and no table *)

\* A step of one admission that changes no table keeps the invariant if the
\* admission's own part of it holds afterwards.
LEMMA QuietAdmission ==
  ASSUME Inductive, TypeOK', NEW c \in Conns,
         UNCHANGED <<tables, wk>>,
         \A e \in Conns \ {c} : adm'[e] = adm[e],
         \A q \in Procs \ {c} : holds'[q] = holds[q]
                                  /\ holds'[c] \cap holds[q] = {},
         FencePassed(c)', ClaimFree(c)',
         adm'[c].claimed =>
           \A e \in Conns \ {c} :
             adm[e].claimed => adm[e].rec.id # adm'[c].rec.id,
         adm'[c].pc = "done" /\ adm'[c].res \in {"accepted", "duplicate"} =>
           /\ adm'[c].rec.id \in DOMAIN accepted
           /\ accepted[adm'[c].rec.id].rec = adm'[c].rec
  PROVE  Inductive'
<1>0. c \in Procs /\ Conns \subseteq Procs /\ Workers \subseteq Procs
      /\ c \notin Workers
  BY ProcsAssumption DEF Procs
<1>1. LockExclusion'
  BY <1>0 DEF Inductive, LockExclusion
<1>2. ClaimUnique'
  BY DEF Inductive, ClaimUnique
<1>3. WorkersApart'
  BY DEF Inductive, WorkersApart, MovedTo, MovedKeys
<1>4. ASSUME NEW e \in Conns
      PROVE  FencePassed(e)' /\ ClaimFree(e)'
  BY <1>0 DEF Inductive, FencePassed, ClaimFree, PastFence
<1>5. ASSUME NEW w \in Workers
      PROVE  RetiringLocked(w)' /\ GoneIsFenced(w)' /\ SourcesRemain(w)'
  BY <1>0 DEF Inductive, RetiringLocked, GoneIsFenced, SourcesRemain,
              Destroying, Retiring, MovedKeys
<1>6. FenceClosed'
  <2>1. ASSUME NEW d \in fences, adm'[c].claimed
        PROVE  DeliveryOf(adm'[c].rec) # d
    <3>1. adm'[c].rec \in Records /\ d \in Deliveries
      BY DEF TypeOK, ProcessesOK, AdmissionOK, AdmissionType, Inductive,
             TablesOK
    <3>2. adm'[c].rec.profile = 2 => DeliveryOf(adm'[c].rec) \notin fences
      BY <2>1 DEF FencePassed, ClaimFree, PastFence
    <3>. QED
      BY <3>1, <3>2, DeliveryOfRecord
  <2>. QED
    BY <2>1 DEF Inductive, FenceClosed, MembersOf
<1>7. AnchorIsSummary' /\ SourcesAccepted'
  BY DEF Inductive, AnchorIsSummary, SourcesAccepted, MembersOf
<1>8. AckDurable'
  BY DEF Inductive, AckDurable
<1>. QED
  BY <1>1, <1>2, <1>3, <1>4, <1>5, <1>6, <1>7, <1>8 DEF Inductive

\* The same for a step of one worker.
LEMMA QuietIteration ==
  ASSUME Inductive, TypeOK', NEW w \in Workers,
         UNCHANGED <<tables, adm>>,
         \A v \in Workers \ {w} : wk'[v] = wk[v],
         \A q \in Procs \ {w} : holds'[q] = holds[q]
                                  /\ holds'[w] \cap holds[q] = {},
         RetiringLocked(w)', GoneIsFenced(w)', SourcesRemain(w)',
         \A v \in Workers \ {w} :
           /\ MovedTo(w)' \cap wk[v].gone = {}
           /\ MovedKeys(w)' \cap wk[v].dropped = {}
           /\ MovedTo(v) \cap wk'[w].gone = {}
           /\ MovedKeys(v) \cap wk'[w].dropped = {}
  PROVE  Inductive'
<1>0. w \in Procs /\ Conns \subseteq Procs /\ Workers \subseteq Procs
      /\ w \notin Conns
  BY ProcsAssumption DEF Procs
<1>1. LockExclusion'
  BY <1>0 DEF Inductive, LockExclusion
<1>2. ClaimUnique'
  BY DEF Inductive, ClaimUnique
<1>3. WorkersApart'
  BY DEF Inductive, WorkersApart, MovedTo, MovedKeys
<1>4. ASSUME NEW e \in Conns
      PROVE  FencePassed(e)' /\ ClaimFree(e)'
  BY <1>0 DEF Inductive, FencePassed, ClaimFree, PastFence
<1>5. ASSUME NEW v \in Workers
      PROVE  RetiringLocked(v)' /\ GoneIsFenced(v)' /\ SourcesRemain(v)'
  BY <1>0 DEF Inductive, RetiringLocked, GoneIsFenced, SourcesRemain,
              Destroying, Retiring, MovedKeys
<1>6. FenceClosed' /\ AnchorIsSummary' /\ SourcesAccepted' /\ AckDurable'
  BY DEF Inductive, FenceClosed, AnchorIsSummary, SourcesAccepted, AckDurable,
         MembersOf
<1>. QED
  BY <1>1, <1>2, <1>3, <1>4, <1>5, <1>6 DEF Inductive

\* What the three lock operations do to the locks of a process and of others.
LEMMA LockSteps ==
  ASSUME Inductive, NEW p \in Procs
  PROVE  /\ UNCHANGED holds \/ Release(p) \/ (\E lock : Acquire(p, lock)) =>
              \A q \in Procs \ {p} : holds'[q] = holds[q]
                                       /\ holds'[p] \cap holds[q] = {}
         /\ \A lock : Acquire(p, lock) => holds'[p] = holds[p] \cup {lock}
<1>. USE DEF Inductive, TypeOK, ProcessesOK, LockExclusion
<1>1. ASSUME NEW lock, Acquire(p, lock)
      PROVE  /\ holds'[p] = holds[p] \cup {lock}
             /\ \A q \in Procs \ {p} : holds'[q] = holds[q]
                                      /\ holds'[p] \cap holds[q] = {}
  BY <1>1 DEF Acquire, Holders
<1>2. ASSUME Release(p)
      PROVE  \A q \in Procs \ {p} : holds'[q] = holds[q]
                                      /\ holds'[p] \cap holds[q] = {}
  BY <1>2 DEF Release
<1>3. ASSUME UNCHANGED holds
      PROVE  \A q \in Procs \ {p} : holds'[q] = holds[q]
                                      /\ holds'[p] \cap holds[q] = {}
  BY <1>3
<1>. QED
  BY <1>1, <1>2, <1>3

-------------------------------------------------------------------------------
(* Admission *)

\* A transaction that ends without a trace keeps the invariant if its answer
\* is true.
LEMMA QuietFinish ==
  ASSUME Inductive, TypeOK', NEW c \in Conns, NEW res, Finish(c, res),
         UNCHANGED wk,
         res \in {"accepted", "duplicate"} =>
           adm[c].rec.id \in DOMAIN accepted
             /\ accepted[adm[c].rec.id].rec = adm[c].rec
  PROVE  Inductive'
<1>1. /\ adm'[c].pc = "done" /\ adm'[c].rec = adm[c].rec /\ adm'[c].res = res
      /\ ~adm'[c].claimed
      /\ \A e \in Conns \ {c} : adm'[e] = adm[e]
  BY DEF Finish, Idle, Inductive, TypeOK, ProcessesOK
<1>2. FencePassed(c)' /\ ClaimFree(c)'
  BY <1>1 DEF FencePassed, ClaimFree, PastFence
<1>3. \A q \in Procs \ {c} : holds'[q] = holds[q] /\ holds'[c] \cap holds[q] = {}
  BY LockSteps DEF Finish, Procs
<1>. QED
  BY <1>1, <1>2, <1>3, QuietAdmission DEF Finish

\* A statement of an admission that commits nothing keeps the invariant.
LEMMA QuietAdmissionStep ==
  ASSUME Inductive, TypeOK', NEW c \in Conns,
         \/ LockDelivery(c) \/ CheckFence(c) \/ LockTask(c) \/ Claim(c)
         \/ CompareIdentity(c) \/ RequireEffect(c) \/ FirstWrite(c)
         \/ CompareEffect(c) \/ Respond(c)
  PROVE  Inductive'
<1>. USE DEF AdmUnchanged, Step
<1>0. /\ c \in Procs /\ FencePassed(c) /\ ClaimFree(c)
      /\ adm = [e \in Conns |-> adm[e]]
      /\ adm[c] \in AdmissionType
  BY DEF Procs, Inductive, TypeOK, ProcessesOK, AdmissionOK
<1>1. CASE LockDelivery(c)
  <2>1. /\ adm'[c].pc = "fence" /\ adm'[c].rec = adm[c].rec
        /\ adm'[c].claimed = adm[c].claimed
        /\ \A e \in Conns \ {c} : adm'[e] = adm[e]
    BY <1>0, <1>1 DEF LockDelivery, AdmissionType
  <2>2. /\ \A q \in Procs \ {c} : holds'[q] = holds[q]
                                   /\ holds'[c] \cap holds[q] = {}
        /\ DeliveryLock(DeliveryOf(adm[c].rec)) \in holds'[c]
    BY <1>0, <1>1, LockSteps DEF LockDelivery
  <2>3. FencePassed(c)' /\ ClaimFree(c)'
    BY <1>0, <1>1, <2>1, <2>2
    DEF LockDelivery, FencePassed, ClaimFree, PastFence
  <2>. QED
    BY <1>1, <2>1, <2>2, <2>3, QuietAdmission DEF LockDelivery, ClaimFree
<1>2. CASE CheckFence(c)
  <2>1. CASE DeliveryOf(adm[c].rec) \in fences
    BY <1>2, <2>1, QuietFinish DEF CheckFence
  <2>2. CASE DeliveryOf(adm[c].rec) \notin fences
    <3>1. /\ adm'[c].pc \in {"task_lock", "claim"} /\ adm'[c].rec = adm[c].rec
          /\ adm'[c].claimed = adm[c].claimed
          /\ \A e \in Conns \ {c} : adm'[e] = adm[e]
      BY <1>0, <1>2, <2>2 DEF CheckFence, AdmissionType
    <3>2. \A q \in Procs \ {c} : holds'[q] = holds[q]
                                   /\ holds'[c] \cap holds[q] = {}
      BY <1>0, <1>2, <2>2, LockSteps DEF CheckFence
    <3>3. FencePassed(c)' /\ ClaimFree(c)'
      BY <1>0, <1>2, <2>2, <3>1 DEF CheckFence, FencePassed, ClaimFree, PastFence
    <3>. QED
      BY <1>2, <2>2, <3>1, <3>2, <3>3, QuietAdmission DEF CheckFence, ClaimFree
  <2>. QED
    BY <2>1, <2>2
<1>3. CASE LockTask(c)
  <2>1. /\ adm'[c].pc = "claim" /\ adm'[c].rec = adm[c].rec
        /\ adm'[c].claimed = adm[c].claimed
        /\ \A e \in Conns \ {c} : adm'[e] = adm[e]
    BY <1>0, <1>3 DEF LockTask, AdmissionType
  <2>2. /\ \A q \in Procs \ {c} : holds'[q] = holds[q]
                                   /\ holds'[c] \cap holds[q] = {}
        /\ holds[c] \subseteq holds'[c]
    BY <1>0, <1>3, LockSteps DEF LockTask
  <2>3. FencePassed(c)' /\ ClaimFree(c)'
    BY <1>0, <1>3, <2>1, <2>2 DEF LockTask, FencePassed, ClaimFree, PastFence
  <2>. QED
    BY <1>3, <2>1, <2>2, <2>3, QuietAdmission DEF LockTask, ClaimFree
<1>4. CASE Claim(c)
  <2>. DEFINE r == adm[c].rec
  <2>1. CASE r.id \in DOMAIN accepted
    <3>1. /\ adm'[c].pc = "compare_identity" /\ adm'[c].rec = adm[c].rec
          /\ adm'[c].claimed = adm[c].claimed
          /\ \A e \in Conns \ {c} : adm'[e] = adm[e]
          /\ UNCHANGED holds
      BY <1>0, <1>4, <2>1 DEF Claim, AdmissionType
    <3>2. \A q \in Procs \ {c} : holds'[q] = holds[q]
                                   /\ holds'[c] \cap holds[q] = {}
      BY <1>0, <3>1, LockSteps
    <3>3. FencePassed(c)' /\ ClaimFree(c)'
      BY <1>0, <1>4, <2>1, <3>1 DEF Claim, FencePassed, ClaimFree, PastFence
    <3>. QED
      BY <1>4, <2>1, <3>1, <3>2, <3>3, QuietAdmission DEF Claim, ClaimFree
  <2>2. CASE r.id \notin DOMAIN accepted /\ IsSummary(r)
               /\ DeliveryOf(r) \in DOMAIN anchors
    BY <1>4, <2>2, QuietFinish DEF Claim
  <2>3. CASE r.id \notin DOMAIN accepted
               /\ ~(IsSummary(r) /\ DeliveryOf(r) \in DOMAIN anchors)
    <3>1. /\ adm'[c].pc = "apply" /\ adm'[c].rec = adm[c].rec
          /\ adm'[c].claimed
          /\ \A e \in Conns \ {c} : adm'[e] = adm[e]
          /\ UNCHANGED holds /\ UNCHANGED tables
      <4>1. /\ adm' = [adm EXCEPT ![c] = [adm[c] EXCEPT !.pc = "apply",
                                                        !.claimed = TRUE]]
            /\ UNCHANGED holds /\ UNCHANGED tables
        BY <1>4, <2>3 DEF Claim
      <4>. QED
        BY <1>0, <4>1 DEF AdmissionType
    <3>2. \A q \in Procs \ {c} : holds'[q] = holds[q]
                                   /\ holds'[c] \cap holds[q] = {}
      BY <1>0, <3>1, LockSteps
    <3>3. FencePassed(c)' /\ ClaimFree(c)'
      BY <1>0, <1>4, <2>3, <3>1 DEF Claim, FencePassed, ClaimFree, PastFence
    <3>4. ASSUME NEW e \in Conns \ {c}, adm[e].claimed
          PROVE  adm[e].rec.id # r.id
      <4>1. WritersOfRecord(r.id) \subseteq {c}
        BY <1>4 DEF Claim, Blockers
      <4>. QED
        BY <3>4, <4>1 DEF WritersOfRecord
    <3>. QED
      BY <1>4, <3>1, <3>2, <3>3, <3>4, QuietAdmission DEF Claim
  <2>. QED
    BY <2>1, <2>2, <2>3
<1>5. CASE CompareIdentity(c)
  BY <1>5, QuietFinish DEF CompareIdentity
<1>6. CASE RequireEffect(c)
  <2>1. CASE /\ UNCHANGED <<holds, tables>>
             /\ adm' = [adm EXCEPT ![c] = [adm[c] EXCEPT !.idx = @ + 1]]
    <3>1. /\ adm'[c].pc = adm[c].pc /\ adm'[c].rec = adm[c].rec
          /\ adm'[c].claimed = adm[c].claimed
          /\ \A e \in Conns \ {c} : adm'[e] = adm[e]
      BY <1>0, <2>1 DEF AdmissionType
    <3>2. \A q \in Procs \ {c} : holds'[q] = holds[q]
                                   /\ holds'[c] \cap holds[q] = {}
      BY <1>0, <2>1, LockSteps
    <3>3. FencePassed(c)' /\ ClaimFree(c)' /\ adm'[c].pc # "done"
      BY <1>0, <1>6, <2>1, <3>1
      DEF RequireEffect, Applying, FencePassed, ClaimFree, PastFence
    <3>. QED
      BY <1>6, <2>1, <3>1, <3>2, <3>3, QuietAdmission
      DEF RequireEffect, Inductive, ClaimUnique
  <2>2. CASE Finish(c, "rejected")
    BY <1>6, <2>2, QuietFinish DEF RequireEffect
  <2>. QED
    BY <1>6, <2>1, <2>2 DEF RequireEffect
<1>7. CASE FirstWrite(c)
  <2>1. /\ adm'[c].pc \in {"apply", "compare"} /\ adm'[c].rec = adm[c].rec
        /\ adm'[c].claimed = adm[c].claimed
        /\ \A e \in Conns \ {c} : adm'[e] = adm[e]
    BY <1>0, <1>7 DEF FirstWrite, Applying, AdmissionType
  <2>2. \A q \in Procs \ {c} : holds'[q] = holds[q]
                                 /\ holds'[c] \cap holds[q] = {}
    BY <1>0, <1>7, LockSteps DEF FirstWrite
  <2>3. FencePassed(c)' /\ ClaimFree(c)'
    BY <1>0, <1>7, <2>1
    DEF FirstWrite, Applying, FencePassed, ClaimFree, PastFence
  <2>. QED
    BY <1>7, <2>1, <2>2, <2>3, QuietAdmission
    DEF FirstWrite, Inductive, ClaimUnique
<1>8. CASE CompareEffect(c)
  <2>1. CASE /\ UNCHANGED <<holds, tables>>
             /\ adm' = [adm EXCEPT ![c] =
                          [adm[c] EXCEPT !.pc = "apply", !.idx = @ + 1,
                                         !.locked = @ \cup {CurrentKey(c)}]]
    <3>1. /\ adm'[c].pc = "apply" /\ adm'[c].rec = adm[c].rec
          /\ adm'[c].claimed = adm[c].claimed
          /\ \A e \in Conns \ {c} : adm'[e] = adm[e]
      BY <1>0, <2>1 DEF AdmissionType
    <3>2. \A q \in Procs \ {c} : holds'[q] = holds[q]
                                   /\ holds'[c] \cap holds[q] = {}
      BY <1>0, <2>1, LockSteps
    <3>3. FencePassed(c)' /\ ClaimFree(c)'
      BY <1>0, <1>8, <2>1, <3>1
      DEF CompareEffect, FencePassed, ClaimFree, PastFence
    <3>. QED
      BY <1>8, <2>1, <3>1, <3>2, <3>3, QuietAdmission
      DEF CompareEffect, Inductive, ClaimUnique
  <2>2. CASE Finish(c, "error") \/ Finish(c, "conflict")
    BY <1>8, <2>2, QuietFinish DEF CompareEffect
  <2>. QED
    BY <1>8, <2>1, <2>2 DEF CompareEffect
<1>9. CASE Respond(c)
  <2>1. /\ adm'[c].pc = "idle" /\ ~adm'[c].claimed
        /\ \A e \in Conns \ {c} : adm'[e] = adm[e]
    BY <1>0, <1>9 DEF Respond, Idle
  <2>2. \A q \in Procs \ {c} : holds'[q] = holds[q]
                                 /\ holds'[c] \cap holds[q] = {}
    BY <1>0, <1>9, LockSteps DEF Respond
  <2>3. FencePassed(c)' /\ ClaimFree(c)'
    BY <2>1 DEF FencePassed, ClaimFree, PastFence
  <2>. QED
    BY <1>9, <2>1, <2>2, <2>3, QuietAdmission DEF Respond
<1>. QED
  BY <1>1, <1>2, <1>3, <1>4, <1>5, <1>6, <1>7, <1>8, <1>9

\* What COMMIT of a record r of Delivery d adds to the tables: the identity was
\* free, so nothing is overwritten; the Delivery, if any, is not fenced and its
\* lock is held.
CommitAdds(c, r, d) ==
  /\ r \in Records /\ r.id \notin DOMAIN accepted /\ adm[c].claimed
  /\ DOMAIN accepted' = DOMAIN accepted \cup {r.id}
  /\ accepted'[r.id].rec = r /\ accepted'[r.id].at = adm[c].at
  /\ \A id \in DOMAIN accepted : accepted'[id] = accepted[id]
  /\ d = DeliveryOf(r)
  /\ d \in Deliveries <=> r.profile = 2
  /\ d \in Deliveries => DeliveryLock(d) \in holds[c]
  /\ d \notin fences
  /\ IsSummary(r) =>
       /\ d \notin DOMAIN anchors /\ d \in Deliveries
       /\ DOMAIN anchors' = DOMAIN anchors \cup {d}
       /\ anchors'[d].id = r.id /\ anchors'[d].at = adm[c].at
       /\ \A f \in DOMAIN anchors : anchors'[f] = anchors[f]
  /\ ~IsSummary(r) => anchors' = anchors

\* What the COMMIT of an admission adds to accepted_records and
\* delivery_terminal_anchors: the claimed record, and its anchor if it is a
\* delivery.summary.
LEMMA CommitAddsRecord ==
  ASSUME Inductive, NEW c \in Conns, CommitAdmission(c)
  PROVE  CommitAdds(c, adm[c].rec, DeliveryOf(adm[c].rec))
<1>. DEFINE r == adm[c].rec
            d == DeliveryOf(r)
            row == [rec |-> r, at |-> adm[c].at, raw |-> TRUE]
            anchor == [id |-> r.id, at |-> adm[c].at]
<1>1. r \in Records /\ adm[c].pc = "apply" /\ adm[c].claimed
  BY DEF CommitAdmission, Inductive, TypeOK, ProcessesOK, AdmissionOK,
         AdmissionType, ClaimFree
<1>2. /\ r.id \notin DOMAIN accepted
      /\ IsSummary(r) => d \notin DOMAIN anchors
  BY <1>1 DEF Inductive, ClaimFree
<1>3. /\ d \in Deliveries <=> r.profile = 2
      /\ d \in Deliveries => DeliveryLock(d) \in holds[c]
  BY <1>1, DeliveryOfRecord DEF Inductive, FencePassed, PastFence
<1>4. d \notin fences
  BY <1>1, <1>3 DEF Inductive, FencePassed, PastFence, TypeOK, TablesOK
<1>5. /\ DOMAIN accepted' = DOMAIN accepted \cup {r.id}
      /\ accepted'[r.id] = row
      /\ \A id \in DOMAIN accepted : accepted'[id] = accepted[id]
  <2>1. accepted' = With(accepted, Row(r.id, row))
    BY DEF CommitAdmission
  <2>. HIDE DEF row
  <2>. QED
    BY <1>2, <2>1 DEF With, Row
<1>6. IsSummary(r) =>
        /\ d \in Deliveries
        /\ DOMAIN anchors' = DOMAIN anchors \cup {d}
        /\ anchors'[d] = anchor
        /\ \A f \in DOMAIN anchors : anchors'[f] = anchors[f]
  <2>1. IsSummary(r) => anchors' = With(anchors, Row(d, anchor))
    BY DEF CommitAdmission
  <2>2. IsSummary(r) => r.profile = 2
    BY DEF IsSummary
  <2>. HIDE DEF anchor
  <2>. QED
    BY <1>2, <1>3, <2>1, <2>2 DEF With, Row
<1>7. ~IsSummary(r) => anchors' = anchors
  BY DEF CommitAdmission
<1>. QED
  BY <1>1, <1>2, <1>3, <1>4, <1>5, <1>6, <1>7 DEF CommitAdds

\* The effects of a committed admission have its record as their source.
LEMMA CommitEffects ==
  ASSUME Inductive, NEW c \in Conns, CommitAdmission(c)
  PROVE  /\ DOMAIN effects \subseteq DOMAIN effects'
         /\ \A k \in DOMAIN effects' :
              \/ effects'[k].src = adm[c].rec.id
              \/ k \in DOMAIN effects /\ effects'[k] = effects[k]
<1>. DEFINE rows == [k \in Written(c) |-> [payload |-> PayloadWritten(c, k),
                                           src |-> adm[c].rec.id]]
<1>1. effects' = With(effects, rows)
  BY DEF CommitAdmission
<1>2. \A k \in DOMAIN rows : rows[k].src = adm[c].rec.id
  OBVIOUS
<1>. HIDE DEF rows
<1>. QED
  BY <1>1, <1>2 DEF With

\* The COMMIT of an admission preserves the invariant: the claim was free and the
\* Delivery not fenced, and the locks it held kept both so.
LEMMA CommitAdmissionStep ==
  ASSUME Inductive, TypeOK', NEW c \in Conns, CommitAdmission(c)
  PROVE  Inductive'
<1>. DEFINE r == adm[c].rec
            d == DeliveryOf(r)
<1>. HIDE DEF r, d
<1>a. CommitAdds(c, r, d)
  BY CommitAddsRecord DEF r, d
<1>b. /\ DOMAIN effects \subseteq DOMAIN effects'
      /\ \A k \in DOMAIN effects' :
           \/ effects'[k].src = r.id
           \/ k \in DOMAIN effects /\ effects'[k] = effects[k]
  BY CommitEffects DEF r
<1>0. /\ Conns \subseteq Procs /\ Workers \subseteq Procs
      /\ c \notin Workers /\ c \in Procs
      /\ UNCHANGED <<wk, fences, markers>>
  BY ProcsAssumption DEF Procs, CommitAdmission, AdmUnchanged
<1>1. /\ adm'[c].pc = "done" /\ ~adm'[c].claimed /\ adm'[c].rec = r
      /\ \A e \in Conns \ {c} : adm'[e] = adm[e]
  BY DEF CommitAdmission, Idle, Inductive, TypeOK, ProcessesOK, r
<1>2. \A q \in Procs \ {c} : holds'[q] = holds[q] /\ holds'[c] \cap holds[q] = {}
  BY <1>0, LockSteps DEF CommitAdmission
<1>3. \A q \in Procs \ {c} :
        d \in Deliveries => DeliveryLock(d) \notin holds[q]
  BY <1>0, <1>a DEF CommitAdds, Inductive, LockExclusion
<1>4. LockExclusion'
  BY <1>0, <1>2 DEF Inductive, LockExclusion
<1>5. ClaimUnique'
  BY <1>1 DEF Inductive, ClaimUnique
<1>6. WorkersApart'
  BY <1>0 DEF Inductive, WorkersApart, MovedTo, MovedKeys
<1>7. ASSUME NEW e \in Conns
      PROVE  FencePassed(e)' /\ ClaimFree(e)'
  <2>1. CASE e = c
    BY <1>1, <2>1 DEF FencePassed, ClaimFree, PastFence
  <2>2. CASE e # c
    <3>1. FencePassed(e)'
      BY <1>0, <1>1, <1>2, <2>2 DEF Inductive, FencePassed, PastFence
    <3>2. adm[e].claimed => adm[e].rec.id \notin DOMAIN accepted'
      BY <2>2, <1>a DEF r, CommitAdds, Inductive, ClaimFree, ClaimUnique
    <3>3. ASSUME adm[e].claimed, IsSummary(adm[e].rec)
          PROVE  DeliveryOf(adm[e].rec) \notin DOMAIN anchors'
      <4>1. DeliveryLock(DeliveryOf(adm[e].rec)) \in holds[e]
        BY <3>3 DEF Inductive, FencePassed, ClaimFree, PastFence, IsSummary
      <4>2. d \in Deliveries => DeliveryOf(adm[e].rec) # d
        BY <1>0, <1>3, <2>2, <4>1
      <4>3. DeliveryOf(adm[e].rec) \notin DOMAIN anchors
        BY <3>3 DEF Inductive, ClaimFree
      <4>. QED
        BY <4>2, <4>3, <1>a DEF CommitAdds
    <3>. QED
      BY <1>1, <2>2, <3>1, <3>2, <3>3 DEF Inductive, ClaimFree
  <2>. QED
    BY <2>1, <2>2
<1>8. ASSUME NEW w \in Workers
      PROVE  RetiringLocked(w)' /\ GoneIsFenced(w)' /\ SourcesRemain(w)'
  <2>0. DOMAIN anchors \subseteq DOMAIN anchors'
    BY <1>a DEF CommitAdds
  <2>1. RetiringLocked(w)'
    BY <1>0, <1>2, <2>0
    DEF Inductive, RetiringLocked, Destroying, Retiring
  <2>2. d \notin wk[w].fenced
    <3>1. wk[w].fenced \subseteq Deliveries
      BY DEF Inductive, TypeOK, ProcessesOK, RetentionOK, RetentionType
    <3>2. \A f \in wk[w].fenced : DeliveryLock(f) \in holds[w]
      BY DEF Inductive, RetiringLocked
    <3>. QED
      BY <1>0, <1>3, <3>1, <3>2
  <2>3. GoneIsFenced(w)'
    BY <1>0, <2>2, <1>a DEF CommitAdds, Inductive, GoneIsFenced
  <2>4. r.id \notin wk[w].gone
    BY <1>a DEF CommitAdds, Inductive, GoneIsFenced
  <2>5. SourcesRemain(w)'
    BY <1>0, <2>4, <1>a, <1>b
    DEF CommitAdds, Inductive, SourcesRemain, MovedKeys
  <2>. QED
    BY <2>1, <2>3, <2>5
<1>9. FenceClosed'
  BY <1>0, <1>1, <1>a DEF CommitAdds, Inductive, FenceClosed, MembersOf
<1>10. AnchorIsSummary'
  <2>1. ASSUME NEW f \in DOMAIN anchors'
        PROVE  /\ anchors'[f].id \in MembersOf(f)'
               /\ IsSummary(accepted'[anchors'[f].id].rec)
               /\ anchors'[f].at = accepted'[anchors'[f].id].at
    BY <1>a DEF CommitAdds, Inductive, AnchorIsSummary, MembersOf
  <2>2. ASSUME NEW id \in DOMAIN accepted', IsSummary(accepted'[id].rec)
        PROVE  /\ DeliveryOf(accepted'[id].rec) \in DOMAIN anchors'
               /\ anchors'[DeliveryOf(accepted'[id].rec)].id = id
    BY <2>2, <1>a DEF CommitAdds, Inductive, AnchorIsSummary
  <2>. QED
    BY <2>1, <2>2 DEF AnchorIsSummary
<1>11. SourcesAccepted'
  BY <1>a, <1>b DEF CommitAdds, Inductive, SourcesAccepted
<1>12. AckDurable'
  BY <1>0, <1>1, <1>a DEF CommitAdds, Inductive, AckDurable
<1>. QED
  BY <1>4, <1>5, <1>6, <1>7, <1>8, <1>9, <1>10, <1>11, <1>12 DEF Inductive

-------------------------------------------------------------------------------
(* Retention *)

\* An iteration with nothing deleted and no Delivery at hand has no part in the
\* invariant but the sources themselves.
LEMMA QuietFresh ==
  ASSUME Inductive, TypeOK', NEW w \in Workers,
         UNCHANGED <<tables, adm>>,
         \A v \in Workers \ {w} : wk'[v] = wk[v],
         \A q \in Procs \ {w} : holds'[q] = holds[q]
                                  /\ holds'[w] \cap holds[q] = {},
         wk'[w].pc # "check", wk'[w].pc \notin DestroyingPCs,
         wk'[w].moved = {}, wk'[w].dropped = {}, wk'[w].gone = {},
         wk'[w].fenced = {}
  PROVE  Inductive'
<1>1. RetiringLocked(w)' /\ GoneIsFenced(w)' /\ SourcesRemain(w)'
  BY DEF RetiringLocked, GoneIsFenced, SourcesRemain, Destroying, MovedKeys
<1>2. MovedTo(w)' = {} /\ MovedKeys(w)' = {}
  BY DEF MovedTo, MovedKeys
<1>. QED
  BY <1>1, <1>2, QuietIteration

\* An iteration that gives up.
LEMMA QuietGiveUp ==
  ASSUME Inductive, TypeOK', NEW w \in Workers, UNCHANGED <<tables, adm>>,
         wk' = [wk EXCEPT ![w] = Asleep], Release(w) \/ UNCHANGED holds
  PROVE  Inductive'
<1>1. /\ wk'[w] = Asleep
      /\ \A v \in Workers \ {w} : wk'[v] = wk[v]
  BY DEF Inductive, TypeOK, ProcessesOK
<1>2. \A q \in Procs \ {w} : holds'[q] = holds[q] /\ holds'[w] \cap holds[q] = {}
  BY LockSteps DEF Procs
<1>. QED
  BY <1>1, <1>2, QuietFresh DEF Asleep, DestroyingPCs

\* The statements that neither delete nor move rows.
LEMMA QuietRetentionStep ==
  ASSUME Inductive, TypeOK', NEW w \in Workers,
         \/ Wake(w) \/ PlanExpiry(w) \/ ScrubMember(w) \/ PlanDeletion(w)
         \/ LockRetiring(w) \/ CheckRetiring(w) \/ LockRetiringTask(w)
         \/ DeleteMarkers(w)
  PROVE  Inductive'
<1>. USE DEF WkUnchanged, Work
<1>0. /\ w \in Procs /\ RetiringLocked(w) /\ GoneIsFenced(w)
      /\ SourcesRemain(w) /\ wk = [v \in Workers |-> wk[v]]
      /\ wk[w] \in RetentionType /\ RetentionOK(wk[w])
  BY DEF Procs, Inductive, TypeOK, ProcessesOK, RetentionOK
<1>a. ASSUME /\ UNCHANGED <<tables, adm>>
             /\ \A v \in Workers \ {w} : wk'[v] = wk[v]
             /\ UNCHANGED holds \/ (\E lock : Acquire(w, lock))
             /\ wk'[w].moved = wk[w].moved /\ wk'[w].dropped = wk[w].dropped
             /\ wk'[w].gone = wk[w].gone /\ wk'[w].fenced = wk[w].fenced
             /\ wk'[w].pc = "check" \/ wk'[w].pc \in DestroyingPCs =>
                  DeliveryLock(Retiring(w)') \in holds'[w]
             /\ wk'[w].pc \in DestroyingPCs =>
                  Retiring(w)' \in DOMAIN anchors \ fences
      PROVE  Inductive'
  <2>1. /\ \A q \in Procs \ {w} : holds'[q] = holds[q]
                                   /\ holds'[w] \cap holds[q] = {}
        /\ holds[w] \subseteq holds'[w]
    BY <1>0, <1>a, LockSteps
  <2>2. MovedTo(w)' = MovedTo(w) /\ MovedKeys(w)' = MovedKeys(w)
    BY <1>a DEF MovedTo, MovedKeys
  <2>3. RetiringLocked(w)'
    BY <1>0, <1>a, <2>1 DEF RetiringLocked, Destroying
  <2>4. GoneIsFenced(w)' /\ SourcesRemain(w)'
    BY <1>0, <1>a, <2>2 DEF GoneIsFenced, SourcesRemain
  <2>5. \A v \in Workers \ {w} :
           /\ MovedTo(w)' \cap wk[v].gone = {}
           /\ MovedKeys(w)' \cap wk[v].dropped = {}
           /\ MovedTo(v) \cap wk'[w].gone = {}
           /\ MovedKeys(v) \cap wk'[w].dropped = {}
    BY <1>a, <2>2 DEF Inductive, WorkersApart
  <2>. QED
    BY <1>a, <2>1, <2>3, <2>4, <2>5, QuietIteration
<1>1. CASE Wake(w)
  <2>1. /\ wk'[w] = [Asleep EXCEPT !.pc = "plan_expiry", !.at = now]
        /\ \A v \in Workers \ {w} : wk'[v] = wk[v]
    BY <1>0, <1>1 DEF Wake
  <2>2. \A q \in Procs \ {w} : holds'[q] = holds[q]
                                 /\ holds'[w] \cap holds[q] = {}
    BY <1>0, <1>1, LockSteps DEF Wake
  <2>. QED
    <3>1. /\ wk'[w].pc = "plan_expiry" /\ wk'[w].moved = {}
          /\ wk'[w].dropped = {} /\ wk'[w].gone = {} /\ wk'[w].fenced = {}
      BY <2>1 DEF Asleep
    <3>. QED
      BY <1>1, <2>1, <2>2, <3>1, QuietFresh DEF Wake, DestroyingPCs
<1>2. CASE PlanExpiry(w)
  <2>. DEFINE planned == FirstOf(Expirable(w), BatchSize)
  <2>1. CASE Refused(planned)
    BY <1>2, <2>1, QuietGiveUp DEF PlanExpiry
  <2>2. CASE ~Refused(planned)
    <3>1. wk' = [wk EXCEPT ![w] = [wk[w] EXCEPT !.pc = "scrub",
                                                !.raws = planned]]
      BY <1>2, <2>2 DEF PlanExpiry
    <3>2. /\ \A v \in Workers \ {w} : wk'[v] = wk[v]
          /\ wk'[w].moved = wk[w].moved /\ wk'[w].dropped = wk[w].dropped
          /\ wk'[w].gone = wk[w].gone /\ wk'[w].fenced = wk[w].fenced
          /\ wk'[w].pc = "scrub"
      BY <1>0, <3>1 DEF RetentionType
    <3>. QED
      BY <1>2, <3>2, <1>a DEF PlanExpiry, DestroyingPCs
  <2>. QED
    BY <2>1, <2>2
<1>3. CASE ScrubMember(w)
  <2>. DEFINE id == MinOf(wk[w].raws)
  <2>1. CASE GiveUp(w)
    BY <1>3, <2>1, QuietGiveUp DEF ScrubMember, GiveUp
  <2>2. CASE /\ UNCHANGED tables
             /\ Acquire(w, RawLock(id))
             /\ wk' = [wk EXCEPT ![w] =
                         [wk[w] EXCEPT !.raws = @ \ {id},
                                       !.marked = IF id \in markers THEN @
                                                  ELSE @ \cup {id}]]
    <3>1. /\ \A v \in Workers \ {w} : wk'[v] = wk[v]
          /\ wk'[w].moved = wk[w].moved /\ wk'[w].dropped = wk[w].dropped
          /\ wk'[w].gone = wk[w].gone /\ wk'[w].fenced = wk[w].fenced
          /\ wk'[w].pc = wk[w].pc
      BY <1>0, <2>2 DEF RetentionType
    <3>. QED
      BY <1>3, <2>2, <3>1, <1>a DEF ScrubMember, DestroyingPCs
  <2>. QED
    BY <1>3, <2>1, <2>2 DEF ScrubMember
<1>4. CASE PlanDeletion(w)
  <2>1. wk' = [wk EXCEPT ![w] =
                [wk[w] EXCEPT !.pc = "delivery_lock",
                              !.batch = FirstOf(Retirable(w), BatchSize)]]
    BY <1>4 DEF PlanDeletion
  <2>2. /\ \A v \in Workers \ {w} : wk'[v] = wk[v]
        /\ wk'[w].moved = wk[w].moved /\ wk'[w].dropped = wk[w].dropped
        /\ wk'[w].gone = wk[w].gone /\ wk'[w].fenced = wk[w].fenced
        /\ wk'[w].pc = "delivery_lock"
    BY <1>0, <2>1 DEF RetentionType
  <2>. QED
    BY <1>4, <2>2, <1>a DEF PlanDeletion, DestroyingPCs
<1>5. CASE LockRetiring(w)
  <2>1. /\ \A v \in Workers \ {w} : wk'[v] = wk[v]
        /\ wk'[w].moved = wk[w].moved /\ wk'[w].dropped = wk[w].dropped
        /\ wk'[w].gone = wk[w].gone /\ wk'[w].fenced = wk[w].fenced
        /\ wk'[w].batch = wk[w].batch /\ wk'[w].pc = "check"
    BY <1>0, <1>5 DEF LockRetiring, RetentionType
  <2>2. Retiring(w)' = Retiring(w)
    BY <2>1 DEF Retiring
  <2>3. DeliveryLock(Retiring(w)) \in holds'[w]
    BY <1>0, <1>5, LockSteps DEF LockRetiring
  <2>. QED
    BY <1>5, <2>1, <2>2, <2>3, <1>a DEF LockRetiring, DestroyingPCs
<1>6. CASE CheckRetiring(w)
  <2>. DEFINE d == Retiring(w)
              guard == <<"delivery_task_guard", d>>
  <2>1. CASE GiveUp(w)
    BY <1>6, <2>1, QuietGiveUp DEF CheckRetiring, GiveUp
  <2>2. CASE /\ UNCHANGED <<tables, holds>>
             /\ wk' = [wk EXCEPT ![w] = [wk[w] EXCEPT !.pc = "delivery_lock",
                                                      !.batch = @ \ {d}]]
    <3>1. /\ \A v \in Workers \ {w} : wk'[v] = wk[v]
          /\ wk'[w].moved = wk[w].moved /\ wk'[w].dropped = wk[w].dropped
          /\ wk'[w].gone = wk[w].gone /\ wk'[w].fenced = wk[w].fenced
          /\ wk'[w].pc = "delivery_lock"
      BY <1>0, <2>2 DEF RetentionType
    <3>. QED
      BY <1>6, <2>2, <3>1, <1>a DEF CheckRetiring, DestroyingPCs
  <2>3. CASE /\ UNCHANGED <<tables, holds>>
             /\ d \in DOMAIN anchors \ fences
             /\ \/ \E t : wk' = [wk EXCEPT ![w] = [wk[w] EXCEPT !.pc = "task_lock",
                                                             !.task = t]]
                \/ wk' = [wk EXCEPT ![w] = [wk[w] EXCEPT !.pc = "delete_effects"]]
    <3>1. /\ \A v \in Workers \ {w} : wk'[v] = wk[v]
          /\ wk'[w].moved = wk[w].moved /\ wk'[w].dropped = wk[w].dropped
          /\ wk'[w].gone = wk[w].gone /\ wk'[w].fenced = wk[w].fenced
          /\ wk'[w].batch = wk[w].batch
      BY <1>0, <2>3 DEF RetentionType
    <3>2. Retiring(w)' = Retiring(w)
      BY <3>1 DEF Retiring
    <3>3. DeliveryLock(d) \in holds[w]
      BY <1>0, <1>6 DEF CheckRetiring, RetiringLocked
    <3>. QED
      BY <1>6, <2>3, <3>1, <3>2, <3>3, <1>a DEF CheckRetiring
  <2>4. \/ GiveUp(w)
        \/ /\ UNCHANGED <<tables, holds>>
           /\ wk' = [wk EXCEPT ![w] = [wk[w] EXCEPT !.pc = "delivery_lock",
                                                    !.batch = @ \ {d}]]
        \/ /\ UNCHANGED <<tables, holds>>
           /\ d \in DOMAIN anchors \ fences
           /\ \/ wk' = [wk EXCEPT ![w] =
                          [wk[w] EXCEPT !.pc = "task_lock",
                             !.task = Get(View(w)[guard].payload, "task_id")]]
              \/ wk' = [wk EXCEPT ![w] = [wk[w] EXCEPT !.pc = "delete_effects"]]
    BY <1>6 DEF CheckRetiring
  <2>. QED
    BY <2>1, <2>2, <2>3, <2>4
<1>7. CASE LockRetiringTask(w)
  <2>1. /\ \A v \in Workers \ {w} : wk'[v] = wk[v]
        /\ wk'[w].moved = wk[w].moved /\ wk'[w].dropped = wk[w].dropped
        /\ wk'[w].gone = wk[w].gone /\ wk'[w].fenced = wk[w].fenced
        /\ wk'[w].batch = wk[w].batch
    BY <1>0, <1>7 DEF LockRetiringTask, RetentionType
  <2>2. Retiring(w)' = Retiring(w)
    BY <2>1 DEF Retiring
  <2>3. /\ DeliveryLock(Retiring(w)) \in holds'[w]
        /\ Retiring(w) \in DOMAIN anchors \ fences
    BY <1>0, <1>7, LockSteps
    DEF LockRetiringTask, RetiringLocked, Destroying, DestroyingPCs
  <2>. QED
    BY <1>7, <2>1, <2>2, <2>3, <1>a DEF LockRetiringTask
<1>8. CASE DeleteMarkers(w)
  <2>1. /\ \A v \in Workers \ {w} : wk'[v] = wk[v]
        /\ wk'[w].moved = wk[w].moved /\ wk'[w].dropped = wk[w].dropped
        /\ wk'[w].gone = wk[w].gone /\ wk'[w].fenced = wk[w].fenced
        /\ wk'[w].batch = wk[w].batch
    BY <1>0, <1>8 DEF DeleteMarkers, RetentionType
  <2>2. Retiring(w)' = Retiring(w)
    BY <2>1 DEF Retiring
  <2>3. /\ DeliveryLock(Retiring(w)) \in holds[w]
        /\ Retiring(w) \in DOMAIN anchors \ fences
    BY <1>0, <1>8
    DEF DeleteMarkers, RetiringLocked, Destroying, DestroyingPCs
  <2>. QED
    BY <1>8, <2>1, <2>2, <2>3, <1>a DEF DeleteMarkers
<1>. QED
  BY <1>1, <1>2, <1>3, <1>4, <1>5, <1>6, <1>7, <1>8

\* The source of a row as an iteration sees it.
LEMMA ViewSource ==
  ASSUME Inductive, NEW w \in Workers
  PROVE  /\ DOMAIN View(w) = DOMAIN effects \ wk[w].dropped
         /\ \A k \in DOMAIN View(w) \ MovedKeys(w) :
              View(w)[k].src = effects[k].src
         /\ \A m \in wk[w].moved :
              m[1] \in DOMAIN View(w) /\ View(w)[m[1]].src = m[2]
         /\ \A k \in DOMAIN View(w) : View(w)[k].src \in DOMAIN accepted \ wk[w].gone
<1>1. /\ DOMAIN View(w) = DOMAIN effects \ wk[w].dropped
      /\ \A k \in DOMAIN View(w) \ MovedKeys(w) : View(w)[k].src = effects[k].src
  BY DEF View
<1>2. ASSUME NEW m \in wk[w].moved
      PROVE  m[1] \in DOMAIN View(w) /\ View(w)[m[1]].src = m[2]
  <2>1. m[1] \in DOMAIN View(w) /\ m[1] \in MovedKeys(w)
    BY <1>1 DEF Inductive, SourcesRemain, MovedKeys
  <2>2. (CHOOSE n \in wk[w].moved : n[1] = m[1]) = m
    BY DEF Inductive, SourcesRemain
  <2>3. View(w)[m[1]].src = (CHOOSE n \in wk[w].moved : n[1] = m[1])[2]
    BY <1>1, <2>1 DEF View
  <2>. QED
    BY <2>1, <2>2, <2>3
<1>3. ASSUME NEW k \in DOMAIN View(w)
      PROVE  View(w)[k].src \in DOMAIN accepted \ wk[w].gone
  <2>1. CASE k \in MovedKeys(w)
    <3>1. PICK m \in wk[w].moved : m[1] = k
      BY <2>1 DEF MovedKeys
    <3>. QED
      BY <3>1, <1>2 DEF Inductive, SourcesRemain
  <2>2. CASE k \notin MovedKeys(w)
    BY <1>1, <2>2 DEF Inductive, SourcesRemain, SourcesAccepted
  <2>. QED
    BY <2>1, <2>2
<1>. QED
  BY <1>1, <1>2, <1>3

\* Re-sourcing the Task's rows: the new source is live, no other iteration
\* deletes it, and none deletes the moved rows.
LEMMA PreserveTaskStep ==
  ASSUME Inductive, TypeOK', NEW w \in Workers, PreserveTask(w)
  PROVE  Inductive'
<1>. DEFINE d == Retiring(w)
            t == wk[w].task
            h == Heir(w, d, t)
            keys == IF OtherMembers(w, d, t) = {} THEN {} ELSE Preserved(w, d, t)
            moved == {m \in wk[w].moved : m[1] \notin keys}
                       \cup {<<k, h>> : k \in keys}
<1>0. /\ w \in Procs /\ w \notin Conns /\ RetiringLocked(w) /\ GoneIsFenced(w)
      /\ SourcesRemain(w) /\ wk = [v \in Workers |-> wk[v]]
      /\ wk[w] \in RetentionType
  BY ProcsAssumption DEF Procs, Inductive, TypeOK, ProcessesOK, RetentionOK
<1>1. CASE keys # {} /\ h \notin DOMAIN accepted \ wk[w].gone
  BY <1>1, QuietGiveUp DEF PreserveTask, GiveUp, Work, WkUnchanged
<1>2. CASE ~(keys # {} /\ h \notin DOMAIN accepted \ wk[w].gone)
  <2>1. /\ UNCHANGED <<tables, adm, holds>>
        /\ wk' = [wk EXCEPT ![w] = [wk[w] EXCEPT !.pc = "delete_effects",
                                                 !.task = Null,
                                                 !.moved = moved]]
    BY <1>2 DEF PreserveTask, Work, WkUnchanged
  <2>2. /\ keys \subseteq DOMAIN effects \ wk[w].dropped
        /\ keys \subseteq Preserved(w, d, t)
    BY ViewSource DEF Preserved, OwnedBy
  <2>3. ASSUME NEW k \in keys, NEW v \in Workers \ {w}
        PROVE  k \notin wk[v].dropped /\ h \notin wk[v].gone
    <3>1. LockersOfEffect(k) \subseteq {w} /\ WritersOfRecord(h) \subseteq {w}
      BY <1>0, <2>2, <2>3 DEF PreserveTask, Blockers, Retiring
    <3>. QED
      BY <2>2, <2>3, <3>1 DEF LockersOfEffect, WritersOfEffect, WritersOfRecord
  <2>4. /\ \A m \in moved : m \in wk[w].moved \/ (m[1] \in keys /\ m[2] = h)
        /\ \A m \in wk[w].moved : m[1] \notin keys => m \in moved
        /\ \A k \in keys : <<k, h>> \in moved /\ <<k, h>>[1] = k
        /\ \A m, n \in moved : m[1] = n[1] => m = n
    <3>1. ASSUME NEW m \in moved
          PROVE  \/ m \in wk[w].moved /\ m[1] \notin keys
                 \/ m[1] \in keys /\ m = <<m[1], h>> /\ m[2] = h
      OBVIOUS
    <3>2. \A m, n \in wk[w].moved : m[1] = n[1] => m = n
      BY <1>0 DEF SourcesRemain
    <3>3. ASSUME NEW m \in moved, NEW n \in moved, m[1] = n[1]
          PROVE  m = n
      <4>. HIDE DEF moved, keys, h
      <4>. QED
        BY <3>1, <3>2, <3>3
    <3>4. \A k \in keys : <<k, h>> \in moved /\ <<k, h>>[1] = k
      OBVIOUS
    <3>5. \A m \in wk[w].moved : m[1] \notin keys => m \in moved
      OBVIOUS
    <3>. HIDE DEF moved, keys, h
    <3>. QED
      BY <3>1, <3>3, <3>4, <3>5
  <2>. HIDE DEF moved, keys, h
  <2>5. /\ wk'[w].moved = moved /\ wk'[w].pc = "delete_effects"
        /\ wk'[w].dropped = wk[w].dropped /\ wk'[w].gone = wk[w].gone
        /\ wk'[w].fenced = wk[w].fenced /\ wk'[w].batch = wk[w].batch
        /\ \A v \in Workers \ {w} : wk'[v] = wk[v]
    BY <1>0, <2>1 DEF RetentionType
  <2>6. MovedKeys(w) \subseteq MovedKeys(w)'
    <3>1. ASSUME NEW k \in MovedKeys(w)
          PROVE  \E m \in moved : m[1] = k
      <4>1. PICK m \in wk[w].moved : m[1] = k
        BY <3>1 DEF MovedKeys
      <4>. QED
        BY <2>4, <4>1
    <3>. QED
      BY <2>5, <3>1 DEF MovedKeys
  <2>7. SourcesRemain(w)'
    <3>1. \A k \in DOMAIN effects \ (wk[w].dropped \cup MovedKeys(w)') :
            effects[k].src \notin wk[w].gone
      BY <1>0, <2>6 DEF SourcesRemain
    <3>2. \A m \in moved : m[1] \in DOMAIN effects \ wk[w].dropped
                            /\ m[2] \in DOMAIN accepted \ wk[w].gone
      BY <1>0, <1>2, <2>2, <2>4 DEF SourcesRemain
    <3>. QED
      BY <2>1, <2>4, <2>5, <3>1, <3>2 DEF SourcesRemain
  <2>8. RetiringLocked(w)'
    BY <1>0, <2>1, <2>5
    DEF PreserveTask, RetiringLocked, Destroying, DestroyingPCs, Retiring
  <2>9. GoneIsFenced(w)'
    BY <1>0, <2>1, <2>5 DEF GoneIsFenced
  <2>10. ASSUME NEW v \in Workers \ {w}
         PROVE  /\ MovedTo(w)' \cap wk[v].gone = {}
                /\ MovedKeys(w)' \cap wk[v].dropped = {}
                /\ MovedTo(v) \cap wk'[w].gone = {}
                /\ MovedKeys(v) \cap wk'[w].dropped = {}
    <3>1. /\ MovedTo(w) \cap wk[v].gone = {} /\ MovedKeys(w) \cap wk[v].dropped = {}
          /\ MovedTo(v) \cap wk[w].gone = {} /\ MovedKeys(v) \cap wk[w].dropped = {}
      BY DEF Inductive, WorkersApart
    <3>2. \A m \in moved : m[2] \notin wk[v].gone /\ m[1] \notin wk[v].dropped
      BY <2>3, <2>4, <3>1 DEF MovedTo, MovedKeys
    <3>. QED
      BY <2>5, <3>1, <3>2 DEF MovedTo, MovedKeys
  <2>11. \A q \in Procs \ {w} : holds'[q] = holds[q]
                                  /\ holds'[w] \cap holds[q] = {}
    BY <1>0, <2>1, LockSteps
  <2>. QED
    BY <2>1, <2>5, <2>7, <2>8, <2>9, <2>10, <2>11, QuietIteration
<1>. QED
  BY <1>1, <1>2

\* Deleting the effects the Delivery owns: no other iteration moved one.
LEMMA DeleteEffectsStep ==
  ASSUME Inductive, TypeOK', NEW w \in Workers, DeleteEffects(w)
  PROVE  Inductive'
<1>. DEFINE owned == OwnedBy(w, Retiring(w))
            moved == {m \in wk[w].moved : m[1] \notin owned}
            dropped == wk[w].dropped \cup owned
<1>0. /\ w \in Procs /\ w \notin Conns /\ RetiringLocked(w) /\ GoneIsFenced(w)
      /\ SourcesRemain(w) /\ wk = [v \in Workers |-> wk[v]]
      /\ wk[w] \in RetentionType
  BY ProcsAssumption DEF Procs, Inductive, TypeOK, ProcessesOK, RetentionOK
<1>1. /\ UNCHANGED <<tables, adm, holds>>
      /\ wk' = [wk EXCEPT ![w] = [wk[w] EXCEPT !.pc = "delete_markers",
                                               !.dropped = dropped,
                                               !.moved = moved]]
  BY DEF DeleteEffects, Work, WkUnchanged
<1>2. owned \subseteq DOMAIN effects
  BY ViewSource DEF OwnedBy
<1>3. ASSUME NEW k \in owned, NEW v \in Workers \ {w}
      PROVE  k \notin MovedKeys(v)
  <2>1. LockersOfEffect(k) \subseteq {w}
    BY <1>0, <1>3 DEF DeleteEffects, Blockers, Retiring
  <2>. QED
    BY <1>2, <1>3, <2>1 DEF LockersOfEffect, WritersOfEffect
<1>4. /\ \A m \in moved : m \in wk[w].moved /\ m[1] \notin owned
      /\ \A m \in wk[w].moved : m[1] \notin owned => m \in moved
      /\ \A k : k \in dropped <=> k \in wk[w].dropped \/ k \in owned
  OBVIOUS
<1>. HIDE DEF moved, dropped, owned
<1>5. /\ wk'[w].moved = moved /\ wk'[w].pc = "delete_markers"
      /\ wk'[w].dropped = dropped /\ wk'[w].gone = wk[w].gone
      /\ wk'[w].fenced = wk[w].fenced /\ wk'[w].batch = wk[w].batch
      /\ \A v \in Workers \ {w} : wk'[v] = wk[v]
  BY <1>0, <1>1 DEF RetentionType
<1>6. SourcesRemain(w)'
  <2>1. \A k \in DOMAIN effects \ (dropped \cup MovedKeys(w)') :
          k \notin wk[w].dropped \cup MovedKeys(w)
    BY <1>4, <1>5 DEF MovedKeys
  <2>2. \A k \in DOMAIN effects \ (dropped \cup MovedKeys(w)') :
          effects[k].src \notin wk[w].gone
    BY <1>0, <2>1 DEF SourcesRemain
  <2>3. \A m \in moved : m[1] \in DOMAIN effects \ dropped
                          /\ m[2] \in DOMAIN accepted \ wk[w].gone
    BY <1>0, <1>4 DEF SourcesRemain
  <2>4. \A m, n \in moved : m[1] = n[1] => m = n
    BY <1>0, <1>4 DEF SourcesRemain
  <2>. QED
    BY <1>1, <1>5, <2>2, <2>3, <2>4 DEF SourcesRemain
<1>7. RetiringLocked(w)'
  BY <1>0, <1>1, <1>5
  DEF DeleteEffects, RetiringLocked, Destroying, DestroyingPCs, Retiring
<1>8. GoneIsFenced(w)'
  BY <1>0, <1>1, <1>5 DEF GoneIsFenced
<1>9. ASSUME NEW v \in Workers \ {w}
      PROVE  /\ MovedTo(w)' \cap wk[v].gone = {}
             /\ MovedKeys(w)' \cap wk[v].dropped = {}
             /\ MovedTo(v) \cap wk'[w].gone = {}
             /\ MovedKeys(v) \cap wk'[w].dropped = {}
  <2>1. /\ MovedTo(w) \cap wk[v].gone = {} /\ MovedKeys(w) \cap wk[v].dropped = {}
        /\ MovedTo(v) \cap wk[w].gone = {} /\ MovedKeys(v) \cap wk[w].dropped = {}
    BY DEF Inductive, WorkersApart
  <2>2. MovedTo(w)' \subseteq MovedTo(w) /\ MovedKeys(w)' \subseteq MovedKeys(w)
    BY <1>4, <1>5 DEF MovedTo, MovedKeys
  <2>. QED
    BY <1>3, <1>4, <1>5, <2>1, <2>2
<1>10. \A q \in Procs \ {w} : holds'[q] = holds[q]
                                /\ holds'[w] \cap holds[q] = {}
  BY <1>0, <1>1, LockSteps
<1>. QED
  BY <1>1, <1>5, <1>6, <1>7, <1>8, <1>9, <1>10, QuietIteration

\* Deleting the Delivery's records: no row the iteration sees refers to one,
\* and no other iteration made one a source.
LEMMA DeleteRecordsStep ==
  ASSUME Inductive, TypeOK', NEW w \in Workers, DeleteRecords(w)
  PROVE  Inductive'
<1>. DEFINE d == Retiring(w)
            batch == wk[w].batch \ {d}
            gone == wk[w].gone \cup MembersOf(d)
            fenced == wk[w].fenced \cup {d}
<1>0. /\ w \in Procs /\ w \notin Conns /\ RetiringLocked(w) /\ GoneIsFenced(w)
      /\ SourcesRemain(w) /\ wk = [v \in Workers |-> wk[v]]
      /\ wk[w] \in RetentionType
  BY ProcsAssumption DEF Procs, Inductive, TypeOK, ProcessesOK, RetentionOK
<1>1. CASE OwnedBy(w, d) # {}
  BY <1>1, QuietGiveUp DEF DeleteRecords, GiveUp, Work, WkUnchanged
<1>2. CASE OwnedBy(w, d) = {}
  <2>1. /\ UNCHANGED <<tables, adm, holds>>
        /\ wk' = [wk EXCEPT ![w] = [wk[w] EXCEPT !.pc = "delivery_lock",
                                                 !.batch = batch,
                                                 !.gone = gone,
                                                 !.fenced = fenced]]
    BY <1>2 DEF DeleteRecords, Work, WkUnchanged
  <2>. HIDE DEF batch, gone, fenced
  <2>2. /\ wk'[w].moved = wk[w].moved /\ wk'[w].pc = "delivery_lock"
        /\ wk'[w].dropped = wk[w].dropped /\ wk'[w].gone = gone
        /\ wk'[w].fenced = fenced
        /\ \A v \in Workers \ {w} : wk'[v] = wk[v]
    BY <1>0, <2>1 DEF RetentionType
  <2>3. MovedKeys(w)' = MovedKeys(w) /\ MovedTo(w)' = MovedTo(w)
    BY <2>2 DEF MovedKeys, MovedTo
  <2>4. DeliveryLock(d) \in holds[w] /\ d \in DOMAIN anchors \ fences
    BY <1>0 DEF DeleteRecords, RetiringLocked, Destroying, DestroyingPCs
  <2>5. RetiringLocked(w)'
    BY <1>0, <2>1, <2>2, <2>4
    DEF RetiringLocked, Destroying, DestroyingPCs, fenced
  <2>6. GoneIsFenced(w)'
    BY <1>0, <2>1, <2>2 DEF GoneIsFenced, MembersOf, gone, fenced
  <2>7. SourcesRemain(w)'
    <3>1. \A k \in DOMAIN View(w) : View(w)[k].src \notin MembersOf(d)
      BY <1>2 DEF OwnedBy
    <3>2. \A k \in DOMAIN effects \ (wk[w].dropped \cup MovedKeys(w)) :
            effects[k].src \notin gone
      BY <1>0, <3>1, ViewSource DEF SourcesRemain, gone
    <3>3. \A m \in wk[w].moved : m[2] \notin MembersOf(d)
      BY <3>1, ViewSource
    <3>. QED
      BY <1>0, <2>1, <2>2, <2>3, <3>2, <3>3 DEF SourcesRemain, gone
  <2>8. ASSUME NEW v \in Workers \ {w}
        PROVE  MovedTo(v) \cap MembersOf(d) = {}
    <3>1. \A id \in MembersOf(d) : LockersOfRecord(id) \subseteq {w}
      BY <1>0 DEF DeleteRecords, Blockers, Retiring
    <3>. QED
      BY <2>8, <3>1 DEF LockersOfRecord, MembersOf
  <2>9. \A v \in Workers \ {w} :
          /\ MovedTo(w)' \cap wk[v].gone = {}
          /\ MovedKeys(w)' \cap wk[v].dropped = {}
          /\ MovedTo(v) \cap wk'[w].gone = {}
          /\ MovedKeys(v) \cap wk'[w].dropped = {}
    BY <2>2, <2>3, <2>8 DEF Inductive, WorkersApart, gone
  <2>10. \A q \in Procs \ {w} : holds'[q] = holds[q]
                                  /\ holds'[w] \cap holds[q] = {}
    BY <1>0, <2>1, LockSteps
  <2>. QED
    BY <2>1, <2>2, <2>5, <2>6, <2>7, <2>9, <2>10, QuietIteration
<1>. QED
  BY <1>1, <1>2

\* The scrub changes only raw content and markers.
LEMMA CommitExpiryStep ==
  ASSUME Inductive, TypeOK', NEW w \in Workers, CommitExpiry(w)
  PROVE  Inductive'
<1>0. /\ w \in Procs /\ w \notin Conns
      /\ Conns \subseteq Procs /\ Workers \subseteq Procs
      /\ UNCHANGED <<effects, anchors, fences, adm>>
  BY ProcsAssumption DEF Procs, CommitExpiry, WkUnchanged
<1>1. /\ DOMAIN accepted' = DOMAIN accepted
      /\ \A id \in DOMAIN accepted :
           accepted'[id].rec = accepted[id].rec /\ accepted'[id].at = accepted[id].at
  <2>1. \A id \in DOMAIN accepted :
          accepted[id] \in [rec : Records, at : 0..MaxTime, raw : BOOLEAN]
    BY DEF Inductive, TypeOK, TablesOK, TableType
  <2>2. /\ DOMAIN accepted' = DOMAIN accepted
        /\ \A id \in DOMAIN accepted :
             \/ accepted'[id] = accepted[id]
             \/ accepted'[id] = [accepted[id] EXCEPT !.raw = FALSE]
    BY DEF CommitExpiry
  <2>. QED
    BY <2>1, <2>2
<1>2. /\ wk'[w].pc \in {"sleep", "plan_deletion"} /\ wk'[w].moved = {}
      /\ wk'[w].dropped = {} /\ wk'[w].gone = {} /\ wk'[w].fenced = {}
      /\ \A v \in Workers \ {w} : wk'[v] = wk[v]
  BY DEF CommitExpiry, Asleep, Inductive, TypeOK, ProcessesOK
<1>3. \A q \in Procs \ {w} : holds'[q] = holds[q] /\ holds'[w] \cap holds[q] = {}
  BY <1>0, LockSteps DEF CommitExpiry
<1>4. LockExclusion'
  BY <1>0, <1>3 DEF Inductive, LockExclusion
<1>5. ClaimUnique'
  BY <1>0 DEF Inductive, ClaimUnique
<1>6. WorkersApart'
  BY <1>2 DEF Inductive, WorkersApart, MovedTo, MovedKeys
<1>7. ASSUME NEW e \in Conns
      PROVE  FencePassed(e)' /\ ClaimFree(e)'
  BY <1>0, <1>1, <1>3 DEF Inductive, FencePassed, ClaimFree, PastFence
<1>8. ASSUME NEW v \in Workers
      PROVE  RetiringLocked(v)' /\ GoneIsFenced(v)' /\ SourcesRemain(v)'
  <2>1. CASE v = w
    BY <1>2, <2>1 DEF RetiringLocked, GoneIsFenced, SourcesRemain, Destroying,
                      DestroyingPCs, MovedKeys
  <2>2. CASE v # w
    <3>1. RetiringLocked(v)'
      BY <1>0, <1>2, <1>3, <2>2
      DEF Inductive, RetiringLocked, Destroying, Retiring
    <3>2. GoneIsFenced(v)'
      BY <1>1, <1>2, <2>2 DEF Inductive, GoneIsFenced
    <3>3. SourcesRemain(v)'
      BY <1>0, <1>1, <1>2, <2>2 DEF Inductive, SourcesRemain, MovedKeys
    <3>. QED
      BY <3>1, <3>2, <3>3
  <2>. QED
    BY <2>1, <2>2
<1>9. FenceClosed' /\ AnchorIsSummary' /\ SourcesAccepted' /\ AckDurable'
  BY <1>0, <1>1 DEF Inductive, FenceClosed, AnchorIsSummary, SourcesAccepted,
                    AckDurable, MembersOf
<1>. QED
  BY <1>4, <1>5, <1>6, <1>7, <1>8, <1>9 DEF Inductive

\* What the COMMIT of an iteration removes: the Deliveries it fenced, whole,
\* and nobody else holds one of their locks.
CommitRemoves(w) ==
  /\ DOMAIN accepted' =
       {id \in DOMAIN accepted : DeliveryOf(accepted[id].rec) \notin wk[w].fenced}
  /\ \A id \in DOMAIN accepted' : accepted'[id] = accepted[id]
  /\ DOMAIN anchors' = DOMAIN anchors \ wk[w].fenced
  /\ \A d \in DOMAIN anchors' : anchors'[d] = anchors[d]
  /\ fences' = fences \cup wk[w].fenced
  /\ effects' = View(w)
  /\ \A d \in wk[w].fenced : d \in DOMAIN anchors \ fences
  /\ \A q \in Procs \ {w} : \A d \in wk[w].fenced :
       DeliveryLock(d) \notin holds[q]

\* What the COMMIT of a deletion removes: exactly the members and the anchors of
\* the Deliveries it fences.
LEMMA CommitRemovesDeliveries ==
  ASSUME Inductive, NEW w \in Workers, CommitDeletion(w)
  PROVE  CommitRemoves(w)
<1>1. wk[w].gone =
        {id \in DOMAIN accepted : DeliveryOf(accepted[id].rec) \in wk[w].fenced}
  BY DEF Inductive, GoneIsFenced
<1>2. /\ DOMAIN accepted' = DOMAIN accepted \ wk[w].gone
      /\ \A id \in DOMAIN accepted' : accepted'[id] = accepted[id]
      /\ DOMAIN anchors' = {d \in DOMAIN anchors : anchors[d].id \notin wk[w].gone}
      /\ \A d \in DOMAIN anchors' : anchors'[d] = anchors[d]
  BY DEF CommitDeletion, Without
<1>3. \A d \in DOMAIN anchors : anchors[d].id \in wk[w].gone <=> d \in wk[w].fenced
  BY <1>1 DEF Inductive, AnchorIsSummary, MembersOf
<1>4. /\ \A d \in wk[w].fenced : d \in DOMAIN anchors \ fences
      /\ \A q \in Procs \ {w} : \A d \in wk[w].fenced :
           DeliveryLock(d) \notin holds[q]
  BY DEF Inductive, RetiringLocked, LockExclusion, Procs
<1>5. DOMAIN accepted' =
        {id \in DOMAIN accepted : DeliveryOf(accepted[id].rec) \notin wk[w].fenced}
  BY <1>1, <1>2
<1>6. DOMAIN anchors' = DOMAIN anchors \ wk[w].fenced
  BY <1>2, <1>3
<1>. QED
  BY <1>2, <1>4, <1>5, <1>6 DEF CommitDeletion, CommitRemoves

\* The COMMIT of a deletion preserves the invariant: nothing arrived in the fenced
\* Deliveries, and no remaining effect has a deleted record as its source.
LEMMA CommitDeletionStep ==
  ASSUME Inductive, TypeOK', NEW w \in Workers, CommitDeletion(w)
  PROVE  Inductive'
<1>. DEFINE fenced == wk[w].fenced
<1>0. /\ w \in Procs /\ w \notin Conns
      /\ Conns \subseteq Procs /\ Workers \subseteq Procs
      /\ UNCHANGED adm /\ CommitRemoves(w)
  BY ProcsAssumption, CommitRemovesDeliveries
  DEF Procs, CommitDeletion, WkUnchanged
<1>1. /\ wk'[w].pc = "sleep" /\ wk'[w].moved = {}
      /\ wk'[w].dropped = {} /\ wk'[w].gone = {} /\ wk'[w].fenced = {}
      /\ \A v \in Workers \ {w} : wk'[v] = wk[v]
  BY DEF CommitDeletion, Asleep, Inductive, TypeOK, ProcessesOK
<1>2. \A q \in Procs \ {w} : holds'[q] = holds[q] /\ holds'[w] \cap holds[q] = {}
  BY <1>0, LockSteps DEF CommitDeletion
<1>3. fenced \subseteq Deliveries
  BY DEF Inductive, TypeOK, ProcessesOK, RetentionOK, RetentionType
<1>4. LockExclusion'
  BY <1>0, <1>2 DEF Inductive, LockExclusion
<1>5. ClaimUnique'
  BY <1>0 DEF Inductive, ClaimUnique
<1>6. WorkersApart'
  BY <1>1 DEF Inductive, WorkersApart, MovedTo, MovedKeys
<1>7. ASSUME NEW e \in Conns
      PROVE  FencePassed(e)' /\ ClaimFree(e)'
  <2>1. FencePassed(e)'
    BY <1>0, <1>2 DEF Inductive, FencePassed, PastFence, CommitRemoves
  <2>2. ClaimFree(e)'
    BY <1>0 DEF Inductive, ClaimFree, CommitRemoves
  <2>. QED
    BY <2>1, <2>2
<1>8. ASSUME NEW v \in Workers
      PROVE  RetiringLocked(v)' /\ GoneIsFenced(v)' /\ SourcesRemain(v)'
  <2>1. CASE v = w
    BY <1>1, <2>1 DEF RetiringLocked, GoneIsFenced, SourcesRemain, Destroying,
                      DestroyingPCs, MovedKeys
  <2>2. CASE v # w
    <3>1. RetiringLocked(v)'
      BY <1>0, <1>1, <1>2, <2>2
      DEF Inductive, RetiringLocked, Destroying, Retiring, CommitRemoves
    <3>2. wk[v].fenced \cap fenced = {}
      BY <1>0, <2>2 DEF Inductive, RetiringLocked, CommitRemoves
    <3>3. GoneIsFenced(v)'
      BY <1>0, <1>1, <2>2, <3>2 DEF Inductive, GoneIsFenced, CommitRemoves
    <3>4. SourcesRemain(v)'
      <4>1. ASSUME NEW k \in DOMAIN View(w) \ (wk[v].dropped \cup MovedKeys(v))
            PROVE  View(w)[k].src \notin wk[v].gone
        <5>1. CASE k \in MovedKeys(w)
          <6>1. PICK m \in wk[w].moved : m[1] = k
            BY <5>1 DEF MovedKeys
          <6>2. View(w)[k].src \in MovedTo(w)
            BY <6>1, ViewSource DEF MovedTo
          <6>. QED
            BY <2>2, <6>2 DEF Inductive, WorkersApart
        <5>2. CASE k \notin MovedKeys(w)
          <6>1. k \in DOMAIN effects /\ View(w)[k].src = effects[k].src
            BY <5>2, ViewSource
          <6>2. SourcesRemain(v)
            BY DEF Inductive
          <6>. QED
            BY <4>1, <6>1, <6>2 DEF SourcesRemain
        <5>. QED
          BY <5>1, <5>2
      <4>2. ASSUME NEW m \in wk[v].moved
            PROVE  /\ m[1] \in DOMAIN View(w) \ wk[v].dropped
                   /\ m[2] \in DOMAIN accepted' \ wk[v].gone
        <5>1. m[1] \notin wk[w].dropped /\ m[2] \notin wk[w].gone
          BY <2>2 DEF Inductive, WorkersApart, MovedTo, MovedKeys
        <5>2. /\ m[1] \in DOMAIN effects \ wk[v].dropped
              /\ m[2] \in DOMAIN accepted \ wk[v].gone
          BY DEF Inductive, SourcesRemain
        <5>3. m[2] \in DOMAIN accepted'
          BY <1>0, <5>1, <5>2 DEF Inductive, GoneIsFenced, CommitRemoves
        <5>. QED
          BY <5>1, <5>2, <5>3, ViewSource
      <4>3. \A m, n \in wk[v].moved : m[1] = n[1] => m = n
        BY DEF Inductive, SourcesRemain
      <4>4. MovedKeys(v)' = MovedKeys(v)
        BY <1>1, <2>2 DEF MovedKeys
      <4>. QED
        BY <1>0, <1>1, <2>2, <4>1, <4>2, <4>3, <4>4
        DEF SourcesRemain, CommitRemoves
    <3>. QED
      BY <3>1, <3>3, <3>4
  <2>. QED
    BY <2>1, <2>2
<1>9. FenceClosed'
  <2>1. ASSUME NEW d \in fenced, NEW c \in Conns, adm[c].claimed
        PROVE  DeliveryOf(adm[c].rec) # d
    <3>1. adm[c].rec \in Records
      BY DEF Inductive, TypeOK, ProcessesOK, AdmissionOK, AdmissionType
    <3>2. adm[c].rec.profile = 2 =>
            DeliveryLock(DeliveryOf(adm[c].rec)) \in holds[c]
      BY <2>1 DEF Inductive, FencePassed, ClaimFree, PastFence
    <3>. QED
      BY <1>0, <1>3, <3>1, <3>2, DeliveryOfRecord DEF CommitRemoves
  <2>2. ASSUME NEW d \in fences'
        PROVE  MembersOf(d)' = {} /\ d \notin DOMAIN anchors'
    BY <1>0 DEF Inductive, FenceClosed, MembersOf, CommitRemoves
  <2>. QED
    BY <1>0, <2>1, <2>2 DEF Inductive, FenceClosed, CommitRemoves
<1>10. AnchorIsSummary'
  <2>1. ASSUME NEW d \in DOMAIN anchors'
        PROVE  /\ anchors'[d].id \in MembersOf(d)'
               /\ IsSummary(accepted'[anchors'[d].id].rec)
               /\ anchors'[d].at = accepted'[anchors'[d].id].at
    BY <1>0 DEF Inductive, AnchorIsSummary, MembersOf, CommitRemoves
  <2>2. ASSUME NEW id \in DOMAIN accepted', IsSummary(accepted'[id].rec)
        PROVE  /\ DeliveryOf(accepted'[id].rec) \in DOMAIN anchors'
               /\ anchors'[DeliveryOf(accepted'[id].rec)].id = id
    BY <1>0, <2>2 DEF Inductive, AnchorIsSummary, CommitRemoves
  <2>. QED
    BY <2>1, <2>2 DEF AnchorIsSummary
<1>11. SourcesAccepted'
  BY <1>0, ViewSource
  DEF Inductive, GoneIsFenced, SourcesAccepted, CommitRemoves
<1>12. AckDurable'
  BY <1>0 DEF Inductive, AckDurable, CommitRemoves
<1>. QED
  BY <1>4, <1>5, <1>6, <1>7, <1>8, <1>9, <1>10, <1>11, <1>12 DEF Inductive

-------------------------------------------------------------------------------
(* The invariant *)

\* The invariant holds in the empty database.
LEMMA InductiveInit == Init => Inductive
<1>. SUFFICES ASSUME Init
              PROVE  Inductive
  OBVIOUS
<1>1. /\ \A c \in Conns : adm[c].pc = "idle" /\ ~adm[c].claimed
      /\ \A w \in Workers :
           /\ wk[w].pc = "sleep" /\ wk[w].moved = {} /\ wk[w].dropped = {}
           /\ wk[w].gone = {} /\ wk[w].fenced = {}
      /\ \A p \in Procs : holds[p] = {}
      /\ DOMAIN accepted = {} /\ DOMAIN effects = {} /\ DOMAIN anchors = {}
      /\ fences = {}
  BY DEF Init, Idle, Asleep, EmptyTable
<1>2. LockExclusion /\ ClaimUnique /\ WorkersApart
  BY <1>1 DEF LockExclusion, ClaimUnique, WorkersApart, MovedTo, MovedKeys
<1>3. \A c \in Conns : FencePassed(c) /\ ClaimFree(c)
  BY <1>1 DEF FencePassed, ClaimFree, PastFence
<1>4. \A w \in Workers : RetiringLocked(w) /\ GoneIsFenced(w) /\ SourcesRemain(w)
  BY <1>1 DEF RetiringLocked, GoneIsFenced, SourcesRemain, Destroying,
              DestroyingPCs
<1>5. FenceClosed /\ AnchorIsSummary /\ SourcesAccepted /\ AckDurable
  BY <1>1 DEF FenceClosed, AnchorIsSummary, SourcesAccepted, AckDurable
<1>. QED
  BY <1>2, <1>3, <1>4, <1>5, TypeInit DEF Inductive

\* Every step of the system preserves the invariant.
LEMMA InductiveStep == Inductive /\ [Next]_vars => Inductive'
<1>. SUFFICES ASSUME Inductive, [Next]_vars
              PROVE  Inductive'
  OBVIOUS
<1>0. TypeOK'
  BY TypeStep DEF Inductive
<1>1. ASSUME NEW c \in Conns, NEW r \in Records, Receive(c, r)
      PROVE  Inductive'
  <2>1. /\ adm'[c].pc \in {"delivery_lock", "claim"} /\ adm'[c].rec = r
        /\ adm'[c].pc = "delivery_lock" <=> r.profile = 2
        /\ ~adm'[c].claimed
        /\ \A e \in Conns \ {c} : adm'[e] = adm[e]
    BY <1>1 DEF Receive, Step, Idle, Inductive, TypeOK, ProcessesOK
  <2>2. \A q \in Procs \ {c} : holds'[q] = holds[q]
                                 /\ holds'[c] \cap holds[q] = {}
    BY <1>1, LockSteps DEF Receive, Procs
  <2>3. FencePassed(c)' /\ ClaimFree(c)'
    BY <2>1 DEF FencePassed, ClaimFree, PastFence
  <2>. QED
    BY <1>0, <1>1, <2>1, <2>2, <2>3, QuietAdmission
    DEF Receive, Step, AdmUnchanged
<1>2. ASSUME NEW c \in Conns, AdmissionStep(c)
      PROVE  Inductive'
  BY <1>0, <1>2, QuietAdmissionStep, CommitAdmissionStep DEF AdmissionStep
<1>3. ASSUME NEW w \in Workers, Wake(w) \/ RetentionStep(w)
      PROVE  Inductive'
  BY <1>0, <1>3, QuietRetentionStep, PreserveTaskStep, DeleteEffectsStep,
     DeleteRecordsStep, CommitExpiryStep, CommitDeletionStep
  DEF RetentionStep
<1>4. ASSUME NEW p \in Procs, Abort(p)
      PROVE  Inductive'
  <2>1. CASE p \in Conns
    BY <1>0, <1>4, <2>1, QuietFinish DEF Abort, Finish
  <2>2. CASE p \notin Conns
    BY <1>0, <1>4, <2>2, QuietGiveUp DEF Abort, Procs
  <2>. QED
    BY <2>1, <2>2
<1>5. ASSUME Tick \/ UNCHANGED vars
      PROVE  Inductive'
  <2>1. UNCHANGED <<accepted, effects, anchors, fences, holds, adm, wk>>
    BY <1>5 DEF Tick, vars
  <2>2. LockExclusion' /\ ClaimUnique' /\ WorkersApart'
    BY <2>1 DEF Inductive, LockExclusion, ClaimUnique, WorkersApart, MovedTo,
                MovedKeys
  <2>3. \A c \in Conns : FencePassed(c)' /\ ClaimFree(c)'
    BY <2>1 DEF Inductive, FencePassed, ClaimFree, PastFence
  <2>4. \A w \in Workers :
          RetiringLocked(w)' /\ GoneIsFenced(w)' /\ SourcesRemain(w)'
    BY <2>1 DEF Inductive, RetiringLocked, GoneIsFenced, SourcesRemain,
                Destroying, Retiring, MovedKeys
  <2>5. FenceClosed' /\ AnchorIsSummary' /\ SourcesAccepted' /\ AckDurable'
    BY <2>1 DEF Inductive, FenceClosed, AnchorIsSummary, SourcesAccepted,
                AckDurable, MembersOf
  <2>. QED
    BY <1>0, <2>2, <2>3, <2>4, <2>5 DEF Inductive
<1>. QED
  BY <1>1, <1>2, <1>3, <1>4, <1>5 DEF Next, DeadlockVictim, Fault

\* Inductive is an invariant of the service: what each transaction knows at
\* each statement stays true until it ends, because of the locks it holds.
THEOREM InductiveInvariant == Spec => []Inductive
  BY InductiveInit, InductiveStep, PTL DEF Spec

\* Once a Delivery is fenced none of its records is in the store, and no
\* admission that went past the fence check can still bring one back.
THEOREM FencesHold == Spec => []FenceClosed
<1>1. Inductive => FenceClosed
  BY DEF Inductive
<1>. QED
  BY <1>1, InductiveInvariant, PTL

\* A Delivery has at most one terminal summary in the store, and its anchor is
\* that summary.
THEOREM AnchorsAreSummaries == Spec => []AnchorIsSummary
<1>1. Inductive => AnchorIsSummary
  BY DEF Inductive
<1>. QED
  BY <1>1, InductiveInvariant, PTL

\* No committed transaction leaves an effect whose source is gone: re-sourcing
\* a Task's rows and deleting Deliveries never leave a dangling reference.
THEOREM SourcesLive == Spec => []SourcesAccepted
<1>1. Inductive => SourcesAccepted
  BY DEF Inductive
<1>. QED
  BY <1>1, InductiveInvariant, PTL

\* What a client was told is in the store stays there until its Delivery is
\* retired.
THEOREM AnswersDurable == Spec => []AckDurable
<1>1. Inductive => AckDurable
  BY DEF Inductive
<1>. QED
  BY <1>1, InductiveInvariant, PTL

-------------------------------------------------------------------------------
(* Refinement *)

\* The records in the store.
Live == {accepted[id].rec : id \in DOMAIN accepted}

\* The ledger's operators on records are the service's.
LEMMA SameOperators ==
  \A r : Ledger!IsSummary(r) = IsSummary(r) /\ Ledger!DeliveryOf(r) = DeliveryOf(r)
  BY DEF Ledger!IsSummary, IsSummary, Ledger!DeliveryOf, DeliveryOf,
         Ledger!IsEvent, IsEvent, Ledger!NoDelivery, NoDelivery

\* A committed admission is an Accept of the ledger.
LEMMA CommitAccepts ==
  ASSUME Inductive, NEW c \in Conns, CommitAdmission(c)
  PROVE  \E r \in Records : Ledger!Accept(r)
<1>. DEFINE d == DeliveryOf(adm[c].rec)
<1>0. PICK r \in Records : r = adm[c].rec
  BY DEF Inductive, TypeOK, ProcessesOK, AdmissionOK, AdmissionType
<1>. HIDE DEF d
<1>1. CommitAdds(c, r, d) /\ UNCHANGED fences
  BY <1>0, CommitAddsRecord DEF d, CommitAdmission
<1>2. \A id \in DOMAIN accepted : accepted[id].rec.id = id
  BY DEF Inductive, TypeOK, TablesOK
<1>3. \A q \in Live : q.id # r.id
  BY <1>1, <1>2 DEF Live, CommitAdds
<1>4. IsSummary(r) => ~\E q \in Live : IsSummary(q) /\ DeliveryOf(q) = d
  BY <1>1 DEF Live, CommitAdds, Inductive, AnchorIsSummary
<1>5. Live' = Live \cup {r}
  BY <1>1 DEF Live, CommitAdds
<1>6. Ledger!Accept(r)
  BY <1>1, <1>3, <1>4, <1>5, SameOperators
  DEF Ledger!Accept, Ledger!Terminated, Live, CommitAdds
<1>. QED
  BY <1>6

\* A committed deletion is a Retire of the Deliveries it fenced.
LEMMA CommitRetires ==
  ASSUME Inductive, NEW w \in Workers, CommitDeletion(w)
  PROVE  \E S \in SUBSET {Ledger!DeliveryOf(r) : r \in Live} : Ledger!Retire(S)
<1>1. CommitRemoves(w)
  BY CommitRemovesDeliveries
<1>2. ASSUME NEW d \in wk[w].fenced
      PROVE  \E r \in Live : IsSummary(r) /\ DeliveryOf(r) = d
  BY <1>1 DEF CommitRemoves, Inductive, AnchorIsSummary, MembersOf, Live
<1>3. Live' = {r \in Live : DeliveryOf(r) \notin wk[w].fenced}
  BY <1>1 DEF CommitRemoves, Live
<1>4. /\ wk[w].fenced \cap fences = {} /\ fences' = fences \cup wk[w].fenced
  BY <1>1 DEF CommitRemoves
<1>5. PICK S \in SUBSET {Ledger!DeliveryOf(r) : r \in Live} : S = wk[w].fenced
  BY <1>2, SameOperators
<1>6. Ledger!Retire(S)
  BY <1>2, <1>3, <1>4, <1>5, SameOperators
  DEF Ledger!Retire, Ledger!Terminated, Live
<1>. QED
  BY <1>6

\* Every other step leaves the ledger alone.
LEMMA OthersStutter ==
  ASSUME Inductive, [Next]_vars,
         \A c \in Conns : ~CommitAdmission(c),
         \A w \in Workers : ~CommitDeletion(w)
  PROVE  UNCHANGED <<Live, fences>>
<1>1. ASSUME NEW c \in Conns, AdmissionStep(c)
      PROVE  UNCHANGED tables
  BY <1>1 DEF AdmissionStep, LockDelivery, CheckFence, LockTask, Claim,
              CompareIdentity, RequireEffect, FirstWrite, CompareEffect, Respond,
              Step, Finish
<1>2. ASSUME NEW w \in Workers, Wake(w) \/ RetentionStep(w), ~CommitExpiry(w)
      PROVE  UNCHANGED tables
  BY <1>2 DEF RetentionStep, Wake, PlanExpiry, ScrubMember, PlanDeletion,
              LockRetiring, CheckRetiring, LockRetiringTask, PreserveTask,
              DeleteEffects, DeleteMarkers, DeleteRecords, Work, GiveUp
<1>3. ASSUME NEW w \in Workers, CommitExpiry(w)
      PROVE  UNCHANGED <<Live, fences>>
  <2>1. \A id \in DOMAIN accepted :
          accepted[id] \in [rec : Records, at : 0..MaxTime, raw : BOOLEAN]
    BY DEF Inductive, TypeOK, TablesOK, TableType
  <2>2. /\ DOMAIN accepted' = DOMAIN accepted /\ UNCHANGED fences
        /\ \A id \in DOMAIN accepted :
             \/ accepted'[id] = accepted[id]
             \/ accepted'[id] = [accepted[id] EXCEPT !.raw = FALSE]
    BY <1>3 DEF CommitExpiry
  <2>3. \A id \in DOMAIN accepted : accepted'[id].rec = accepted[id].rec
    BY <2>1, <2>2
  <2>. QED
    BY <2>2, <2>3 DEF Live
<1>4. ASSUME UNCHANGED tables
      PROVE  UNCHANGED <<Live, fences>>
  BY <1>4 DEF Live
<1>5. ASSUME NEW c \in Conns, NEW r \in Records, Receive(c, r)
      PROVE  UNCHANGED tables
  BY <1>5 DEF Receive, Step
<1>6. ASSUME NEW p \in Procs, DeadlockVictim(p) \/ Fault(p)
      PROVE  UNCHANGED tables
  BY <1>6 DEF DeadlockVictim, Fault, Abort
<1>7. ASSUME Tick \/ UNCHANGED vars
      PROVE  UNCHANGED tables
  BY <1>7 DEF Tick, vars
<1>. QED
  BY <1>1, <1>2, <1>3, <1>4, <1>5, <1>6, <1>7 DEF Next

\* Admission and retention, statement by statement and whatever fails, do to
\* the store only what the ledger allows.
THEOREM ImplementsLedger == Spec => LedgerImplemented
<1>1. Init => Ledger!LedgerInit
  BY DEF Init, Ledger!LedgerInit, EmptyTable
<1>2. ASSUME Inductive, [Next]_vars
      PROVE  [Ledger!LedgerNext]_<<Live, fences>>
  <2>1. ASSUME NEW c \in Conns, CommitAdmission(c)
        PROVE  Ledger!LedgerNext
    BY <1>2, <2>1, CommitAccepts DEF Ledger!LedgerNext
  <2>2. ASSUME NEW w \in Workers, CommitDeletion(w)
        PROVE  Ledger!LedgerNext
    BY <1>2, <2>2, CommitRetires DEF Ledger!LedgerNext, Live
  <2>. QED
    BY <1>2, <2>1, <2>2, OthersStutter
<1>. QED
  BY <1>1, <1>2, InductiveInvariant, PTL
  DEF Spec, LedgerImplemented, Ledger!LedgerSpec, Live
===============================================================================
