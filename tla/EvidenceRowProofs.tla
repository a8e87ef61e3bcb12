--------------------------- MODULE EvidenceRowProofs ---------------------------
(***************************************************************************)
(* The rows of projection_effects, for every set of records, connections   *)
(* and workers: RowsInductive is an invariant, because each row that it    *)
(* speaks of is protected by the lock of its Delivery or of its Task, and  *)
(* the properties of the projection follow from it.                        *)
(***************************************************************************)
EXTENDS EvidenceProofs, EvidenceRowInvariants, ProjectionProofs

USE DEF tables

-------------------------------------------------------------------------------
(* The rows of a record *)

\* The effects of a record are numbered from 1.
LEMMA EffectsNumbered ==
  ASSUME NEW r \in Records
  PROVE  Len(Project(r)) \in Nat /\ DOMAIN Project(r) = 1..Len(Project(r))
<1>1. IsSequence(r.links) /\ (IsEvent(r, "task.binding") => r.profile = 2)
  BY RecordsAssumption, Zenon DEF IsSequence
<1>. QED
  BY <1>1, ProjectShape

\* Task rows and memberships come from bindings, under the binding's own keys.
LEMMA RecordEffects ==
  ASSUME NEW r \in Records, NEW e \in EffectsOf(r)
  PROVE  /\ EffectKey(e)[1] = e.kind
         /\ e.kind \in TaskKinds =>
              /\ IsBinding(r) /\ e.op = "first_write"
              /\ EffectKey(e) = <<e.kind, r.attrs.task_id>>
         /\ e.kind = "delivery_task_membership" =>
              /\ IsBinding(r)
              /\ EffectKey(e) =
                   <<"delivery_task_membership", r.attrs.task_id, DeliveryOf(r)>>
         /\ e.kind = "delivery_task_guard" =>
              /\ IsBinding(r)
              /\ EffectKey(e) = <<"delivery_task_guard", DeliveryOf(r)>>
<1>1. IsSequence(r.links) /\ (IsEvent(r, "task.binding") => r.profile = 2)
  BY RecordsAssumption, Zenon DEF IsSequence
<1>2. PICK i \in DOMAIN Project(r) : e = Project(r)[i]
  BY DEF EffectsOf
<1>3. /\ EffectKey(e)[1] = e.kind
      /\ e.kind \in BindingKinds => IsBinding(r) /\ e.op = "first_write"
      /\ e.kind \in {"task_declaration", "task_display_name"} =>
           EffectKey(e) = <<e.kind, r.attrs.task_id>>
      /\ e.kind = "delivery_task_membership" =>
           EffectKey(e) = MembershipKey(r.attrs)
      /\ e.kind = "delivery_task_guard" =>
           EffectKey(e) = GuardKey(r.attrs)
  BY <1>1, <1>2, ProjectShape
<1>4. IsBinding(r) => DeliveryOf(r) = r.attrs.delivery_id
  BY DEF IsBinding, DeliveryOf
<1>. QED
  BY <1>3, <1>4 DEF BindingKinds, TaskKinds, MembershipKey, GuardKey

\* The rows by which a binding puts its Delivery in its Task, and the guard by
\* which retention finds the Task again.
Membership(r) ==
  <<"delivery_task_membership", r.attrs.task_id, DeliveryOf(r)>>
Guard(d) == <<"delivery_task_guard", d>>

\* Every binding writes both.
LEMMA BindingAsserts ==
  ASSUME NEW r \in Records, IsBinding(r)
  PROVE  /\ Asserts(r, Membership(r))
         /\ \E e \in EffectsOf(r) :
              /\ e.op = "first_write" /\ EffectKey(e) = Guard(DeliveryOf(r))
              /\ Get(e.payload, "task_id") = r.attrs.task_id
<1>1. IsSequence(r.links) /\ (IsEvent(r, "task.binding") => r.profile = 2)
  BY RecordsAssumption, Zenon DEF IsSequence
<1>2. DeliveryOf(r) = r.attrs.delivery_id
  BY DEF IsBinding, DeliveryOf
<1>3. /\ \E i \in DOMAIN Project(r) :
           /\ Project(r)[i].op = "first_write"
           /\ EffectKey(Project(r)[i]) = MembershipKey(r.attrs)
      /\ \E i \in DOMAIN Project(r) :
           /\ Project(r)[i].op = "first_write"
           /\ EffectKey(Project(r)[i]) = GuardKey(r.attrs)
           /\ Get(Project(r)[i].payload, "task_id") = r.attrs.task_id
  BY <1>1, ProjectShape
<1>4. MembershipKey(r.attrs) = Membership(r) /\ GuardKey(r.attrs) = Guard(DeliveryOf(r))
  BY <1>2 DEF MembershipKey, GuardKey, Membership, Guard
<1>5. \A i \in DOMAIN Project(r) : Project(r)[i] \in EffectsOf(r)
  BY DEF EffectsOf
<1>. QED
  BY <1>3, <1>4, <1>5, Zenon DEF Asserts

\* What a record that mentions such a row is.
LEMMA MentionsBinding ==
  ASSUME NEW q \in Records
  PROVE  /\ \A k : Mentions(q, k) /\ k[1] \in TaskKinds =>
              /\ IsBinding(q) /\ k = <<k[1], q.attrs.task_id>>
              /\ k[2] = q.attrs.task_id
         /\ \A t, d : Mentions(q, <<"delivery_task_membership", t, d>>) =>
              IsBinding(q) /\ q.attrs.task_id = t /\ DeliveryOf(q) = d
         /\ \A d : Mentions(q, Guard(d)) => IsBinding(q) /\ DeliveryOf(q) = d
<1>1. ASSUME NEW k, Mentions(q, k), k[1] \in TaskKinds
      PROVE  /\ IsBinding(q) /\ k = <<k[1], q.attrs.task_id>>
             /\ k[2] = q.attrs.task_id
  BY <1>1, RecordEffects DEF Mentions
<1>2. ASSUME NEW t, NEW d, Mentions(q, <<"delivery_task_membership", t, d>>)
      PROVE  IsBinding(q) /\ q.attrs.task_id = t /\ DeliveryOf(q) = d
  BY <1>2, RecordEffects DEF Mentions
<1>3. ASSUME NEW d, Mentions(q, Guard(d))
      PROVE  IsBinding(q) /\ DeliveryOf(q) = d
  BY <1>3, RecordEffects DEF Mentions, Guard
<1>. QED
  BY <1>1, <1>2, <1>3

\* Only the Delivery's own bindings mention them.
LEMMA BindingRowsLocal ==
  /\ \A t, d : Local(<<"delivery_task_membership", t, d>>)
  /\ \A d : Local(Guard(d))
  BY MentionsBinding DEF Local

\* What a record asserts it mentions.
LEMMA AssertsMentions ==
  ASSUME NEW r, NEW k, Asserts(r, k)
  PROVE  Mentions(r, k)
  BY DEF Asserts, Mentions

-------------------------------------------------------------------------------
(* Steps that change one transaction and no table *)

\* The payload that the effects of record q numbered in wrote give to row k.
PayloadIn(q, wrote, k) ==
  Project(q)[CHOOSE i \in wrote : EffectKey(Project(q)[i]) = k].payload

\* It is that of the effect with this key, if there is one of them only.
LEMMA PayloadIs ==
  ASSUME NEW q, NEW wrote, NEW i \in wrote,
         \A m, n \in wrote :
           EffectKey(Project(q)[m]) = EffectKey(Project(q)[n]) => m = n
  PROVE  PayloadIn(q, wrote, EffectKey(Project(q)[i])) = Project(q)[i].payload
<1>1. (CHOOSE n \in wrote :
         EffectKey(Project(q)[n]) = EffectKey(Project(q)[i])) = i
  OBVIOUS
<1>. QED
  BY <1>1 DEF PayloadIn

\* What an admission has written depends on its record and on how far it is.
LEMMA WrittenIs ==
  ASSUME NEW e
  PROVE  /\ \A k : PayloadWritten(e, k) = PayloadIn(adm[e].rec, adm[e].wrote, k)
         /\ \A k : PayloadWritten(e, k)' = PayloadIn(adm'[e].rec, adm'[e].wrote, k)
  BY DEF PayloadWritten, PayloadIn

\* An admission that writes no row has written the same rows.
LEMMA SameWritten ==
  ASSUME NEW e, adm'[e].rec = adm[e].rec, adm'[e].wrote = adm[e].wrote
  PROVE  /\ Written(e)' = Written(e)
         /\ \A k : PayloadWritten(e, k)' = PayloadWritten(e, k)
<1>1. Written(e)' = Written(e)
  BY DEF Written
<1>. QED
  BY <1>1, WrittenIs

\* The rows of table tbl under an iteration's changes: the rows dr are deleted,
\* and mv has the new sources of others.
Seer(tbl, mv, dr) ==
  [k \in DOMAIN tbl \ dr |->
     [payload |-> tbl[k].payload,
      src |-> IF k \in {m[1] : m \in mv} THEN (CHOOSE m \in mv : m[1] = k)[2]
                                         ELSE tbl[k].src]]

\* That is what an iteration sees, before a step and after it.
LEMMA ViewIs ==
  ASSUME NEW w
  PROVE  /\ View(w) = Seer(effects, wk[w].moved, wk[w].dropped)
         /\ View(w)' = Seer(effects', wk'[w].moved, wk'[w].dropped)
  BY DEF View, MovedKeys, Seer

\* Its rows: those not deleted, with their payloads, and with their new sources
\* or, if they have none, their old ones.
SeerOf(seen, tbl, mv, dr) ==
  /\ DOMAIN seen = DOMAIN tbl \ dr
  /\ \A k \in DOMAIN seen :
       /\ seen[k].payload = tbl[k].payload
       /\ (\A m \in mv : m[1] # k) => seen[k].src = tbl[k].src
       /\ \A m \in mv : m[1] = k => seen[k].src = m[2]

\* Each moved row has one new source.
OneSource(mv) == \A m, n \in mv : m[1] = n[1] => m = n

\* These are the rows of the view.
LEMMA SeerRows ==
  ASSUME NEW tbl, NEW mv, NEW dr, OneSource(mv)
  PROVE  SeerOf(Seer(tbl, mv, dr), tbl, mv, dr)
<1>1. /\ DOMAIN Seer(tbl, mv, dr) = DOMAIN tbl \ dr
      /\ \A k \in DOMAIN tbl \ dr :
           /\ Seer(tbl, mv, dr)[k].payload = tbl[k].payload
           /\ (\A m \in mv : m[1] # k) => Seer(tbl, mv, dr)[k].src = tbl[k].src
  BY DEF Seer
<1>2. ASSUME NEW m \in mv, m[1] \in DOMAIN tbl \ dr
      PROVE  Seer(tbl, mv, dr)[m[1]].src = m[2]
  <2>1. (CHOOSE n \in mv : n[1] = m[1]) = m
    BY DEF OneSource
  <2>2. Seer(tbl, mv, dr)[m[1]].src = (CHOOSE n \in mv : n[1] = m[1])[2]
    BY <1>2 DEF Seer
  <2>. QED
    BY <2>1, <2>2
<1>. QED
  BY <1>1, <1>2 DEF SeerOf

\* An iteration that moves and deletes no row sees the same table the same way.
LEMMA SameView ==
  ASSUME NEW v, wk'[v].moved = wk[v].moved, wk'[v].dropped = wk[v].dropped,
         UNCHANGED effects
  PROVE  View(v)' = View(v) /\ MovedKeys(v)' = MovedKeys(v)
<1>1. MovedKeys(v)' = MovedKeys(v)
  BY DEF MovedKeys
<1>. QED
  BY <1>1, ViewIs

\* A step of one admission that changes no table.
LEMMA QuietAdmissionRows ==
  ASSUME Inductive, RowsInductive, NEW c \in Conns,
         UNCHANGED <<tables, wk, now>>,
         \A e \in Conns \ {c} : adm'[e] = adm[e],
         \A q \in Procs \ {c} : holds'[q] = holds[q],
         WrittenOwn(c)', BindingLocked(c)', AppliedHolds(c)',
         \A e \in Conns \ {c} : Written(c)' \cap Written(e) = {}
  PROVE  RowsInductive'
<1>0. Conns \subseteq Procs /\ Workers \subseteq Procs /\ c \notin Workers
  BY ProcsAssumption DEF Procs
<1>1. ASSUME NEW e \in Conns \ {c}
      PROVE  /\ Written(e)' = Written(e)
             /\ \A k : (Sees(e, k)' <=> Sees(e, k)) /\ Seen(e, k)' = Seen(e, k)
  BY SameWritten DEF Sees, Seen
<1>2. ASSUME NEW e \in Conns
      PROVE  WrittenOwn(e)' /\ BindingLocked(e)' /\ AppliedHolds(e)'
  <2>1. CASE e # c
    <3>1. WrittenOwn(e)' /\ BindingLocked(e)'
      BY <1>0, <1>1, <2>1 DEF RowsInductive, WrittenOwn, BindingLocked
    <3>2. AppliedHolds(e)'
      BY <1>1, <2>1 DEF RowsInductive, AppliedHolds
    <3>. QED
      BY <3>1, <3>2
  <2>. QED
    BY <2>1
<1>3. WrittenApart'
  BY <1>1 DEF RowsInductive, WrittenApart
<1>4. ASSUME NEW w \in Workers
      PROVE  /\ DueStill(w)' /\ MovedOwned(w)' /\ DroppedOwned(w)'
             /\ TaskLocked(w)' /\ RetiringOwns(w)'
  <2>1. holds'[w] = holds[w]
    BY <1>0
  <2>2. DueStill(w)' /\ MovedOwned(w)'
    BY <2>1 DEF RowsInductive, DueStill, MovedOwned, BindsTask
  <2>3. DroppedOwned(w)' /\ TaskLocked(w)'
    BY <2>1 DEF RowsInductive, DroppedOwned, TaskLocked, BindsTask, Doomed,
                Emptied, Destroying, Retiring, MembersOf
  <2>4. OwnedBy(w, Retiring(w))' = OwnedBy(w, Retiring(w))
    BY SameView DEF OwnedBy, Retiring, MembersOf
  <2>5. RetiringOwns(w)'
    BY <2>4 DEF RowsInductive, RetiringOwns, BindsTask, Emptied, Retiring
  <2>. QED
    BY <2>2, <2>3, <2>5
<1>5. SourceOwns' /\ GuardedComplete' /\ PlannedStillDue'
  BY DEF RowsInductive, SourceOwns, Owns, BindsTask, GuardedComplete, Holds,
         PlannedStillDue
<1>. QED
  BY <1>2, <1>3, <1>4, <1>5 DEF RowsInductive

\* The same for a step of one worker, which may scrub raw content.
LEMMA QuietIterationRows ==
  ASSUME Inductive, RowsInductive, NEW w \in Workers,
         UNCHANGED <<effects, anchors, fences, adm, now>>,
         DOMAIN accepted' = DOMAIN accepted,
         \A id \in DOMAIN accepted : accepted'[id].rec = accepted[id].rec,
         \A v \in Workers \ {w} : wk'[v] = wk[v],
         \A q \in Procs \ {w} : holds'[q] = holds[q],
         DueStill(w)', MovedOwned(w)', DroppedOwned(w)', TaskLocked(w)',
         RetiringOwns(w)',
         \A d \in wk'[w].batch :
           d \in fences \/ (d \in DOMAIN anchors
                              /\ anchors[d].at + DeliveryTTL <= wk'[w].at)
  PROVE  RowsInductive'
<1>0. Conns \subseteq Procs /\ Workers \subseteq Procs /\ w \notin Conns
  BY ProcsAssumption DEF Procs
<1>1. ASSUME NEW e \in Conns
      PROVE  /\ Written(e)' = Written(e)
             /\ \A k : (Sees(e, k)' <=> Sees(e, k)) /\ Seen(e, k)' = Seen(e, k)
  BY SameWritten DEF Sees, Seen
<1>2. ASSUME NEW e \in Conns
      PROVE  WrittenOwn(e)' /\ BindingLocked(e)' /\ AppliedHolds(e)'
  <2>1. WrittenOwn(e)' /\ BindingLocked(e)'
    BY <1>0, <1>1 DEF RowsInductive, WrittenOwn, BindingLocked
  <2>2. AppliedHolds(e)'
    BY <1>1 DEF RowsInductive, AppliedHolds
  <2>. QED
    BY <2>1, <2>2
<1>3. WrittenApart'
  BY <1>1 DEF RowsInductive, WrittenApart
<1>a. /\ \A id \in DOMAIN accepted : \A t : BindsTask(id, t)' <=> BindsTask(id, t)
      /\ \A d : MembersOf(d)' = MembersOf(d)
      /\ \A k \in DOMAIN effects : effects[k].src \in DOMAIN accepted
  BY DEF BindsTask, MembersOf, Inductive, SourcesAccepted
<1>4. ASSUME NEW v \in Workers \ {w}
      PROVE  /\ DueStill(v)' /\ MovedOwned(v)' /\ DroppedOwned(v)'
             /\ TaskLocked(v)' /\ RetiringOwns(v)'
  <2>1. holds'[v] = holds[v] /\ wk'[v] = wk[v]
    BY <1>0
  <2>0. /\ DueStill(v) /\ MovedOwned(v) /\ DroppedOwned(v) /\ TaskLocked(v)
        /\ RetiringOwns(v) /\ SourcesRemain(v)
    BY DEF RowsInductive, Inductive
  <2>2. DueStill(v)'
    BY <2>0, <2>1 DEF DueStill
  <2>3. MovedOwned(v)'
    BY <1>a, <2>0, <2>1 DEF MovedOwned, SourcesRemain
  <2>a. /\ Doomed(v)' = Doomed(v) /\ Retiring(v)' = Retiring(v)
        /\ MembersOf(Retiring(v))' = MembersOf(Retiring(v))
    BY <1>a, <2>1 DEF Doomed, Emptied, Retiring
  <2>b. DroppedOwned(v)'
    BY <1>a, <2>0, <2>1, <2>a DEF DroppedOwned
  <2>m. \A id \in MembersOf(Retiring(v)) : id \in DOMAIN accepted
    BY DEF MembersOf
  <2>c. TaskLocked(v)'
    BY <2>0, <2>1, <2>a, <2>m DEF TaskLocked, Destroying
  <2>4. OwnedBy(v, Retiring(v))' = OwnedBy(v, Retiring(v))
    BY <2>1, <2>a, SameView DEF OwnedBy
  <2>5. RetiringOwns(v)'
    BY <1>a, <2>0, <2>1, <2>4, <2>a DEF RetiringOwns, Emptied
  <2>. QED
    BY <2>2, <2>3, <2>b, <2>c, <2>5
<1>5. SourceOwns' /\ GuardedComplete'
  <2>0. SourceOwns /\ GuardedComplete
    BY DEF RowsInductive
  <2>1. SourceOwns'
    BY <1>a, <2>0 DEF SourceOwns, Owns
  <2>2. GuardedComplete'
    BY <2>0 DEF GuardedComplete, Holds
  <2>. QED
    BY <2>1, <2>2
<1>6. PlannedStillDue'
  BY DEF RowsInductive, PlannedStillDue
<1>. QED
  BY <1>2, <1>3, <1>4, <1>5, <1>6 DEF RowsInductive

-------------------------------------------------------------------------------
(* Admission *)

\* A connection with nothing written.
LEMMA FreshAdmission ==
  ASSUME Inductive, RowsInductive, NEW c \in Conns,
         UNCHANGED <<tables, wk, now>>,
         \A e \in Conns \ {c} : adm'[e] = adm[e],
         \A q \in Procs \ {c} : holds'[q] = holds[q],
         adm'[c].wrote = {}, adm'[c].idx = 1,
         adm'[c].pc \in {"idle", "done", "delivery_lock", "claim"},
         adm'[c].pc = "claim" => ~IsBinding(adm'[c].rec)
  PROVE  RowsInductive'
<1>1. Written(c)' = {}
  BY DEF Written
<1>2. WrittenOwn(c)' /\ BindingLocked(c)' /\ AppliedHolds(c)'
  BY <1>1 DEF WrittenOwn, BindingLocked, AppliedHolds
<1>. QED
  BY <1>1, <1>2, QuietAdmissionRows

\* An admission that ends without a trace.
LEMMA FinishRows ==
  ASSUME Inductive, RowsInductive, NEW c \in Conns, NEW res, Finish(c, res),
         UNCHANGED <<wk, now>>
  PROVE  RowsInductive'
<1>1. /\ adm'[c].pc = "done" /\ adm'[c].wrote = {} /\ adm'[c].idx = 1
      /\ \A e \in Conns \ {c} : adm'[e] = adm[e]
  BY DEF Finish, Idle, Inductive, TypeOK, ProcessesOK
<1>2. \A q \in Procs \ {c} : holds'[q] = holds[q]
  BY LockSteps DEF Finish, Procs
<1>. QED
  BY <1>1, <1>2, FreshAdmission DEF Finish

\* An admission that takes a statement and writes nothing: what it has applied
\* still holds, and so must the effect it goes past, if it goes past one.
LEMMA UnwrittenStep ==
  ASSUME Inductive, RowsInductive, NEW c \in Conns,
         UNCHANGED <<tables, wk, now>>,
         \A e \in Conns \ {c} : adm'[e] = adm[e],
         \A q \in Procs \ {c} : holds'[q] = holds[q],
         holds[c] \subseteq holds'[c],
         adm'[c].rec = adm[c].rec, adm'[c].wrote = adm[c].wrote,
         BindingLocked(c)',
         \/ /\ adm'[c].idx = adm[c].idx
            /\ adm[c].pc \in {"apply", "compare"} =>
                 adm'[c].pc \in {"apply", "compare"}
         \/ /\ adm'[c].idx = adm[c].idx + 1
            /\ {adm[c].pc, adm'[c].pc} \subseteq {"apply", "compare"}
            /\ Sees(c, CurrentKey(c))
            /\ Agrees(Current(c), Seen(c, CurrentKey(c)))
  PROVE  RowsInductive'
<1>0. WrittenOwn(c) /\ AppliedHolds(c) /\ adm[c].idx \in Nat
  BY DEF RowsInductive, Inductive, TypeOK, ProcessesOK, AdmissionOK,
         AdmissionType
<1>1. /\ Written(c)' = Written(c)
      /\ \A k : PayloadWritten(c, k)' = PayloadWritten(c, k)
  BY SameWritten
<1>2. \A k : (Sees(c, k)' <=> Sees(c, k)) /\ Seen(c, k)' = Seen(c, k)
  BY <1>1 DEF Sees, Seen
<1>3. WrittenOwn(c)'
  BY <1>0, <1>1 DEF WrittenOwn
<1>4. AppliedHolds(c)'
  <2>. SUFFICES ASSUME adm'[c].pc \in {"apply", "compare"},
                       NEW i \in DOMAIN Project(adm[c].rec), i < adm'[c].idx,
                       Guarded(EffectKey(Project(adm[c].rec)[i]))
                PROVE  LET e == Project(adm[c].rec)[i]
                           k == EffectKey(e)
                       IN  Sees(c, k) /\ Agrees(e, Seen(c, k))
    BY <1>2, Zenon DEF AppliedHolds
  <2>0. i \in Nat /\ i >= 1
    <3>1. adm[c].rec \in Records
      BY DEF Inductive, TypeOK, ProcessesOK, AdmissionOK, AdmissionType
    <3>. QED
      BY <3>1, EffectsNumbered
  <2>1. CASE i < adm[c].idx
    <3>1. adm[c].pc \in {"apply", "compare"}
      BY <1>0, <2>0, <2>1 DEF WrittenOwn
    <3>. QED
      BY <1>0, <2>1, <3>1 DEF AppliedHolds
  <2>2. CASE ~(i < adm[c].idx)
    <3>1. i = adm[c].idx /\ Sees(c, CurrentKey(c))
            /\ Agrees(Current(c), Seen(c, CurrentKey(c)))
      BY <1>0, <2>0, <2>2
    <3>. QED
      BY <3>1 DEF Current, CurrentKey
  <2>. QED
    BY <2>1, <2>2
<1>. QED
  BY <1>1, <1>3, <1>4, QuietAdmissionRows DEF RowsInductive, WrittenApart

\* INSERT INTO projection_effects of a row that nobody has.
LEMMA WriteStep ==
  ASSUME Inductive, RowsInductive, NEW c \in Conns, FirstWrite(c),
         ~Sees(c, CurrentKey(c))
  PROVE  RowsInductive'
<1>r. PICK r \in Records, n \in Nat : r = adm[c].rec /\ n = adm[c].idx
  BY DEF Inductive, TypeOK, ProcessesOK, AdmissionOK, AdmissionType
<1>. DEFINE key(i) == EffectKey(Project(r)[i])
<1>0. /\ WrittenOwn(c) /\ AppliedHolds(c) /\ BindingLocked(c)
      /\ adm = [e \in Conns |-> adm[e]]
      /\ adm[c] \in AdmissionType /\ c \in Procs
  BY DEF RowsInductive, Inductive, TypeOK, ProcessesOK, AdmissionOK,
         AdmissionType, Procs
<1>1. /\ adm[c].pc = "apply" /\ n \in DOMAIN Project(r)
      /\ Project(r)[n].op = "first_write"
      /\ key(n) = CurrentKey(c)
      /\ UNCHANGED <<tables, wk, now, holds>>
      /\ WritersOfEffect(key(n)) \subseteq {c}
  BY <1>r DEF FirstWrite, Applying, Current, CurrentKey, Step, AdmUnchanged,
              Blockers
<1>2. /\ adm'[c].rec = r /\ adm'[c].idx = n + 1 /\ adm'[c].pc = "apply"
      /\ adm'[c].wrote = adm[c].wrote \cup {n}
      /\ \A e \in Conns \ {c} : adm'[e] = adm[e]
  <2>1. adm' = [adm EXCEPT ![c] = [adm[c] EXCEPT !.idx = @ + 1,
                                                 !.wrote = @ \cup {adm[c].idx}]]
    BY DEF FirstWrite, Step
  <2>. QED
    BY <1>r, <1>0, <1>1, <2>1 DEF AdmissionType
<1>3. key(n) \notin Written(c) /\ key(n) \notin DOMAIN effects
  BY <1>1 DEF Sees
<1>. HIDE DEF key
<1>4. /\ \A i \in adm[c].wrote : key(i) \in Written(c) /\ key(i) # key(n)
      /\ Written(c)' = Written(c) \cup {key(n)}
      /\ \A i, j \in adm[c].wrote : key(i) = key(j) => i = j
  BY <1>r, <1>0, <1>2, <1>3 DEF Written, WrittenOwn, key
<1>5. ASSUME NEW i \in adm'[c].wrote
      PROVE  PayloadWritten(c, key(i))' = Project(r)[i].payload
  <2>1. \A m, j \in adm'[c].wrote : key(m) = key(j) => m = j
    BY <1>2, <1>4
  <2>2. PayloadIn(r, adm'[c].wrote, key(i)) = Project(r)[i].payload
    BY <2>1, PayloadIs DEF key
  <2>. QED
    BY <1>2, <2>2, WrittenIs
<1>6. ASSUME NEW i \in adm[c].wrote
      PROVE  PayloadWritten(c, key(i)) = Project(r)[i].payload
  <2>1. PayloadIn(r, adm[c].wrote, key(i)) = Project(r)[i].payload
    BY <1>4, PayloadIs DEF key
  <2>. QED
    BY <1>r, <2>1, WrittenIs
<1>7. ASSUME NEW k, Sees(c, k)
      PROVE  Sees(c, k)' /\ Seen(c, k)' = Seen(c, k)
  <2>1. Sees(c, k)'
    BY <1>1, <1>4, <1>7 DEF Sees
  <2>2. CASE k \in Written(c)
    <3>1. PICK i \in adm[c].wrote : k = key(i)
      BY <1>r, <2>2 DEF Written, key
    <3>2. PayloadWritten(c, k)' = PayloadWritten(c, k)
      BY <1>2, <1>5, <1>6, <3>1
    <3>. QED
      BY <1>4, <2>1, <2>2, <3>2 DEF Seen
  <2>3. CASE k \notin Written(c)
    <3>1. k \notin Written(c)'
      BY <1>3, <1>4, <1>7, <2>3 DEF Sees
    <3>. QED
      BY <1>1, <2>1, <2>3, <3>1 DEF Seen
  <2>. QED
    BY <2>2, <2>3
<1>8. Sees(c, key(n))' /\ Seen(c, key(n))' = Project(r)[n].payload
  BY <1>2, <1>4, <1>5 DEF Sees, Seen
<1>9. WrittenOwn(c)'
  <2>1. adm'[c].idx >= 1
    BY <1>2
  <2>2. \A i \in adm'[c].wrote : Project(r)[i].op = "first_write"
    BY <1>r, <1>0, <1>1, <1>2 DEF WrittenOwn
  <2>3. \A i, j \in adm'[c].wrote : key(i) = key(j) => i = j
    BY <1>2, <1>4
  <2>4. Written(c)' \cap DOMAIN effects' = {}
    BY <1>0, <1>1, <1>3, <1>4 DEF WrittenOwn
  <2>. QED
    BY <1>2, <2>1, <2>2, <2>3, <2>4 DEF WrittenOwn, key
<1>10. AppliedHolds(c)'
  <2>. SUFFICES ASSUME NEW i \in DOMAIN Project(r), i < n + 1, Guarded(key(i))
                PROVE  Sees(c, key(i))' /\ Agrees(Project(r)[i], Seen(c, key(i)))'
    BY <1>2 DEF AppliedHolds, key
  <2>1. i \in Nat
    BY EffectsNumbered
  <2>2. CASE i < n
    <3>1. Sees(c, key(i)) /\ Agrees(Project(r)[i], Seen(c, key(i)))
      BY <1>r, <1>0, <1>1, <2>2 DEF AppliedHolds, key
    <3>. QED
      BY <1>7, <3>1
  <2>3. CASE i = n
    BY <1>1, <1>8, <2>3 DEF Agrees
  <2>. QED
    BY <2>1, <2>2, <2>3
<1>11. BindingLocked(c)'
  BY <1>r, <1>0, <1>1, <1>2 DEF BindingLocked
<1>12. ASSUME NEW e \in Conns \ {c}
       PROVE  Written(c)' \cap Written(e) = {}
  BY <1>1, <1>4 DEF WritersOfEffect, RowsInductive, WrittenApart
<1>. QED
  BY <1>1, <1>2, <1>9, <1>10, <1>11, <1>12, QuietAdmissionRows

\* The statements of an admission that commit nothing.
LEMMA QuietAdmissionStepRows ==
  ASSUME Inductive, RowsInductive, NEW c \in Conns,
         \/ LockDelivery(c) \/ CheckFence(c) \/ LockTask(c) \/ Claim(c)
         \/ CompareIdentity(c) \/ RequireEffect(c) \/ FirstWrite(c)
         \/ CompareEffect(c) \/ Respond(c)
  PROVE  RowsInductive'
<1>. USE DEF AdmUnchanged, Step
<1>0. /\ c \in Procs /\ BindingLocked(c) /\ FencePassed(c)
      /\ adm = [e \in Conns |-> adm[e]]
      /\ adm[c] \in AdmissionType
  BY DEF Procs, Inductive, TypeOK, ProcessesOK, AdmissionOK, RowsInductive
<1>a. /\ \A lock : Acquire(c, lock) =>
           /\ \A q \in Procs \ {c} : holds'[q] = holds[q]
           /\ holds'[c] = holds[c] \cup {lock}
      /\ UNCHANGED holds => \A q \in Procs \ {c} : holds'[q] = holds[q]
  BY <1>0, LockSteps
<1>1. CASE LockDelivery(c)
  <2>1. /\ adm'[c].pc = "fence" /\ adm'[c].rec = adm[c].rec
        /\ adm'[c].wrote = adm[c].wrote /\ adm'[c].idx = adm[c].idx
        /\ \A e \in Conns \ {c} : adm'[e] = adm[e]
    BY <1>0, <1>1 DEF LockDelivery, AdmissionType
  <2>2. BindingLocked(c)'
    BY <2>1 DEF BindingLocked
  <2>3. /\ \A q \in Procs \ {c} : holds'[q] = holds[q]
        /\ holds[c] \subseteq holds'[c]
    BY <1>1, <1>a DEF LockDelivery
  <2>. QED
    BY <1>1, <2>1, <2>2, <2>3, UnwrittenStep DEF LockDelivery
<1>2. CASE CheckFence(c)
  <2>1. CASE DeliveryOf(adm[c].rec) \in fences
    BY <1>2, <2>1, FinishRows DEF CheckFence
  <2>2. CASE DeliveryOf(adm[c].rec) \notin fences
    <3>1. /\ adm'[c].pc = "task_lock"
               \/ (adm'[c].pc = "claim" /\ ~IsBinding(adm[c].rec))
          /\ adm'[c].rec = adm[c].rec
          /\ adm'[c].wrote = adm[c].wrote /\ adm'[c].idx = adm[c].idx
          /\ \A e \in Conns \ {c} : adm'[e] = adm[e]
          /\ UNCHANGED <<tables, holds>>
      BY <1>0, <1>2, <2>2 DEF CheckFence, AdmissionType
    <3>2. BindingLocked(c)'
      BY <3>1 DEF BindingLocked
    <3>. QED
      BY <1>2, <1>a, <3>1, <3>2, UnwrittenStep DEF CheckFence
  <2>. QED
    BY <2>1, <2>2
<1>3. CASE LockTask(c)
  <2>1. /\ adm'[c].pc = "claim" /\ adm'[c].rec = adm[c].rec
        /\ adm'[c].wrote = adm[c].wrote /\ adm'[c].idx = adm[c].idx
        /\ \A e \in Conns \ {c} : adm'[e] = adm[e]
    BY <1>0, <1>3 DEF LockTask, AdmissionType
  <2>2. /\ \A q \in Procs \ {c} : holds'[q] = holds[q]
        /\ holds'[c] = holds[c] \cup {TaskLock(adm[c].rec.attrs.task_id)}
    BY <1>3, <1>a DEF LockTask
  <2>3. BindingLocked(c)'
    BY <2>1, <2>2 DEF BindingLocked
  <2>. QED
    BY <1>3, <2>1, <2>2, <2>3, UnwrittenStep DEF LockTask
<1>4. CASE Claim(c)
  <2>. DEFINE r == adm[c].rec
  <2>1. CASE \/ adm' = [adm EXCEPT ![c] = [adm[c] EXCEPT !.pc = "compare_identity"]]
             \/ adm' = [adm EXCEPT ![c] = [adm[c] EXCEPT !.pc = "apply",
                                                         !.claimed = TRUE]]
    <3>1. /\ adm'[c].pc \in {"compare_identity", "apply"}
          /\ adm'[c].rec = adm[c].rec
          /\ adm'[c].wrote = adm[c].wrote /\ adm'[c].idx = adm[c].idx
          /\ \A e \in Conns \ {c} : adm'[e] = adm[e]
      BY <1>0, <2>1 DEF AdmissionType
    <3>2. UNCHANGED <<tables, holds>>
      <4>1. \/ UNCHANGED <<tables, holds>>
            \/ Finish(c, "conflict")
        BY <1>4 DEF Claim
      <4>2. ~Finish(c, "conflict")
        BY <1>0, <3>1 DEF Finish, Idle
      <4>. QED
        BY <4>1, <4>2
    <3>3. BindingLocked(c)'
      BY <1>0, <1>4, <3>1, <3>2 DEF BindingLocked, Claim
    <3>. QED
      BY <1>4, <1>a, <3>1, <3>2, <3>3, UnwrittenStep DEF Claim
  <2>2. CASE Finish(c, "conflict")
    BY <1>4, <2>2, FinishRows DEF Claim
  <2>. QED
    BY <1>4, <2>1, <2>2 DEF Claim
<1>5. CASE CompareIdentity(c)
  BY <1>5, FinishRows DEF CompareIdentity
<1>6. CASE RequireEffect(c)
  <2>1. CASE /\ UNCHANGED <<holds, tables>>
             /\ adm' = [adm EXCEPT ![c] = [adm[c] EXCEPT !.idx = @ + 1]]
             /\ Sees(c, CurrentKey(c))
             /\ \A name \in DOMAIN Current(c).payload :
                  Get(Seen(c, CurrentKey(c)), name) = Current(c).payload[name]
    <3>1. /\ adm'[c].pc = "apply" /\ adm[c].pc = "apply"
          /\ adm'[c].rec = adm[c].rec
          /\ adm'[c].wrote = adm[c].wrote /\ adm'[c].idx = adm[c].idx + 1
          /\ \A e \in Conns \ {c} : adm'[e] = adm[e]
      BY <1>0, <1>6, <2>1 DEF AdmissionType, RequireEffect, Applying
    <3>2. Agrees(Current(c), Seen(c, CurrentKey(c)))
      BY <1>6, <2>1 DEF RequireEffect, Agrees
    <3>3. BindingLocked(c)'
      BY <1>0, <2>1, <3>1 DEF BindingLocked
    <3>. QED
      BY <1>6, <1>a, <2>1, <3>1, <3>2, <3>3, UnwrittenStep DEF RequireEffect
  <2>2. CASE Finish(c, "rejected")
    BY <1>6, <2>2, FinishRows DEF RequireEffect
  <2>. QED
    BY <1>6, <2>1, <2>2 DEF RequireEffect
<1>7. CASE FirstWrite(c)
  <2>1. CASE Sees(c, CurrentKey(c))
    <3>1. /\ adm'[c].pc = "compare" /\ adm[c].pc = "apply"
          /\ adm'[c].rec = adm[c].rec
          /\ adm'[c].wrote = adm[c].wrote /\ adm'[c].idx = adm[c].idx
          /\ \A e \in Conns \ {c} : adm'[e] = adm[e]
      BY <1>0, <1>7, <2>1 DEF AdmissionType, FirstWrite, Applying
    <3>2. BindingLocked(c)'
      BY <1>0, <1>7, <3>1 DEF BindingLocked, FirstWrite
    <3>. QED
      BY <1>7, <1>a, <3>1, <3>2, UnwrittenStep DEF FirstWrite
  <2>2. CASE ~Sees(c, CurrentKey(c))
    BY <1>7, <2>2, WriteStep
  <2>. QED
    BY <2>1, <2>2
<1>8. CASE CompareEffect(c)
  <2>1. CASE /\ UNCHANGED <<holds, tables>>
             /\ adm' = [adm EXCEPT ![c] =
                          [adm[c] EXCEPT !.pc = "apply", !.idx = @ + 1,
                                         !.locked = @ \cup {CurrentKey(c)}]]
             /\ Sees(c, CurrentKey(c))
             /\ Seen(c, CurrentKey(c)) = Current(c).payload
    <3>1. /\ adm'[c].pc = "apply" /\ adm[c].pc = "compare"
          /\ adm'[c].rec = adm[c].rec
          /\ adm'[c].wrote = adm[c].wrote /\ adm'[c].idx = adm[c].idx + 1
          /\ \A e \in Conns \ {c} : adm'[e] = adm[e]
      BY <1>0, <1>8, <2>1 DEF AdmissionType, CompareEffect
    <3>2. Agrees(Current(c), Seen(c, CurrentKey(c)))
      BY <2>1 DEF Agrees, Get
    <3>3. BindingLocked(c)'
      BY <1>0, <2>1, <3>1 DEF BindingLocked
    <3>. QED
      BY <1>8, <1>a, <2>1, <3>1, <3>2, <3>3, UnwrittenStep DEF CompareEffect
  <2>2. CASE Finish(c, "error") \/ Finish(c, "conflict")
    BY <1>8, <2>2, FinishRows DEF CompareEffect
  <2>. QED
    BY <1>8, <2>1, <2>2 DEF CompareEffect
<1>9. CASE Respond(c)
  <2>1. /\ adm'[c].pc = "idle" /\ adm'[c].wrote = {} /\ adm'[c].idx = 1
        /\ \A e \in Conns \ {c} : adm'[e] = adm[e]
    BY <1>0, <1>9 DEF Respond, Idle
  <2>. QED
    BY <1>9, <1>a, <2>1, FreshAdmission DEF Respond
<1>. QED
  BY <1>1, <1>2, <1>3, <1>4, <1>5, <1>6, <1>7, <1>8, <1>9


\* As an iteration sees it, every row has the payload it has in the table and a
\* source that owns it.
LEMMA ViewOwns ==
  ASSUME Inductive, RowsInductive, NEW w \in Workers, NEW k \in DOMAIN View(w)
  PROVE  Owns(View(w)[k].src, k) /\ View(w)[k].payload = effects[k].payload
<1>0. MovedOwned(w) /\ SourceOwns
  BY DEF RowsInductive
<1>1. View(w)[k].payload = effects[k].payload
  BY DEF View
<1>2. CASE k \in MovedKeys(w)
  <2>1. PICK m \in wk[w].moved : m[1] = k
    BY <1>2 DEF MovedKeys
  <2>2. View(w)[k].src = m[2]
    BY <2>1, ViewSource
  <2>. QED
    BY <1>0, <1>1, <2>1, <2>2 DEF MovedOwned, Owns
<1>3. CASE k \notin MovedKeys(w)
  BY <1>0, <1>1, <1>3, ViewSource DEF SourceOwns
<1>. QED
  BY <1>2, <1>3

\* A Task row of the Delivery being deleted is one whose Task is locked.
LEMMA OwnedTaskLocked ==
  ASSUME Inductive, RowsInductive, NEW w \in Workers, Destroying(w),
         wk[w].pc # "task_lock",
         NEW k \in OwnedBy(w, Retiring(w)), k[1] \in TaskKinds
  PROVE  TaskLock(k[2]) \in holds[w]
<1>1. k \in DOMAIN View(w) /\ View(w)[k].src \in MembersOf(Retiring(w))
  BY DEF OwnedBy
<1>2. BindsTask(View(w)[k].src, k[2])
  BY <1>1, ViewOwns DEF Owns
<1>3. TaskLocked(w)
  BY DEF RowsInductive
<1>. QED
  BY <1>1, <1>2, <1>3 DEF TaskLocked, BindsTask

\* What COMMIT of an admission adds to projection_effects: the rows it wrote.
LEMMA CommitRows ==
  ASSUME Inductive, RowsInductive, NEW c \in Conns, CommitAdmission(c)
  PROVE  /\ DOMAIN effects' = DOMAIN effects \cup Written(c)
         /\ \A k \in DOMAIN effects : effects'[k] = effects[k]
         /\ \A k \in Written(c) :
              /\ k \notin DOMAIN effects
              /\ effects'[k].payload = PayloadWritten(c, k)
              /\ effects'[k].src = adm[c].rec.id
<1>. DEFINE rows == [k \in Written(c) |-> [payload |-> PayloadWritten(c, k),
                                           src |-> adm[c].rec.id]]
<1>1. effects' = With(effects, rows)
  BY DEF CommitAdmission
<1>2. /\ DOMAIN rows = Written(c)
      /\ \A k \in Written(c) : /\ rows[k].payload = PayloadWritten(c, k)
                               /\ rows[k].src = adm[c].rec.id
  OBVIOUS
<1>3. Written(c) \cap DOMAIN effects = {}
  BY DEF RowsInductive, WrittenOwn
<1>. HIDE DEF rows
<1>. QED
  BY <1>1, <1>2, <1>3 DEF With


\* COMMIT of an admission: nobody loses a row, and the locks it held keep its
\* record out of the Deliveries and Tasks that iterations are deleting.
LEMMA CommitAdmissionRows ==
  ASSUME Inductive, RowsInductive, NEW c \in Conns, CommitAdmission(c)
  PROVE  RowsInductive'
<1>r. PICK r \in Records : r = adm[c].rec
  BY DEF Inductive, TypeOK, ProcessesOK, AdmissionOK, AdmissionType
<1>. DEFINE d == DeliveryOf(r)
<1>a. CommitAdds(c, r, d)
  BY <1>r, CommitAddsRecord
<1>b. /\ DOMAIN effects' = DOMAIN effects \cup Written(c)
      /\ \A k \in DOMAIN effects : effects'[k] = effects[k]
      /\ \A k \in Written(c) :
           /\ k \notin DOMAIN effects
           /\ effects'[k].payload = PayloadWritten(c, k)
           /\ effects'[k].src = r.id
  BY <1>r, CommitRows
<1>0. /\ Conns \subseteq Procs /\ Workers \subseteq Procs
      /\ c \notin Workers /\ c \in Procs
      /\ UNCHANGED <<wk, fences, now>>
      /\ WrittenOwn(c) /\ AppliedHolds(c) /\ BindingLocked(c)
  BY ProcsAssumption DEF Procs, CommitAdmission, AdmUnchanged, RowsInductive
<1>1. /\ adm'[c].pc = "done" /\ adm'[c].wrote = {} /\ adm'[c].idx = 1
      /\ \A e \in Conns \ {c} : adm'[e] = adm[e]
  BY DEF CommitAdmission, Idle, Inductive, TypeOK, ProcessesOK
<1>2. \A q \in Procs \ {c} : holds'[q] = holds[q]
  BY <1>0, LockSteps DEF CommitAdmission
<1>3. /\ adm[c].pc = "apply" /\ adm[c].idx \notin DOMAIN Project(r)
      /\ adm[c].idx \in Nat
  BY <1>r DEF CommitAdmission, Inductive, TypeOK, ProcessesOK, AdmissionOK,
              AdmissionType
<1>4. /\ \A id \in DOMAIN accepted :
           id \in DOMAIN accepted' /\ accepted'[id] = accepted[id]
      /\ \A id \in DOMAIN accepted' : id \in DOMAIN accepted \/ id = r.id
      /\ accepted'[r.id].rec = r
  BY <1>a DEF CommitAdds
<1>5. \A k \in DOMAIN effects : effects[k].src \in DOMAIN accepted
  BY DEF Inductive, SourcesAccepted
\* Whoever else holds the lock of a Task knows that r does not bind to it.
<1>6. ASSUME NEW q \in Procs \ {c}, NEW t, TaskLock(t) \in holds[q]
      PROVE  ~(IsBinding(r) /\ r.attrs.task_id = t)
  BY <1>r, <1>0, <1>3, <1>6 DEF BindingLocked, Inductive, LockExclusion
<1>7. ASSUME NEW e \in Conns
      PROVE  WrittenOwn(e)' /\ BindingLocked(e)' /\ AppliedHolds(e)'
  <2>1. CASE e = c
    BY <1>1, <2>1 DEF WrittenOwn, BindingLocked, AppliedHolds, Written
  <2>2. CASE e # c
    <3>0. WrittenOwn(e) /\ BindingLocked(e) /\ AppliedHolds(e)
      BY DEF RowsInductive
    <3>1. /\ Written(e)' = Written(e)
          /\ \A k : PayloadWritten(e, k)' = PayloadWritten(e, k)
      BY <1>1, <2>2, SameWritten
    <3>2. Written(c) \cap Written(e) = {}
      BY <2>2 DEF RowsInductive, WrittenApart
    <3>3. WrittenOwn(e)'
      BY <1>b, <1>1, <2>2, <3>0, <3>1, <3>2 DEF WrittenOwn
    <3>4. BindingLocked(e)'
      BY <1>0, <1>1, <1>2, <2>2, <3>0 DEF BindingLocked
    <3>5. \A k : Sees(e, k) => Sees(e, k)' /\ Seen(e, k)' = Seen(e, k)
      BY <1>b, <3>1 DEF Sees, Seen
    <3>6. AppliedHolds(e)'
      BY <1>1, <2>2, <3>0, <3>5 DEF AppliedHolds
    <3>. QED
      BY <3>3, <3>4, <3>6
  <2>. QED
    BY <2>1, <2>2
<1>8. WrittenApart'
  <2>1. \A e \in Conns : Written(e)' \subseteq Written(e)
    BY <1>1, SameWritten DEF Written
  <2>. QED
    BY <2>1 DEF RowsInductive, WrittenApart
<1>9. ASSUME NEW w \in Workers
      PROVE  /\ DueStill(w)' /\ MovedOwned(w)' /\ DroppedOwned(w)'
             /\ TaskLocked(w)' /\ RetiringOwns(w)'
  <2>0. /\ DueStill(w) /\ MovedOwned(w) /\ DroppedOwned(w)
        /\ TaskLocked(w) /\ RetiringOwns(w)
        /\ RetiringLocked(w) /\ SourcesRemain(w)
        /\ wk'[w] = wk[w] /\ holds'[w] = holds[w] /\ w \in Procs \ {c}
    BY <1>0, <1>2 DEF RowsInductive, Inductive
  <2>1. DueStill(w)'
    <3>1. \A f \in wk[w].fenced : anchors'[f] = anchors[f]
      BY <1>a, <2>0 DEF CommitAdds, RetiringLocked
    <3>. QED
      BY <1>0, <2>0, <3>1 DEF DueStill
  <2>2. MovedOwned(w)'
    BY <1>4, <2>0 DEF MovedOwned, BindsTask, SourcesRemain
  <2>3. /\ Doomed(w)' = Doomed(w) /\ Retiring(w)' = Retiring(w)
        /\ (Destroying(w)' <=> Destroying(w)) /\ (Emptied(w)' <=> Emptied(w))
    BY <2>0 DEF Doomed, Emptied, Retiring, Destroying
  <2>4. DroppedOwned(w)'
    <3>. SUFFICES ASSUME NEW k \in wk[w].dropped
                  PROVE  /\ k \in DOMAIN effects'
                         /\ k[1] \notin TaskKinds =>
                              DeliveryOf(accepted'[effects'[k].src].rec)
                                \in Doomed(w)
                         /\ k[1] \in TaskKinds =>
                              /\ TaskLock(k[2]) \in holds[w]
                              /\ \A id \in DOMAIN accepted' :
                                   BindsTask(id, k[2])' =>
                                     DeliveryOf(accepted'[id].rec) \in Doomed(w)
      BY <2>0, <2>3 DEF DroppedOwned
    <3>1. k \in DOMAIN effects /\ effects'[k] = effects[k]
      BY <1>b, <2>0 DEF DroppedOwned
    <3>2. k[1] \notin TaskKinds =>
            DeliveryOf(accepted'[effects'[k].src].rec) \in Doomed(w)
      BY <1>4, <1>5, <2>0, <3>1 DEF DroppedOwned
    <3>3. ASSUME k[1] \in TaskKinds
          PROVE  /\ TaskLock(k[2]) \in holds[w]
                 /\ \A id \in DOMAIN accepted' :
                      BindsTask(id, k[2])' =>
                        DeliveryOf(accepted'[id].rec) \in Doomed(w)
      <4>1. /\ TaskLock(k[2]) \in holds[w]
            /\ \A id \in DOMAIN accepted :
                 BindsTask(id, k[2]) => DeliveryOf(accepted[id].rec) \in Doomed(w)
        BY <2>0, <3>3 DEF DroppedOwned
      <4>2. ~(IsBinding(r) /\ r.attrs.task_id = k[2])
        BY <1>6, <2>0, <4>1
      <4>. QED
        BY <1>4, <4>1, <4>2 DEF BindsTask
    <3>. QED
      BY <1>b, <3>1, <3>2, <3>3
  <2>5. Destroying(w) => MembersOf(Retiring(w))' = MembersOf(Retiring(w))
    <3>1. Destroying(w) => d # Retiring(w)
      <4>1. Destroying(w) => /\ Retiring(w) \in Deliveries
                             /\ DeliveryLock(Retiring(w)) \in holds[w]
        BY <2>0 DEF RetiringLocked, Inductive, TypeOK, TablesOK, TableType
      <4>. QED
        BY <1>a, <1>0, <2>0, <4>1 DEF CommitAdds, Inductive, LockExclusion
    <3>. QED
      BY <1>a, <2>3, <3>1 DEF CommitAdds, MembersOf
  <2>6. TaskLocked(w)'
    <3>1. Destroying(w) =>
            \A id \in MembersOf(Retiring(w)) : accepted'[id] = accepted[id]
      BY <1>4 DEF MembersOf
    <3>. QED
      BY <2>0, <2>3, <2>5, <3>1 DEF TaskLocked
  <2>7. /\ DOMAIN View(w) = DOMAIN effects \ wk[w].dropped
        /\ DOMAIN View(w)' = DOMAIN effects' \ wk[w].dropped
        /\ \A k \in DOMAIN View(w) :
             k \in DOMAIN View(w)' /\ View(w)'[k].src = View(w)[k].src
        /\ \A k \in Written(c) \ wk[w].dropped :
             k \in DOMAIN View(w)' /\ View(w)'[k].src = r.id
    <3>. DEFINE Source(tbl, k) ==
                  IF k \in MovedKeys(w)
                  THEN (CHOOSE m \in wk[w].moved : m[1] = k)[2]
                  ELSE tbl[k].src
    <3>1. /\ DOMAIN View(w) = DOMAIN effects \ wk[w].dropped
          /\ \A k \in DOMAIN View(w) : View(w)[k].src = Source(effects, k)
      BY DEF View
    <3>2. /\ DOMAIN View(w)' = DOMAIN effects' \ wk[w].dropped
          /\ \A k \in DOMAIN View(w)' : View(w)'[k].src = Source(effects', k)
      BY <2>0 DEF View, MovedKeys
    <3>3. \A k \in MovedKeys(w) : k \in DOMAIN effects
      BY <2>0 DEF SourcesRemain, MovedKeys
    <3>. QED
      BY <1>b, <3>1, <3>2, <3>3
  <2>8. Destroying(w) =>
          OwnedBy(w, Retiring(w))' = OwnedBy(w, Retiring(w))
    <3>. SUFFICES ASSUME Destroying(w)
                  PROVE  OwnedBy(w, Retiring(w))' = OwnedBy(w, Retiring(w))
      OBVIOUS
    <3>1. r.id \notin MembersOf(Retiring(w))
      BY <1>a DEF CommitAdds, MembersOf
    <3>2. \A k \in DOMAIN View(w)' :
            View(w)'[k].src \in MembersOf(Retiring(w)) => k \in DOMAIN View(w)
      BY <1>b, <2>7, <3>1
    <3>3. OwnedBy(w, Retiring(w))' =
            {k \in DOMAIN View(w)' : View(w)'[k].src \in MembersOf(Retiring(w))}
      BY <2>5 DEF OwnedBy
    <3>. QED
      BY <2>7, <3>2, <3>3 DEF OwnedBy
  <2>9. RetiringOwns(w)'
    <3>1. (Emptied(w) => Destroying(w)) /\ (wk[w].pc = "delete_effects" => Destroying(w))
      BY DEF Emptied, Destroying, DestroyingPCs
    <3>2. ASSUME wk[w].pc = "delete_effects", NEW k \in OwnedBy(w, Retiring(w)),
                 NEW id \in DOMAIN accepted', k[1] \in TaskKinds,
                 BindsTask(id, k[2])'
          PROVE  DeliveryOf(accepted'[id].rec) \in wk[w].fenced \cup {Retiring(w)}
      <4>1. TaskLock(k[2]) \in holds[w]
        BY <3>1, <3>2, OwnedTaskLocked
      <4>2. ~(IsBinding(r) /\ r.attrs.task_id = k[2])
        BY <1>6, <2>0, <4>1
      <4>3. id \in DOMAIN accepted /\ BindsTask(id, k[2])
        BY <1>4, <3>2, <4>2 DEF BindsTask
      <4>. QED
        BY <1>4, <2>0, <3>2, <4>3 DEF RetiringOwns
    <3>. QED
      BY <2>0, <2>3, <2>8, <3>1, <3>2 DEF RetiringOwns
  <2>. QED
    BY <2>1, <2>2, <2>4, <2>6, <2>9
<1>10. SourceOwns'
  <2>. SUFFICES ASSUME NEW k \in DOMAIN effects'
                PROVE  Owns(effects[k].src, k)'
    BY DEF SourceOwns
  <2>1. CASE k \in DOMAIN effects
    <3>1. Owns(effects[k].src, k)
      BY <2>1 DEF RowsInductive, SourceOwns
    <3>. QED
      BY <1>b, <1>4, <1>5, <2>1, <3>1 DEF Owns, BindsTask
  <2>2. CASE k \in Written(c)
    <3>1. PICK i \in adm[c].wrote : k = EffectKey(Project(r)[i])
      BY <1>r, <2>2 DEF Written
    <3>2. i \in DOMAIN Project(r) /\ Project(r)[i].op = "first_write"
      BY <1>r, <1>0 DEF WrittenOwn, Inductive, TypeOK, ProcessesOK, AdmissionOK
    <3>3. Project(r)[i] \in EffectsOf(r)
      BY <3>2 DEF EffectsOf
    <3>4. Asserts(r, k)
      BY <3>1, <3>2, <3>3 DEF Asserts
    <3>5. k[1] \in TaskKinds => IsBinding(r) /\ k[2] = r.attrs.task_id
      BY <3>4, AssertsMentions, MentionsBinding
    <3>. QED
      BY <1>b, <1>4, <2>2, <3>4, <3>5 DEF Owns, BindsTask
  <2>. QED
    BY <1>b, <2>1, <2>2
<1>11. GuardedComplete'
  <2>. SUFFICES ASSUME NEW id \in DOMAIN accepted',
                       NEW e \in EffectsOf(accepted'[id].rec),
                       Guarded(EffectKey(e))
                PROVE  Holds(e)'
    BY DEF GuardedComplete
  <2>1. CASE id \in DOMAIN accepted
    <3>1. Holds(e)
      BY <1>4, <2>1 DEF RowsInductive, GuardedComplete
    <3>. QED
      BY <1>b, <3>1 DEF Holds
  <2>2. CASE id = r.id
    <3>1. PICK i \in DOMAIN Project(r) : e = Project(r)[i]
      BY <1>4, <2>2 DEF EffectsOf
    <3>2. i < adm[c].idx
      <4>1. adm[c].idx >= 1
        BY <1>0 DEF WrittenOwn
      <4>. QED
        BY <1>3, <4>1, EffectsNumbered
    <3>3. Sees(c, EffectKey(e)) /\ Agrees(e, Seen(c, EffectKey(e)))
      BY <1>r, <1>0, <1>3, <3>1, <3>2 DEF AppliedHolds
    <3>4. /\ EffectKey(e) \in DOMAIN effects'
          /\ effects'[EffectKey(e)].payload = Seen(c, EffectKey(e))
      BY <1>b, <3>3 DEF Sees, Seen
    <3>. QED
      BY <3>3, <3>4 DEF Holds, Agrees
  <2>. QED
    BY <1>4, <2>1, <2>2
<1>12. PlannedStillDue'
  BY <1>a, <1>0 DEF RowsInductive, PlannedStillDue, CommitAdds
<1>. QED
  BY <1>7, <1>8, <1>9, <1>10, <1>11, <1>12 DEF RowsInductive
===============================================================================
